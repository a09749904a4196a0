-------------------------------- MODULE Kernel --------------------------------
(***************************************************************************)
(* The benchmark threads of main.cc: thread_task and the kernel it         *)
(* dispatches to.  The four kernels are one control structure: they differ *)
(* in the step, in read or write, and in the verify test that only the     *)
(* random ones perform (see Address).  The data that is copied is left out *)
(* here; what a write does to the memory hierarchy is module PersistWrite. *)
(*                                                                         *)
(* A signal raised in one thread ends the process: "fault" records it and  *)
(* every action requires that there is none.                               *)
(***************************************************************************)
EXTENDS Address

CONSTANTS
  MAX_THREAD,    \* opts[32], res[32], thread_id[32] of the run functions
  Durations,     \* the elapsed times, in ns, a kernel's timer may report
  MAX_FINISHED,  \* bound of the model: operations before the clock runs out
  NS_PER_SEC,    \* 1000000000
  MB             \* 1024 * 1024

ASSUME KernelAssumption ==
  /\ MAX_THREAD \in Nat \ {0}
  /\ Durations \subseteq Nat
  /\ MAX_FINISHED \in Nat \ {0}
  /\ NS_PER_SEC \in Nat \ {0}
  /\ MB \in Nat \ {0}

VARIABLES
  opts,          \* struct thread_options opts[32]
  res,           \* struct test_result res[32]
  kpc,           \* where each thread is
  address,       \* the local "address" of each thread
  iter,          \* the local "i" of each thread
  finished,      \* the local "finished_count" of each thread
  time_is_over,  \* the global flag
  fault          \* the signal that killed the process, or "none"

kernelVars == <<opts, res, kpc, address, iter, finished, time_is_over, fault>>

Threads == 0 .. MAX_THREAD - 1

\* "none": no thread yet.  "failed": pthread_create did not create it.
\* "created": it did.  "loop": at the loop test.  "tally": block copied, before the counting and the flag test.
\* "stop": out of the loop by break.  "done": thread_task returned.
KernelPCs == {"none", "failed", "created", "loop", "tally", "stop", "done"}

Faults == {"none", "SIGFPE", "SIGSEGV", "SIGABRT"}

test_result == [time : Nat, latency : Nat, throughput : Nat, count : Nat]

Unset == [type |-> "unset"]    \* an element of opts not yet written
NoResult == [time |-> 0, latency |-> 0, throughput |-> 0, count |-> 0]

KernelTypeOK ==
  /\ opts \in [Threads -> thread_options \cup {Unset}]
  /\ res \in [Threads -> test_result]
  /\ kpc \in [Threads -> KernelPCs]
  /\ address \in [Threads -> Nat]
  /\ iter \in [Threads -> Nat]
  /\ finished \in [Threads -> Nat]
  /\ time_is_over \in BOOLEAN
  /\ fault \in Faults
  /\ \A t \in Threads : kpc[t] # "none" => opts[t] \in thread_options

KernelInit ==
  /\ opts = [t \in Threads |-> Unset]
  /\ res = [t \in Threads |-> NoResult]
  /\ kpc = [t \in Threads |-> "none"]
  /\ address = [t \in Threads |-> 0]
  /\ iter = [t \in Threads |-> 0]
  /\ finished = [t \in Threads |-> 0]
  /\ time_is_over = FALSE
  /\ fault = "none"

Alive == fault = "none"

\* The process dies with signal s; nothing else is worth recording.
Die(s) ==
  /\ fault' = s
  /\ UNCHANGED <<opts, res, kpc, address, iter, finished, time_is_over>>
-------------------------------------------------------------------------------
\* The bytes the next operation of t copies from or to, and whether t is
\* about to perform one.
Span(t) == address[t] .. address[t] + opts[t].block_size - 1

InLoop(t) == kpc[t] = "loop" /\ iter[t] < TotalCount(opts[t])

\* Mutated: result->count is assigned before total_count is capped.
EnterOkUncapped(t) ==
  LET o == opts[t] IN
  /\ o.block_size # 0 /\ o.align_size # 0
  /\ address' = [address EXCEPT ![t] = FirstAddress(o)]
  /\ iter' = [iter EXCEPT ![t] = 0]
  /\ finished' = [finished EXCEPT ![t] = 0]
  /\ res' = [res EXCEPT ![t].count =
               (IF IsWrite(o) THEN o.write_amount ELSE o.read_amount) \div o.block_size]
  /\ kpc' = [kpc EXCEPT ![t] = "loop"]
  /\ UNCHANGED <<opts, time_is_over, fault>>

\* The thread starts: the divisions by block_size and by align_size, the cap,
\* result->count, the first address.
EnterOk(t) ==
  LET o == opts[t] IN
  /\ o.block_size # 0 /\ o.align_size # 0
  /\ address' = [address EXCEPT ![t] = FirstAddress(o)]
  /\ iter' = [iter EXCEPT ![t] = 0]
  /\ finished' = [finished EXCEPT ![t] = 0]
  /\ res' = [res EXCEPT ![t].count = TotalCount(o)]
  /\ kpc' = [kpc EXCEPT ![t] = "loop"]
  /\ UNCHANGED <<opts, time_is_over, fault>>

Enter(t) ==
  /\ Alive /\ kpc[t] = "created"
  /\ \/ EnterOk(t)
     \/ /\ opts[t].block_size = 0 \/ opts[t].align_size = 0
        /\ Die("SIGFPE")

\* assert(address % align_size == 0) of the random kernels under --verify.
VerifyFails(o, a) == IsRandom(o) /\ o.verify /\ a % o.align_size # 0

\* One block is copied (and, by the write kernels, persisted), then the
\* address moves on.  Bytes outside the pool [lo, hi) may or may not be
\* mapped: the copy either faults or goes through.
Operate(t, lo, hi) ==
  LET o == opts[t]
      a == NextAddress(o, address[t])
  IN  /\ Alive /\ InLoop(t)
      /\ o.clock_used => (finished[t] < MAX_FINISHED \/ time_is_over)
      /\ \/ /\ ~ VerifyFails(o, a)
            /\ address' = [address EXCEPT ![t] = a]
            /\ kpc' = [kpc EXCEPT ![t] = "tally"]
            /\ UNCHANGED <<opts, res, iter, finished, time_is_over, fault>>
         \/ /\ VerifyFails(o, a)
            /\ Die("SIGABRT")
         \/ /\ ~ (Span(t) \subseteq lo .. hi - 1)
            /\ Die("SIGSEGV")

\* Mutated: the count is taken before it includes the last operation.
TallyLate(t) ==
  /\ Alive /\ kpc[t] = "tally"
  /\ finished' = [finished EXCEPT ![t] = @ + 1]
  /\ iter' = IF opts[t].clock_used THEN iter ELSE [iter EXCEPT ![t] = @ + 1]
  /\ LET stops == opts[t].clock_used /\ time_is_over
     IN  /\ res' = IF stops THEN [res EXCEPT ![t].count = finished[t]] ELSE res
         /\ kpc' = [kpc EXCEPT ![t] = IF stops THEN "stop" ELSE "loop"]
  /\ UNCHANGED <<opts, address, time_is_over, fault>>

\* Mutated: i advances in a clocked thread too.
TallyAlwaysAdvances(t) ==
  /\ Alive /\ kpc[t] = "tally"
  /\ finished' = [finished EXCEPT ![t] = @ + 1]
  /\ iter' = [iter EXCEPT ![t] = @ + 1]
  /\ LET stops == opts[t].clock_used /\ time_is_over
     IN  /\ res' = IF stops THEN [res EXCEPT ![t].count = finished[t] + 1] ELSE res
         /\ kpc' = [kpc EXCEPT ![t] = IF stops THEN "stop" ELSE "loop"]
  /\ UNCHANGED <<opts, address, time_is_over, fault>>

\* Mutated: neither the counters nor the flag are looked at, as after hoisting
\* the plain int out of the loop.
TallyForgets(t) ==
  /\ Alive /\ kpc[t] = "tally"
  /\ kpc' = [kpc EXCEPT ![t] = "loop"]
  /\ UNCHANGED <<opts, res, address, iter, finished, time_is_over, fault>>

\* The end of the loop body.  A clocked thread never advances i: it leaves by
\* the flag alone, after counting the operation it has just done.
Tally(t) ==
  /\ Alive /\ kpc[t] = "tally"
  /\ finished' = [finished EXCEPT ![t] = @ + 1]
  /\ \/ /\ opts[t].clock_used /\ time_is_over
        /\ res' = [res EXCEPT ![t].count = finished[t] + 1]
        /\ kpc' = [kpc EXCEPT ![t] = "stop"]
        /\ UNCHANGED iter
     \/ /\ opts[t].clock_used /\ ~ time_is_over
        /\ kpc' = [kpc EXCEPT ![t] = "loop"]
        /\ UNCHANGED <<res, iter>>
     \/ /\ ~ opts[t].clock_used
        /\ iter' = [iter EXCEPT ![t] = @ + 1]
        /\ kpc' = [kpc EXCEPT ![t] = "loop"]
        /\ UNCHANGED res
  /\ UNCHANGED <<opts, address, time_is_over, fault>>

LeftLoop(t) == kpc[t] = "stop" \/ (kpc[t] = "loop" /\ ~ InLoop(t))

Throughput(latency, block_size) == ((NS_PER_SEC \div latency) * block_size) \div MB

\* The timer stops and the result is written, with the two divisions that
\* raise SIGFPE on an empty run (count = 0) and on a zero latency.  An
\* operation takes at least a nanosecond, whence ns >= finished[t].
Finish(t) ==
  /\ Alive /\ LeftLoop(t)
  /\ \E ns \in Durations :
       LET count == res[t].count
           latency == ns \div count
       IN
       /\ ns >= finished[t]
       /\ \/ /\ count # 0 /\ latency # 0
             /\ res' = [res EXCEPT ![t] =
                          [count |-> count, time |-> ns, latency |-> latency,
                           throughput |-> Throughput(latency, opts[t].block_size)]]
             /\ kpc' = [kpc EXCEPT ![t] = "done"]
             /\ UNCHANGED <<opts, address, iter, finished, time_is_over, fault>>
          \/ /\ count = 0 \/ (count # 0 /\ latency = 0)
             /\ Die("SIGFPE")

KernelStep(t, lo, hi) == Enter(t) \/ Operate(t, lo, hi) \/ Tally(t) \/ Finish(t)
=============================================================================
