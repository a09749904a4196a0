-------------------------------- MODULE SsdRun --------------------------------
(***************************************************************************)
(* main() of ssd_test.cc: it reads five numbers, preallocates a file for   *)
(* each thread, creates the threads, joins them in order and prints the    *)
(* sum of their rates.                                                     *)
(***************************************************************************)
EXTENDS SsdEngine

CONSTANTS
  MB,    \* units in 1024 * 1024 bytes
  Args   \* the arguments the program may be called with: sequences of numbers

ASSUME SsdRunAssumption ==
  /\ MB \in Nat \ {0}
  /\ Args \subseteq Seq(Nat)
  /\ \A a \in Args : Len(a) >= 5 => a[5] * MB <= MAX_UNIT

VARIABLES
  argv,     \* argv[1], argv[2], ...
  mpc,      \* where main is
  mi,       \* its loop variable
  summary   \* << >>, or the printed sum

mainVars == <<argv, mpc, mi, summary>>
vars == <<engineVars, mainVars>>

\* "stuck": joining a thread that does not exist never came back.
MainPCs == {"args", "prealloc", "spawn", "join", "stuck", "exit"}

num_thread == argv[3]

Options == [access_type |-> argv[1], io_type |-> argv[2], block_size |-> argv[4],
            total_size |-> argv[5] * MB]

\* The sum of the rates, kept as the function of its terms.
Total(r) == r

Init ==
  /\ EngineInit
  /\ argv \in Args
  /\ mpc = "args"
  /\ mi = 0
  /\ summary = << >>

\* atol(argv[1]) to atol(argv[5]); atol of the NULL after the last argument.
ReadArgs ==
  /\ Alive /\ mpc = "args"
  /\ \/ /\ Len(argv) >= 5
        /\ mpc' = "prealloc"
        /\ UNCHANGED <<engineVars, argv, mi, summary>>
     \/ /\ Len(argv) < 5
        /\ Die("SIGSEGV", {})
        /\ UNCHANGED mainVars

\* Mutated: fallocate is left out.
PreallocNothing ==
  /\ Alive /\ mpc = "prealloc"
  /\ mi' = IF mi < num_thread THEN mi + 1 ELSE 0
  /\ mpc' = IF mi < num_thread THEN mpc ELSE "spawn"
  /\ UNCHANGED <<engineVars, argv, summary>>

\* The first loop: file i is created and given total_size, or the call fails.
Prealloc ==
  /\ Alive /\ mpc = "prealloc"
  /\ \/ /\ mi < num_thread
        /\ mi' = mi + 1
        /\ \E ok \in BOOLEAN :
             /\ size' = [t \in Threads |->
                           IF t = mi /\ ok THEN Options.total_size ELSE size[t]]
             /\ lost' = [t \in Threads |-> lost[t] \/ (t = mi /\ ~ ok)]
        /\ UNCHANGED <<argv, mpc, summary, eopt, iops, epc, handle, ei, offset,
                       inflight, writes, dirty, good, fault>>
     \/ /\ mi = num_thread
        /\ mi' = 0
        /\ mpc' = "spawn"
        /\ UNCHANGED <<engineVars, argv, summary>>

\* The second loop: options[i] and pthread_create, which may fail unnoticed.
\* options has MAX_THREAD elements: one more writes past it, and the run is
\* given up as crashed.
Spawn ==
  /\ Alive /\ mpc = "spawn"
  /\ \/ /\ mi < num_thread /\ mi < MAX_THREAD
        /\ eopt' = [eopt EXCEPT ![mi] = Options]
        /\ \/ Goto(mi, "created") /\ UNCHANGED lost
           \/ Goto(mi, "failed") /\ lost' = [lost EXCEPT ![mi] = TRUE]
        /\ mi' = mi + 1
        /\ UNCHANGED <<argv, mpc, summary, iops, handle, size, ei, offset,
                       inflight, writes, dirty, good, fault>>
     \/ /\ mi < num_thread /\ mi >= MAX_THREAD
        /\ Die("SIGSEGV", {})
        /\ UNCHANGED mainVars

EndSpawn ==
  /\ Alive /\ mpc = "spawn" /\ mi = num_thread
  /\ mi' = 0
  /\ mpc' = "join"
  /\ UNCHANGED <<engineVars, argv, summary>>

\* Mutated: the loop does not wait.
JoinNoWait ==
  /\ Alive /\ mpc = "join" /\ mi < num_thread
  /\ mi' = mi + 1
  /\ UNCHANGED <<engineVars, argv, mpc, summary>>

\* pthread_join(thread_id[i]).  Of a thread that was not created thread_id[i]
\* is unset: the call crashes, returns an error or waits for ever.
Join ==
  /\ Alive /\ mpc = "join" /\ mi < num_thread
  /\ \/ /\ epc[mi] \in {"done", "failed"}
        /\ mi' = mi + 1
        /\ UNCHANGED <<engineVars, argv, mpc, summary>>
     \/ /\ epc[mi] = "failed"
        /\ mpc' = "stuck"
        /\ UNCHANGED <<engineVars, argv, mi, summary>>
     \/ /\ epc[mi] = "failed"
        /\ Die("SIGSEGV", {})
        /\ UNCHANGED mainVars

\* The [SUM] line.  The rate of a thread that never ran is whatever the
\* stack held.
Sum ==
  /\ Alive /\ mpc = "join" /\ mi = num_thread
  /\ \E garbage \in [ops : {0}, ns : Durations] :
       summary' = <<Total([t \in 0 .. num_thread - 1 |->
                             IF iops[t] = << >> THEN garbage ELSE iops[t][1]])>>
  /\ mpc' = "exit"
  /\ UNCHANGED <<engineVars, argv, mi>>

MainStep == ReadArgs \/ Prealloc \/ Spawn \/ EndSpawn \/ Join \/ Sum

Ended == mpc = "exit" \/ ~ Alive

Terminating == (Ended \/ mpc = "stuck") /\ UNCHANGED vars

WorkerStep(t) == EngineStep(t) /\ UNCHANGED mainVars
DriveStep(t)  == DeviceStep(t) /\ UNCHANGED mainVars

Next ==
  \/ MainStep
  \/ \E t \in Threads : WorkerStep(t) \/ DriveStep(t)
  \/ Terminating

Spec == Init /\ [][Next]_vars

\* The operating system runs every thread that can run, and a device answers
\* every request.
Fairness ==
  /\ WF_vars(MainStep)
  /\ \A t \in Threads : WF_vars(WorkerStep(t)) /\ WF_vars(DriveStep(t))

FairSpec == Spec /\ Fairness
-------------------------------------------------------------------------------
\* Types of all variables; the sum is the last thing main does.
TypeOK ==
  /\ EngineTypeOK
  /\ argv \in Args
  /\ mpc \in MainPCs
  /\ mi \in Nat
  /\ summary # << >> => mpc = "exit"

Running(t) == epc[t] \in {"loop", "sync", "wait", "done"}

Blocks(o) == o.total_size \div o.block_size

\* A random pass of an even number of blocks ends, before the wrap, with a
\* block that starts at the last whole block's end; unless the blocks fill the
\* file it reaches over the end.
Roomy(o) ==
  (o.io_type = IO_DIRECT_ACCESS /\ o.access_type = TYPE_RW)
  => (o.total_size % o.block_size = 0 \/ Blocks(o) % 2 = 1)

\* No engine writes past the end of the file, however often it wraps, unless it
\* is a random pass that is not Roomy; that one writes less than a block past it.
WritesStayInFile ==
  \A t \in Threads : (Running(t) /\ eopt[t].block_size > 0) =>
    \A u \in Unit : writes[t][u] > 0 =>
      /\ u < eopt[t].total_size + eopt[t].block_size
      /\ Roomy(eopt[t]) => u < eopt[t].total_size

\* The random pass of io_direct_access goes over the even blocks, and over all
\* of them before any a second time.
RandomPassIsEven ==
  \A t \in Threads :
    (/\ Running(t) /\ ~ lost[t]
     /\ eopt[t].io_type = IO_DIRECT_ACCESS /\ eopt[t].access_type = TYPE_RW) =>
      LET b    == eopt[t].block_size
          Even == {k \in 0 .. Blocks(eopt[t]) : k % 2 = 0 /\ k * b < eopt[t].total_size}
      IN  /\ \A j, k \in Even : writes[t][j * b] - writes[t][k * b] <= 1
          /\ good[t] > 0 => \A u \in Unit : writes[t][u] > 0 => (u \div b) \in Even

Sequential(o) ==
  \/ o.io_type \in {IO_READ_WRITE, IO_MMAP, IO_LIBAIO}
  \/ o.io_type = IO_DIRECT_ACCESS /\ o.access_type = TYPE_SW

\* At the head of its loop a sequential engine has written the blocks of the
\* turns behind it, each unit once, and nothing else.
SequentialCoversPrefix ==
  \A t \in Threads :
    (epc[t] = "loop" /\ ~ lost[t] /\ Sequential(eopt[t])) =>
      LET o == eopt[t]
          step == IF o.io_type = IO_LIBAIO THEN o.block_size * QUEUE ELSE o.block_size
      IN  \A u \in Unit : writes[t][u] = IF u < ei[t] * step THEN 1 ELSE 0

\* What every engine does to its file.  Nothing past the end, except for a random
\* pass that is not Roomy, which writes less than a block past it.  If no call of the
\* thread has failed: the even blocks in a random pass, the blocks from the first
\* one on in a sequential one.
WritesInPlace ==
  TypeOK /\ WritesStayInFile /\ RandomPassIsEven /\ SequentialCoversPrefix

\* When an engine returns, frees its buffer and closes its file, no request
\* still uses them, and what write or mmap put into the page cache has been
\* synchronised: fsync does so always, msync if blocks are whole pages.
NothingPendingAtReturn ==
  \A t \in Threads : epc[t] = "done" =>
    /\ inflight[t] = {}
    /\ (~ lost[t] /\ (eopt[t].io_type = IO_MMAP => eopt[t].block_size % PAGE = 0))
       => dirty[t] = {}

\* The blocks fill whole turns of the loop.
Whole(o) ==
  /\ o.io_type \in Engines
  /\ o.io_type = IO_LIBAIO => Blocks(o) % QUEUE = 0

\* The number of operations that the rate claims is the number of blocks that
\* were written, if the blocks fill whole turns and no call failed.
RateIsHonest ==
  \A t \in Threads : (epc[t] = "done" /\ ~ lost[t] /\ Whole(eopt[t])) =>
    iops[t][1].ops = good[t]

\* A thread that returns has no request in flight.  If no call of it failed, what
\* it wrote is synchronised (through a mapping only if blocks are whole pages),
\* and it has done what its rate claims if the blocks fill whole batches (Whole).
ReturnIsHonest == NothingPendingAtReturn /\ RateIsHonest

\* Arguments that main does not check.
Sane ==
  /\ Len(argv) >= 5
  /\ num_thread <= MAX_THREAD
  /\ argv[4] > 0 /\ IsPowerOfTwo(argv[4])

\* Sane arguments raise no signal unless a call fails: no engine leaves its
\* mapping, divides by zero or finds a batch incomplete.
SaneRunsDoNotFault ==
  (Sane /\ \A t \in Threads : ~ lost[t]) => fault = "none"

AllCreated == \A t \in Threads : epc[t] # "failed"

\* The printed sum is that of the final rates of all threads, if all threads
\* could be created.
Printed == INSTANCE ForkJoin WITH
  Worker  <- Threads,
  Report  <- Rate,
  Total   <- LAMBDA r, readers : Total(r),
  team    <- Threads \cap (IF Len(argv) >= 5 THEN 0 .. num_thread - 1 ELSE {}),
  readers <- {},
  report  <- [t \in {u \in Threads : epc[u] = "done"} |-> iops[t][1]],
  total   <- IF AllCreated THEN summary ELSE << >>

SumAfterAllRates == Printed!Spec

\* The run comes to its end, dies of a signal, or waits for a thread that
\* could not be created.
RunEnds == <>(Ended \/ mpc = "stuck")
=============================================================================
