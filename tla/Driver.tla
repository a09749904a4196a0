-------------------------------- MODULE Driver --------------------------------
(***************************************************************************)
(* The main thread of main.cc, as far as the two run functions share it:   *)
(* the pool check in main(), the loop that fills opts[i] and creates       *)
(* thread i, and the loop that joins the threads in order.  BasicRun and   *)
(* MixedRun add what differs.                                              *)
(***************************************************************************)
EXTENDS Kernel

CONSTANTS
  RunOptions,  \* the option records a run may start from
  Unwritten    \* what res[i] may hold of a thread that could not be created;
               \* {} stands for a system that creates every thread

VARIABLES
  opt,         \* struct benchmark_options
  mpc,         \* where the main thread is
  mi,          \* its loop variable "i"
  next_addr,   \* its local "addr"
  summary      \* << >>, or the totals once printed

driverVars == <<opt, mpc, mi, next_addr, summary>>
vars == <<kernelVars, driverVars>>

benchmark_options ==
  [type : KernelTypes \cup {S_MIXED, R_MIXED}, verify : BOOLEAN, align_size : Nat,
   num_thread : Nat, read_thread : Nat, write_thread : Nat, block_size : Nat,
   write_block_size : Nat, read_block_size : Nat, data_amount : Nat,
   pmem_size : Nat, pmem_start_address : Nat]

ASSUME DriverAssumption ==
  /\ RunOptions \subseteq benchmark_options
  /\ Unwritten \subseteq test_result

\* "main": before the pool check.  "run": the run function is called.
\* "spin": waiting for the global clock (mixed runs only).  "stuck": joining a
\* thread that does not exist never came back.
MainPCs == {"main", "run", "spawn", "spin", "join", "stuck", "exit"}

DriverInit ==
  /\ KernelInit
  /\ opt \in RunOptions
  /\ mpc = "main"
  /\ mi = 0
  /\ next_addr = 0
  /\ summary = << >>

pool_end == opt.pmem_start_address + opt.pmem_size

\* Mutated: one partition too many.
partition_sizeShort == opt.pmem_size \div (opt.num_thread + 1)

\* size_t partition_size = opt->pmem_size / opt->num_thread
partition_size == opt.pmem_size \div opt.num_thread

\* Mutated: the check looks at the data of one thread.
CheckPoolForOne ==
  /\ Alive /\ mpc = "main"
  /\ opt.pmem_size >= opt.data_amount
  /\ mpc' = "run"
  /\ UNCHANGED <<kernelVars, opt, mi, next_addr, summary>>

\* assert(options.pmem_size >= num_thread * data_amount), in main().  Premise: the
\* product is below 2^64.  Options has the same check with the product that wraps.
CheckPool ==
  /\ Alive /\ mpc = "main"
  /\ \/ /\ opt.pmem_size >= opt.num_thread * opt.data_amount
        /\ mpc' = "run"
        /\ UNCHANGED <<kernelVars, opt, mi, next_addr, summary>>
     \/ /\ opt.pmem_size < opt.num_thread * opt.data_amount
        /\ Die("SIGABRT")
        /\ UNCHANGED driverVars

\* The head of a run function for n threads: the division by n, the start of
\* the first partition.
BeginRun(n) ==
  /\ Alive /\ mpc = "run"
  /\ \/ /\ n # 0
        /\ opt' = [opt EXCEPT !.num_thread = n]
        /\ next_addr' = opt.pmem_start_address
        /\ mpc' = "spawn"
        /\ UNCHANGED <<kernelVars, mi, summary>>
     \/ /\ n = 0
        /\ Die("SIGFPE")
        /\ UNCHANGED driverVars

\* Mutated: the thread is created before opts[i] is filled.
CreateBeforeOptions(o) ==
  /\ Alive /\ mpc = "spawn" /\ mi < opt.num_thread /\ mi < MAX_THREAD
  /\ o \in thread_options
  /\ kpc' = [kpc EXCEPT ![mi] = "created"]
  /\ next_addr' = next_addr + partition_size
  /\ mi' = mi + 1
  /\ UNCHANGED <<opts, res, address, iter, finished, time_is_over, fault,
                 opt, mpc, summary>>

\* One turn of the creation loop: opts[i] = o, pthread_create, next partition.
\* Nobody looks at what pthread_create returns.  opts has MAX_THREAD elements:
\* one more writes past the array, and the run is given up as crashed.
Create(o) ==
  /\ Alive /\ mpc = "spawn" /\ mi < opt.num_thread
  /\ \/ /\ mi < MAX_THREAD
        /\ opts' = [opts EXCEPT ![mi] = o]
        /\ \/ /\ kpc' = [kpc EXCEPT ![mi] = "created"]
              /\ UNCHANGED res
           \/ /\ kpc' = [kpc EXCEPT ![mi] = "failed"]
              /\ \E r \in Unwritten : res' = [res EXCEPT ![mi] = r]
        /\ next_addr' = next_addr + partition_size
        /\ mi' = mi + 1
        /\ UNCHANGED <<address, iter, finished, time_is_over, fault,
                       opt, mpc, summary>>
     \/ /\ mi >= MAX_THREAD
        /\ Die("SIGSEGV")
        /\ UNCHANGED driverVars

\* The creation loop ends, the run goes on at pc.
AllCreated(pc) ==
  /\ Alive /\ mpc = "spawn" /\ mi = opt.num_thread
  /\ mpc' = pc
  /\ mi' = 0
  /\ UNCHANGED <<kernelVars, opt, next_addr, summary>>

\* Mutated: the loop does not wait for the thread.
JoinNoWait ==
  /\ Alive /\ mpc = "join" /\ mi < opt.num_thread
  /\ mi' = mi + 1
  /\ UNCHANGED <<kernelVars, opt, mpc, next_addr, summary>>

\* pthread_join(thread_id[i]).  Of a thread that was not created thread_id[i]
\* is unset: the call returns an error, waits for ever or crashes.
Join ==
  /\ Alive /\ mpc = "join" /\ mi < opt.num_thread
  /\ \/ /\ kpc[mi] \in {"done", "failed"}
        /\ mi' = mi + 1
        /\ UNCHANGED <<kernelVars, opt, mpc, next_addr, summary>>
     \/ /\ kpc[mi] = "failed"
        /\ mpc' = "stuck"
        /\ UNCHANGED <<kernelVars, opt, mi, next_addr, summary>>
     \/ /\ kpc[mi] = "failed"
        /\ Die("SIGSEGV")
        /\ UNCHANGED driverVars

\* The totals are computed from res and printed.
Summarise(totals) ==
  /\ Alive /\ mpc = "join" /\ mi = opt.num_thread
  /\ summary' = <<totals>>
  /\ mpc' = "exit"
  /\ UNCHANGED <<kernelVars, opt, mi, next_addr>>

WorkerStep(t) ==
  /\ KernelStep(t, opt.pmem_start_address, pool_end)
  /\ UNCHANGED driverVars

\* The process has ended, by returning from main or by a signal.
Ended == mpc = "exit" \/ ~ Alive

Stuck == mpc = "stuck"

Terminating == (Ended \/ Stuck) /\ UNCHANGED vars
-------------------------------------------------------------------------------
DriverTypeOK ==
  /\ KernelTypeOK
  /\ opt \in benchmark_options
  /\ mpc \in MainPCs
  /\ mi \in Nat
  /\ next_addr \in Nat

Region(t) == opts[t].start_addr .. opts[t].end_addr - 1

\* The thread exists, or was to: its part of the pool has been given away.
Created(t) == kpc[t] # "none"

\* No creation has failed.
AllThere == \A t \in Threads : kpc[t] # "failed"

Pool == opt.pmem_start_address .. pool_end - 1

\* Block k of an o-thread ends before end_addr for every k its loop reaches:
\* the distance from the first address to end_addr leaves either nothing or
\* a whole block after the last full step.
Roomy(o) ==
  LET first == FirstAddress(o)
      rest  == (o.end_addr - first) % Step(o)
  IN  first < o.end_addr /\ (rest = 0 \/ rest >= o.block_size)

\* What the options of one thread must satisfy, and main() does not check.
SaneThread(o) ==
  /\ o.block_size > 0 /\ o.align_size > 0
  /\ TotalCount(o) > 0
  /\ Roomy(o)
  /\ IsRandom(o) /\ o.verify => Step(o) % o.align_size = 0

\* The check in main() makes every partition hold the data of its thread:
\* the regions [start_addr, end_addr) of the threads created so far lie in
\* the pool and no two of them share a byte.
RegionsPartitionPool ==
  \A t \in Threads : Created(t) =>
    /\ Region(t) \subseteq Pool
    /\ \A u \in Threads \ {t} : Created(u) => Region(t) \cap Region(u) = {}

\* A thread whose geometry is Roomy never touches a byte outside its region,
\* whatever the number of times it wraps.
SpansStayInRegion ==
  \A t \in Threads :
    (Created(t) /\ InLoop(t) /\ Roomy(opts[t])) => Span(t) \subseteq Region(t)

\* No two threads are about to copy the same byte, one of them writing.
NoRace ==
  \A t, u \in Threads :
    (t # u /\ Created(t) /\ Created(u) /\ InLoop(t) /\ InLoop(u) /\ IsWrite(opts[t]))
    => Span(t) \cap Span(u) = {}
=============================================================================
