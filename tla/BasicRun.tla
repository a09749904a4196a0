------------------------------- MODULE BasicRun -------------------------------
(***************************************************************************)
(* run_benchmark of main.cc: every thread runs the same kernel for a fixed *)
(* number of operations on its own partition of the pool, and the main     *)
(* thread joins them and prints the average latency and the total          *)
(* throughput.                                                             *)
(***************************************************************************)
EXTENDS Driver
LOCAL INSTANCE FiniteSetsExt
LOCAL INSTANCE FiniteSets

\* main() calls run_benchmark for the four kernels.
ASSUME BasicRunAssumption == \A op \in RunOptions : op.type \in KernelTypes

\* opts[i] of a thread whose partition starts at a.
ThreadOptions(op, a) ==
  [type |-> op.type, verify |-> op.verify, align_size |-> op.align_size,
   clock_used |-> FALSE, start_addr |-> a, end_addr |-> a + op.data_amount,
   write_amount |-> op.data_amount, read_amount |-> op.data_amount,
   block_size |-> op.block_size]

\* The [SUM] line over the results r of a set of threads.
Totals(r) ==
  LET Sum(f(_)) == MapThenSumSet(f, DOMAIN r)
  IN  [latency |-> Sum(LAMBDA t : r[t].latency) \div Cardinality(DOMAIN r),
       throughput |-> Sum(LAMBDA t : r[t].throughput)]

Init == DriverInit

Begin == BeginRun(opt.num_thread)
Spawn == Create(ThreadOptions(opt, next_addr))
EndSpawn == AllCreated("join")
Sum == Summarise(Totals([t \in 0 .. opt.num_thread - 1 |-> res[t]]))

MainStep == CheckPool \/ Begin \/ Spawn \/ EndSpawn \/ Join \/ Sum

Next == MainStep \/ (\E t \in Threads : WorkerStep(t)) \/ Terminating

Spec == Init /\ [][Next]_vars

\* The operating system runs every thread that can run.
Fairness == WF_vars(MainStep) /\ \A t \in Threads : WF_vars(WorkerStep(t))

FairSpec == Spec /\ Fairness
-------------------------------------------------------------------------------
\* Types of all variables; the totals are the last thing the main thread does.
TypeOK ==
  /\ DriverTypeOK
  /\ summary # << >> => mpc = "exit"

\* Options under which the whole run is in bounds.
Sane(op) ==
  /\ op.num_thread \in 1 .. MAX_THREAD
  /\ op.pmem_size >= op.num_thread * op.data_amount
  /\ \A i \in 0 .. op.num_thread - 1 :
       SaneThread(ThreadOptions(op, op.pmem_start_address
                                      + i * (op.pmem_size \div op.num_thread)))

\* Sane options never raise a signal, if all threads could be created: no
\* failed assertion, no access outside the pool, no division by zero in any
\* interleaving.
SaneRunsDoNotFault == (Sane(opt) /\ AllThere) => fault = "none"

\* Under sane options no byte of the pool is raced for.
RaceFree == Sane(opt) => NoRace

\* The count a thread reports, set before its loop, is the number of
\* operations it performed.
CountIsHonest ==
  \A t \in Threads :
    kpc[t] = "done" => res[t].count = finished[t] /\ finished[t] = TotalCount(opts[t])

\* The printed totals are those of the final results of all threads, if all
\* could be created.
Printed == INSTANCE ForkJoin WITH
  Worker <- Threads,
  Report <- test_result,
  Total  <- LAMBDA r, readers : Totals(r),
  team   <- Threads \cap 0 .. opt.num_thread - 1,
  readers <- {},
  report <- [t \in {u \in Threads : kpc[u] = "done"} |-> res[t]],
  total  <- IF AllThere THEN summary ELSE << >>

SummaryAfterAllReports == Printed!Spec

\* What the fields of thread_options say, "start pmem address" and "end pmem
\* address": no thread touches a byte outside [start_addr, end_addr).
AccessBelowEnd ==
  \A t \in Threads : (Created(t) /\ InLoop(t)) => Span(t) \subseteq Region(t)

\* The run comes to its end, dies of a signal, or waits for a thread that
\* could not be created.
RunEnds == <>(Ended \/ Stuck)
=============================================================================
