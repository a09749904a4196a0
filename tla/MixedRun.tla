------------------------------- MODULE MixedRun -------------------------------
(***************************************************************************)
(* run_mixed_benchmark of main.cc: the first read_thread threads read, the *)
(* others write, all of them until the main thread, which watches a clock, *)
(* raises time_is_over.  The number of operations is not fixed: a thread   *)
(* counts what it did.                                                     *)
(***************************************************************************)
EXTENDS Driver
LOCAL INSTANCE FiniteSetsExt
LOCAL INSTANCE FiniteSets

\* main() calls run_mixed_benchmark for the two mixed types.
ASSUME MixedRunAssumption == \A op \in RunOptions : op.type \in {S_MIXED, R_MIXED}

\* opts[i] when its partition starts at a.
ThreadOptions(op, i, a) ==
  LET reads == i < op.read_thread
  IN  [type |-> IF reads THEN IF op.type = S_MIXED THEN S_READ ELSE R_READ
                ELSE IF op.type = S_MIXED THEN S_WRITE ELSE R_WRITE,
       verify |-> op.verify, align_size |-> op.align_size,
       clock_used |-> TRUE, start_addr |-> a, end_addr |-> a + op.data_amount,
       write_amount |-> op.data_amount, read_amount |-> op.data_amount,
       block_size |-> IF reads THEN op.read_block_size ELSE op.write_block_size]

\* The [READ], [WRITE] and [SUM] lines over the results r, of which those of
\* the readers are reads.  An average over nobody stays 0.
Totals(r, readers) ==
  LET writers == DOMAIN r \ readers
      Sum(f(_), S) == MapThenSumSet(f, S)
      Avg(S) == IF S = {} THEN 0
                ELSE Sum(LAMBDA t : r[t].latency, S) \div Cardinality(S)
      Rate(S) == Sum(LAMBDA t : r[t].throughput, S)
  IN  [read_latency |-> Avg(readers), write_latency |-> Avg(writers),
       read_throughput |-> Rate(readers), write_throughput |-> Rate(writers),
       throughput |-> Rate(readers) + Rate(writers)]

Init == DriverInit

\* num_thread becomes read_thread + write_thread only here, after CheckPool
\* has used the value of the command line.
TeamSize == opt.read_thread + opt.write_thread

Begin == BeginRun(TeamSize)
Spawn == Create(ThreadOptions(opt, mi, next_addr))
EndSpawn == AllCreated("spin")

\* global_clock passes run_seconds.  The loop that polls it does nothing else.
Deadline ==
  /\ Alive /\ mpc = "spin"
  /\ time_is_over' = TRUE
  /\ mpc' = "join"
  /\ UNCHANGED <<opts, res, kpc, address, iter, finished, fault,
                 opt, mi, next_addr, summary>>

Sum == Summarise(Totals([t \in 0 .. opt.num_thread - 1 |-> res[t]],
                        0 .. opt.read_thread - 1))

MainStep == CheckPool \/ Begin \/ Spawn \/ EndSpawn \/ Deadline \/ Join \/ Sum

Next == MainStep \/ (\E t \in Threads : WorkerStep(t)) \/ Terminating

Spec == Init /\ [][Next]_vars

\* The operating system runs every thread that can run, and CLOCK_MONOTONIC
\* passes every deadline.
Fairness == WF_vars(MainStep) /\ \A t \in Threads : WF_vars(WorkerStep(t))

FairSpec == Spec /\ Fairness
-------------------------------------------------------------------------------
\* Types of all variables; the totals are the last thing the main thread does.
TypeOK ==
  /\ DriverTypeOK
  /\ summary # << >> => mpc = "exit"

\* Options under which the whole run is in bounds: as for a basic run, but the
\* pool must hold the data of the real team besides passing the check.
Sane(op) ==
  LET n == op.read_thread + op.write_thread IN
  /\ n \in 1 .. MAX_THREAD
  /\ op.pmem_size >= op.num_thread * op.data_amount
  /\ op.pmem_size >= n * op.data_amount
  /\ \A i \in 0 .. n - 1 :
       SaneThread(ThreadOptions(op, i, op.pmem_start_address + i * (op.pmem_size \div n)))

\* Sane options never raise a signal, if all threads could be created.  In
\* particular the count is never zero: a thread performs an operation before
\* it looks at the clock.
SaneRunsDoNotFault == (Sane(opt) /\ AllThere) => fault = "none"

\* Under sane options no byte of the pool is raced for.
RaceFree == Sane(opt) => NoRace

\* No thread of a non-empty workload leaves its loop before the deadline: the
\* threads that are measured together run together.
NoEarlyStop ==
  \A t \in Threads :
    (kpc[t] \in {"stop", "done"} /\ TotalCount(opts[t]) > 0) => time_is_over

\* The count a thread reports is the number of operations it performed, the
\* last one, during which the flag was raised, included.
CountIsHonest ==
  \A t \in Threads :
    kpc[t] = "done" => res[t].count = finished[t] /\ finished[t] > 0

\* The printed totals are those of the final results of all threads, if all
\* could be created.
Printed == INSTANCE ForkJoin WITH
  Worker <- Threads,
  Report <- test_result,
  Total  <- Totals,
  team   <- Threads \cap 0 .. TeamSize - 1,
  readers <- Threads \cap 0 .. opt.read_thread - 1,
  report <- [t \in {u \in Threads : kpc[u] = "done"} |-> res[t]],
  total  <- IF AllThere THEN summary ELSE << >>

SummaryAfterAllReports == Printed!Spec

\* Once the flag is up every thread leaves its loop and the run ends, or
\* waits for a thread that could not be created.
DeadlineEndsRun == time_is_over ~> (Ended \/ Stuck)

\* What run_mixed.sh takes for granted: the block size it passes with
\* --block_size is the one the threads use.
BlockSizeIsUsed ==
  \A t \in Threads : Created(t) => opts[t].block_size = opt.block_size
=============================================================================
