---------------------------- MODULE MixedRunProofs ----------------------------
(***************************************************************************)
(* Theorems about run_mixed_benchmark, for every option record, every team *)
(* of readers and writers and every size of the pool.  The shape is that   *)
(* of BasicRunProofs; what differs is that num_thread is replaced after    *)
(* the pool check, that the threads stop by the flag, and that the count   *)
(* is written when they do.                                                *)
(***************************************************************************)
EXTENDS MixedRun, DriverProofs

-------------------------------------------------------------------------------
(***************************************************************************)
(* Types.                                                                  *)
(***************************************************************************)

\* TypeOK is not inductive: whether the next address and the partition are
\* numbers depends on divisors that earlier steps have found not to be zero.
TypeInv ==
  /\ TypeOK
  /\ opt.type \in {S_MIXED, R_MIXED}
  /\ mpc \in {"spawn", "spin", "join", "exit"} => opt.num_thread # 0
  /\ \A t \in Threads : Entered(t) => opts[t].block_size # 0 /\ opts[t].align_size # 0

LEMMA TypeInvInit == Init => TypeInv
  <1> SUFFICES ASSUME Init PROVE TypeInv
    OBVIOUS
  <1>1. DriverInv
    BY DriverInvInit, DriverAssumption DEF Init
  <1>2. opt.type \in {S_MIXED, R_MIXED} /\ mpc = "main" /\ summary = << >>
    BY MixedRunAssumption DEF Init, DriverInit
  <1> QED
    BY <1>1, <1>2 DEF TypeInv, TypeOK, DriverInv

\* The options of a thread are well formed.
LEMMA ThreadOptionsType ==
  ASSUME NEW op \in benchmark_options, NEW i \in Nat, NEW a \in Nat
  PROVE  ThreadOptions(op, i, a) \in thread_options
  BY DEF ThreadOptions, thread_options, benchmark_options, KernelTypes,
         R_WRITE, S_WRITE, R_READ, S_READ

\* The team of a run is a number.
LEMMA TeamType ==
  ASSUME opt \in benchmark_options
  PROVE  TeamSize \in Nat
  BY DEF TeamSize, benchmark_options

LEMMA TypeInvMain == TypeInv /\ MainStep => TypeInv'
  <1> SUFFICES ASSUME TypeInv, MainStep PROVE TypeInv'
    OBVIOUS
  <1> USE DEF TypeInv, TypeOK, DriverTypeOK, KernelTypeOK, Entered
  <1>1. CASE CheckPool
    BY <1>1 DEF CheckPool, MainPCs, Die, kernelVars, driverVars, Faults
  <1>2. CASE Begin
    <2>1. TeamSize \in Nat
      BY TeamType
    <2> QED
      BY <1>2, <2>1 DEF Begin, BeginRun, MainPCs, Die, kernelVars, driverVars, Faults,
                        benchmark_options
  <1>3. CASE Spawn
    <2>1. ThreadOptions(opt, mi, next_addr) \in thread_options
      BY ThreadOptionsType
    <2>2. DriverInv'
      BY <1>3, <2>1, DriverInvCreate DEF Spawn, Create, DriverInv
    <2>3. UNCHANGED <<opt, mpc, summary>>
      BY <1>3 DEF Spawn, Create, driverVars
    <2> QED
      BY <2>2, <2>3 DEF DriverInv
  <1>4. CASE EndSpawn
    BY <1>4 DEF EndSpawn, AllCreated, MainPCs, kernelVars
  <1>5. CASE Join
    BY <1>5 DEF Join, Die, MainPCs, Faults, kernelVars, driverVars
  <1>6. CASE Sum
    BY <1>6 DEF Sum, Summarise, MainPCs, kernelVars
  <1>7. CASE Deadline
    BY <1>7 DEF Deadline, MainPCs
  <1> QED
    BY <1>1, <1>2, <1>3, <1>4, <1>5, <1>6, <1>7 DEF MainStep

LEMMA TypeInvWorker ==
  ASSUME TypeInv, NEW t \in Threads, WorkerStep(t)
  PROVE  TypeInv'
  <1>1. DriverInv'
    BY DriverInvWorker DEF TypeInv, TypeOK, DriverInv
  <1>2. UNCHANGED driverVars
    BY DEF WorkerStep
  <1> QED
    BY <1>1, <1>2 DEF TypeInv, TypeOK, DriverInv, driverVars

LEMMA TypeInvStep == TypeInv /\ [Next]_vars => TypeInv'
  <1> SUFFICES ASSUME TypeInv, [Next]_vars PROVE TypeInv'
    OBVIOUS
  <1>1. CASE MainStep
    BY <1>1, TypeInvMain
  <1>2. ASSUME NEW t \in Threads, WorkerStep(t) PROVE TypeInv'
    BY <1>2, TypeInvWorker
  <1>3. CASE UNCHANGED vars
    BY <1>3 DEF TypeInv, TypeOK, DriverTypeOK, KernelTypeOK, Entered, vars,
                kernelVars, driverVars
  <1> QED
    BY <1>1, <1>2, <1>3 DEF Next, Terminating

\* Every variable keeps its type in every run, and the totals are printed last.
THEOREM TypeCorrect == Spec => []TypeOK
  <1>1. TypeInv => TypeOK
    BY DEF TypeInv
  <1> QED
    BY <1>1, TypeInvInit, TypeInvStep, PTL DEF Spec

-------------------------------------------------------------------------------
(***************************************************************************)
(* The partition of the pool.                                              *)
(***************************************************************************)

\* The creation loop keeps next_addr at the start of the next partition, the
\* options of a created thread are those of its partition, and the team is
\* fixed before the first thread is created.
Layout ==
  /\ mpc \in {"main", "run"} => mi = 0 /\ \A t \in Threads : ~ Created(t)
  /\ mpc \notin {"main", "run"} => opt.num_thread = TeamSize
  /\ mpc = "spawn" => /\ mi <= opt.num_thread
                      /\ next_addr = Start(mi)
                      /\ \A t \in Threads : t >= mi => ~ Created(t)
  /\ \A t \in Threads : Created(t) =>
       t < opt.num_thread /\ opts[t] = ThreadOptions(opt, t, Start(t))

LEMMA LayoutInit == Init => Layout
  BY DEF Init, DriverInit, KernelInit, Layout, Created

\* TypeInv is what the shared lemmas ask for.
LEMMA TypeInvDriver == TypeInv => DriverInv
  BY DEF TypeInv, TypeOK, DriverInv

LEMMA LayoutStep == TypeInv /\ Layout /\ [Next]_vars => Layout'
  <1> SUFFICES ASSUME TypeInv, Layout, [Next]_vars PROVE Layout'
    OBVIOUS
  <1>0. ASSUME UNCHANGED <<kernelVars, driverVars>> PROVE Layout'
    BY <1>0 DEF Layout, kernelVars, driverVars, Created, Start, partition_size, TeamSize
  <1>1. CASE CheckPool
    BY <1>1 DEF CheckPool, Die, Layout, kernelVars, driverVars, Created, Start,
                partition_size, TeamSize
  <1>2. CASE Begin
    <2>1. CASE TeamSize # 0
      <3>1. /\ opt' = [opt EXCEPT !.num_thread = TeamSize]
            /\ next_addr' = opt.pmem_start_address /\ mpc' = "spawn"
            /\ UNCHANGED <<opts, kpc, mi>> /\ mpc = "run"
        BY <1>2, <2>1 DEF Begin, BeginRun, kernelVars, Die
      <3>2. mi = 0 /\ \A t \in Threads : ~ Created(t)
        BY <3>1 DEF Layout
      <3>3. /\ opt \in benchmark_options /\ TeamSize \in Nat
            /\ opt' \in benchmark_options /\ opt'.num_thread = TeamSize
            /\ opt'.pmem_start_address = opt.pmem_start_address
            /\ opt'.pmem_size = opt.pmem_size
            /\ opt'.read_thread = opt.read_thread
            /\ opt'.write_thread = opt.write_thread
        BY <3>1, TeamType DEF TypeInv, TypeOK, DriverTypeOK, benchmark_options
      <3>4. TeamSize' = TeamSize
        BY <3>3 DEF TeamSize
      <3>5. next_addr' = Start(mi)'
        <4> DEFINE p == opt'.pmem_size \div opt'.num_thread
        <4>1. opt.pmem_size \in Nat /\ opt.pmem_start_address \in Nat
          BY <3>3 DEF benchmark_options
        <4>2. p \in Nat
          BY <2>1, <3>3, <4>1, DivFacts
        <4>3. Start(mi)' = opt'.pmem_start_address + mi' * p
          BY DEF Start, partition_size
        <4> HIDE DEF p
        <4> QED
          BY <3>1, <3>2, <3>3, <4>1, <4>2, <4>3
      <3> QED
        BY <3>1, <3>2, <3>3, <3>4, <3>5 DEF Layout, Created
    <2>2. CASE TeamSize = 0
      BY <1>0, <1>2, <2>2 DEF Begin, BeginRun, Die, Layout, driverVars,
                        Created, Start, partition_size, TeamSize
    <2> QED
      BY <2>1, <2>2
  <1>3. CASE Spawn
    <2>1. CASE mi < MAX_THREAD
      <3> DEFINE o == ThreadOptions(opt, mi, next_addr)
      <3>1. /\ mpc = "spawn" /\ mi < opt.num_thread
            /\ opts' = [opts EXCEPT ![mi] = o]
            /\ \E pc \in {"created", "failed"} : kpc' = [kpc EXCEPT ![mi] = pc]
            /\ next_addr' = next_addr + partition_size
            /\ mi' = mi + 1
            /\ UNCHANGED <<opt, mpc>>
        BY <1>3, <2>1, KernelAssumption DEF Spawn, Create, TypeInv, TypeOK, DriverTypeOK
      <3>2. /\ mi \in Threads /\ mi \in Nat /\ opt.num_thread \in Nat
            /\ opt.pmem_start_address \in Nat
        BY <2>1, KernelAssumption
        DEF TypeInv, TypeOK, DriverTypeOK, Threads, benchmark_options
      <3>3. partition_size \in Nat
        BY <3>1, PartitionType DEF TypeInv, TypeOK, DriverTypeOK
      <3>4. next_addr = Start(mi)
        BY <3>1 DEF Layout
      <3>5. next_addr' = Start(mi + 1)
        BY <3>1, <3>2, <3>3, <3>4 DEF Start
      <3>6. \A i \in Nat : Start(i)' = Start(i)
        BY <3>1 DEF Start, partition_size
      <3>7. ASSUME NEW t \in Threads, t >= mi + 1 PROVE ~ Created(t)'
        <4>1. ~ Created(t)
          BY <3>1, <3>2, <3>7 DEF Layout, Threads
        <4> QED
          BY <3>1, <3>2, <3>7, <4>1 DEF Created, TypeInv, TypeOK, DriverTypeOK, KernelTypeOK
      <3>8. ASSUME NEW t \in Threads, Created(t)'
            PROVE  t < opt.num_thread /\ opts'[t] = ThreadOptions(opt, t, Start(t))
        <4>1. CASE t = mi
          BY <3>1, <3>2, <3>4, <4>1 DEF TypeInv, TypeOK, DriverTypeOK, KernelTypeOK
        <4>2. CASE t # mi
          <5>1. opts'[t] = opts[t] /\ kpc'[t] = kpc[t]
            BY <3>1, <4>2 DEF TypeInv, TypeOK, DriverTypeOK, KernelTypeOK
          <5> QED
            BY <3>8, <5>1 DEF Created, Layout
        <4> QED
          BY <4>1, <4>2
      <3>9. opt'.num_thread = TeamSize'
        BY <3>1 DEF Layout, TeamSize
      <3>10. \A t \in Threads : Created(t)' =>
               t < opt'.num_thread /\ opts'[t] = ThreadOptions(opt', t, Start(t)')
        BY <3>1, <3>8, <3>6 DEF Threads
      <3>11. next_addr' = Start(mi)' /\ mi' <= opt'.num_thread
        BY <3>1, <3>2, <3>5 DEF Start, partition_size
      <3> QED
        BY <3>1, <3>7, <3>9, <3>10, <3>11 DEF Layout
    <2>2. CASE ~ (mi < MAX_THREAD)
      BY <1>0, <1>3, <2>2, KernelAssumption
      DEF Spawn, Create, Die, driverVars, Layout, Created, Start, partition_size,
          TypeInv, TypeOK, DriverTypeOK, TeamSize
    <2> QED
      BY <2>1, <2>2
  <1>4. CASE EndSpawn
    BY <1>4 DEF EndSpawn, AllCreated, Layout, kernelVars, Created, Start, partition_size,
                TeamSize
  <1>5. CASE Join
    BY <1>5 DEF Join, Die, Layout, kernelVars, driverVars, Created, Start, partition_size,
                TeamSize
  <1>6. CASE Sum
    BY <1>6 DEF Sum, Summarise, Layout, kernelVars, Created, Start, partition_size, TeamSize
  <1>7. ASSUME NEW t \in Threads, WorkerStep(t) PROVE Layout'
    BY <1>7, WorkerFrame, TypeInvDriver
    DEF Layout, driverVars, Start, partition_size, TeamSize
  <1>8. CASE UNCHANGED vars
    BY <1>0, <1>8 DEF vars
  <1>9. CASE Deadline
    BY <1>9 DEF Deadline, Layout, Created, Start, partition_size, TeamSize
  <1> QED
    BY <1>1, <1>2, <1>3, <1>4, <1>5, <1>6, <1>7, <1>8, <1>9 DEF Next, MainStep, Terminating

\* A pool that main() found large enough for num_thread may be too small for
\* the team; under sane options it is not.
LEMMA LayoutPartitions ==
  ASSUME TypeInv, Layout, Sane(opt)
  PROVE  RegionsPartitionPool
  <1>1. CASE mpc \in {"main", "run"}
    BY <1>1 DEF Layout, RegionsPartitionPool
  <1>2. CASE mpc \notin {"main", "run"}
    <2>1. Laid
      <3> SUFFICES ASSUME NEW t \in Threads, Created(t)
                   PROVE  /\ t < opt.num_thread
                          /\ opts[t].start_addr = Start(t)
                          /\ opts[t].end_addr = Start(t) + opt.data_amount
        BY DEF Laid
      <3>1. t < opt.num_thread /\ opts[t] = ThreadOptions(opt, t, Start(t))
        BY DEF Layout
      <3> DEFINE s == Start(t)
      <3> HIDE DEF s
      <3>2. /\ ThreadOptions(opt, t, s).start_addr = s
            /\ ThreadOptions(opt, t, s).end_addr = s + opt.data_amount
        BY DEF ThreadOptions
      <3> QED
        BY <3>1, <3>2 DEF s
    <2>2. opt.pmem_size >= opt.num_thread * opt.data_amount
      BY <1>2 DEF Layout, Sane, TeamSize
    <2> QED
      BY <2>1, <2>2, LaidPartitions DEF TypeInv, TypeOK
  <1> QED
    BY <1>1, <1>2

-------------------------------------------------------------------------------
(***************************************************************************)
(* Where the blocks lie.                                                   *)
(***************************************************************************)

LEMMA PlacedInit == Init => Placed
  BY DEF Init, DriverInit, KernelInit, Placed, Entered

\* The main thread does not touch a thread that has entered its kernel.
LEMMA MainFrame ==
  ASSUME TypeInv, Layout, MainStep, NEW t \in Threads, Entered(t)'
  PROVE  /\ Entered(t) /\ opts'[t] = opts[t] /\ kpc'[t] = kpc[t]
         /\ address'[t] = address[t] /\ iter'[t] = iter[t]
         /\ finished'[t] = finished[t] /\ res'[t] = res[t]
         /\ time_is_over => time_is_over'
  <1>1. ASSUME UNCHANGED <<opts, kpc, address, iter, finished, res, time_is_over>>
        PROVE  Entered(t) /\ opts'[t] = opts[t]
    BY <1>1 DEF Entered
  <1>2. CASE CheckPool
    BY <1>1, <1>2 DEF CheckPool, Die, kernelVars
  <1>3. CASE Begin
    BY <1>1, <1>3 DEF Begin, BeginRun, Die, kernelVars
  <1>4. CASE Spawn
    BY <1>1, <1>4, KernelAssumption
    DEF Spawn, Create, Die, Entered, TypeInv, TypeOK, DriverTypeOK, KernelTypeOK
  <1>5. CASE EndSpawn
    BY <1>1, <1>5 DEF EndSpawn, AllCreated, kernelVars
  <1>6. CASE Join
    BY <1>1, <1>6 DEF Join, Die, kernelVars
  <1>7. CASE Sum
    BY <1>1, <1>7 DEF Sum, Summarise, kernelVars
  <1>8. CASE Deadline
    BY <1>8 DEF Deadline, Entered
  <1> QED
    BY <1>2, <1>3, <1>4, <1>5, <1>6, <1>7, <1>8 DEF MainStep

LEMMA PlacedStep == TypeInv /\ Layout /\ Placed /\ [Next]_vars => Placed'
  <1> SUFFICES ASSUME TypeInv, Layout, Placed, [Next]_vars,
                      NEW u \in Threads, Entered(u)',
                      FirstAddress(opts'[u]) < opts'[u].end_addr
               PROVE  OnGrid(opts'[u], address'[u]) /\ address'[u] < opts'[u].end_addr
    BY DEF Placed, Entered
  <1>1. CASE MainStep
    BY <1>1, MainFrame DEF Placed
  <1>2. ASSUME NEW t \in Threads, WorkerStep(t)
        PROVE  OnGrid(opts'[u], address'[u]) /\ address'[u] < opts'[u].end_addr
    <2>1. opts' = opts
      BY <1>2, WorkerFrame, TypeInvDriver
    <2>2. CASE u = t
      BY <1>2, <2>1, <2>2, PlacedWorker, TypeInvDriver
    <2>3. CASE u # t
      <3>1. Entered(u) /\ address'[u] = address[u]
        BY <1>2, <2>3, WorkerFrame, TypeInvDriver DEF Entered
      <3> QED
        BY <2>1, <3>1 DEF Placed
    <2> QED
      BY <2>2, <2>3
  <1>3. CASE UNCHANGED vars
    BY <1>3 DEF vars, kernelVars, Placed, Entered
  <1> QED
    BY <1>1, <1>2, <1>3 DEF Next, Terminating

\* Whatever the number of wraps, a Roomy thread copies inside its own region.
THEOREM SpansStay == Spec => []SpansStayInRegion
  BY TypeInvInit, TypeInvStep, LayoutInit, LayoutStep, PlacedInit, PlacedStep,
     PlacedSpans, TypeInvDriver, PTL DEF Spec

\* A sane option record makes every thread sane.
LEMMA SaneThreads ==
  ASSUME TypeInv, Layout, Sane(opt), NEW t \in Threads, Created(t)
  PROVE  SaneThread(opts[t])
  <1>1. /\ t \in Nat /\ t < opt.num_thread
        /\ opts[t] = ThreadOptions(opt, t, Start(t))
        /\ opt.num_thread = TeamSize
    BY DEF Layout, Threads
  <1>2. t \in 0 .. TeamSize - 1
    BY <1>1, TeamType DEF TypeInv, TypeOK, DriverTypeOK
  <1>3. Start(t) = opt.pmem_start_address + t * (opt.pmem_size \div TeamSize)
    BY <1>1 DEF Start, partition_size
  <1> QED
    BY <1>1, <1>2, <1>3 DEF Sane, TeamSize

LEMMA SaneNoRace ==
  ASSUME TypeInv, SpansStayInRegion, Layout
  PROVE  RaceFree
  <1> SUFFICES ASSUME Sane(opt), NEW t \in Threads, NEW u \in Threads, t # u,
                      Created(t), Created(u), InLoop(t), InLoop(u)
               PROVE  Span(t) \cap Span(u) = {}
    BY DEF RaceFree, NoRace
  <1>1. Roomy(opts[t]) /\ Roomy(opts[u])
    BY SaneThreads DEF SaneThread
  <1>2. Span(t) \subseteq Region(t) /\ Span(u) \subseteq Region(u)
    BY <1>1 DEF SpansStayInRegion
  <1>3. Region(t) \cap Region(u) = {}
    BY LayoutPartitions DEF RegionsPartitionPool
  <1> QED
    BY <1>2, <1>3

\* Under sane options no two threads of a run ever copy to the same byte.
THEOREM SaneRunsAreRaceFree == Spec => []RaceFree
  BY TypeInvInit, TypeInvStep, LayoutInit, LayoutStep,
     PlacedInit, PlacedStep, PlacedSpans, TypeInvDriver, SaneNoRace, PTL DEF Spec

-------------------------------------------------------------------------------
(***************************************************************************)
(* What the threads count.                                                 *)
(***************************************************************************)

\* The loop variable of a clocked thread never moves.  Until it breaks out of
\* its loop the count it will report is the one of a run without a clock; then
\* it is the number of operations it has performed.
CountedThread(t) ==
  /\ iter[t] = 0
  /\ kpc[t] = "tally" => TotalCount(opts[t]) > 0
  /\ kpc[t] \in {"loop", "tally"} => res[t].count = TotalCount(opts[t])
  /\ kpc[t] \in {"stop", "done"} =>
       res[t].count = finished[t] /\ finished[t] > 0 /\ time_is_over

Counted == \A t \in Threads : Entered(t) => CountedThread(t)

LEMMA CountedInit == Init => Counted
  BY DEF Init, DriverInit, KernelInit, Counted, Entered

LEMMA CountedWorker ==
  ASSUME TypeInv, Layout, Counted, NEW t \in Threads, WorkerStep(t), Entered(t)'
  PROVE  CountedThread(t)'
  <1> DEFINE o == opts[t]
             lo == opt.pmem_start_address
             hi == pool_end
             n == TotalCount(o)
  <1> USE DEF TypeInv, TypeOK, DriverTypeOK, KernelTypeOK
  <1>0. Created(t) => o.clock_used = TRUE
    BY DEF Layout, ThreadOptions
  <1>f. opts' = opts
    BY WorkerFrame, TypeInvDriver
  <1>1. CASE Enter(t)
    <2>1. CASE EnterOk(t)
      <3>1. iter'[t] = 0 /\ kpc'[t] = "loop"
        BY <2>1 DEF EnterOk
      <3>2. res'[t].count = n
        BY <2>1 DEF EnterOk, test_result
      <3> QED
        BY <1>f, <3>1, <3>2 DEF CountedThread
    <2>2. CASE Die("SIGFPE")
      BY <1>1, <2>2 DEF Enter, Die, Entered
    <2> QED
      BY <1>1, <2>1, <2>2 DEF Enter
  <1>2. CASE Operate(t, lo, hi)
    <2>1. kpc[t] = "loop" /\ iter[t] < n /\ CountedThread(t)
      BY <1>2 DEF Operate, InLoop, Counted, Entered
    <2>2. /\ iter'[t] = iter[t] /\ res'[t] = res[t]
          /\ kpc'[t] \in {"tally", "loop"}
      BY <1>2, <2>1 DEF Operate, Die
    <2>3. iter[t] = 0 /\ res[t].count = n /\ n > 0
      BY <2>1 DEF CountedThread
    <2> QED
      BY <1>f, <2>2, <2>3 DEF CountedThread
  <1>3. CASE Tally(t)
    <2>1. kpc[t] = "tally" /\ o.clock_used = TRUE /\ CountedThread(t)
      BY <1>0, <1>3 DEF Tally, Created, Counted, Entered
    <2>2. iter[t] = 0 /\ res[t].count = n
      BY <2>1 DEF CountedThread
    <2>3. /\ iter'[t] = iter[t] /\ finished'[t] = finished[t] + 1
          /\ time_is_over' = time_is_over
      BY <1>3, <2>1 DEF Tally
    <2>4. CASE time_is_over
      <3>1. kpc'[t] = "stop" /\ res'[t].count = finished[t] + 1
        BY <1>3, <2>1, <2>4 DEF Tally, test_result
      <3> QED
        BY <2>2, <2>3, <2>4, <3>1 DEF CountedThread
    <2>5. CASE ~ time_is_over
      <3>1. kpc'[t] = "loop" /\ res'[t] = res[t]
        BY <1>3, <2>1, <2>5 DEF Tally
      <3> QED
        BY <1>f, <2>2, <2>3, <3>1 DEF CountedThread
    <2> QED
      BY <2>4, <2>5
  <1>4. CASE Finish(t)
    <2>1. /\ iter'[t] = iter[t] /\ finished'[t] = finished[t]
          /\ time_is_over' = time_is_over
          /\ res'[t].count = res[t].count
      BY <1>4 DEF Finish, Die
    <2>2. kpc'[t] = kpc[t] \/ (kpc'[t] = "done" /\ res[t].count # 0)
      BY <1>4 DEF Finish, Die
    <2>3. Entered(t) /\ CountedThread(t)
      BY <1>4 DEF Finish, LeftLoop, InLoop, Counted, Entered
    <2>4. CASE kpc[t] = "stop"
      BY <1>f, <2>1, <2>2, <2>3, <2>4 DEF CountedThread
    <2>5. CASE kpc[t] = "loop"
      <3>1. iter[t] = 0 /\ res[t].count = n /\ ~ (iter[t] < n)
        BY <1>4, <2>3, <2>5 DEF Finish, LeftLoop, InLoop, CountedThread
      <3>2. o \in thread_options /\ o.block_size # 0
        BY <2>3, <2>5 DEF Entered
      <3>3. n \in Nat
        BY <3>2, TotalCountNat
      <3>4. res[t].count = 0
        BY <3>1, <3>3
      <3> QED
        BY <1>f, <2>1, <2>2, <2>5, <3>1, <3>4 DEF CountedThread
    <2> QED
      BY <1>4, <2>4, <2>5 DEF Finish, LeftLoop
  <1> QED
    BY <1>1, <1>2, <1>3, <1>4 DEF WorkerStep, KernelStep

LEMMA CountedStep == TypeInv /\ Layout /\ Counted /\ [Next]_vars => Counted'
  <1> SUFFICES ASSUME TypeInv, Layout, Counted, [Next]_vars,
                      NEW u \in Threads, Entered(u)'
               PROVE  CountedThread(u)'
    BY DEF Counted, Entered
  <1>1. CASE MainStep
    BY <1>1, MainFrame DEF Counted, CountedThread
  <1>2. ASSUME NEW t \in Threads, WorkerStep(t) PROVE CountedThread(u)'
    <2>1. opts' = opts
      BY <1>2, WorkerFrame, TypeInvDriver
    <2>2. CASE u = t
      BY <1>2, <2>2, CountedWorker
    <2>3. CASE u # t
      <3>1. /\ Entered(u) /\ iter'[u] = iter[u] /\ finished'[u] = finished[u]
            /\ kpc'[u] = kpc[u] /\ res'[u] = res[u]
        BY <1>2, <2>3, WorkerFrame, TypeInvDriver DEF Entered
      <3>2. time_is_over' = time_is_over
        BY <1>2 DEF WorkerStep, KernelStep, Enter, EnterOk, Operate, Tally, Finish, Die
      <3> QED
        BY <2>1, <3>1, <3>2 DEF Counted, CountedThread
    <2> QED
      BY <2>2, <2>3
  <1>3. CASE UNCHANGED vars
    BY <1>3 DEF vars, kernelVars, Counted, CountedThread, Entered
  <1> QED
    BY <1>1, <1>2, <1>3 DEF Next, Terminating

\* The reported count is the number of operations performed, the one during
\* which the flag was raised included, and it is not zero.
THEOREM CountsAreHonest == Spec => []CountIsHonest
  <1>1. Counted => CountIsHonest
    BY DEF Counted, CountedThread, CountIsHonest, Entered
  <1> QED
    BY <1>1, TypeInvInit, TypeInvStep, LayoutInit, LayoutStep, CountedInit,
       CountedStep, PTL DEF Spec

\* No thread leaves its loop before the main thread has seen the deadline.
THEOREM NobodyStopsEarly == Spec => []NoEarlyStop
  <1>1. Counted => NoEarlyStop
    BY DEF Counted, CountedThread, NoEarlyStop, Entered
  <1> QED
    BY <1>1, TypeInvInit, TypeInvStep, LayoutInit, LayoutStep, CountedInit,
       CountedStep, PTL DEF Spec

-------------------------------------------------------------------------------
(***************************************************************************)
(* Signals.                                                                *)
(***************************************************************************)

\* A thread that could not be created stays missing.
LEMMA FailedForGood ==
  ASSUME TypeInv, Layout, [Next]_vars, AllThere'
  PROVE  AllThere
  <1> SUFFICES ASSUME NEW u \in Threads, kpc[u] = "failed" PROVE kpc'[u] = "failed"
    BY DEF AllThere
  <1> USE DEF TypeInv, TypeOK, DriverTypeOK, KernelTypeOK
  <1>1. CASE Spawn
    <2>1. u # mi
      BY <1>1 DEF Spawn, Create, Layout, Created, Threads
    <2> QED
      BY <1>1, <2>1, KernelAssumption DEF Spawn, Create, Die
  <1>2. CASE MainStep /\ ~ Spawn
    BY <1>2 DEF MainStep, CheckPool, Begin, BeginRun, EndSpawn, AllCreated, Join, Sum,
                Summarise, Deadline, Die, kernelVars
  <1>3. ASSUME NEW t \in Threads, WorkerStep(t) PROVE kpc'[u] = "failed"
    <2>1. t # u
      BY <1>3 DEF WorkerStep, KernelStep, Enter, Operate, InLoop, Tally, Finish, LeftLoop
    <2> QED
      BY <1>3, <2>1, WorkerFrame, TypeInvDriver
  <1>4. CASE UNCHANGED vars
    BY <1>4 DEF vars, kernelVars
  <1> QED
    BY <1>1, <1>2, <1>3, <1>4 DEF Next, Terminating

LEMMA SaneMainStep ==
  ASSUME TypeInv, Layout, Sane(opt'), AllThere, fault = "none", MainStep
  PROVE  fault' = "none"
  <1>1. CASE CheckPool
    <2>1. opt' = opt
      BY <1>1 DEF CheckPool, driverVars
    <2>2. ~ (opt.pmem_size < opt.num_thread * opt.data_amount)
      <3>1. opt.pmem_size \in Nat /\ opt.num_thread \in Nat /\ opt.data_amount \in Nat
        BY DEF TypeInv, TypeOK, DriverTypeOK, benchmark_options
      <3>2. opt.num_thread * opt.data_amount \in Nat
        BY <3>1
      <3>3. opt.pmem_size >= opt.num_thread * opt.data_amount
        BY <2>1 DEF Sane
      <3> QED
        BY <3>1, <3>2, <3>3
    <2> QED
      BY <1>1, <2>2 DEF CheckPool, kernelVars
  <1>2. CASE Begin
    <2>1. CASE TeamSize = 0
      <3>1. opt' = opt
        BY <1>2, <2>1 DEF Begin, BeginRun, driverVars
      <3> QED
        BY <2>1, <3>1 DEF Sane, TeamSize
    <2>2. CASE TeamSize # 0
      BY <1>2, <2>2 DEF Begin, BeginRun, kernelVars
    <2> QED
      BY <2>1, <2>2
  <1>3. CASE Spawn
    <2>1. opt' = opt
      BY <1>3 DEF Spawn, Create, driverVars
    <2>2. mi < MAX_THREAD
      <3>1. opt.num_thread = TeamSize /\ TeamSize \in 1 .. MAX_THREAD /\ mi < opt.num_thread
        BY <1>3, <2>1 DEF Spawn, Create, Layout, Sane, TeamSize
      <3> QED
        BY <3>1, KernelAssumption DEF TypeInv, TypeOK, DriverTypeOK
    <2> QED
      BY <1>3, <2>2, KernelAssumption DEF Spawn, Create, TypeInv, TypeOK, DriverTypeOK
  <1>4. CASE EndSpawn \/ Sum
    BY <1>4 DEF EndSpawn, AllCreated, Sum, Summarise, kernelVars
  <1>5. CASE Join
    <2>1. opt' = opt
      BY <1>5 DEF Join, driverVars
    <2>2. mi \in Threads
      <3>1. opt.num_thread = TeamSize /\ TeamSize \in 1 .. MAX_THREAD /\ mi < opt.num_thread
        BY <1>5, <2>1 DEF Join, Layout, Sane, TeamSize
      <3> QED
        BY <3>1, KernelAssumption DEF Threads, TypeInv, TypeOK, DriverTypeOK
    <2> QED
      BY <1>5, <2>2 DEF Join, AllThere, kernelVars
  <1>6. CASE Deadline
    BY <1>6 DEF Deadline
  <1> QED
    BY <1>1, <1>2, <1>3, <1>4, <1>5, <1>6 DEF MainStep

LEMMA SaneWorkerStep ==
  ASSUME TypeInv, Layout, Placed, Counted, RegionsPartitionPool, SpansStayInRegion,
         Sane(opt), fault = "none", NEW t \in Threads, WorkerStep(t)
  PROVE  fault' = "none"
  <1> DEFINE o == opts[t]
             lo == opt.pmem_start_address
             hi == pool_end
  <1>0. Created(t)
    BY DEF WorkerStep, KernelStep, Enter, Operate, InLoop, Tally, Finish, LeftLoop, Created
  <1>1. /\ o \in thread_options /\ SaneThread(o)
        /\ o.block_size # 0 /\ o.align_size # 0
    <2>1. o \in thread_options /\ SaneThread(o)
      BY <1>0, SaneThreads DEF TypeInv, TypeOK, DriverTypeOK, KernelTypeOK, Created
    <2> QED
      BY <2>1 DEF SaneThread, thread_options
  <1>2. CASE Enter(t)
    BY <1>1, <1>2 DEF Enter, EnterOk
  <1>3. CASE Operate(t, lo, hi)
    <2> DEFINE a == NextAddress(o, address[t])
    <2>1. Entered(t) /\ InLoop(t) /\ address[t] \in Nat /\ FirstAddress(o) < o.end_addr
      BY <1>1, <1>3
      DEF Operate, InLoop, Entered, SaneThread, Roomy, TypeInv, TypeOK, DriverTypeOK, KernelTypeOK
    <2>2. OnGrid(o, address[t]) /\ address[t] < o.end_addr
      BY <2>1 DEF Placed
    <2>3. a \in Nat /\ OnGrid(o, a)
      BY <1>1, <2>1, <2>2, NextOnGrid
    <2>4. ~ VerifyFails(o, a)
      <3> HIDE DEF a, o
      <3> QED
        BY <1>1, <2>3, GridAligned DEF VerifyFails, SaneThread
    <2>5. Span(t) \subseteq lo .. hi - 1
      BY <1>0, <1>1, <2>1 DEF SaneThread, SpansStayInRegion, RegionsPartitionPool, Pool
    <2> QED
      BY <1>3, <2>4, <2>5 DEF Operate
  <1>4. CASE Tally(t)
    BY <1>4 DEF Tally
  <1>5. CASE Finish(t)
    <2> DEFINE n == finished[t]
    <2>1. Entered(t) /\ CountedThread(t)
      BY <1>5 DEF Finish, LeftLoop, InLoop, Counted, Entered
    <2>2. kpc[t] = "stop"
      <3>1. TotalCount(o) > 0
        BY <1>1 DEF SaneThread
      <3> QED
        BY <1>5, <2>1, <3>1 DEF Finish, LeftLoop, InLoop, CountedThread
    <2>3. res[t].count = n /\ n \in Nat \ {0}
      BY <2>1, <2>2 DEF CountedThread, TypeInv, TypeOK, DriverTypeOK, KernelTypeOK
    <2>4. ASSUME NEW ns \in Durations, ns >= finished[t]
          PROVE  res[t].count # 0 /\ ns \div res[t].count # 0
      <3>1. ns \in Nat /\ ns >= n
        BY <2>4, KernelAssumption
      <3> HIDE DEF n
      <3>2. ns \div n >= 1
        BY <2>3, <3>1, DivLowerBound
      <3>3. ns \div n \in Nat
        BY <2>3, <3>1, DivFacts
      <3> QED
        BY <2>3, <3>2, <3>3
    <2> QED
      BY <1>5, <2>4 DEF Finish
  <1> QED
    BY <1>2, <1>3, <1>4, <1>5 DEF WorkerStep, KernelStep

LEMMA SaneStep ==
  TypeInv /\ Layout /\ Placed /\ Counted /\ SaneRunsDoNotFault /\ [Next]_vars
  => SaneRunsDoNotFault'
  <1> SUFFICES ASSUME TypeInv, Layout, Placed, Counted, SaneRunsDoNotFault, [Next]_vars,
                      Sane(opt'), AllThere'
               PROVE  fault' = "none"
    BY DEF SaneRunsDoNotFault, AllThere
  <1>1. AllThere
    BY FailedForGood
  <1>2. CASE MainStep
    <2>1. fault = "none"
      BY <1>2 DEF MainStep, CheckPool, Begin, BeginRun, Spawn, Create, EndSpawn, AllCreated,
                  Deadline, Join, Sum, Summarise, Alive
    <2> QED
      BY <1>1, <1>2, <2>1, SaneMainStep
  <1>3. ASSUME NEW t \in Threads, WorkerStep(t) PROVE fault' = "none"
    <2>1. opt' = opt /\ fault = "none"
      BY <1>3 DEF WorkerStep, KernelStep, Enter, Operate, Tally, Finish, Alive, driverVars
    <2>2. RegionsPartitionPool /\ SpansStayInRegion
      BY <2>1, LayoutPartitions, PlacedSpans, TypeInvDriver
    <2> QED
      BY <1>3, <2>1, <2>2, SaneWorkerStep
  <1>4. CASE UNCHANGED vars
    BY <1>1, <1>4 DEF vars, kernelVars, driverVars, SaneRunsDoNotFault
  <1> QED
    BY <1>2, <1>3, <1>4 DEF Next, Terminating

\* A run with sane options raises no signal, in any interleaving and for any
\* size: no assertion fails, no divisor is zero, no block leaves the pool.
THEOREM SaneRunsAreSafe == Spec => []SaneRunsDoNotFault
  <1>1. Init => SaneRunsDoNotFault
    BY DEF Init, DriverInit, KernelInit, SaneRunsDoNotFault
  <1> QED
    BY <1>1, SaneStep, TypeInvInit, TypeInvStep, LayoutInit, LayoutStep, PlacedInit,
       PlacedStep, CountedInit, CountedStep, PTL DEF Spec

-------------------------------------------------------------------------------
(***************************************************************************)
(* The printed totals: the run implements ForkJoin.                        *)
(***************************************************************************)

\* A step that changes none of the variables of ForkJoin.
LEMMA NothingPrinted ==
  ASSUME UNCHANGED <<Reports, Shown, opt.read_thread, opt.write_thread>>
  PROVE  UNCHANGED Printed!vars
  BY DEF Printed!vars, Reports, Shown, TeamSize

LEMMA MainPublishes ==
  ASSUME TypeInv, Layout, Joined, MainStep
  PROVE  Joined' /\ [Printed!Next]_(Printed!vars)
  <1>1. /\ DriverInv /\ (mpc # "exit" => summary = << >>)
        /\ \A t \in Threads : Created(t) => t < opt.num_thread
    BY TypeInvDriver DEF TypeInv, TypeOK, Layout
  <1>2. CASE CheckPool \/ Begin
    <2>1. UNCHANGED <<kpc, res, summary, mi>> /\ mpc \in {"main", "run"}
          /\ mpc' \in {"main", "run", "spawn"}
      BY <1>2 DEF CheckPool, Begin, BeginRun, Die, kernelVars, driverVars
    <2>2. mi = 0 /\ MAX_THREAD >= 0
      BY <2>1, KernelAssumption DEF Layout
    <2>3. Joined'
      BY <2>1, <2>2 DEF Joined
    <2>4. UNCHANGED <<Reports, Shown>>
      BY <2>1 DEF Reports, Shown, AllThere
    <2>5. opt'.read_thread = opt.read_thread /\ opt'.write_thread = opt.write_thread
      BY <1>1, <1>2 DEF CheckPool, Begin, BeginRun, driverVars, DriverInv, DriverTypeOK,
                        benchmark_options
    <2> QED
      BY <2>3, <2>4, <2>5, NothingPrinted
  <1>3. CASE Spawn
    <2>1. mpc = "spawn" /\ Create(ThreadOptions(opt, mi, next_addr))
      BY <1>3 DEF Spawn, Create
    <2>2. \A t \in Threads : t >= mi => ~ Created(t)
      BY <2>1 DEF Layout
    <2>3. Joined' /\ UNCHANGED <<Reports, Shown, opt>>
      BY <1>1, <2>1, <2>2, CreateReports
    <2> QED
      BY <2>3, NothingPrinted
  <1>4. CASE EndSpawn
    BY <1>4, AllCreatedReports, NothingPrinted DEF EndSpawn
  <1>5. CASE Deadline
    <2>1. /\ mpc = "spin" /\ mpc' = "join" /\ mi' = mi
          /\ UNCHANGED <<opt, kpc, res, summary>>
      BY <1>5 DEF Deadline
    <2>2. mi = 0
      BY <2>1 DEF Joined
    <2>3. Joined'
      BY <2>1, <2>2, KernelAssumption DEF Joined, Threads
    <2>4. UNCHANGED <<Reports, Shown>>
      BY <2>1 DEF Reports, Shown, AllThere
    <2> QED
      BY <2>1, <2>3, <2>4, NothingPrinted
  <1>6. CASE Join
    BY <1>1, <1>6, JoinReports, NothingPrinted
  <1>7. CASE Sum
    <2> DEFINE readers == 0 .. opt.read_thread - 1
             totals == Totals([t \in 0 .. opt.num_thread - 1 |-> res[t]], readers)
    <2>1. Summarise(totals) /\ summary = << >>
      BY <1>1, <1>7 DEF Sum, Summarise
    <2> HIDE DEF totals, readers
    <2>2. /\ Joined' /\ UNCHANGED <<Reports, opt>>
          /\ ~ AllThere => Shown' = Shown
          /\ AllThere => /\ Shown = << >> /\ Shown' = <<totals>>
                         /\ DOMAIN Reports = 0 .. opt.num_thread - 1
                         /\ Reports = [t \in 0 .. opt.num_thread - 1 |-> res[t]]
                         /\ 0 .. opt.num_thread - 1 \subseteq Threads
      BY <1>1, <2>1, SummariseReports
    <2>3. CASE ~ AllThere
      BY <2>2, <2>3, NothingPrinted
    <2>4. CASE AllThere
      <3>1. mpc = "join" /\ opt.num_thread = TeamSize
        BY <2>1 DEF Summarise, Layout
      <3>2. readers \subseteq 0 .. opt.num_thread - 1
        BY <1>1, <3>1 DEF readers, TeamSize, DriverInv, DriverTypeOK, benchmark_options
      <3>3. totals = Totals(Reports, Threads \cap readers)
        <4>1. Threads \cap readers = readers
          BY <2>2, <2>4, <3>2
        <4> QED
          BY <2>2, <2>4, <4>1 DEF totals
      <3>4. DOMAIN Reports = Threads \cap 0 .. TeamSize - 1
        BY <2>2, <2>4, <3>1
      <3>5. UNCHANGED <<TeamSize, opt.read_thread>>
        BY <2>2 DEF TeamSize
      <3>6. Printed!Publish
        BY <2>2, <2>4, <3>3, <3>4, <3>5 DEF Printed!Publish, Reports, Shown, readers
      <3> QED
        BY <2>2, <3>6 DEF Printed!Next
    <2> QED
      BY <2>3, <2>4
  <1> QED
    BY <1>2, <1>3, <1>4, <1>5, <1>6, <1>7 DEF MainStep

LEMMA WorkerReports ==
  ASSUME TypeInv, TypeInv', Layout, Joined, NEW t \in Threads, WorkerStep(t)
  PROVE  Joined' /\ [Printed!Next]_(Printed!vars)
  <1>1. /\ DriverInv /\ DriverInv' /\ (summary # << >> => mpc = "exit")
        /\ UNCHANGED driverVars /\ opt' = opt
    BY TypeInvDriver DEF TypeInv, TypeOK, DriverInv, WorkerStep, driverVars
  <1>2. CASE UNCHANGED <<kpc, res>>
    BY <1>1, <1>2, NothingPrinted DEF Joined, Reports, Shown, AllThere, driverVars
  <1>3. CASE Moves(t)
    <2>1. t < opt.num_thread
      BY <1>3 DEF Moves, Layout, Created
    <2>2. /\ Joined' /\ Shown' = Shown
          /\ \/ Reports' = Reports
             \/ /\ t \notin DOMAIN Reports
                /\ DOMAIN Reports' = DOMAIN Reports \cup {t}
                /\ Reports'[t] \in test_result
                /\ \A x \in DOMAIN Reports : Reports'[x] = Reports[x]
                /\ Shown = << >>
      BY <1>1, <1>3, <2>1, WorkerDelivers
    <2>3. CASE Reports' = Reports
      BY <1>1, <2>2, <2>3, NothingPrinted
    <2>4. CASE ~ (Reports' = Reports)
      <3>1. opt.num_thread = TeamSize
        BY <1>3 DEF Moves, Layout, Created
      <3>2. t \in Threads \cap 0 .. TeamSize - 1
        BY <1>1, <2>1, <3>1, KernelAssumption
           DEF Threads, DriverInv, DriverTypeOK, benchmark_options
      <3>3. UNCHANGED <<TeamSize, opt.read_thread>>
        BY <1>1 DEF TeamSize
      <3>4. Printed!Deliver(t)
        BY <1>1, <2>2, <2>4, <3>2, <3>3 DEF Printed!Deliver, Reports, Shown
      <3> QED
        BY <2>2, <3>4 DEF Printed!Next
    <2> QED
      BY <2>3, <2>4
  <1> QED
    BY <1>1, <1>2, <1>3, WorkerMoves

\* The printed totals are those of the final results of all threads, if all of
\* them could be created.
THEOREM TotalsAreForkJoin == Spec => SummaryAfterAllReports
  <1>1. Init => Joined /\ Printed!Init
    <2> SUFFICES ASSUME Init PROVE Joined /\ Printed!Init
      OBVIOUS
    <2>1. mpc = "main" /\ summary = << >> /\ \A t \in Threads : kpc[t] = "none"
      BY DEF Init, DriverInit, KernelInit
    <2>2. opt.read_thread \in Nat /\ opt.write_thread \in Nat
      BY DriverAssumption DEF Init, DriverInit, benchmark_options
    <2>3. Threads \cap 0 .. opt.read_thread - 1 \subseteq Threads \cap 0 .. TeamSize - 1
      BY <2>2 DEF TeamSize
    <2>4. Joined
      BY <2>1 DEF Joined
    <2> QED
      BY <2>1, <2>3, <2>4 DEF Printed!Init
  <1>2. /\ TypeInv /\ TypeInv' /\ Layout /\ Joined /\ [Next]_vars
        => Joined' /\ [Printed!Next]_(Printed!vars)
    <2> SUFFICES ASSUME TypeInv, TypeInv', Layout, Joined, [Next]_vars
                 PROVE  Joined' /\ [Printed!Next]_(Printed!vars)
      OBVIOUS
    <2>1. CASE MainStep
      BY <2>1, MainPublishes
    <2>2. ASSUME NEW t \in Threads, WorkerStep(t)
          PROVE  Joined' /\ [Printed!Next]_(Printed!vars)
      BY <2>2, WorkerReports
    <2>3. CASE UNCHANGED vars
      BY <2>3, NothingPrinted
         DEF Joined, Reports, Shown, AllThere, vars, kernelVars, driverVars
    <2> QED
      BY <2>1, <2>2, <2>3 DEF Next, Terminating
  <1> QED
    BY <1>1, <1>2, TypeInvInit, TypeInvStep, LayoutInit, LayoutStep, PTL
       DEF Spec, SummaryAfterAllReports, Printed!Spec
=============================================================================
