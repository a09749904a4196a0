----------------------------- MODULE DriverProofs -----------------------------
(***************************************************************************)
(* What the proofs about run_benchmark and run_mixed_benchmark share: the  *)
(* types under the steps of the threads and under the creation loop, the   *)
(* room in a partition, and where a thread's blocks lie.                   *)
(***************************************************************************)
EXTENDS Driver, TLAPS

-------------------------------------------------------------------------------
(***************************************************************************)
(* The address arithmetic of Address.                                      *)
(***************************************************************************)

\* Division with remainder.
LEMMA DivFacts ==
  ASSUME NEW a \in Nat, NEW b \in Nat \ {0}
  PROVE  /\ a \div b \in Nat
         /\ a % b \in 0 .. b - 1
         /\ a = b * (a \div b) + (a % b)
  OBVIOUS

\* A product grows with its first factor.
LEMMA MulMono ==
  ASSUME NEW a \in Nat, NEW b \in Nat, NEW p \in Nat, a <= b
  PROVE  a * p <= b * p
  OBVIOUS

\* A quotient is at least d if the dividend is at least d times the divisor.
LEMMA DivLowerBound ==
  ASSUME NEW a \in Nat, NEW b \in Nat \ {0}, NEW d \in Nat, a >= b * d
  PROVE  a \div b >= d
  OBVIOUS

\* Multiples leave no remainder.
LEMMA MultipleMod ==
  ASSUME NEW q \in Nat, NEW b \in Nat \ {0}
  PROVE  (q * b) % b = 0
  OBVIOUS

\* Adding multiples of a multiple of b to a multiple of b.
LEMMA GridMod ==
  ASSUME NEW x \in Nat, NEW y \in Nat, NEW k \in Nat, NEW b \in Nat \ {0},
         x % b = 0, y % b = 0
  PROVE  (x + k * y) % b = 0
  <1> DEFINE u == x \div b
             v == y \div b
  <1>1. u \in Nat /\ v \in Nat /\ x = b * u /\ y = b * v
    BY DivFacts
  <1> HIDE DEF u, v
  <1>2. x + k * y = (u + k * v) * b
    BY <1>1
  <1>3. u + k * v \in Nat
    BY <1>1
  <1> QED
    BY <1>2, <1>3, MultipleMod

\* AlignUp never moves an address down, and its result is aligned.
LEMMA AlignUpFacts ==
  ASSUME NEW a \in Nat, NEW al \in Nat \ {0}
  PROVE  /\ AlignUp(a, al) \in Nat
         /\ AlignUp(a, al) >= a
         /\ AlignUp(a, al) % al = 0
  <1>1. CASE a % al = 0
    BY <1>1 DEF AlignUp
  <1>2. CASE a % al # 0
    <2> DEFINE q == (a + al) \div al
    <2>1. a + al \in Nat
      OBVIOUS
    <2>2. /\ q \in Nat
          /\ (a + al) % al \in 0 .. al - 1
          /\ a + al = al * q + ((a + al) % al)
      BY <2>1, DivFacts
    <2>3. AlignUp(a, al) = q * al
      BY <1>2 DEF AlignUp
    <2>4. q * al \in Nat /\ q * al = al * q
      BY <2>2
    <2>5. q * al > a
      BY <2>2, <2>4
    <2>6. (q * al) % al = 0
      BY <2>2, MultipleMod
    <2> QED
      BY <2>3, <2>4, <2>5, <2>6
  <1> QED
    BY <1>1, <1>2

\* A step is a number no smaller than a block.
LEMMA StepFacts ==
  ASSUME NEW o \in thread_options
  PROVE  Step(o) \in Nat /\ Step(o) >= o.block_size
  BY AddressAssumption DEF Step, thread_options

\* The number of operations of a thread with a non-empty block.
LEMMA TotalCountNat ==
  ASSUME NEW o \in thread_options, o.block_size # 0
  PROVE  TotalCount(o) \in Nat
  <1> DEFINE amount == IF IsWrite(o) THEN o.write_amount ELSE o.read_amount
  <1>1. amount \in Nat /\ o.block_size \in Nat \ {0}
    BY DEF thread_options
  <1>2. amount \div o.block_size \in Nat
    BY <1>1, DivFacts
  <1> QED
    BY <1>2, AddressAssumption DEF TotalCount

\* A kernel starts at or above its start address.
LEMMA FirstAddressFacts ==
  ASSUME NEW o \in thread_options, o.align_size # 0
  PROVE  FirstAddress(o) \in Nat /\ FirstAddress(o) >= o.start_addr
  <1>1. o.start_addr \in Nat /\ o.align_size \in Nat \ {0}
    BY DEF thread_options
  <1> QED
    BY <1>1, AlignUpFacts DEF FirstAddress

-------------------------------------------------------------------------------
\* The addresses a kernel visits: its first address plus whole steps.
OnGrid(o, a) == \E k \in Nat : a = FirstAddress(o) + k * Step(o)

\* A kernel enters its loop on the grid and, while its first address lies
\* below end_addr, every address it moves to is again on the grid below
\* end_addr.
LEMMA FirstOnGrid ==
  ASSUME NEW o \in thread_options, o.align_size # 0
  PROVE  OnGrid(o, FirstAddress(o))
  <1>1. FirstAddress(o) \in Nat /\ Step(o) \in Nat
    BY FirstAddressFacts, StepFacts
  <1>2. FirstAddress(o) = FirstAddress(o) + 0 * Step(o)
    BY <1>1
  <1> QED
    BY <1>2 DEF OnGrid

LEMMA NextOnGrid ==
  ASSUME NEW o \in thread_options, o.align_size # 0,
         NEW a \in Nat, OnGrid(o, a), FirstAddress(o) < o.end_addr
  PROVE  /\ NextAddress(o, a) \in Nat
         /\ OnGrid(o, NextAddress(o, a))
         /\ NextAddress(o, a) < o.end_addr
  <1>0. /\ FirstAddress(o) \in Nat /\ Step(o) \in Nat
        /\ o.end_addr \in Nat
    BY FirstAddressFacts, StepFacts DEF thread_options
  <1>1. CASE a + Step(o) >= o.end_addr
    BY <1>0, <1>1, FirstOnGrid DEF NextAddress
  <1>2. CASE ~ (a + Step(o) >= o.end_addr)
    <2>1. PICK k \in Nat : a = FirstAddress(o) + k * Step(o)
      BY DEF OnGrid
    <2>2. a + Step(o) = FirstAddress(o) + (k + 1) * Step(o)
      BY <1>0, <2>1
    <2>3. k + 1 \in Nat
      OBVIOUS
    <2>4. OnGrid(o, a + Step(o))
      BY <2>2, <2>3 DEF OnGrid
    <2> QED
      BY <1>0, <1>2, <2>4 DEF NextAddress
  <1> QED
    BY <1>1, <1>2

\* If the grid leaves nothing or a whole block before end_addr, then a block
\* at any address of the grid below end_addr ends by end_addr.
LEMMA BlockFitsOnGrid ==
  ASSUME NEW o \in thread_options, o.align_size # 0, o.block_size # 0,
         FirstAddress(o) < o.end_addr,
         LET rest == (o.end_addr - FirstAddress(o)) % Step(o)
         IN  rest = 0 \/ rest >= o.block_size,
         NEW a \in Nat, OnGrid(o, a), a < o.end_addr
  PROVE  a + o.block_size <= o.end_addr
  <1> DEFINE first == FirstAddress(o)
             s == Step(o)
             d == o.end_addr - first
             q == d \div s
             r == d % s
  <1>1. /\ first \in Nat /\ s \in Nat \ {0} /\ s >= o.block_size
        /\ o.end_addr \in Nat /\ o.block_size \in Nat
        /\ d \in Nat
    BY FirstAddressFacts, StepFacts DEF thread_options
  <1>2. q \in Nat /\ r \in 0 .. s - 1 /\ d = s * q + r
    <2> HIDE DEF s, d
    <2> QED
      BY <1>1, DivFacts
  <1>3. PICK k \in Nat : a = first + k * s
    BY DEF OnGrid
  <1>4. r = 0 \/ r >= o.block_size
    OBVIOUS
  <1> HIDE DEF first, s, q, r
  <1>5. k * s < s * q + r
    BY <1>1, <1>2, <1>3 DEF d
  <1>6. k * s \in Nat /\ q * s \in Nat /\ s * q = q * s
    BY <1>1, <1>2
  <1>7. k <= q
    <2> SUFFICES ASSUME k >= q + 1 PROVE FALSE
      BY <1>2
    <2>1. (q + 1) * s <= k * s
      BY <1>1, <1>2, MulMono
    <2>2. (q + 1) * s = q * s + s
      BY <1>1, <1>2
    <2> QED
      BY <1>1, <1>2, <1>5, <1>6, <2>1, <2>2
  <1>8. CASE r >= o.block_size
    <2>1. k * s <= q * s
      BY <1>1, <1>2, <1>7, MulMono
    <2> QED
      BY <1>1, <1>2, <1>3, <1>6, <1>8, <2>1 DEF d
  <1>9. CASE r = 0
    <2>1. k + 1 <= q
      <3> SUFFICES ASSUME k = q PROVE FALSE
        BY <1>2, <1>7
      <3> QED
        BY <1>5, <1>6, <1>9
    <2>2. (k + 1) * s <= q * s
      BY <1>1, <1>2, <2>1, MulMono
    <2>3. (k + 1) * s = k * s + s
      BY <1>1
    <2> QED
      BY <1>1, <1>2, <1>3, <1>6, <1>9, <2>2, <2>3 DEF d
  <1> QED
    BY <1>4, <1>8, <1>9

\* Where the step is a multiple of the alignment, the whole grid is aligned.
LEMMA GridAligned ==
  ASSUME NEW o \in thread_options, o.align_size # 0, Step(o) % o.align_size = 0,
         NEW a \in Nat, OnGrid(o, a)
  PROVE  a % o.align_size = 0
  <1>1. /\ o.align_size \in Nat \ {0} /\ o.start_addr \in Nat
        /\ Step(o) \in Nat /\ FirstAddress(o) \in Nat
    BY StepFacts, FirstAddressFacts DEF thread_options
  <1>2. FirstAddress(o) % o.align_size = 0
    BY <1>1, AlignUpFacts DEF FirstAddress
  <1>3. PICK k \in Nat : a = FirstAddress(o) + k * Step(o)
    BY DEF OnGrid
  <1> QED
    BY <1>1, <1>2, <1>3, GridMod
-------------------------------------------------------------------------------
(***************************************************************************)
(* Types.                                                                  *)
(***************************************************************************)

\* A thread past its first line has survived the two divisions made there.
Entered(t) == kpc[t] \in {"loop", "tally", "stop", "done"}

\* Whether the next address and the partition are numbers depends on divisors
\* that earlier steps have found not to be zero.
DriverInv ==
  /\ DriverTypeOK
  /\ \A t \in Threads : Entered(t) => opts[t].block_size # 0 /\ opts[t].align_size # 0

LEMMA DriverInvInit ==
  ASSUME DriverInit, RunOptions \subseteq benchmark_options
  PROVE  DriverInv
  <1> USE DEF DriverInit
  <1>1. NoResult \in test_result
    BY DEF NoResult, test_result
  <1>2. KernelTypeOK
    BY <1>1 DEF KernelInit, KernelTypeOK, KernelPCs, Faults
  <1>3. \A t \in Threads : ~ Entered(t)
    BY DEF KernelInit, Entered
  <1> QED
    BY <1>2, <1>3 DEF DriverInv, DriverTypeOK, MainPCs

LEMMA PartitionType ==
  ASSUME opt \in benchmark_options, opt.num_thread # 0
  PROVE  partition_size \in Nat
  <1>1. opt.pmem_size \in Nat /\ opt.num_thread \in Nat \ {0}
    BY DEF benchmark_options
  <1> QED
    BY <1>1, DivFacts DEF partition_size

\* The throughput written to the result is a number.
LEMMA ThroughputNat ==
  ASSUME NEW latency \in Nat \ {0}, NEW b \in Nat
  PROVE  Throughput(latency, b) \in Nat
  <1>1. NS_PER_SEC \div latency \in Nat
    BY KernelAssumption, DivFacts
  <1>2. (NS_PER_SEC \div latency) * b \in Nat
    BY <1>1
  <1> QED
    BY <1>2, KernelAssumption, DivFacts DEF Throughput

\* Assigning the count of a result.
LEMMA CountType ==
  ASSUME res \in [Threads -> test_result], NEW t \in Threads, NEW n \in Nat
  PROVE  [res EXCEPT ![t].count = n] \in [Threads -> test_result]
  BY DEF test_result

\* So does a turn of the creation loop.
LEMMA DriverInvCreate ==
  ASSUME DriverInv, NEW o \in thread_options, Create(o), opt.num_thread # 0
  PROVE  DriverInv'
  <1> USE DEF DriverInv, DriverTypeOK, KernelTypeOK, Entered
  <1>1. partition_size \in Nat
    BY PartitionType
  <1>2. CASE mi < MAX_THREAD /\ fault' = fault
    <2>1. mi \in Threads /\ mi' \in Nat /\ next_addr' \in Nat
      BY <1>1, <1>2, KernelAssumption DEF Create, Threads, Die, Alive
    <2>2. /\ opts' = [opts EXCEPT ![mi] = o]
          /\ kpc' \in [Threads -> KernelPCs]
          /\ \A u \in Threads \ {mi} : kpc'[u] = kpc[u]
          /\ kpc'[mi] \in {"created", "failed"}
          /\ UNCHANGED <<address, iter, finished, time_is_over, fault,
                         opt, mpc, summary>>
      BY <1>2, <2>1, KernelAssumption DEF Create, Die, Alive, KernelPCs
    <2>3. res' \in [Threads -> test_result]
      BY <1>2, <2>1, KernelAssumption, DriverAssumption DEF Create, Die, Alive
    <2> QED
      BY <2>1, <2>2, <2>3
  <1>3. CASE ~ (mi < MAX_THREAD /\ fault' = fault)
    BY <1>3 DEF Create, Die, driverVars, Faults
  <1> QED
    BY <1>2, <1>3

\* A worker's step keeps the types.
LEMMA DriverInvWorker ==
  ASSUME DriverInv, NEW t \in Threads, WorkerStep(t)
  PROVE  DriverInv'
  <1> DEFINE o == opts[t]
             lo == opt.pmem_start_address
             hi == pool_end
  <1> USE DEF DriverInv, DriverTypeOK, KernelTypeOK, Entered
  <1>0. UNCHANGED driverVars
    BY DEF WorkerStep
  <1>1. CASE Enter(t)
    <2>1. CASE EnterOk(t)
      <3>1. o \in thread_options /\ o.block_size # 0 /\ o.align_size # 0
        BY <1>1, <2>1 DEF Enter, EnterOk
      <3>2. FirstAddress(o) \in Nat /\ TotalCount(o) \in Nat
        BY <3>1, FirstAddressFacts, TotalCountNat
      <3> QED
        BY <1>0, <1>1, <2>1, <3>1, <3>2
        DEF Enter, EnterOk, driverVars, test_result, KernelPCs
    <2>2. CASE Die("SIGFPE")
      BY <1>0, <2>2 DEF Die, driverVars, Faults
    <2> QED
      BY <1>1, <2>1, <2>2 DEF Enter
  <1>2. CASE Operate(t, lo, hi)
    <2>1. o \in thread_options /\ o.align_size # 0 /\ address[t] \in Nat
      BY <1>2 DEF Operate, InLoop
    <2>2. NextAddress(o, address[t]) \in Nat
      BY <2>1, FirstAddressFacts, StepFacts DEF NextAddress
    <2> QED
      BY <1>0, <1>2, <2>2 DEF Operate, InLoop, Die, driverVars, KernelPCs, Faults
  <1>3. CASE Tally(t)
    <2>1. finished' \in [Threads -> Nat]
      BY <1>3 DEF Tally
    <2>2. iter' \in [Threads -> Nat]
      BY <1>3 DEF Tally
    <2>3. res' \in [Threads -> test_result]
      <3> DEFINE n == finished[t] + 1
      <3>1. n \in Nat
        OBVIOUS
      <3>2. res' = [res EXCEPT ![t].count = n] \/ res' = res
        BY <1>3 DEF Tally
      <3> HIDE DEF n
      <3>3. [res EXCEPT ![t].count = n] \in [Threads -> test_result]
        BY <3>1, CountType
      <3> QED
        BY <3>2, <3>3, Zenon
    <2>4. /\ kpc' \in [Threads -> KernelPCs]
          /\ UNCHANGED <<opts, address, time_is_over, fault>>
          /\ \A u \in Threads : kpc'[u] # "none" => kpc[u] # "none"
          /\ \A u \in Threads : kpc'[u] \in {"loop", "tally", "stop", "done"}
                                 => kpc[u] \in {"loop", "tally", "stop", "done"}
      BY <1>3 DEF Tally, KernelPCs
    <2> QED
      BY <1>0, <2>1, <2>2, <2>3, <2>4 DEF driverVars
  <1>4. CASE Finish(t)
    <2>1. o \in thread_options
      BY <1>4 DEF Finish, LeftLoop
    <2>2. PICK ns \in Durations :
            LET count == res[t].count
                latency == ns \div count
            IN  \/ /\ count # 0 /\ latency # 0
                   /\ res' = [res EXCEPT ![t] =
                        [count |-> count, time |-> ns, latency |-> latency,
                         throughput |-> Throughput(latency, opts[t].block_size)]]
                   /\ kpc' = [kpc EXCEPT ![t] = "done"]
                   /\ UNCHANGED <<opts, address, iter, finished, time_is_over, fault>>
                \/ Die("SIGFPE")
      BY <1>4 DEF Finish
    <2>3. CASE Die("SIGFPE")
      BY <1>0, <2>3 DEF Die, driverVars, Faults
    <2>4. CASE ~ Die("SIGFPE")
      <3> DEFINE count == res[t].count
                 latency == ns \div count
      <3>1. ns \in Nat /\ count \in Nat \ {0} /\ latency # 0 /\ o.block_size \in Nat
        BY <2>1, <2>2, <2>4, KernelAssumption DEF thread_options, test_result
      <3>2. latency \in Nat
        <4> HIDE DEF count
        <4> QED
          BY <3>1, DivFacts
      <3>3. Throughput(latency, o.block_size) \in Nat
        <4> HIDE DEF latency
        <4> QED
          BY <3>1, <3>2, ThroughputNat
      <3>4. o.block_size # 0 /\ o.align_size # 0
        BY <1>4 DEF Finish, LeftLoop
      <3> DEFINE r == [count |-> count, time |-> ns, latency |-> latency,
                       throughput |-> Throughput(latency, opts[t].block_size)]
      <3>5. r \in test_result
        <4> HIDE DEF count, latency
        <4> QED
          BY <3>1, <3>2, <3>3 DEF test_result
      <3>6. /\ res' = [res EXCEPT ![t] = r]
            /\ kpc' = [kpc EXCEPT ![t] = "done"]
            /\ UNCHANGED <<opts, address, iter, finished, time_is_over, fault>>
        BY <2>2, <2>4
      <3> HIDE DEF r
      <3>7. /\ res' \in [Threads -> test_result]
            /\ kpc' \in [Threads -> KernelPCs]
            /\ \A u \in Threads : kpc'[u] = IF u = t THEN "done" ELSE kpc[u]
        BY <3>5, <3>6 DEF KernelPCs
      <3> QED
        BY <1>0, <2>1, <3>4, <3>6, <3>7 DEF driverVars
    <2> QED
      BY <2>3, <2>4
  <1> QED
    BY <1>1, <1>2, <1>3, <1>4 DEF WorkerStep, KernelStep

\* A worker changes neither the options nor who has been created.
LEMMA WorkerFrame ==
  ASSUME DriverInv, NEW t \in Threads, WorkerStep(t)
  PROVE  /\ opts' = opts
         /\ UNCHANGED driverVars
         /\ \A u \in Threads : Created(u)' <=> Created(u)
         /\ \A u \in Threads \ {t} :
              /\ kpc'[u] = kpc[u] /\ address'[u] = address[u] /\ iter'[u] = iter[u]
              /\ finished'[u] = finished[u] /\ res'[u] = res[u]
  <1> DEFINE lo == opt.pmem_start_address
             hi == pool_end
  <1> USE DEF DriverInv, DriverTypeOK, KernelTypeOK, Created
  <1>1. CASE Enter(t)
    BY <1>1 DEF WorkerStep, Enter, EnterOk, Die
  <1>2. CASE Operate(t, lo, hi)
    BY <1>2 DEF WorkerStep, Operate, InLoop, Die
  <1>3. CASE Tally(t)
    BY <1>3 DEF WorkerStep, Tally
  <1>4. CASE Finish(t)
    BY <1>4 DEF WorkerStep, Finish, LeftLoop, InLoop, Die
  <1> QED
    BY <1>1, <1>2, <1>3, <1>4 DEF WorkerStep, KernelStep

-------------------------------------------------------------------------------
(***************************************************************************)
(* The partition of the pool.                                              *)
(***************************************************************************)

\* Where the partition of thread i starts.
Start(i) == opt.pmem_start_address + i * partition_size

\* Every created thread has the part of the pool that its number says.
Laid ==
  \A t \in Threads : Created(t) =>
    /\ t < opt.num_thread
    /\ opts[t].start_addr = Start(t)
    /\ opts[t].end_addr = Start(t) + opt.data_amount

\* The partitions of the layout are large enough and do not overlap.
LEMMA PartitionFacts ==
  ASSUME DriverTypeOK, Laid, opt.pmem_size >= opt.num_thread * opt.data_amount,
         NEW t \in Threads, Created(t)
  PROVE  /\ t \in Nat /\ t < opt.num_thread
         /\ partition_size \in Nat
         /\ opt.data_amount \in Nat /\ opt.data_amount <= partition_size
         /\ opt.pmem_start_address \in Nat
         /\ t * partition_size \in Nat
         /\ t * partition_size + opt.data_amount <= opt.pmem_size
         /\ Region(t) = Start(t) .. Start(t) + opt.data_amount - 1
  <1> DEFINE n == opt.num_thread
             p == partition_size
             d == opt.data_amount
             z == opt.pmem_size
  <1>1. /\ opt \in benchmark_options
        /\ t \in Nat /\ t < n
        /\ opts[t].start_addr = Start(t) /\ opts[t].end_addr = Start(t) + d
    BY DEF DriverTypeOK, Laid, Threads
  <1>2. n \in Nat \ {0} /\ d \in Nat /\ z \in Nat /\ opt.pmem_start_address \in Nat
    BY <1>1 DEF benchmark_options
  <1>3. z >= n * d
    OBVIOUS
  <1>4. p = z \div n
    BY DEF partition_size
  <1> HIDE DEF n, p, d, z
  <1>5. p \in Nat /\ p >= d
    BY <1>2, <1>3, <1>4, DivFacts, DivLowerBound
  <1>6. n * p <= z
    <2>1. z = n * (z \div n) + (z % n) /\ z % n \in 0 .. n - 1
      BY <1>2, DivFacts
    <2>2. n * (z \div n) \in Nat /\ z % n \in Nat
      BY <1>2, <1>4, <1>5, <2>1
    <2> QED
      BY <1>2, <1>4, <2>1, <2>2
  <1>7. (t + 1) * p <= n * p
    BY <1>1, <1>2, <1>5, MulMono DEF n
  <1>8. (t + 1) * p = t * p + p /\ t * p \in Nat
    BY <1>1, <1>5
  <1>9. t * p + d <= z
    BY <1>2, <1>5, <1>6, <1>7, <1>8
  <1>10. Region(t) = Start(t) .. Start(t) + d - 1
    <2>2. Start(t) \in Nat
      BY <1>2, <1>8 DEF Start, p
    <2> QED
      BY <1>1, <1>2, <2>2 DEF Region
  <1> QED
    BY <1>1, <1>2, <1>5, <1>8, <1>9, <1>10 DEF n, p, d, z

LEMMA PartitionsApart ==
  ASSUME DriverTypeOK, Laid, opt.pmem_size >= opt.num_thread * opt.data_amount,
         NEW t \in Threads, NEW u \in Threads,
         Created(t), Created(u), t < u
  PROVE  Start(t) + opt.data_amount <= Start(u)
  <1> DEFINE p == partition_size
             st == opt.pmem_start_address
             d == opt.data_amount
  <1>1. /\ t \in Nat /\ u \in Nat /\ p \in Nat /\ d \in Nat /\ d <= p /\ st \in Nat
        /\ t * p \in Nat /\ u * p \in Nat
    BY PartitionFacts
  <1> HIDE DEF p, d
  <1>2. (t + 1) * p <= u * p
    BY <1>1, MulMono
  <1>3. (t + 1) * p = t * p + p
    BY <1>1
  <1>4. st + t * p + d <= st + u * p
    BY <1>1, <1>2, <1>3
  <1> QED
    BY <1>4 DEF Start, p, d

LEMMA LaidPartitions ==
  ASSUME DriverTypeOK, Laid, opt.pmem_size >= opt.num_thread * opt.data_amount
  PROVE  RegionsPartitionPool
  <1> SUFFICES ASSUME NEW t \in Threads, Created(t)
               PROVE  /\ Region(t) \subseteq Pool
                      /\ \A u \in Threads \ {t} : Created(u) => Region(t) \cap Region(u) = {}
    BY DEF RegionsPartitionPool
  <1>1. Region(t) \subseteq Pool
    <2>1. opt.pmem_size \in Nat
      BY DEF DriverTypeOK, benchmark_options
    <2> DEFINE at == t * partition_size
               st == opt.pmem_start_address
    <2>2. /\ at \in Nat /\ st \in Nat /\ opt.data_amount \in Nat
          /\ at + opt.data_amount <= opt.pmem_size
          /\ Region(t) = st + at .. st + at + opt.data_amount - 1
      BY PartitionFacts DEF Start
    <2> HIDE DEF at
    <2> QED
      BY <2>1, <2>2 DEF Pool, pool_end
  <1>2. ASSUME NEW u \in Threads \ {t}, Created(u)
        PROVE  Region(t) \cap Region(u) = {}
    <2>1. /\ Region(t) = Start(t) .. Start(t) + opt.data_amount - 1
          /\ Region(u) = Start(u) .. Start(u) + opt.data_amount - 1
          /\ opt.data_amount \in Nat
      BY <1>2, PartitionFacts
    <2>4. t * partition_size \in Nat /\ u * partition_size \in Nat
          /\ opt.pmem_start_address \in Nat
      BY <1>2, PartitionFacts
    <2>5. Start(t) \in Nat /\ Start(u) \in Nat
      BY <2>4 DEF Start
    <2>2. t < u \/ u < t
      BY <1>2 DEF Threads
    <2>3. \/ Start(t) + opt.data_amount <= Start(u)
          \/ Start(u) + opt.data_amount <= Start(t)
      BY <1>2, <2>2, PartitionsApart
    <2> QED
      BY <2>1, <2>3, <2>5
  <1> QED
    BY <1>1, <1>2

-------------------------------------------------------------------------------
(***************************************************************************)
(* Where the blocks lie.                                                   *)
(***************************************************************************)

\* A thread that starts below its end_addr stays on its grid below end_addr.
Placed ==
  \A t \in Threads :
    Entered(t) /\ FirstAddress(opts[t]) < opts[t].end_addr =>
      OnGrid(opts[t], address[t]) /\ address[t] < opts[t].end_addr

LEMMA PlacedWorker ==
  ASSUME DriverInv, Placed, NEW t \in Threads, WorkerStep(t),
         Entered(t)', FirstAddress(opts[t]) < opts[t].end_addr
  PROVE  OnGrid(opts[t], address'[t]) /\ address'[t] < opts[t].end_addr
  <1> DEFINE o == opts[t]
             lo == opt.pmem_start_address
             hi == pool_end
  <1> USE DEF DriverInv, DriverTypeOK, KernelTypeOK
  <1>1. CASE Enter(t)
    <2>1. CASE EnterOk(t)
      <3>1. o \in thread_options /\ o.align_size # 0 /\ address'[t] = FirstAddress(o)
        BY <1>1, <2>1 DEF Enter, EnterOk
      <3> QED
        BY <3>1, FirstOnGrid
    <2>2. CASE Die("SIGFPE")
      BY <1>1, <2>2 DEF Enter, Die, Entered
    <2> QED
      BY <1>1, <2>1, <2>2 DEF Enter
  <1>2. CASE Operate(t, lo, hi)
    <2>1. /\ o \in thread_options /\ o.align_size # 0 /\ address[t] \in Nat
          /\ OnGrid(o, address[t]) /\ address[t] < o.end_addr
      BY <1>2 DEF Operate, InLoop, Placed, Entered
    <2>2. address'[t] = address[t] \/ address'[t] = NextAddress(o, address[t])
      BY <1>2 DEF Operate, Die
    <2> QED
      BY <2>1, <2>2, NextOnGrid
  <1>3. CASE Tally(t)
    BY <1>3 DEF Tally, Placed, Entered
  <1>4. CASE Finish(t)
    BY <1>4 DEF Finish, LeftLoop, InLoop, Die, Placed, Entered
  <1> QED
    BY <1>1, <1>2, <1>3, <1>4 DEF WorkerStep, KernelStep

LEMMA PlacedSpans == DriverInv /\ Placed => SpansStayInRegion
  <1> SUFFICES ASSUME DriverInv, Placed,
                      NEW t \in Threads, Created(t), InLoop(t), Roomy(opts[t])
               PROVE  Span(t) \subseteq Region(t)
    BY DEF SpansStayInRegion
  <1> DEFINE o == opts[t]
             a == address[t]
  <1>1. /\ o \in thread_options /\ o.block_size # 0 /\ o.align_size # 0 /\ a \in Nat
        /\ Entered(t)
    BY DEF DriverInv, DriverTypeOK, KernelTypeOK, InLoop, Entered
  <1>2. FirstAddress(o) < o.end_addr
    BY DEF Roomy
  <1>3. OnGrid(o, a) /\ a < o.end_addr
    BY <1>1, <1>2 DEF Placed
  <1>4. a + o.block_size <= o.end_addr
    BY <1>1, <1>2, <1>3, BlockFitsOnGrid DEF Roomy
  <1>5. /\ o.start_addr \in Nat /\ o.end_addr \in Nat /\ o.block_size \in Nat
        /\ o.start_addr <= a
    <2>1. PICK k \in Nat : a = FirstAddress(o) + k * Step(o)
      BY <1>3 DEF OnGrid
    <2>2. FirstAddress(o) \in Nat /\ FirstAddress(o) >= o.start_addr /\ Step(o) \in Nat
      BY <1>1, FirstAddressFacts, StepFacts
    <2>3. k * Step(o) \in Nat
      BY <2>2
    <2> QED
      BY <1>1, <2>1, <2>2, <2>3 DEF thread_options
  <1> HIDE DEF o, a
  <1>6. a .. a + o.block_size - 1 \subseteq o.start_addr .. o.end_addr - 1
    BY <1>1, <1>4, <1>5
  <1> QED
    BY <1>6 DEF Span, Region, o, a

-------------------------------------------------------------------------------
(***************************************************************************)
(* Joining: what the main thread knows of the results when it prints the   *)
(* totals.                                                                 *)
(***************************************************************************)

\* Who has returned by the time the main thread is past a join.
Joined ==
  /\ mpc = "spawn" => mi <= MAX_THREAD
  /\ mpc = "spin" => mi = 0
  /\ mpc \in {"spin", "join", "stuck", "exit"} => opt.num_thread <= MAX_THREAD
  /\ mpc = "join" => \A t \in Threads : t < mi => kpc[t] \in {"done", "failed"}
  /\ mpc = "exit" => \A t \in Threads : t < opt.num_thread => kpc[t] \in {"done", "failed"}

\* The results that are final, and the totals, unless a thread is missing.
Reports == [t \in {u \in Threads : kpc[u] = "done"} |-> res[t]]
Shown   == IF AllThere THEN summary ELSE << >>

\* What a step of thread t does to them: nothing, or it delivers one more.
Moves(t) ==
  /\ kpc[t] \notin {"none", "failed", "done"}
  /\ \A u \in Threads \ {t} : res'[u] = res[u]
  /\ \/ \E pc \in {"loop", "tally", "stop"} : kpc' = [kpc EXCEPT ![t] = pc]
     \/ kpc' = [kpc EXCEPT ![t] = "done"] /\ res'[t] \in test_result

LEMMA WorkerMoves ==
  ASSUME DriverInv, DriverInv', NEW t \in Threads, WorkerStep(t)
  PROVE  Moves(t) \/ UNCHANGED <<kpc, res>>
  <1> DEFINE lo == opt.pmem_start_address
             hi == pool_end
  <1>1. \A u \in Threads \ {t} : res'[u] = res[u]
    BY WorkerFrame
  <1>2. res'[t] \in test_result
    BY DEF DriverInv, DriverTypeOK, KernelTypeOK
  <1>3. CASE Enter(t)
    BY <1>1, <1>3 DEF Enter, EnterOk, Die, Moves
  <1>4. CASE Operate(t, lo, hi)
    BY <1>1, <1>4 DEF Operate, InLoop, Die, Moves
  <1>5. CASE Tally(t)
    BY <1>1, <1>5 DEF Tally, Moves
  <1>6. CASE Finish(t)
    BY <1>1, <1>2, <1>6 DEF Finish, LeftLoop, Die, Moves
  <1> QED
    BY <1>3, <1>4, <1>5, <1>6 DEF WorkerStep, KernelStep

\* A thread that moves leaves the totals alone; if it delivers its result, it
\* is one of the team, it had not done so before, and nothing is printed yet.
LEMMA WorkerDelivers ==
  ASSUME DriverInv, Joined, NEW t \in Threads, Moves(t), UNCHANGED driverVars,
         t < opt.num_thread, summary # << >> => mpc = "exit"
  PROVE  /\ Joined'
         /\ Shown' = Shown
         /\ \/ Reports' = Reports
            \/ /\ t \notin DOMAIN Reports
               /\ DOMAIN Reports' = DOMAIN Reports \cup {t}
               /\ Reports'[t] \in test_result
               /\ \A x \in DOMAIN Reports : Reports'[x] = Reports[x]
               /\ Shown = << >>
  <1>1. UNCHANGED <<opt, mpc, mi, summary>>
    BY DEF driverVars
  <1>2. kpc[t] \notin {"none", "failed", "done"} /\ \A u \in Threads \ {t} : res'[u] = res[u]
    BY DEF Moves
  <1>3. /\ kpc \in [Threads -> KernelPCs]
        /\ kpc' = [kpc EXCEPT ![t] = kpc'[t]] /\ kpc'[t] # "failed"
    BY DEF DriverInv, DriverTypeOK, KernelTypeOK, Moves
  <1>4. Joined'
    BY <1>1, <1>2, <1>3 DEF Joined
  <1>5. AllThere' <=> AllThere
    BY <1>2, <1>3 DEF AllThere
  <1>6. Shown' = Shown
    BY <1>1, <1>5 DEF Shown
  <1>7. ASSUME NEW pc \in {"loop", "tally", "stop"}, kpc' = [kpc EXCEPT ![t] = pc]
        PROVE  Reports' = Reports
    <2>1. {u \in Threads : kpc'[u] = "done"} = {u \in Threads : kpc[u] = "done"}
      BY <1>2, <1>3, <1>7
    <2>2. \A u \in Threads : kpc[u] = "done" => res'[u] = res[u]
      BY <1>2
    <2> QED
      BY <2>1, <2>2 DEF Reports
  <1>8. ASSUME kpc' = [kpc EXCEPT ![t] = "done"], res'[t] \in test_result
        PROVE  /\ t \notin DOMAIN Reports
               /\ DOMAIN Reports' = DOMAIN Reports \cup {t}
               /\ Reports'[t] \in test_result
               /\ \A x \in DOMAIN Reports : Reports'[x] = Reports[x]
               /\ Shown = << >>
    <2>1. /\ DOMAIN Reports = {u \in Threads : kpc[u] = "done"}
          /\ DOMAIN Reports' = {u \in Threads : kpc'[u] = "done"}
      BY DEF Reports
    <2>2. t \notin DOMAIN Reports /\ DOMAIN Reports' = DOMAIN Reports \cup {t}
      BY <1>2, <1>3, <1>8, <2>1
    <2>3. Reports'[t] \in test_result
      BY <1>3, <1>8, <2>1, <2>2 DEF Reports
    <2>4. \A x \in DOMAIN Reports : Reports'[x] = Reports[x]
      BY <1>2, <2>1, <2>2 DEF Reports
    <2>5. summary = << >>
      BY <1>2 DEF Joined
    <2> QED
      BY <2>2, <2>3, <2>4, <2>5 DEF Shown
  <1> QED
    BY <1>4, <1>6, <1>7, <1>8 DEF Moves

\* The creation of a thread, or its failure, is no report.
LEMMA CreateReports ==
  ASSUME DriverInv, Joined, NEW o, Create(o), summary = << >>,
         \A t \in Threads : t >= mi => ~ Created(t)
  PROVE  Joined' /\ UNCHANGED <<Reports, Shown, opt>>
  <1>1. mpc = "spawn" /\ mi \in Nat /\ MAX_THREAD \in Nat
    BY KernelAssumption DEF Create, DriverInv, DriverTypeOK
  <1>2. CASE Die("SIGSEGV") /\ UNCHANGED driverVars
    BY <1>2 DEF Die, driverVars, Joined, Reports, Shown, AllThere
  <1>3. ASSUME mi < MAX_THREAD, NEW pc \in {"created", "failed"}, NEW r,
               kpc' = [kpc EXCEPT ![mi] = pc],
               res' = res \/ res' = [res EXCEPT ![mi] = r],
               mi' = mi + 1, UNCHANGED <<opt, mpc, summary>>
        PROVE  Joined' /\ UNCHANGED <<Reports, Shown, opt>>
    <2>1. mi \in Threads /\ ~ Created(mi)
      BY <1>1, <1>3 DEF Threads
    <2>2. kpc \in [Threads -> KernelPCs] /\ res \in [Threads -> test_result]
      BY DEF DriverInv, DriverTypeOK, KernelTypeOK
    <2>3. {u \in Threads : kpc'[u] = "done"} = {u \in Threads : kpc[u] = "done"}
      BY <1>3, <2>1, <2>2 DEF Created
    <2>4. \A u \in Threads : kpc[u] = "done" => res'[u] = res[u]
      BY <1>3, <2>1, <2>2 DEF Created
    <2>5. Reports' = Reports
      BY <2>3, <2>4 DEF Reports
    <2>6. Shown' = Shown
      BY <1>3 DEF Shown
    <2>7. Joined'
      BY <1>1, <1>3 DEF Joined
    <2> QED
      BY <1>3, <2>5, <2>6, <2>7
  <1> QED
    BY <1>2, <1>3 DEF Create

LEMMA AllCreatedReports ==
  ASSUME Joined, NEW pc \in {"spin", "join"}, AllCreated(pc)
  PROVE  Joined' /\ UNCHANGED <<Reports, Shown, opt>>
  <1>1. /\ mpc = "spawn" /\ mi = opt.num_thread /\ mpc' = pc /\ mi' = 0
        /\ UNCHANGED <<opt, summary, kpc, res>>
    BY DEF AllCreated, kernelVars
  <1>2. \A t \in Threads : ~ (t < 0)
    BY KernelAssumption DEF Threads
  <1> QED
    BY <1>1, <1>2 DEF Joined, Reports, Shown, AllThere

LEMMA JoinReports ==
  ASSUME DriverInv, Joined, Join
  PROVE  Joined' /\ UNCHANGED <<Reports, Shown, opt>>
  <1>1. mpc = "join" /\ mi \in Nat /\ \A t \in Threads : t \in Nat
    BY KernelAssumption DEF Join, DriverInv, DriverTypeOK, Threads
  <1>2. CASE Die("SIGSEGV") /\ UNCHANGED driverVars
    BY <1>2 DEF Die, driverVars, Joined, Reports, Shown, AllThere
  <1>3. CASE mpc' = "stuck" /\ UNCHANGED <<kernelVars, opt, mi, next_addr, summary>>
    BY <1>1, <1>3 DEF Joined, kernelVars, Reports, Shown, AllThere
  <1>4. CASE kpc[mi] \in {"done", "failed"} /\ mi' = mi + 1
             /\ UNCHANGED <<kernelVars, opt, mpc, next_addr, summary>>
    <2>1. UNCHANGED <<opt, mpc, summary, kpc, res>>
      BY <1>4 DEF kernelVars
    <2>2. \A t \in Threads : t < mi + 1 => t < mi \/ t = mi
      BY <1>1
    <2>3. Joined'
      BY <1>1, <1>4, <2>1, <2>2 DEF Joined
    <2> QED
      BY <2>1, <2>3 DEF Reports, Shown, AllThere
  <1> QED
    BY <1>2, <1>3, <1>4 DEF Join

\* The totals are printed of the results of the whole team.
LEMMA SummariseReports ==
  ASSUME DriverInv, Joined, NEW totals, Summarise(totals), summary = << >>,
         \A t \in Threads : Created(t) => t < opt.num_thread
  PROVE  /\ Joined' /\ UNCHANGED <<Reports, opt>>
         /\ ~ AllThere => Shown' = Shown
         /\ AllThere => /\ Shown = << >> /\ Shown' = <<totals>>
                        /\ DOMAIN Reports = 0 .. opt.num_thread - 1
                        /\ Reports = [t \in 0 .. opt.num_thread - 1 |-> res[t]]
                        /\ 0 .. opt.num_thread - 1 \subseteq Threads
  <1>1. /\ mpc = "join" /\ mi = opt.num_thread /\ mpc' = "exit" /\ summary' = <<totals>>
        /\ UNCHANGED <<opt, mi, kpc, res>>
    BY DEF Summarise, kernelVars
  <1>2. opt.num_thread \in Nat /\ MAX_THREAD \in Nat /\ opt.num_thread <= MAX_THREAD
    BY <1>1, KernelAssumption DEF DriverInv, DriverTypeOK, benchmark_options, Joined
  <1>3. Joined'
    BY <1>1 DEF Joined
  <1>4. Reports' = Reports /\ (AllThere' <=> AllThere)
    BY <1>1 DEF Reports, AllThere
  <1>5. 0 .. opt.num_thread - 1 \subseteq Threads
    BY <1>2 DEF Threads
  <1>6. ASSUME AllThere
        PROVE  {u \in Threads : kpc[u] = "done"} = 0 .. opt.num_thread - 1
    <2>1. ASSUME NEW t \in Threads
          PROVE  kpc[t] = "done" <=> t \in 0 .. opt.num_thread - 1
      <3>1. t < opt.num_thread => kpc[t] = "done"
        BY <1>1, <1>6 DEF Joined, AllThere
      <3>2. kpc[t] = "done" => t < opt.num_thread
        BY DEF Created
      <3>3. t < opt.num_thread <=> t \in 0 .. opt.num_thread - 1
        BY <1>2 DEF Threads
      <3> QED
        BY <3>1, <3>2, <3>3
    <2> QED
      BY <1>5, <2>1
  <1>7. AllThere => /\ DOMAIN Reports = 0 .. opt.num_thread - 1
                    /\ Reports = [t \in 0 .. opt.num_thread - 1 |-> res[t]]
    BY <1>6 DEF Reports
  <1> QED
    BY <1>1, <1>3, <1>4, <1>5, <1>7 DEF Shown
=============================================================================
