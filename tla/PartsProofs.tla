------------------------------- MODULE PartsProofs -------------------------------
(***************************************************************************)
(* Of the parts around the runs: the Timer is a stopwatch and the deadline *)
(* of the mixed run is never early, for every clock, every length of a     *)
(* second and every size_t; the latency emulation is never short, for      *)
(* every word, clock rate, delay and path over the processors; a run has   *)
(* the options of its command line, for every command line and every       *)
(* width; bound threads are apart, for every table and every machine; the  *)
(* sheets stand for their result files, for every directory and order.     *)
(***************************************************************************)
EXTENDS GlobalClock, Latency, Options, Affinity, Sheets,
        FiniteSetTheorems, WellFoundedInduction, TLAPS

\* Splitting a time into seconds and nanoseconds loses nothing.
LEMMA TimespecFacts ==
  ASSUME NEW nanos \in Nat
  PROVE  Timespec(nanos) \in timespec /\ Nanoseconds(Timespec(nanos)) = nanos
  <1>1. /\ nanos \div NSEC \in Int /\ nanos % NSEC \in Int
        /\ nanos = NSEC * (nanos \div NSEC) + (nanos % NSEC)
    BY TimerAssumption
  <1> QED
    BY <1>1, TimerAssumption DEF Timespec, timespec, Nanoseconds

\* The difference field by field is the difference of the times.
LEMMA DifferenceFacts ==
  ASSUME NEW e \in timespec, NEW s \in timespec
  PROVE  /\ Difference(e, s) \in Int
         /\ Difference(e, s) = Nanoseconds(e) - Nanoseconds(s)
  <1>1. /\ e.tv_sec \in Int /\ e.tv_nsec \in Int /\ s.tv_sec \in Int /\ s.tv_nsec \in Int
        /\ NSEC \in Int
    BY TimerAssumption DEF timespec
  <1> DEFINE a == e.tv_sec
             b == s.tv_sec
  <1>2. (a - b) * NSEC = a * NSEC - b * NSEC
    BY <1>1
  <1>3. (a - b) * NSEC \in Int /\ a * NSEC \in Int /\ b * NSEC \in Int
    BY <1>1
  <1> QED
    BY <1>1, <1>2, <1>3 DEF Difference, Nanoseconds

LEMMA SizeFacts ==
  ASSUME NEW n \in Int
  PROVE  Size(n) \in 0 .. SIZE_MOD - 1 /\ (n >= 0 => Size(n) <= n)
  BY TimerAssumption DEF Size

LEMMA TimerTypeInit == TimerInit => TimerTypeOK
  <1> SUFFICES ASSUME TimerInit PROVE TimerTypeOK
    OBVIOUS
  <1>1. 0 \in 0 .. SIZE_MOD - 1
    BY TimerAssumption
  <1>2. start \in timespec /\ end \in timespec /\ now \in timespec /\ clock \in Nat
    BY TimerAssumption DEF TimerInit, timespec
  <1> QED
    BY <1>1, <1>2 DEF TimerInit, TimerTypeOK

LEMMA TickType ==
  ASSUME TimerTypeOK, NEW nanos \in 1 .. MAX_CLOCK, Tick(nanos)
  PROVE  TimerTypeOK' /\ clock' > clock
  BY TimerAssumption DEF TimerTypeOK, Tick

LEMMA StartType ==
  ASSUME TimerTypeOK, Start
  PROVE  TimerTypeOK' /\ Nanoseconds(start') = clock
  BY TimespecFacts DEF TimerTypeOK, Start

LEMMA StopType ==
  ASSUME TimerTypeOK, Stop
  PROVE  TimerTypeOK' /\ elapsed' = Size(clock - Nanoseconds(start))
  <1>1. end' \in timespec /\ Nanoseconds(end') = clock
    BY TimespecFacts DEF TimerTypeOK, Stop
  <1>2. Difference(end', start) \in Int
        /\ Difference(end', start) = clock - Nanoseconds(start)
    BY <1>1, DifferenceFacts DEF TimerTypeOK
  <1> QED
    BY <1>1, <1>2, SizeFacts DEF TimerTypeOK, Stop

LEMMA AccumulateType ==
  ASSUME TimerTypeOK, Accumulate
  PROVE  TimerTypeOK' /\ elapsed' = Size(elapsed + clock - Nanoseconds(start))
  <1>1. end' \in timespec /\ Nanoseconds(end') = clock
    BY TimespecFacts DEF TimerTypeOK, Accumulate
  <1>2. Difference(end', start) \in Int
        /\ Difference(end', start) = clock - Nanoseconds(start)
    BY <1>1, DifferenceFacts DEF TimerTypeOK
  <1>3. Nanoseconds(start) \in Int
    <2>1. start.tv_sec \in Int /\ start.tv_nsec \in Int /\ NSEC \in Int
      BY TimerAssumption DEF TimerTypeOK, timespec
    <2> QED
      BY <2>1 DEF Nanoseconds
  <1>4. /\ elapsed \in Int /\ clock \in Int
        /\ elapsed + Difference(end', start) = elapsed + clock - Nanoseconds(start)
        /\ elapsed + Difference(end', start) \in Int
    BY <1>2, <1>3, TimerAssumption DEF TimerTypeOK
  <1> QED
    BY <1>1, <1>4, SizeFacts DEF TimerTypeOK, Accumulate

LEMMA NowType ==
  ASSUME TimerTypeOK, Now
  PROVE  TimerTypeOK'
  BY TimespecFacts DEF TimerTypeOK, Now

LEMMA TimerTypeStep == TimerTypeOK /\ [TimerNext]_timerVars => TimerTypeOK'
  <1> SUFFICES ASSUME TimerTypeOK, [TimerNext]_timerVars PROVE TimerTypeOK'
    OBVIOUS
  <1>1. CASE UNCHANGED timerVars
    BY <1>1 DEF timerVars, TimerTypeOK
  <1> QED
    BY <1>1, TickType, StartType, StopType, AccumulateType, NowType DEF TimerNext

\* The start of the Timer, and before the first Start nothing in particular.
LEMMA WatchInit == TimerInit => Watch!Init
  <1> SUFFICES ASSUME TimerInit PROVE Watch!Init
    OBVIOUS
  <1>1. start.tv_sec \in Int /\ start.tv_nsec \in Int /\ NSEC \in Int
    BY TimerAssumption DEF TimerInit
  <1>2. Nanoseconds(start) \in Int
    BY <1>1 DEF Nanoseconds
  <1> QED
    BY <1>2, TimerAssumption DEF TimerInit, Watch!Init

\* Every call is a step of the stopwatch, or none.
LEMMA WatchStep == TimerTypeOK /\ [TimerNext]_timerVars => [Watch!Next]_(Watch!stopwatchVars)
  <1> SUFFICES ASSUME TimerTypeOK, [TimerNext]_timerVars
               PROVE  Watch!Next \/ UNCHANGED Watch!stopwatchVars
    OBVIOUS
  <1>1. ASSUME NEW nanos \in 1 .. MAX_CLOCK, Tick(nanos) PROVE Watch!Next
    BY <1>1, TickType DEF Tick, Watch!Next, Watch!Pass
  <1>2. CASE Start
    BY <1>2, StartType DEF Start, Watch!Next, Watch!Begin
  <1>3. CASE Stop
    <2>1. elapsed' = (clock - Nanoseconds(start)) % SIZE_MOD /\ elapsed' \in 0 .. SIZE_MOD - 1
      BY <1>3, StopType DEF Size, TimerTypeOK
    <2> QED
      BY <1>3, <2>1 DEF Stop, TimerTypeOK, Watch!Next, Watch!Read, Watch!Noise
  <1>4. CASE Accumulate
    <2>1. /\ elapsed' = (elapsed + clock - Nanoseconds(start)) % SIZE_MOD
          /\ elapsed' \in 0 .. SIZE_MOD - 1
      BY <1>4, AccumulateType DEF Size, TimerTypeOK
    <2> QED
      BY <1>4, <2>1 DEF Accumulate, TimerTypeOK, Watch!Next, Watch!Add, Watch!Noise
  <1>5. CASE Now
    BY <1>5 DEF Now, Watch!stopwatchVars
  <1>6. CASE UNCHANGED timerVars
    BY <1>6 DEF timerVars, Watch!stopwatchVars
  <1> QED
    BY <1>1, <1>2, <1>3, <1>4, <1>5, <1>6 DEF TimerNext

\* The Timer class, called in any order over any clock, is a stopwatch.
THEOREM TimerIsStopwatch == TimerSpec => IsStopwatch
  BY TimerTypeInit, TimerTypeStep, WatchInit, WatchStep, PTL
  DEF TimerSpec, IsStopwatch, Watch!Spec

-------------------------------------------------------------------------------
\* While the loop polls, the start of the Timer is the time it was started.
ClockInv ==
  /\ ClockTypeOK
  /\ main_pc = "poll" => Nanoseconds(start) = begin
  /\ NeverEarly

\* Later is later: a step of arithmetic the main proof is better off without.
LEMMA LaterStill ==
  ASSUME NEW a \in Int, NEW b \in Int, NEW c \in Int, NEW r \in Int, c > a, a - b > r
  PROVE  c - b > r
  OBVIOUS

LEMMA ClockInvInit == ClockInit => ClockInv
  <1> SUFFICES ASSUME ClockInit PROVE ClockInv
    OBVIOUS
  <1>1. TimerTypeOK /\ clock \in Nat
    BY TimerTypeInit DEF ClockInit, TimerTypeOK
  <1>2. 0 \in Nat /\ 0 <= clock
    BY <1>1
  <1> QED
    BY <1>1, <1>2 DEF ClockInit, ClockInv, ClockTypeOK, NeverEarly

LEMMA ClockInvStep == ClockInv /\ [ClockNext]_clockVars => ClockInv'
  <1> SUFFICES ASSUME ClockInv, [ClockNext]_clockVars PROVE ClockInv'
    OBVIOUS
  <1>0. clock \in Nat /\ begin \in Nat /\ begin <= clock /\ TimerTypeOK
    BY DEF ClockInv, ClockTypeOK, TimerTypeOK
  <1>1. CASE StartClock
    <2>1. TimerTypeOK' /\ Nanoseconds(start') = clock /\ clock' = clock
      BY <1>0, <1>1, StartType DEF StartClock, Start
    <2> QED
      BY <1>0, <1>1, <2>1 DEF StartClock, ClockInv, ClockTypeOK, NeverEarly
  <1>2. CASE Poll
    <2>1. /\ TimerTypeOK' /\ elapsed' = Size(clock - begin) /\ UNCHANGED <<clock, start, begin>>
      BY <1>0, <1>2, StopType DEF Poll, Stop, ClockInv
    <2>2. elapsed' <= clock - begin /\ elapsed' \in Int
      BY <1>0, <2>1, SizeFacts
    <2>3. Nanoseconds(start)' = begin' /\ begin \in Nat /\ clock \in Nat
      BY <1>0, <1>2, <2>1 DEF Poll, ClockInv, Nanoseconds
    <2>4. CASE elapsed' > RUN /\ time_is_over' = TRUE /\ main_pc' = "join"
      <3>1. clock' - begin' > RUN
        BY <2>1, <2>2, <2>3, <2>4, GlobalClockAssumption
      <3> QED
        BY <1>0, <2>1, <2>3, <2>4, <3>1 DEF ClockInv, ClockTypeOK, NeverEarly
    <2>5. CASE UNCHANGED <<time_is_over, main_pc>>
      BY <1>0, <2>1, <2>3, <2>5 DEF ClockInv, ClockTypeOK, NeverEarly
    <2> QED
      BY <1>2, <2>4, <2>5 DEF Poll
  <1>3. CASE ClockPass
    <2>1. PICK nanos \in 1 .. MAX_CLOCK : Tick(nanos)
      BY <1>3 DEF ClockPass
    <2>2. TimerTypeOK' /\ clock' > clock /\ clock' \in Nat
      BY <1>0, <2>1, TickType DEF TimerTypeOK
    <2>3. UNCHANGED <<start, main_pc, time_is_over, begin>>
      BY <1>3, <2>1 DEF ClockPass, Tick
    <2>4. Nanoseconds(start)' = Nanoseconds(start)
      BY <2>3 DEF Nanoseconds
    <2>5. NeverEarly'
      <3>1. clock - begin > RUN => clock' - begin > RUN
        <4>1. RUN \in Int /\ clock \in Int /\ clock' \in Int /\ begin \in Int /\ clock' > clock
          BY <1>0, <2>2, GlobalClockAssumption
        <4> QED
          BY <4>1, LaterStill
      <3>2. time_is_over => clock - begin > RUN
        BY DEF ClockInv, NeverEarly
      <3> QED
        BY <2>3, <3>1, <3>2, Zenon DEF NeverEarly
    <2>6. begin' \in Nat /\ begin' <= clock'
      BY <1>0, <2>2, <2>3
    <2> QED
      BY <2>2, <2>3, <2>4, <2>5, <2>6 DEF ClockInv, ClockTypeOK
  <1>4. CASE UNCHANGED clockVars
    BY <1>4 DEF clockVars, timerVars, ClockInv, ClockTypeOK, TimerTypeOK, NeverEarly
  <1> QED
    BY <1>1, <1>2, <1>3, <1>4 DEF ClockNext, Joining

\* The mixed run is never cut short: the flag is raised more than run_seconds
\* after the last thread was created, whatever the clock shows.
THEOREM DeadlineNeverEarly == ClockSpec => []NeverEarly
  <1>1. ClockInv => NeverEarly
    BY DEF ClockInv
  <1> QED
    BY <1>1, ClockInvInit, ClockInvStep, PTL DEF ClockSpec

\* The timespecs stay in the range of the clock, the total in 64 bits, and the
\* main thread goes on to join the threads only after it has raised the flag.
THEOREM ClockTypeCorrect == ClockSpec => []ClockTypeOK
  <1>1. ClockInv => ClockTypeOK
    BY DEF ClockInv
  <1> QED
    BY <1>1, ClockInvInit, ClockInvStep, PTL DEF ClockSpec
-------------------------------------------------------------------------------
(***************************************************************************)
(* The latency emulation.                                                  *)
(***************************************************************************)

\* Whole words disappear from a remainder.
LEMMA ShiftMod ==
  ASSUME NEW w \in Nat \ {0}, NEW r \in 0 .. w - 1, NEW k \in Int
  PROVE  (r + w * k) % w = r
  OBVIOUS

LEMMA ModFacts ==
  ASSUME NEW n \in Int, NEW w \in Nat \ {0}
  PROVE  /\ n \div w \in Int
         /\ n % w \in 0 .. w - 1
         /\ n = w * (n \div w) + (n % w)
  OBVIOUS

\* The distance of two readings of the same counter, wherever it wraps, is
\* not more than what the counter has advanced.
LEMMA DistanceFacts ==
  ASSUME NEW a \in Nat, NEW d \in Nat
  PROVE  Minus((a + d) % WORD, a % WORD) <= d
  <1> DEFINE w == WORD
             q1 == (a + d) \div w
             q2 == a \div w
             q3 == d \div w
             r == d % w
             k == q2 + q3 - q1
  <1>1. w \in Nat \ {0} /\ w \in Int
    BY LatencyAssumption
  <1> HIDE DEF w
  <1>2. q1 \in Int /\ (a + d) % w = a + d - w * q1
    BY <1>1, ModFacts
  <1>3. q2 \in Int /\ a % w = a - w * q2
    BY <1>1, ModFacts
  <1>4. q3 \in Nat /\ r \in 0 .. w - 1 /\ d = w * q3 + r
    <2>1. q3 \in Nat
      BY <1>1
    <2> QED
      BY <1>1, <2>1, ModFacts
  <1> HIDE DEF q1, q2, q3, r
  <1>5. ((a + d) % w) - (a % w) = r + w * k
    <2>1. w * k = w * q2 + w * q3 - w * q1
      BY <1>1, <1>2, <1>3, <1>4
    <2>2. w * q1 \in Int /\ w * q2 \in Int /\ w * q3 \in Int
      BY <1>1, <1>2, <1>3, <1>4
    <2> QED
      BY <1>1, <1>2, <1>3, <1>4, <2>1, <2>2
  <1>6. k \in Int
    BY <1>2, <1>3, <1>4
  <1> HIDE DEF k
  <1>7. (r + w * k) % w = r
    BY <1>1, <1>4, <1>6, ShiftMod
  <1>8. r <= d
    <2>1. w * q3 \in Nat
      BY <1>1, <1>4
    <2> QED
      BY <1>4, <2>1
  <1>9. (((a + d) % w) - (a % w)) % w <= d
    BY <1>5, <1>7, <1>8
  <1> QED
    BY <1>9 DEF Minus, w

\* The conversion truncates, and loses less than a cycle.
LEMMA CyclesFacts ==
  ASSUME NEW n \in Delays, n > 0
  PROVE  /\ ns_to_cycles(MHZ, n) \in uint64_t
         /\ ns_to_cycles(MHZ, n) * KILO > n * MHZ - KILO
  <1> DEFINE x == n * MHZ
             q == x \div KILO
  <1>1. n \in Nat /\ KILO \in Nat \ {0} /\ MHZ \in Nat \ {0} /\ WORD \in Nat \ {0} /\ x < WORD
    BY LatencyAssumption
  <1>2. x \in Nat
    BY <1>1
  <1> HIDE DEF x
  <1>3. x % WORD = x
    BY <1>1, <1>2
  <1>4. q \in Int /\ x % KILO \in 0 .. KILO - 1 /\ x = KILO * q + (x % KILO)
    BY <1>1, <1>2, ModFacts
  <1>5. q \in Nat /\ q <= x
    BY <1>1, <1>2
  <1>6. q * KILO > x - KILO
    <2> HIDE DEF q
    <2>1. q * KILO = KILO * q /\ KILO * q \in Int
      BY <1>1, <1>4
    <2> QED
      BY <1>1, <1>2, <1>4, <2>1
  <1> QED
    BY <1>1, <1>2, <1>3, <1>5, <1>6 DEF ns_to_cycles, uint64_t, x

\* start_tsc and stop are readings taken when the history says, and the test that
\* ends the loop has compared them.
LatencyInv ==
  /\ TypeOK
  /\ ns \in Delays
  /\ pc \in {"convert", "read", "test"} =>
       ns > 0 /\ start_tsc = (Skew[home] + entered) % WORD
  /\ pc \in {"read", "test"} => cycles = ns_to_cycles(MHZ, ns)
  /\ pc = "test" =>
       \E d \in 0 .. cycle - entered : stop = (Skew[seen] + entered + d) % WORD
  /\ pc = "return" /\ ns > 0 /\ Skew[home] = Skew[seen] =>
       /\ cycles = ns_to_cycles(MHZ, ns)
       /\ cycles <= cycle - entered

LEMMA ReadingFacts ==
  ASSUME NEW p \in Processors, cycle \in Nat
  PROVE  asm_rdtsc(p) \in uint64_t /\ asm_rdtsc(p) = (Skew[p] + cycle) % WORD
  <1>1. Skew[p] + cycle \in Nat /\ WORD \in Nat \ {0}
    BY LatencyAssumption
  <1> QED
    BY <1>1 DEF asm_rdtsc, uint64_t

LEMMA LatencyInvInit == Init => LatencyInv
  <1> SUFFICES ASSUME Init PROVE LatencyInv
    OBVIOUS
  <1>1. 0 \in uint64_t /\ cycle \in Nat /\ ns \in Int
    BY LatencyAssumption DEF Init, uint64_t
  <1>2. TypeOK
    BY <1>1 DEF Init, TypeOK
  <1> QED
    BY <1>2 DEF Init, LatencyInv

LEMMA LatencyInvStep == LatencyInv /\ [Next]_vars => LatencyInv'
  <1> SUFFICES ASSUME LatencyInv, [Next]_vars PROVE LatencyInv'
    OBVIOUS
  <1> USE DEF LatencyInv, TypeOK
  <1>0. cycle \in Nat /\ entered \in Nat /\ entered <= cycle
    OBVIOUS
  <1>1. CASE Call
    <2>1. asm_rdtsc(cpu) \in uint64_t /\ asm_rdtsc(cpu) = (Skew[cpu] + cycle) % WORD
      BY <1>0, ReadingFacts
    <2> QED
      BY <1>0, <1>1, <2>1 DEF Call
  <1>2. CASE Convert
    <2>1. cycles' \in uint64_t
      BY <1>2, CyclesFacts DEF Convert
    <2> QED
      BY <1>2, <2>1 DEF Convert, history
  <1>3. CASE Read
    <2>1. asm_rdtsc(cpu) \in uint64_t /\ asm_rdtsc(cpu) = (Skew[cpu] + cycle) % WORD
      BY <1>0, ReadingFacts
    <2>2. Skew[cpu] \in Nat
      BY LatencyAssumption
    <2>3. \E d \in 0 .. cycle - entered : stop' = (Skew[cpu] + entered + d) % WORD
      <3> WITNESS cycle - entered \in 0 .. cycle - entered
      <3>1. Skew[cpu] + entered + (cycle - entered) = Skew[cpu] + cycle
        BY <1>0, <2>2
      <3> QED
        BY <1>3, <2>1, <3>1 DEF Read
    <2> QED
      BY <1>3, <2>1, <2>3 DEF Read
  <1>4. CASE Test
    <2>1. UNCHANGED <<cycle, cpu, ns, start_tsc, cycles, stop, entered, home, seen>> /\ pc = "test"
      BY <1>4 DEF Test, locals, history
    <2>2. CASE pc' = "read"
      BY <2>1, <2>2
    <2>3. CASE pc' = "return" /\ ~ (Minus(stop, start_tsc) < cycles)
      <3>1. ASSUME Skew[home] = Skew[seen] PROVE cycles <= cycle - entered
        <4>1. PICK d \in 0 .. cycle - entered : stop = (Skew[seen] + entered + d) % WORD
          BY <2>1
        <4>2. Skew[home] + entered \in Nat /\ d \in Nat
          BY <1>0, LatencyAssumption
        <4>3. Minus(stop, start_tsc) <= d
          BY <2>1, <3>1, <4>1, <4>2, DistanceFacts
        <4>4. Minus(stop, start_tsc) \in Int /\ cycles \in Int
          BY LatencyAssumption DEF Minus, uint64_t
        <4> QED
          BY <1>0, <2>3, <4>3, <4>4
      <3> QED
        BY <2>1, <2>3, <3>1
    <2> QED
      BY <1>4, <2>2, <2>3 DEF Test
  <1>5. CASE Pass
    <2>1. cycle' = cycle + 1 /\ UNCHANGED <<cpu, ns, start_tsc, cycles, stop, pc, entered, home, seen>>
      BY <1>5 DEF Pass, locals, history
    <2>2. 0 .. cycle - entered \subseteq 0 .. cycle' - entered
      BY <1>0, <2>1
    <2>3. ASSUME cycles \in Int, cycles <= cycle - entered PROVE cycles <= cycle' - entered
      BY <1>0, <2>1, <2>3
    <2>4. cycles \in Int
      BY LatencyAssumption DEF uint64_t
    <2> QED
      BY <1>0, <2>1, <2>2, <2>3, <2>4
  <1>6. CASE Migrate
    BY <1>6 DEF Migrate, locals, history
  <1>7. CASE UNCHANGED vars
    BY <1>7 DEF vars, locals, history
  <1> QED
    BY <1>1, <1>2, <1>3, <1>4, <1>5, <1>6, <1>7 DEF Next, Done

\* emulate_latency_ns never returns before its delay has passed.
THEOREM EmulationNeverShort == Spec => []NeverShort
  <1>1. LatencyInv => NeverShort
    <2> SUFFICES ASSUME LatencyInv, pc = "return", ns > 0, Skew[home] = Skew[seen]
                 PROVE  (cycle - entered) * KILO > ns * MHZ - KILO
      BY DEF NeverShort
    <2> DEFINE c == cycles
               p == cycle - entered
    <2>1. c * KILO > ns * MHZ - KILO /\ c \in Nat /\ c <= p /\ p \in Nat
      BY CyclesFacts DEF LatencyInv, TypeOK, uint64_t
    <2>2. KILO \in Nat /\ MHZ \in Nat /\ ns \in Int
      BY LatencyAssumption DEF LatencyInv
    <2> HIDE DEF c, p
    <2>3. c * KILO <= p * KILO
      BY <2>1, <2>2
    <2>4. ns * MHZ \in Int /\ c * KILO \in Int /\ p * KILO \in Int
      BY <2>1, <2>2
    <2> QED
      BY <2>1, <2>2, <2>3, <2>4 DEF p
  <1> QED
    BY <1>1, LatencyInvInit, LatencyInvStep, PTL DEF Spec

\* Every local keeps within its 64 bits, and the emulation was entered in the past.
THEOREM LatencyTypeCorrect == Spec => []TypeOK
  <1>1. LatencyInv => TypeOK
    BY DEF LatencyInv
  <1> QED
    BY <1>1, LatencyInvInit, LatencyInvStep, PTL DEF Spec

LEMMA TimesAtLeast ==
  ASSUME NEW a \in Int, a >= 1, NEW m \in Nat
  PROVE  a * m >= m
  <1> DEFINE k == a - 1
  <1>1. k \in Nat
    OBVIOUS
  <1> HIDE DEF k
  <1>2. k * m \in Nat /\ (k + 1) * m = k * m + m
    BY <1>1
  <1> QED
    BY <1>2 DEF k

\* The cycles of a delay do not exceed it.
LEMMA CyclesWithin ==
  ASSUME NEW n \in Delays, n > 0
  PROVE  ns_to_cycles(MHZ, n) * KILO <= n * MHZ
  <1> DEFINE x == n * MHZ
             q == x \div KILO
  <1>1. x \in Nat /\ x < WORD /\ WORD \in Nat \ {0} /\ KILO \in Nat \ {0}
    BY LatencyAssumption
  <1> HIDE DEF x
  <1>2. q \in Int /\ x % KILO \in 0 .. KILO - 1 /\ x = KILO * q + (x % KILO)
    BY <1>1, ModFacts
  <1>3. x % WORD = x
    BY <1>1
  <1>4. ns_to_cycles(MHZ, n) = q
    BY <1>3 DEF ns_to_cycles, x
  <1> HIDE DEF q
  <1>5. q * KILO = KILO * q /\ KILO * q \in Int
    BY <1>1, <1>2
  <1> QED
    BY <1>1, <1>2, <1>4, <1>5 DEF x

\* Converted to cycles and back, a delay loses at most the rounding of one cycle.
THEOREM ConversionsRoundTrip == Spec => []RoundTrip
  <1>1. LatencyInv => RoundTrip
    <2> SUFFICES ASSUME LatencyInv, pc \in {"read", "test"}, cycles * KILO < WORD
                 PROVE  /\ cycles_to_ns(MHZ, cycles) <= ns
                        /\ (ns - cycles_to_ns(MHZ, cycles)) * MHZ < MHZ + KILO
      BY DEF RoundTrip
    <2> DEFINE y == cycles * KILO
               b == y \div MHZ
               c == y % MHZ
    <2>1. /\ WORD \in Nat \ {0} /\ KILO \in Nat \ {0} /\ MHZ \in Nat \ {0}
          /\ ns \in Delays /\ ns \in Int /\ ns > 0
          /\ cycles \in Nat /\ cycles = ns_to_cycles(MHZ, ns)
      BY LatencyAssumption DEF LatencyInv, TypeOK, uint64_t
    <2>2. y <= ns * MHZ /\ y > ns * MHZ - KILO
      BY <2>1, CyclesFacts, CyclesWithin
    <2>3. y \in Nat
      BY <2>1
    <2>4. y % WORD = y
      BY <2>1, <2>3
    <2> HIDE DEF y
    <2>5. b \in Int /\ c \in 0 .. MHZ - 1 /\ y = MHZ * b + c
      <3>1. y \in Int /\ MHZ \in Nat \ {0}
        BY <2>1, <2>3
      <3> QED
        BY <3>1, ModFacts
    <2>6. cycles_to_ns(MHZ, cycles) = b
      BY <2>4 DEF cycles_to_ns, y
    <2> HIDE DEF b, c
    <2>7. (ns - b) * MHZ = ns * MHZ - MHZ * b /\ MHZ * b \in Int /\ ns * MHZ \in Int
      BY <2>1, <2>5
    <2>8. (ns - b) * MHZ < MHZ + KILO
      BY <2>1, <2>2, <2>3, <2>5, <2>7
    <2>9. b <= ns
      <3>1. SUFFICES ASSUME b - ns >= 1 PROVE FALSE
        BY <2>1, <2>5
      <3>2. (b - ns) * MHZ >= MHZ
        BY <2>1, <2>5, <3>1, TimesAtLeast
      <3>3. (b - ns) * MHZ = MHZ * b - ns * MHZ
        BY <2>1, <2>5
      <3> QED
        BY <2>1, <2>2, <2>3, <2>5, <2>7, <3>2, <3>3
    <2> QED
      BY <2>6, <2>8, <2>9
  <1> QED
    BY <1>1, LatencyInvInit, LatencyInvStep, PTL DEF Spec
-------------------------------------------------------------------------------
\* The arguments, and the fields they are assigned to.
Keys == NumberKeys \cup NameKeys

LEMMA KeyFacts ==
  /\ NumberKeys \cap NameKeys = {} /\ "junk" \notin Keys
  /\ NumberKeys \subseteq DOMAIN Defaults /\ NameKeys = DOMAIN DefaultNames
  /\ "num_thread" \in IntKeys /\ "data_amount" \in NumberKeys
  /\ {"type", "pmem_size", "flush"} \cap NumberKeys = {}
  /\ {"type", "pmem_size", "flush"} \subseteq DOMAIN Defaults
  /\ IntKeys \cap FlagKeys = {} /\ "data_amount" \notin IntKeys \cup FlagKeys
  /\ Defaults["num_thread"] = 1 /\ Defaults["data_amount"] = DATA_AMOUNT
  /\ Defaults["flush"] = "clflushopt" /\ DefaultNames["flush"] = "clflushopt"
  /\ \A k \in FlagKeys : Defaults[k] \in {0, 1}
  /\ \A k \in IntKeys : Defaults[k] = Unset \/ Defaults[k] \in Int
  <1> USE OptionsAssumption DEF Keys, NumberKeys, NameKeys, IntKeys, SizeKeys, FlagKeys
  <1>1. /\ NumberKeys \cap NameKeys = {} /\ "junk" \notin Keys
        /\ "num_thread" \in IntKeys /\ "data_amount" \in NumberKeys
        /\ {"type", "pmem_size", "flush"} \cap NumberKeys = {}
        /\ IntKeys \cap FlagKeys = {} /\ "data_amount" \notin IntKeys \cup FlagKeys
    OBVIOUS
  <1>2. /\ NumberKeys \subseteq DOMAIN Defaults /\ NameKeys = DOMAIN DefaultNames
        /\ {"type", "pmem_size", "flush"} \subseteq DOMAIN Defaults
    BY DEF Defaults, DefaultNames
  <1>3. /\ Defaults["num_thread"] = 1 /\ Defaults["data_amount"] = DATA_AMOUNT
        /\ Defaults["flush"] = "clflushopt" /\ DefaultNames["flush"] = "clflushopt"
    BY DEF Defaults, DefaultNames
  <1>4. \A k \in FlagKeys : Defaults[k] \in {0, 1}
    BY DEF Defaults
  <1>5. \A k \in IntKeys : Defaults[k] = Unset \/ Defaults[k] \in Int
    BY DEF Defaults
  <1> QED
    BY <1>1, <1>2, <1>3, <1>4, <1>5

LEMMA ArgumentFacts ==
  ASSUME NEW a \in Arguments
  PROVE  /\ a.key \in Keys \cup {"junk"}
         /\ a.key \in NumberKeys => a.n \in 0 .. SIZE_T_MOD - 1
  <1>1. CASE a \in [key : NumberKeys, n : 0 .. SIZE_T_MOD - 1]
    BY <1>1 DEF Keys
  <1>2. CASE a \in [key : NameKeys, name : STRING]
    BY <1>2, KeyFacts DEF Keys
  <1>3. CASE a \in [key : {"junk"}]
    BY <1>3, KeyFacts DEF Keys
  <1> QED
    BY <1>1, <1>2, <1>3 DEF Arguments

LEMMA ConvertedTypes ==
  ASSUME NEW a \in Arguments, a.key \in NumberKeys
  PROVE  /\ a.key \in IntKeys => Converted(a) \in Int
         /\ a.key \in FlagKeys => Converted(a) \in {0, 1}
         /\ a.key = "data_amount" => Converted(a) \in 0 .. SIZE_T_MOD - 1
  <1>1. a.n \in Nat
    BY ArgumentFacts, OptionsAssumption
  <1>2. Int32(a.n) \in Int
    BY <1>1, OptionsAssumption DEF Int32
  <1>3. (a.n * MB) % SIZE_T_MOD \in 0 .. SIZE_T_MOD - 1
    <2>1. a.n * MB \in Int
      BY <1>1, OptionsAssumption
    <2> QED
      BY <2>1, OptionsAssumption
  <1>4. a.key \in IntKeys => Converted(a) \in Int
    BY <1>2 DEF Converted
  <1>5. a.key \in FlagKeys => Converted(a) \in {0, 1}
    BY KeyFacts DEF Converted
  <1>6. a.key = "data_amount" => Converted(a) \in 0 .. SIZE_T_MOD - 1
    BY <1>3, KeyFacts DEF Converted
  <1> QED
    BY <1>4, <1>5, <1>6

-------------------------------------------------------------------------------
\* Of the arguments dealt with so far, j is the last one with key k, or there
\* is none.
IsLatest(k, j) ==
  /\ j < arg /\ argv[j].key = k
  /\ \A l \in 1 .. Len(argv) : l < arg /\ argv[l].key = k => l <= j

NoneYet(k) == \A j \in 1 .. Len(argv) : j < arg => argv[j].key # k

\* Each field has what the last of its arguments assigned to it.
ParsedSoFar ==
  /\ \A k \in NumberKeys :
       \/ NoneYet(k) /\ options[k] = Defaults[k]
       \/ \E j \in 1 .. Len(argv) : IsLatest(k, j) /\ options[k] = Converted(argv[j])
  /\ \A k \in NameKeys :
       \/ NoneYet(k) /\ names[k] = DefaultNames[k]
       \/ \E j \in 1 .. Len(argv) : IsLatest(k, j) /\ names[k] = argv[j].name

OptionTypes ==
  /\ build \in Builds
  /\ argv \in CommandLines
  /\ arg \in 1 .. Len(argv) + 1
  /\ opt_pc \in {"parse", "flush", "map", "check", "dispatch", "exit"}
  /\ fault \in {"none", "SIGABRT"}
  /\ DOMAIN options = DOMAIN Defaults
  /\ DOMAIN names = NameKeys

\* All arguments have been dealt with, and none but the program's name was junk.
AllAccepted ==
  /\ arg = Len(argv) + 1
  /\ \A j \in 2 .. Len(argv) : argv[j].key # "junk"

Started == runs # << >>

Phases ==
  /\ opt_pc \in {"parse", "flush"} => options.flush = "clflushopt"
  /\ opt_pc = "parse" => \A j \in 2 .. Len(argv) : j < arg => argv[j].key # "junk"
  /\ opt_pc \in {"flush", "map", "check", "dispatch"} => AllAccepted
  /\ opt_pc \in {"parse", "flush", "map"} => pool = << >>
  /\ opt_pc \in {"check", "dispatch"} => pool # << >>
  /\ opt_pc # "exit" => runs = << >>
  /\ fault # "none" => opt_pc \in {"map", "check"}
  /\ pool # << >> => AllAccepted
  /\ Started => pool # << >>

\* What the pool check has let through.
Checked ==
  options.pmem_size >= (options.num_thread * options.data_amount) % SIZE_T_MOD

SizeNoted ==
  /\ (pool # << >> /\ build # "mmap") => options.pmem_size = pool[1].length
  /\ (opt_pc = "dispatch" \/ Started) => Checked

FlushChosen ==
  options.flush = IF names.flush \in {"clflush", "clwb", "clflushopt"}
                  THEN names.flush ELSE "clflushopt"

RunStarted ==
  /\ opt_pc \in {"map", "check", "dispatch"} \/ Started => FlushChosen
  /\ Started => /\ names.benchmark \in DOMAIN RunTypes
                /\ runs = <<RunTypes[names.benchmark]>>

OptionsIInv == OptionTypes /\ ParsedSoFar /\ Phases /\ SizeNoted /\ RunStarted

LEMMA ArgvFacts ==
  ASSUME OptionTypes
  PROVE  /\ argv \in Seq(Arguments) /\ Len(argv) \in Nat
         /\ \A j \in 1 .. Len(argv) : argv[j] \in Arguments
  BY OptionsAssumption DEF OptionTypes

LEMMA OptionsInitInv == OptionsInit => OptionsIInv
  <1> SUFFICES ASSUME OptionsInit PROVE OptionsIInv
    OBVIOUS
  <1>1. argv \in Seq(Arguments) /\ Len(argv) \in Nat
    BY OptionsAssumption DEF OptionsInit
  <1>2. OptionTypes
    BY <1>1, KeyFacts DEF OptionsInit, OptionTypes
  <1>3. ParsedSoFar
    BY <1>1 DEF OptionsInit, ParsedSoFar, NoneYet
  <1>4. Phases /\ SizeNoted /\ RunStarted
    BY <1>1, KeyFacts DEF OptionsInit, Phases, SizeNoted, RunStarted, Started
  <1> QED
    BY <1>2, <1>3, <1>4 DEF OptionsIInv

\* The argument dealt with is now the latest of its key.
LEMMA LatestAfter ==
  ASSUME OptionTypes, arg <= Len(argv), arg' = arg + 1, argv' = argv,
         NEW n \in 1 .. Len(argv), n = arg
  PROVE  IsLatest(argv[n].key, n)'
  <1>1. arg \in 1 .. Len(argv) /\ Len(argv) \in Nat
    BY ArgvFacts DEF OptionTypes
  <1>2. \A l \in 1 .. Len(argv) : l < arg + 1 => l <= arg
    BY <1>1
  <1> QED
    BY <1>1, <1>2 DEF IsLatest

\* The other keys keep theirs.
LEMMA OthersKept ==
  ASSUME OptionTypes, arg <= Len(argv), arg' = arg + 1, argv' = argv,
         NEW k, argv[arg].key # k
  PROVE  /\ NoneYet(k) => NoneYet(k)'
         /\ \A j \in 1 .. Len(argv) : IsLatest(k, j) => IsLatest(k, j)'
  <1>1. arg \in 1 .. Len(argv) /\ Len(argv) \in Nat
    BY ArgvFacts DEF OptionTypes
  <1>2. \A l \in 1 .. Len(argv) : l < arg + 1 <=> l < arg \/ l = arg
    BY <1>1
  <1>3. NoneYet(k) => NoneYet(k)'
    BY <1>1, <1>2 DEF NoneYet
  <1>4. ASSUME NEW j \in 1 .. Len(argv), IsLatest(k, j)
        PROVE  IsLatest(k, j)'
    BY <1>1, <1>2, <1>4 DEF IsLatest
  <1> QED
    BY <1>3, <1>4

LEMMA ParseInv == OptionsIInv /\ Parse => OptionsIInv'
  <1> SUFFICES ASSUME OptionsIInv, Parse PROVE OptionsIInv'
    OBVIOUS
  <1> DEFINE a == argv[arg]
  <1>1. /\ OptionTypes /\ ParsedSoFar /\ Phases /\ opt_pc = "parse" /\ fault = "none"
        /\ arg <= Len(argv) /\ arg' = arg + 1 /\ argv' = argv /\ build' = build
        /\ pool' = pool /\ fault' = fault /\ runs' = runs
    BY DEF OptionsIInv, Parse, Alive
  <1>2. /\ arg \in 1 .. Len(argv) /\ Len(argv) \in Nat /\ a \in Arguments
        /\ arg' \in 1 .. Len(argv) + 1
    BY <1>1, ArgvFacts DEF OptionTypes
  <1>3. pool = << >> /\ runs = << >> /\ options.flush = "clflushopt"
    BY <1>1 DEF Phases
  <1>4. ASSUME a.key # "junk", UNCHANGED opt_pc PROVE Phases' <=> options'.flush = "clflushopt"
    <2>1. \A j \in 2 .. Len(argv) : j < arg + 1 => argv[j].key # "junk"
      BY <1>1, <1>2, <1>4 DEF Phases
    <2> QED
      BY <1>1, <1>3, <1>4, <2>1 DEF Phases, Started
  <1>5. ASSUME UNCHANGED opt_pc \/ opt_pc' = "exit" PROVE SizeNoted' /\ RunStarted'
    BY <1>1, <1>3, <1>5 DEF SizeNoted, RunStarted, Started
  <1>6. ASSUME a.key \in NumberKeys,
               options' = [options EXCEPT ![a.key] = Converted(a)],
               UNCHANGED <<names, opt_pc>>
        PROVE  OptionsIInv'
    <2>1. /\ options'[a.key] = Converted(a) /\ DOMAIN options' = DOMAIN options
          /\ \A k \in DOMAIN Defaults : k # a.key => options'[k] = options[k]
      BY <1>1, <1>6, KeyFacts DEF OptionTypes
    <2>2. OptionTypes'
      BY <1>1, <1>2, <1>6, <2>1 DEF OptionTypes
    <2>3. ParsedSoFar'
      <3>1. ASSUME NEW k \in NumberKeys
            PROVE  \/ NoneYet(k)' /\ options'[k] = Defaults[k]
                   \/ \E j \in 1 .. Len(argv) :
                        IsLatest(k, j)' /\ options'[k] = Converted(argv[j])
        <4>1. CASE k = a.key
          BY <1>1, <1>2, <2>1, <4>1, LatestAfter
        <4>2. CASE k # a.key
          BY <1>1, <1>2, <2>1, <4>2, KeyFacts, OthersKept DEF ParsedSoFar
        <4> QED
          BY <4>1, <4>2
      <3>2. ASSUME NEW k \in NameKeys
            PROVE  \/ NoneYet(k)' /\ names'[k] = DefaultNames[k]
                   \/ \E j \in 1 .. Len(argv) :
                        IsLatest(k, j)' /\ names'[k] = argv[j].name
        <4>1. k # a.key
          BY <1>6, KeyFacts
        <4> QED
          BY <1>1, <1>6, <4>1, OthersKept DEF ParsedSoFar
      <3>3. \A x : Converted(x)' = Converted(x)
        BY DEF Converted, Int32
      <3> QED
        BY <1>1, <3>1, <3>2 DEF ParsedSoFar
    <2>4. options'.flush = "clflushopt" /\ a.key # "junk"
      BY <1>3, <1>6, <2>1, KeyFacts DEF Keys
    <2> QED
      BY <1>4, <1>5, <1>6, <2>2, <2>3, <2>4 DEF OptionsIInv
  <1>7. ASSUME a.key \in NameKeys, names' = [names EXCEPT ![a.key] = a.name],
               UNCHANGED <<options, opt_pc>>
        PROVE  OptionsIInv'
    <2>1. /\ names'[a.key] = a.name /\ DOMAIN names' = DOMAIN names
          /\ \A k \in NameKeys : k # a.key => names'[k] = names[k]
      BY <1>1, <1>7 DEF OptionTypes
    <2>2. OptionTypes'
      BY <1>1, <1>2, <1>7, <2>1 DEF OptionTypes
    <2>3. ParsedSoFar'
      <3>1. ASSUME NEW k \in NumberKeys
            PROVE  \/ NoneYet(k)' /\ options'[k] = Defaults[k]
                   \/ \E j \in 1 .. Len(argv) :
                        IsLatest(k, j)' /\ options'[k] = Converted(argv[j])
        <4>1. k # a.key
          BY <1>7, KeyFacts
        <4> QED
          BY <1>1, <1>7, <4>1, OthersKept DEF ParsedSoFar
      <3>2. ASSUME NEW k \in NameKeys
            PROVE  \/ NoneYet(k)' /\ names'[k] = DefaultNames[k]
                   \/ \E j \in 1 .. Len(argv) :
                        IsLatest(k, j)' /\ names'[k] = argv[j].name
        <4>1. CASE k = a.key
          BY <1>1, <1>2, <2>1, <4>1, LatestAfter
        <4>2. CASE k # a.key
          BY <1>1, <1>2, <2>1, <4>2, OthersKept DEF ParsedSoFar
        <4> QED
          BY <4>1, <4>2
      <3> QED
        BY <1>1, <3>1, <3>2 DEF ParsedSoFar
    <2>4. options'.flush = "clflushopt" /\ a.key # "junk"
      BY <1>3, <1>7, KeyFacts DEF Keys
    <2> QED
      BY <1>4, <1>5, <1>7, <2>2, <2>3, <2>4 DEF OptionsIInv
  <1>8. ASSUME a.key = "junk", opt_pc' = IF arg > 1 THEN "exit" ELSE opt_pc,
               UNCHANGED <<options, names>>
        PROVE  OptionsIInv'
    <2>1. OptionTypes'
      BY <1>1, <1>2, <1>8 DEF OptionTypes
    <2>2. ParsedSoFar'
      <3>1. \A k \in Keys : k # a.key
        BY <1>8, KeyFacts
      <3>2. ASSUME NEW k \in NumberKeys
            PROVE  \/ NoneYet(k)' /\ options'[k] = Defaults[k]
                   \/ \E j \in 1 .. Len(argv) :
                        IsLatest(k, j)' /\ options'[k] = Converted(argv[j])
        BY <1>1, <1>8, <3>1, OthersKept DEF ParsedSoFar, Keys
      <3>3. ASSUME NEW k \in NameKeys
            PROVE  \/ NoneYet(k)' /\ names'[k] = DefaultNames[k]
                   \/ \E j \in 1 .. Len(argv) :
                        IsLatest(k, j)' /\ names'[k] = argv[j].name
        BY <1>1, <1>8, <3>1, OthersKept DEF ParsedSoFar, Keys
      <3> QED
        BY <1>1, <3>2, <3>3 DEF ParsedSoFar
    <2>3. Phases'
      <3>1. CASE arg > 1
        <4>1. opt_pc' = "exit"
          BY <1>8, <3>1
        <4> QED
          BY <1>1, <1>3, <4>1 DEF Phases, Started
      <3>2. CASE arg = 1
        <4>1. opt_pc' = "parse" /\ \A j \in 2 .. Len(argv) : ~ (j < arg + 1)
          BY <1>1, <1>2, <1>8, <3>2
        <4> QED
          BY <1>1, <1>3, <1>8, <4>1 DEF Phases, Started
      <3> QED
        BY <1>2, <3>1, <3>2
    <2> QED
      BY <1>5, <1>8, <2>1, <2>2, <2>3 DEF OptionsIInv
  <1> QED
    BY <1>6, <1>7, <1>8 DEF Parse

\* What follows the loop over argv assigns no field of an argument.
LEMMA KeepsParsed ==
  ASSUME ParsedSoFar, UNCHANGED <<build, argv, arg, names>>,
         \A k \in NumberKeys : options'[k] = options[k]
  PROVE  ParsedSoFar'
  BY DEF ParsedSoFar, NoneYet, IsLatest, Converted, Int32

LEMMA EndParseInv == OptionsIInv /\ EndParse => OptionsIInv'
  <1> SUFFICES ASSUME OptionsIInv, EndParse PROVE OptionsIInv'
    OBVIOUS
  <1>1. /\ opt_pc = "parse" /\ opt_pc' = "flush" /\ arg > Len(argv)
        /\ UNCHANGED <<build, argv, arg, options, names, pool, fault, runs>>
    BY DEF EndParse
  <1>2. OptionTypes' /\ ParsedSoFar'
    BY <1>1, KeepsParsed DEF OptionsIInv, OptionTypes
  <1>3. arg = Len(argv) + 1
    BY <1>1, ArgvFacts DEF OptionsIInv, OptionTypes
  <1>4. AllAccepted'
    BY <1>1, <1>3, ArgvFacts DEF OptionsIInv, AllAccepted, Phases
  <1>5. Phases'
    BY <1>1, <1>4 DEF OptionsIInv, Phases, Started
  <1>6. SizeNoted' /\ RunStarted'
    BY <1>1, <1>5 DEF OptionsIInv, Phases, SizeNoted, RunStarted, Started
  <1> QED
    BY <1>2, <1>5, <1>6 DEF OptionsIInv

LEMMA ChooseFlushInv == OptionsIInv /\ ChooseFlush => OptionsIInv'
  <1> SUFFICES ASSUME OptionsIInv, ChooseFlush PROVE OptionsIInv'
    OBVIOUS
  <1>1. /\ opt_pc = "flush" /\ opt_pc' = "map" /\ fault = "none"
        /\ UNCHANGED <<build, argv, arg, names, pool, fault, runs>>
    BY DEF ChooseFlush, Alive
  <1>2. /\ DOMAIN options' = DOMAIN options
        /\ \A k \in DOMAIN options : k # "flush" => options'[k] = options[k]
        /\ FlushChosen'
    BY <1>1, KeyFacts DEF ChooseFlush, OptionsIInv, OptionTypes, FlushChosen, Phases
  <1>3. OptionTypes' /\ ParsedSoFar'
    BY <1>1, <1>2, KeyFacts, KeepsParsed DEF OptionsIInv, OptionTypes
  <1>4. Phases'
    BY <1>1 DEF OptionsIInv, Phases, AllAccepted, Started
  <1>5. SizeNoted' /\ RunStarted'
    BY <1>1, <1>2, <1>4 DEF OptionsIInv, Phases, SizeNoted, RunStarted, Started
  <1> QED
    BY <1>3, <1>4, <1>5 DEF OptionsIInv

LEMMA MapPoolInv == OptionsIInv /\ MapPool => OptionsIInv'
  <1> SUFFICES ASSUME OptionsIInv, MapPool PROVE OptionsIInv'
    OBVIOUS
  <1>1. /\ opt_pc = "map" /\ fault = "none" /\ UNCHANGED <<build, argv, arg, names, runs>>
        /\ runs = << >> /\ AllAccepted /\ FlushChosen
    BY DEF MapPool, Alive, OptionsIInv, Phases, RunStarted
  <1>2. PICK len \in Mappings, a \in Addresses :
          \/ /\ pool' = <<[address |-> Mapped(len, a).address,
                         length |-> Mapped(len, a).length]>>
             /\ options' = [options EXCEPT !.pmem_size = Mapped(len, a).size]
             /\ opt_pc' = "check"
             /\ UNCHANGED fault
          \/ fault' = "SIGABRT" /\ UNCHANGED <<pool, options, opt_pc>>
    BY DEF MapPool
  <1>3. /\ DOMAIN options' = DOMAIN options
        /\ \A k \in DOMAIN options : k # "pmem_size" => options'[k] = options[k]
    BY <1>2
  <1>4. OptionTypes' /\ ParsedSoFar'
    BY <1>1, <1>2, <1>3, KeyFacts, KeepsParsed DEF OptionsIInv, OptionTypes
  <1>5. AllAccepted' /\ FlushChosen'
    BY <1>1, <1>3, KeyFacts DEF AllAccepted, FlushChosen, OptionsIInv, OptionTypes
  <1>6. CASE fault' = "SIGABRT" /\ UNCHANGED <<pool, options, opt_pc>>
    BY <1>1, <1>4, <1>5, <1>6 DEF OptionsIInv, Phases, SizeNoted, RunStarted, Started
  <1>7. ASSUME pool' = <<[address |-> Mapped(len, a).address,
                           length |-> Mapped(len, a).length]>>,
               options' = [options EXCEPT !.pmem_size = Mapped(len, a).size],
               opt_pc' = "check", UNCHANGED fault
        PROVE  OptionsIInv'
    <2>1. Phases' /\ RunStarted'
      BY <1>1, <1>5, <1>7 DEF Phases, RunStarted, Started
    <2>2. build # "mmap" => Mapped(len, a).size = Mapped(len, a).length
      <3>1. build \in {"pmdk", "mmap", "dram"}
        BY OptionsAssumption DEF OptionsIInv, OptionTypes
      <3> QED
        BY <3>1 DEF Mapped
    <2>3. /\ options'.pmem_size = Mapped(len, a).size
          /\ pool'[1].length = Mapped(len, a).length
      BY <1>7, KeyFacts DEF OptionsIInv, OptionTypes
    <2>4. SizeNoted'
      BY <1>1, <1>7, <2>2, <2>3 DEF SizeNoted, Started
    <2> QED
      BY <1>4, <2>1, <2>4 DEF OptionsIInv
  <1> QED
    BY <1>2, <1>6, <1>7

LEMMA CheckSizeInv == OptionsIInv /\ CheckSize => OptionsIInv'
  <1> SUFFICES ASSUME OptionsIInv, CheckSize PROVE OptionsIInv'
    OBVIOUS
  <1>1. /\ opt_pc = "check" /\ fault = "none"
        /\ UNCHANGED <<build, argv, arg, options, names, pool, runs>>
        /\ \/ Checked /\ opt_pc' = "dispatch" /\ UNCHANGED fault
           \/ fault' = "SIGABRT" /\ UNCHANGED opt_pc
    BY DEF CheckSize, Alive, Checked
  <1>2. OptionTypes' /\ ParsedSoFar'
    BY <1>1, KeepsParsed DEF OptionsIInv, OptionTypes
  <1>3. AllAccepted' = AllAccepted /\ FlushChosen' = FlushChosen /\ Checked' = Checked
    BY <1>1 DEF AllAccepted, FlushChosen, Checked
  <1>4. Phases'
    BY <1>1, <1>3 DEF OptionsIInv, Phases, Started
  <1>5. SizeNoted' /\ RunStarted'
    BY <1>1, <1>3 DEF OptionsIInv, SizeNoted, RunStarted, Started, Phases
  <1> QED
    BY <1>2, <1>4, <1>5 DEF OptionsIInv

LEMMA DispatchInv == OptionsIInv /\ Dispatch => OptionsIInv'
  <1> SUFFICES ASSUME OptionsIInv, Dispatch PROVE OptionsIInv'
    OBVIOUS
  <1>1. /\ opt_pc = "dispatch" /\ opt_pc' = "exit" /\ fault = "none" /\ runs = << >>
        /\ UNCHANGED <<build, argv, arg, names, pool, fault>>
    BY DEF Dispatch, Alive, OptionsIInv, Phases
  <1>2. \/ /\ names.benchmark \in DOMAIN RunTypes
           /\ runs' = <<RunTypes[names.benchmark]>>
           /\ options' = [options EXCEPT !.type = RunTypes[names.benchmark]]
        \/ UNCHANGED <<options, runs>>
    BY <1>1 DEF Dispatch
  <1>3. /\ DOMAIN options' = DOMAIN options
        /\ \A k \in DOMAIN options : k # "type" => options'[k] = options[k]
    BY <1>2
  <1>4. OptionTypes' /\ ParsedSoFar'
    BY <1>1, <1>3, KeyFacts, KeepsParsed DEF OptionsIInv, OptionTypes
  <1>5. AllAccepted' /\ FlushChosen' /\ Checked'
    <2>1. /\ options'["flush"] = options["flush"]
          /\ options'["pmem_size"] = options["pmem_size"]
          /\ options'["num_thread"] = options["num_thread"]
          /\ options'["data_amount"] = options["data_amount"]
      BY <1>3, KeyFacts DEF OptionsIInv, OptionTypes, NumberKeys
    <2> QED
      BY <1>1, <2>1 DEF OptionsIInv, Phases, AllAccepted, RunStarted, FlushChosen, SizeNoted,
                        Checked
  <1>6. Phases'
    BY <1>1, <1>5 DEF OptionsIInv, Phases, Started
  <1>7. SizeNoted' /\ RunStarted'
    BY <1>1, <1>2, <1>3, <1>5, KeyFacts DEF OptionsIInv, OptionTypes, SizeNoted, RunStarted, Started
  <1> QED
    BY <1>4, <1>6, <1>7 DEF OptionsIInv

LEMMA OptionsStep == OptionsIInv /\ [OptionsNext]_optionsVars => OptionsIInv'
  <1> SUFFICES ASSUME OptionsIInv, [OptionsNext]_optionsVars PROVE OptionsIInv'
    OBVIOUS
  <1>1. CASE UNCHANGED optionsVars
    <2>1. UNCHANGED <<build, argv, arg, options, names, opt_pc, pool, fault, runs>>
      BY <1>1 DEF optionsVars
    <2>2. OptionTypes' /\ ParsedSoFar'
      BY <2>1, KeepsParsed DEF OptionsIInv, OptionTypes
    <2>3. Phases' /\ SizeNoted' /\ RunStarted'
      BY <2>1 DEF OptionsIInv, Phases, SizeNoted, RunStarted, Started, AllAccepted,
                  Checked, FlushChosen
    <2> QED
      BY <2>2, <2>3 DEF OptionsIInv
  <1> QED
    BY <1>1, ParseInv, EndParseInv, ChooseFlushInv, MapPoolInv, CheckSizeInv, DispatchInv
    DEF OptionsNext, Ended

\* After the loop over argv the latest argument of a key is its last one.
LEMMA LastOfFacts ==
  ASSUME OptionTypes, arg = Len(argv) + 1, NEW k
  PROVE  /\ NoneYet(k) => LastOf(k) = 0
         /\ \A j \in 1 .. Len(argv) : IsLatest(k, j) => LastOf(k) = j
  <1> DEFINE at == {j \in 1 .. Len(argv) : argv[j].key = k}
  <1>1. Len(argv) \in Nat /\ \A j \in 1 .. Len(argv) : j < arg
    BY ArgvFacts
  <1>2. NoneYet(k) => at = {}
    BY <1>1 DEF NoneYet
  <1>3. ASSUME NEW j \in 1 .. Len(argv), IsLatest(k, j) PROVE LastOf(k) = j
    <2>1. j \in at /\ \A l \in at : l <= j
      BY <1>1, <1>3 DEF IsLatest
    <2>2. \A m \in at : (\A l \in at : l <= m) => m = j
      BY <2>1
    <2>3. (CHOOSE m \in at : \A l \in at : l <= m) = j
      BY <2>1, <2>2
    <2> QED
      BY <2>1, <2>3 DEF LastOf
  <1> QED
    BY <1>2, <1>3 DEF LastOf

LEMMA OptionsIInvTypes == OptionsIInv => OptionsTypeOK
  <1> SUFFICES ASSUME OptionsIInv PROVE OptionsTypeOK
    OBVIOUS
  <1> USE DEF OptionsIInv
  <1>1. ASSUME NEW k \in NumberKeys
        PROVE  \/ options[k] = Defaults[k]
               \/ \E j \in 1 .. Len(argv) : /\ argv[j] \in Arguments /\ argv[j].key = k
                                            /\ options[k] = Converted(argv[j])
    BY ArgvFacts DEF ParsedSoFar, IsLatest
  <1>2. \A k \in IntKeys : options[k] = Unset \/ options[k] \in Int
    BY <1>1, KeyFacts, ConvertedTypes DEF NumberKeys
  <1>3. \A k \in FlagKeys : options[k] \in {0, 1}
    BY <1>1, KeyFacts, ConvertedTypes DEF NumberKeys
  <1>4. options["data_amount"] \in 0 .. SIZE_T_MOD - 1
    BY <1>1, KeyFacts, ConvertedTypes, OptionsAssumption
  <1>5. Len(runs) <= 1
    <2>1. Len(<< >>) <= 1 /\ \A x : Len(<<x>>) <= 1
      OBVIOUS
    <2> QED
      BY <2>1 DEF RunStarted, Started
  <1> QED
    BY <1>2, <1>3, <1>4, <1>5 DEF OptionTypes, OptionsTypeOK

LEMMA OptionsAsAsked == OptionsIInv => RunsAsAsked
  <1> SUFFICES ASSUME OptionsIInv, runs # << >> PROVE RunsAsAsked
    BY DEF RunsAsAsked
  <1>1. /\ OptionTypes /\ ParsedSoFar /\ AllAccepted /\ arg = Len(argv) + 1 /\ FlushChosen
        /\ runs = <<RunTypes[names.benchmark]>>
    BY DEF OptionsIInv, Phases, RunStarted, Started, AllAccepted
  <1>2. \A k \in NumberKeys :
          options[k] = IF Asked(k) THEN Converted(argv[LastOf(k)]) ELSE Defaults[k]
    <2> TAKE k \in NumberKeys
    <2>1. CASE NoneYet(k) /\ options[k] = Defaults[k]
      BY <1>1, <2>1, LastOfFacts DEF Asked
    <2>2. ASSUME NEW j \in 1 .. Len(argv), IsLatest(k, j), options[k] = Converted(argv[j])
          PROVE  Asked(k) /\ options[k] = Converted(argv[LastOf(k)])
      BY <1>1, <2>2, LastOfFacts DEF Asked
    <2> QED
      BY <1>1, <2>1, <2>2 DEF ParsedSoFar
  <1>3. ASSUME NEW k \in NameKeys
        PROVE  /\ Asked(k) => names[k] = argv[LastOf(k)].name
               /\ ~ Asked(k) => names[k] = DefaultNames[k]
    <2>1. CASE NoneYet(k) /\ names[k] = DefaultNames[k]
      BY <1>1, <2>1, LastOfFacts DEF Asked
    <2>2. ASSUME NEW j \in 1 .. Len(argv), IsLatest(k, j), names[k] = argv[j].name
          PROVE  Asked(k) /\ names[k] = argv[LastOf(k)].name
      BY <1>1, <2>2, LastOfFacts DEF Asked
    <2> QED
      BY <1>1, <2>1, <2>2 DEF ParsedSoFar
  <1>4. "flush" \in NameKeys /\ "benchmark" \in NameKeys
    BY DEF NameKeys
  <1>5. options.flush = IF Asked("flush") /\ argv[LastOf("flush")].name = "clwb" THEN "clwb"
                        ELSE IF Asked("flush") /\ argv[LastOf("flush")].name = "clflush"
                        THEN "clflush" ELSE "clflushopt"
    <2>1. CASE Asked("flush")
      <3>1. names["flush"] = argv[LastOf("flush")].name
        BY <1>3, <1>4, <2>1
      <3> QED
        BY <1>1, <2>1, <3>1 DEF FlushChosen
    <2>2. CASE ~ Asked("flush")
      <3>1. names["flush"] = "clflushopt"
        BY <1>3, <1>4, <2>2, KeyFacts
      <3> QED
        BY <1>1, <2>2, <3>1 DEF FlushChosen
    <2> QED
      BY <2>1, <2>2
  <1>6. Asked("benchmark") => runs[1] = RunTypes[argv[LastOf("benchmark")].name]
    BY <1>1, <1>3, <1>4
  <1> QED
    BY <1>2, <1>5, <1>6 DEF RunsAsAsked

LEMMA OptionsRejected == OptionsIInv => RejectedTouchesNothing
  BY DEF OptionsIInv, OptionTypes, Phases, AllAccepted, Started, RejectedTouchesNothing, Alive

\* In range the number of threads is not negative and the product is as it is.
LEMMA OptionsPool == OptionsIInv => PoolHoldsData
  <1> SUFFICES ASSUME OptionsIInv, runs # << >>, InRange, Backed
               PROVE  options.num_thread * options.data_amount <= pool[1].length
    BY DEF PoolHoldsData
  <1> DEFINE n == options.num_thread
             d == options.data_amount
  <1>1. /\ OptionTypes /\ ParsedSoFar /\ arg = Len(argv) + 1
        /\ options.pmem_size >= (n * d) % SIZE_T_MOD
        /\ options.pmem_size = pool[1].length
    BY DEF OptionsIInv, Phases, Started, SizeNoted, Checked, AllAccepted, Backed
  <1>2. d \in Nat
    BY OptionsIInvTypes, OptionsAssumption DEF OptionsTypeOK
  <1>3. n \in Nat
    <2>1. CASE NoneYet("num_thread") /\ n = Defaults["num_thread"]
      BY <2>1, KeyFacts
    <2>2. ASSUME NEW j \in 1 .. Len(argv), IsLatest("num_thread", j), n = Converted(argv[j])
          PROVE  n \in Nat
      <3>1. LastOf("num_thread") = j /\ Asked("num_thread")
        BY <1>1, <2>2, LastOfFacts DEF Asked
      <3>2. argv[j] \in Arguments /\ argv[j].key = "num_thread"
        BY <1>1, <2>2, ArgvFacts DEF IsLatest
      <3>3. argv[j].n \in Nat
        BY <3>2, ArgumentFacts, KeyFacts, OptionsAssumption DEF NumberKeys
      <3>4. 2 * argv[j].n < INT_MOD
        BY <3>1, KeyFacts DEF InRange
      <3>5. n = Int32(argv[j].n)
        BY <2>2, <3>2, KeyFacts DEF Converted
      <3>6. argv[j].n % INT_MOD \in 0 .. INT_MOD - 1 /\ INT_MOD \in Nat
        BY <3>3, OptionsAssumption
      <3>7. argv[j].n % INT_MOD = argv[j].n
        BY <3>3, <3>4, OptionsAssumption
      <3> QED
        BY <3>3, <3>4, <3>5, <3>7 DEF Int32
    <2>3. "num_thread" \in NumberKeys
      BY DEF NumberKeys, IntKeys
    <2> QED
      BY <1>1, <2>1, <2>2, <2>3 DEF ParsedSoFar
  <1> HIDE DEF n, d
  <1>4. n * d \in Nat
    BY <1>2, <1>3
  <1>5. n * d < SIZE_T_MOD
    BY DEF InRange, n, d
  <1>6. (n * d) % SIZE_T_MOD = n * d
    BY <1>4, <1>5, OptionsAssumption
  <1> QED
    BY <1>1, <1>6 DEF n, d

\* A run has of every option the last value that the command line gives it, or
\* its default; a rejected command line touches nothing; and a pool that passes
\* the check holds the data of its threads if no number wraps and an mmap, where
\* the pool is one, is backed by its file.
THEOREM RunsGetTheirOptions == OptionsSpec => []OptionsInv
  <1>1. OptionsIInv => OptionsInv
    BY OptionsIInvTypes, OptionsAsAsked, OptionsRejected, OptionsPool DEF OptionsInv
  <1> QED
    BY <1>1, OptionsInitInv, OptionsStep, PTL DEF OptionsSpec
-------------------------------------------------------------------------------
\* The table of processors.
LEMMA TableFacts ==
  /\ ROW \in Nat /\ ROW > 0
  /\ Len(numa_bind) \in Nat /\ Len(numa_bind) > 0
  /\ TABLE \in Nat /\ TABLE > 0
  <1>1. 1 \in DOMAIN numa_bind /\ Len(numa_bind) \in Nat /\ Len(numa_bind) > 0
    BY AffinityAssumption
  <1>2. numa_bind[1] \in Seq(Nat)
    BY <1>1, AffinityAssumption
  <1>3. ROW \in Nat /\ ROW > 0
    BY <1>2, AffinityAssumption DEF ROW
  <1> QED
    BY <1>1, <1>3 DEF TABLE

\* A quotient is known by the bounds of its remainder.
LEMMA QuotientOfSum ==
  ASSUME NEW b \in Nat, b > 0, NEW r \in {0, 1}, NEW t \in Nat
  PROVE  (r * b + t) \div b = r + (t \div b)
  <1>1. /\ t \div b \in Nat /\ t % b \in 0 .. b - 1
        /\ t = b * (t \div b) + (t % b)
    OBVIOUS
  <1>2. CASE r = 0
    BY <1>1, <1>2
  <1>3. CASE r = 1
    <2> DEFINE q == t \div b
               m == t % b
               n == (b + t) \div b
    <2>1. /\ n \in Nat /\ (b + t) % b \in 0 .. b - 1
          /\ b + t = b * n + ((b + t) % b)
      OBVIOUS
    <2>2. q \in Nat /\ m \in 0 .. b - 1 /\ t = b * q + m
      BY <1>1
    <2> HIDE DEF q, m, n
    <2>3. b * (q + 1) = b * q + b
      BY <2>2
    <2>4. b * n - b * (q + 1) < b /\ b * (q + 1) - b * n < b
      BY <2>1, <2>2, <2>3
    <2>5. b * n - b * (q + 1) = b * (n - (q + 1)) /\ b * (q + 1) - b * n = b * ((q + 1) - n)
      BY <2>1, <2>2
    <2>6. n = q + 1
      <3>1. n - (q + 1) \in Int
        BY <2>1, <2>2
      <3>2. ASSUME NEW d \in Int, b * d < b PROVE d < 1
        BY <3>2
      <3>3. n - (q + 1) < 1 /\ (q + 1) - n < 1
        BY <2>1, <2>2, <2>4, <2>5, <3>1, <3>2
      <3> QED
        BY <2>1, <2>2, <3>3
    <2>7. (1 * b + t) \div b = n
      BY DEF n
    <2> QED
      BY <1>3, <2>6, <2>7 DEF q
  <1> QED
    BY <1>2, <1>3

\* Past the end of a row lies the next one.
LEMMA EntryInNode ==
  ASSUME NEW r \in {0, 1}, NEW t \in Nat
  PROVE  Entry(r * ROW + t) \in Node(r + (t \div ROW))
  <1> DEFINE k == r * ROW + t
  <1>1. k \in Nat /\ k % ROW \in 0 .. ROW - 1 /\ t \div ROW \in Nat
    BY TableFacts
  <1>2. k \div ROW = r + (t \div ROW)
    BY TableFacts, QuotientOfSum
  <1>3. 1 + (k % ROW) \in 1 .. ROW
    BY <1>1, TableFacts
  <1>4. 1 + (k \div ROW) = (r + (t \div ROW)) + 1
    BY <1>1, <1>2
  <1> QED
    BY <1>3, <1>4 DEF Entry, Node

\* What a worker that reads inside the table asks for.
Wanted(t) == IF program = "ssd" THEN t ELSE Entry(numa * ROW + t)

BindingTypes ==
  /\ program \in Programs
  /\ numa \in {0, 1}
  /\ team \in Nat
  /\ created \in 0 .. team
  /\ mask \in [{Main} \cup Ids -> SUBSET Online]
  /\ tried \subseteq {Main} \cup 0 .. created - 1
  /\ bound \subseteq tried

\* The main thread binds itself when all threads have inherited its mask.
MainIsLast == Main \in tried => program = "mixed" /\ created = team

\* Bound threads run on the one processor they asked for, the others where the
\* program was started.
BoundToOne ==
  /\ Main \in bound => mask[Main] = {Entry(0)}
  /\ \A t \in bound \ {Main} : InTable(t) => mask[t] = {Wanted(t)}
  /\ \A t \in {Main} \cup Ids :
       /\ mask[t] # {}
       /\ t \notin bound => mask[t] = Online

AffinityIInv == BindingTypes /\ MainIsLast /\ BoundToOne

LEMMA AffinityInitInv == AffinityInit => AffinityIInv
  <1> SUFFICES ASSUME AffinityInit PROVE AffinityIInv
    OBVIOUS
  <1>1. team \in Nat
    BY AffinityAssumption DEF AffinityInit
  <1> QED
    BY <1>1, AffinityAssumption
    DEF AffinityInit, AffinityIInv, BindingTypes, MainIsLast, BoundToOne

LEMMA CreateInv == AffinityIInv /\ Create => AffinityIInv'
  <1> SUFFICES ASSUME AffinityIInv, Create PROVE AffinityIInv'
    OBVIOUS
  <1> USE DEF AffinityIInv, BindingTypes, Create
  <1>1. created \in Ids /\ created # Main /\ created \notin tried /\ created \notin bound
    BY DEF Ids, Main
  <1>2. Main \notin tried /\ Main \notin bound /\ mask[Main] = Online
    BY DEF MainIsLast, BoundToOne
  <1>3. mask' = mask
    BY <1>1, <1>2 DEF BoundToOne
  <1>4. Ids' = Ids /\ \A t : InTable(t)' = InTable(t) /\ Wanted(t)' = Wanted(t)
    BY DEF Ids, InTable, Wanted
  <1>5. BindingTypes' /\ MainIsLast'
    <2>1. tried \subseteq {Main} \cup 0 .. (created + 1) - 1 /\ created + 1 \in 0 .. team
      OBVIOUS
    <2>2. BindingTypes'
      BY <1>3, <1>4, <2>1
    <2>3. MainIsLast'
      BY <1>2 DEF MainIsLast
    <2> QED
      BY <2>2, <2>3
  <1>6. BoundToOne'
    BY <1>3, <1>4 DEF BoundToOne
  <1> QED
    BY <1>5, <1>6

\* A thread asks for a processor: none, if it is not one of the machine's.
LEMMA SetAffinityInv ==
  ASSUME AffinityIInv, NEW t \in {Main} \cup Ids, NEW c, SetAffinity(t, c),
         UNCHANGED <<program, numa, team, created>>, t \notin tried,
         t # Main => t < created,
         t = Main => program = "mixed" /\ created = team /\ c = Entry(0),
         t # Main /\ InTable(t) => c = Wanted(t)
  PROVE  AffinityIInv'
  <1> USE DEF AffinityIInv, BindingTypes
  <1> DEFINE wanted == {c} \cap 0 .. CPU_SETSIZE - 1 \cap Online
  <1>1. t \notin bound /\ tried' = tried \cup {t} /\ t \in {Main} \cup 0 .. created - 1
    BY DEF SetAffinity, Ids
  <1>2. Ids' = Ids /\ \A u : InTable(u)' = InTable(u) /\ Wanted(u)' = Wanted(u)
    BY DEF Ids, InTable, Wanted
  <1>3. MainIsLast'
    BY <1>1 DEF MainIsLast
  <1>4. CASE wanted # {}
    <2>1. /\ wanted = {c} /\ wanted \subseteq Online
          /\ mask' = [mask EXCEPT ![t] = wanted] /\ bound' = bound \cup {t}
      BY <1>4 DEF SetAffinity
    <2>2. mask'[t] = {c} /\ \A u \in {Main} \cup Ids : u # t => mask'[u] = mask[u]
      BY <2>1
    <2>3. BindingTypes'
      BY <1>1, <1>2, <2>1
    <2>4. bound \subseteq {Main} \cup Ids
      BY DEF Ids
    <2>5. BoundToOne'
      BY <1>2, <2>1, <2>2, <2>4 DEF BoundToOne
    <2> QED
      BY <1>3, <2>3, <2>5
  <1>5. CASE wanted = {}
    <2>1. mask' = mask /\ bound' = bound
      BY <1>5 DEF SetAffinity
    <2> QED
      BY <1>1, <1>2, <1>3, <2>1 DEF BoundToOne
  <1> QED
    BY <1>4, <1>5

LEMMA AffinityStep == AffinityIInv /\ [AffinityNext]_affinityVars => AffinityIInv'
  <1> SUFFICES ASSUME AffinityIInv, [AffinityNext]_affinityVars PROVE AffinityIInv'
    OBVIOUS
  <1>1. CASE Create
    BY <1>1, CreateInv
  <1>2. ASSUME NEW t \in Ids, BindWorker(t) PROVE AffinityIInv'
    <2>1. t \in Nat /\ t # Main /\ t < created /\ t \notin tried
      BY <1>2 DEF Ids, Main, BindWorker, AffinityIInv, BindingTypes
    <2>2. PICK c \in Cores(t) : SetAffinity(t, c)
      BY <1>2 DEF BindWorker
    <2>3. InTable(t) => c = Wanted(t)
      BY <2>1, <2>2 DEF InTable, Wanted, Cores, Entries
    <2>4. UNCHANGED <<program, numa, team, created>>
      BY <1>2 DEF BindWorker
    <2> QED
      BY <2>1, <2>2, <2>3, <2>4, SetAffinityInv
  <1>3. CASE BindMain
    <2>1. PICK c \in Cores(Main) : SetAffinity(Main, c)
      BY <1>3 DEF BindMain
    <2>2. 0 * ROW + 0 = 0
      BY TableFacts
    <2>3. c = Entry(0)
      BY <2>1, <2>2, TableFacts DEF Cores, Entries
    <2>4. /\ UNCHANGED <<program, numa, team, created>> /\ Main \notin tried
          /\ program = "mixed" /\ created = team
      BY <1>3 DEF BindMain
    <2> QED
      BY <2>1, <2>3, <2>4, SetAffinityInv
  <1>4. CASE UNCHANGED affinityVars
    BY <1>4 DEF affinityVars, AffinityIInv, BindingTypes, MainIsLast, BoundToOne,
                Ids, InTable, Wanted
  <1> QED
    BY <1>1, <1>2, <1>3, <1>4 DEF AffinityNext, Measuring

\* Different threads want different processors.
LEMMA WantedApart ==
  ASSUME AffinityIInv, NEW t \in Ids, NEW u \in Ids, InTable(t), InTable(u),
         Wanted(t) = Wanted(u)
  PROVE  t = u
  <1>1. t \in Nat /\ u \in Nat /\ numa \in {0, 1}
    BY DEF Ids, AffinityIInv, BindingTypes
  <1>2. CASE program = "ssd"
    BY <1>2 DEF Wanted
  <1>3. CASE program # "ssd"
    <2>1. numa * ROW + t \in 0 .. TABLE - 1 /\ numa * ROW + u \in 0 .. TABLE - 1
      BY <1>1, <1>3, TableFacts DEF InTable
    <2>2. numa * ROW + t = numa * ROW + u
      BY <1>3, <2>1, TableIsInjective DEF Wanted
    <2> QED
      BY <1>1, <2>2, TableFacts
  <1> QED
    BY <1>2, <1>3

LEMMA AffinityIInvImplies == AffinityIInv => BindingInv
  <1> SUFFICES ASSUME AffinityIInv PROVE BindingInv
    OBVIOUS
  <1>1. \A t \in bound \ {Main} : t \in Ids /\ t \in Nat
    BY DEF AffinityIInv, BindingTypes, Ids
  <1>2. AffinityTypeOK
    BY DEF AffinityIInv, BindingTypes, BoundToOne, AffinityTypeOK
  <1>3. WorkersApart
    BY <1>1, WantedApart DEF WorkersApart, AffinityIInv, BoundToOne
  <1>4. OnNode
    <2> SUFFICES ASSUME NEW t \in bound \ {Main}, program # "ssd", InTable(t)
                 PROVE  mask[t] \subseteq Node(numa + (t \div ROW))
      BY DEF OnNode
    <2>1. mask[t] = {Entry(numa * ROW + t)}
      BY DEF AffinityIInv, BoundToOne, Wanted
    <2>2. numa \in {0, 1}
      BY DEF AffinityIInv, BindingTypes
    <2> QED
      BY <1>1, <2>1, <2>2, EntryInNode
  <1>5. ClockDisturbsThreadZeroOnly
    <2> SUFFICES ASSUME Main \in bound, NEW t \in bound \ {Main}, InTable(t),
                        mask[t] \cap mask[Main] # {}
                 PROVE  numa = 0 /\ t = 0
      BY DEF ClockDisturbsThreadZeroOnly
    <2>1. program # "ssd" /\ mask[Main] = {Entry(0)}
      BY DEF AffinityIInv, BindingTypes, MainIsLast, BoundToOne
    <2>2. mask[t] = {Entry(numa * ROW + t)}
      BY <2>1 DEF AffinityIInv, BoundToOne, Wanted
    <2>3. numa \in {0, 1} /\ t \in Nat
      BY <1>1 DEF AffinityIInv, BindingTypes
    <2>4. numa * ROW + t \in 0 .. TABLE - 1 /\ 0 \in 0 .. TABLE - 1
      BY <2>1, <2>3, TableFacts DEF InTable
    <2>5. Entry(numa * ROW + t) = Entry(0)
      BY <2>1, <2>2
    <2>6. numa * ROW + t = 0
      BY <2>4, <2>5, TableIsInjective
    <2> QED
      BY <2>3, <2>6, TableFacts
  <1>6. UnboundRunAnywhere
    BY DEF AffinityIInv, BoundToOne, UnboundRunAnywhere
  <1> QED
    BY <1>2, <1>3, <1>4, <1>5, <1>6 DEF BindingInv

\* Bound workers run on processors of their own, of the package the option
\* names as long as its row lasts; the clock of a mixed run shares only that of
\* thread 0; a thread that could not be bound may run where its creator might.
THEOREM WorkersRunApart == AffinitySpec => []BindingInv
  BY AffinityInitInv, AffinityStep, AffinityIInvImplies, PTL DEF AffinitySpec

-------------------------------------------------------------------------------

\* What a search over the lines of a text leaves: the last line that was one of
\* the hits, or what it began with.
LastHit(n, hits, f, zero, val) ==
  f = [i \in 0 .. n |-> IF i = 0 THEN zero ELSE IF i \in hits THEN val[i] ELSE f[i - 1]]

Kept(i, hits, f, zero, val) ==
  \/ \E j \in 1 .. i : j \in hits /\ f[i] = val[j] /\ \A l \in j + 1 .. i : l \notin hits
  \/ f[i] = zero /\ \A j \in 1 .. i : j \notin hits

\* A nonempty set of numbers has a least one.
LEMMA SmallestOne ==
  ASSUME NEW S, S \subseteq Nat, S # {}
  PROVE  \E x \in S : \A y \in S : x <= y
  <1> DEFINE R == OpToRel(<, Nat)
  <1>1. IsWellFoundedOn(R, Nat)
    BY NatLessThanWellFounded
  <1>2. PICK x \in S : \A y \in S : ~ (<<y, x>> \in R)
    BY <1>1, WFMin
  <1>3. \A y \in S : ~ (y < x)
    BY <1>2 DEF OpToRel
  <1> QED
    BY <1>3

\* A search keeps the last hit.
LEMMA SearchKeepsLast ==
  ASSUME NEW n \in Nat, NEW hits, NEW zero, NEW val, NEW f, LastHit(n, hits, f, zero, val)
  PROVE  Kept(n, hits, f, zero, val)
  <1> DEFINE S == {i \in 0 .. n : ~ Kept(i, hits, f, zero, val)}
  <1>1. SUFFICES ASSUME S # {} PROVE FALSE
    OBVIOUS
  <1>2. PICK m \in S : \A y \in S : m <= y
    <2>1. S \subseteq Nat
      OBVIOUS
    <2> HIDE DEF S
    <2> QED
      BY <1>1, <2>1, SmallestOne
  <1>3. m \in 0 .. n /\ ~ Kept(m, hits, f, zero, val)
    BY <1>2
  <1>4. \A i \in 0 .. n : f[i] = IF i = 0 THEN zero ELSE IF i \in hits THEN val[i] ELSE f[i - 1]
    BY DEF LastHit
  <1>5. CASE m = 0
    BY <1>3, <1>4, <1>5 DEF Kept
  <1>6. CASE m # 0 /\ m \in hits
    <2>1. f[m] = val[m]
      BY <1>3, <1>4, <1>6
    <2> QED
      BY <1>3, <1>6, <2>1 DEF Kept
  <1>7. CASE m # 0 /\ m \notin hits
    <2>1. f[m] = f[m - 1]
      BY <1>3, <1>4, <1>7
    <2>2. m - 1 \in 0 .. n /\ m - 1 < m
      BY <1>3, <1>7
    <2>3. Kept(m - 1, hits, f, zero, val)
      BY <1>2, <2>2
    <2>4. CASE \E j \in 1 .. m - 1 : /\ j \in hits /\ f[m - 1] = val[j]
                                     /\ \A l \in j + 1 .. m - 1 : l \notin hits
      <3>1. PICK j \in 1 .. m - 1 : /\ j \in hits /\ f[m - 1] = val[j]
                                    /\ \A l \in j + 1 .. m - 1 : l \notin hits
        BY <2>4
      <3>2. j \in 1 .. m /\ \A l \in j + 1 .. m : l \notin hits
        BY <1>3, <1>7, <3>1
      <3> QED
        BY <1>3, <2>1, <3>1, <3>2 DEF Kept
    <2>5. CASE f[m - 1] = zero /\ \A j \in 1 .. m - 1 : j \notin hits
      <3>1. \A j \in 1 .. m : j \notin hits
        BY <1>3, <1>7, <2>5
      <3> QED
        BY <1>3, <2>1, <2>5, <3>1 DEF Kept
    <2> QED
      BY <2>3, <2>4, <2>5 DEF Kept
  <1> QED
    BY <1>5, <1>6, <1>7

\* A search ends, with whatever it finds.
LEMMA SearchEnds ==
  ASSUME NEW n \in Nat, NEW hits, NEW zero, NEW val
  PROVE  \E f : LastHit(n, hits, f, zero, val)
  <1> DEFINE Last(i, j) == /\ j \in 1 .. i /\ j \in hits
                           /\ \A l \in j + 1 .. i : l \notin hits
             g == [i \in 0 .. n |->
                     IF \E j \in 1 .. i : Last(i, j) THEN val[CHOOSE j \in 1 .. i : Last(i, j)]
                     ELSE zero]
             G(i) == IF i = 0 THEN zero ELSE IF i \in hits THEN val[i] ELSE g[i - 1]
  <1>1. ASSUME NEW i \in 0 .. n, NEW j \in 1 .. i, NEW l \in 1 .. i, Last(i, j), Last(i, l)
        PROVE  j = l
    <2>1. ~ (j < l) /\ ~ (l < j)
      BY <1>1
    <2> QED
      BY <2>1
  <1>2. ASSUME NEW i \in 0 .. n, NEW j \in 1 .. i, Last(i, j)
        PROVE  g[i] = val[j]
    <2>1. Last(i, CHOOSE l \in 1 .. i : Last(i, l)) /\ (CHOOSE l \in 1 .. i : Last(i, l)) \in 1 .. i
      BY <1>2
    <2>2. (CHOOSE l \in 1 .. i : Last(i, l)) = j
      <3> HIDE DEF Last
      <3> QED BY <1>1, <1>2, <2>1
    <2> HIDE DEF Last
    <2>3. g[i] = val[CHOOSE l \in 1 .. i : Last(i, l)]
      BY <1>2
    <2> QED
      BY <2>2, <2>3
  <1>3. ASSUME NEW i \in 0 .. n PROVE g[i] = G(i)
    <2>1. CASE i = 0
      <3>1. ~ \E j \in 1 .. i : Last(i, j)
        BY <2>1
      <3> HIDE DEF Last
      <3> QED
        BY <2>1, <3>1
    <2>2. CASE i # 0 /\ i \in hits
      <3>1. i \in 1 .. i /\ Last(i, i)
        BY <2>2
      <3>2. g[i] = val[i]
        BY <3>1, <1>2
      <3> QED
        BY <2>2, <3>2
    <2>3. CASE i # 0 /\ i \notin hits
      <3>0. i - 1 \in 0 .. n
        BY <2>3
      <3>1. CASE \E j \in 1 .. i : Last(i, j)
        <4>1. PICK j \in 1 .. i : Last(i, j)
          BY <3>1
        <4>2. j \in 1 .. i - 1 /\ Last(i - 1, j)
          BY <2>3, <4>1
        <4>3. g[i] = val[j] /\ g[i - 1] = val[j]
          <5> HIDE DEF Last, g
          <5> QED BY <1>2, <3>0, <4>1, <4>2
        <4> HIDE DEF g
        <4> QED
          BY <2>3, <4>3
      <3>2. CASE ~ \E j \in 1 .. i : Last(i, j)
        <4>1. ~ \E j \in 1 .. i - 1 : Last(i - 1, j)
          <5> SUFFICES ASSUME NEW j \in 1 .. i - 1, Last(i - 1, j) PROVE FALSE
            OBVIOUS
          <5>1. j \in 1 .. i /\ Last(i, j)
            BY <2>3
          <5> HIDE DEF Last
          <5> QED BY <5>1, <3>2
        <4>2. g[i] = zero /\ g[i - 1] = zero
          <5> HIDE DEF Last
          <5> QED BY <3>0, <3>2, <4>1
        <4> HIDE DEF g
        <4> QED
          BY <2>3, <4>2
      <3> QED
        BY <3>1, <3>2
    <2> QED
      BY <2>1, <2>2, <2>3
  <1>4. g = [i \in 0 .. n |-> G(i)]
    <2> DEFINE h == [i \in 0 .. n |-> G(i)]
    <2>1. \A i \in 0 .. n : g[i] = h[i]
      <3> HIDE DEF g
      <3> QED BY <1>3
    <2>2. g = [i \in 0 .. n |-> g[i]] /\ h = [i \in 0 .. n |-> h[i]]
      <3> HIDE DEF Last
      <3> QED OBVIOUS
    <2> HIDE DEF g, h
    <2>3. g = h
      BY <2>1, <2>2
    <2> QED
      BY <2>3 DEF h
  <1> HIDE DEF g
  <1>5. LastHit(n, hits, g, zero, val)
    BY <1>4 DEF LastHit
  <1> QED
    BY <1>5

\* handle_data.py: what is found in a text is what the text reports, and only that.
LEMMA SumFacts ==
  ASSUME NEW text \in SumTexts
  PROVE  /\ H!Reports(text, H!get_latency_and_throughput(text))
         /\ \A v : H!Reports(text, v) => v = H!get_latency_and_throughput(text)
         /\ H!get_latency_and_throughput(text) \in Pairs \cup {H!Zeros}
  <1>1. text \in Seq(Pairs \cup {Other})
    BY SheetsAssumption DEF H!HandleDataAssumption
  <1>2. Len(text) \in Nat /\ DOMAIN text = 1 .. Len(text)
    BY <1>1
  <1> DEFINE n == Len(text)
             hits == {i \in 1 .. n : H!IsSum(text[i])}
             G(f) == [i \in 0 .. n |-> IF i = 0 THEN H!Zeros
                                       ELSE IF H!IsSum(text[i]) THEN text[i] ELSE f[i - 1]]
             found == CHOOSE f : f = G(f)
  <1>3. ASSUME NEW f PROVE G(f) = f <=> LastHit(n, hits, f, H!Zeros, text)
    <2>1. \A i \in 0 .. n : i # 0 => (i \in hits <=> H!IsSum(text[i]))
      BY <1>2
    <2> HIDE DEF hits
    <2> QED
      BY <2>1 DEF LastHit
  <1>4. \E f : f = G(f)
    <2>1. \E f : LastHit(n, hits, f, H!Zeros, text)
      <3> HIDE DEF hits
      <3> QED
        BY <1>2, SearchEnds
    <2> HIDE DEF G
    <2> QED
      BY <1>3, <2>1
  <1>5. found = G(found)
    <2> HIDE DEF G
    <2> QED
      BY <1>4
  <1> DEFINE x == found[n]
  <1>6. x = H!get_latency_and_throughput(text)
    BY DEF H!get_latency_and_throughput
  <1> HIDE DEF found
  <1>7. Kept(n, hits, found, H!Zeros, text)
    <2>1. LastHit(n, hits, found, H!Zeros, text)
      <3> HIDE DEF hits, G
      <3> QED
        BY <1>3, <1>5
    <2> HIDE DEF hits
    <2> QED
      BY <2>1, <1>2, SearchKeepsLast
  <1>8. H!Reports(text, x) /\ x \in Pairs \cup {H!Zeros}
    <2>1. CASE \E j \in 1 .. n : j \in hits /\ x = text[j] /\ \A l \in j + 1 .. n : l \notin hits
      <3>1. PICK j \in 1 .. n : j \in hits /\ x = text[j] /\ \A l \in j + 1 .. n : l \notin hits
        BY <2>1
      <3>2. x # Other /\ \A l \in j + 1 .. n : text[l] = Other
        BY <1>2, <3>1 DEF H!IsSum
      <3>3. x \in Pairs
        BY <1>1, <1>2, <3>1, <3>2
      <3> QED
        BY <1>2, <3>1, <3>2, <3>3 DEF H!Reports
    <2>2. CASE x = H!Zeros /\ \A j \in 1 .. n : j \notin hits
      <3>1. \A j \in 1 .. n : text[j] = Other
        BY <2>2 DEF H!IsSum
      <3> QED
        BY <1>2, <2>2, <3>1 DEF H!Reports
    <2> QED
      BY <1>7, <2>1, <2>2 DEF Kept
  <1>9. ASSUME NEW v, H!Reports(text, v) PROVE v = x
    <2>1. CASE \E i \in DOMAIN text : text[i] = x /\ x # Other /\ \A j \in i + 1 .. Len(text) : text[j] = Other
      <3>1. PICK i \in 1 .. n : text[i] = x /\ x # Other /\ \A j \in i + 1 .. n : text[j] = Other
        BY <1>2, <2>1
      <3>2. PICK j \in 1 .. n : text[j] = v /\ v # Other /\ \A l \in j + 1 .. n : text[l] = Other
        BY <1>2, <1>9, <3>1 DEF H!Reports
      <3>3. ~ (i < j) /\ ~ (j < i)
        BY <1>2, <3>1, <3>2
      <3>4. i = j
        BY <3>3
      <3> QED
        BY <3>1, <3>2, <3>4
    <2>2. CASE x = H!Zeros /\ \A i \in DOMAIN text : text[i] = Other
      BY <1>9, <2>2 DEF H!Reports
    <2> QED
      BY <1>8, <2>1, <2>2 DEF H!Reports
  <1> QED
    BY <1>6, <1>8, <1>9

\* handle_mixed_data.py: what is found for a kind is what the text reports of it.
LEMMA FoundFacts ==
  ASSUME NEW text \in MixedTexts, NEW kind
  PROVE  /\ X!Reports(text, kind, X!Found(text, kind))
         /\ X!Found(text, kind) \in Values \cup {X!Zeros}
  <1>1. text \in Seq(Lines) /\ Lines \subseteq [tag : STRING, value : Values]
    BY SheetsAssumption DEF X!HandleMixedDataAssumption
  <1>2. Len(text) \in Nat /\ DOMAIN text = 1 .. Len(text)
    BY <1>1
  <1> DEFINE n == Len(text)
             hits == {i \in 1 .. n : text[i].tag = kind}
             val == [i \in 1 .. n |-> text[i].value]
             G(f) == [i \in 0 .. n |-> IF i = 0 THEN X!Zeros
                                       ELSE IF text[i].tag = kind THEN text[i].value ELSE f[i - 1]]
             found == CHOOSE f : f = G(f)
  <1>3. ASSUME NEW f PROVE G(f) = f <=> LastHit(n, hits, f, X!Zeros, val)
    <2>1. \A i \in 0 .. n : i # 0 => (i \in hits <=> text[i].tag = kind) /\ text[i].value = val[i]
      BY <1>2
    <2> HIDE DEF hits, val
    <2> QED
      BY <2>1 DEF LastHit
  <1>4. \E f : f = G(f)
    <2>1. \E f : LastHit(n, hits, f, X!Zeros, val)
      <3> HIDE DEF hits, val
      <3> QED
        BY <1>2, SearchEnds
    <2> HIDE DEF G
    <2> QED
      BY <1>3, <2>1
  <1>5. found = G(found)
    <2> HIDE DEF G
    <2> QED
      BY <1>4
  <1> DEFINE x == found[n]
  <1>6. x = X!Found(text, kind)
    BY DEF X!Found
  <1> HIDE DEF found
  <1>7. Kept(n, hits, found, X!Zeros, val)
    <2>1. LastHit(n, hits, found, X!Zeros, val)
      <3> HIDE DEF hits, G, val
      <3> QED
        BY <1>3, <1>5
    <2> HIDE DEF hits, val
    <2> QED
      BY <2>1, <1>2, SearchKeepsLast
  <1>8. X!Reports(text, kind, x) /\ x \in Values \cup {X!Zeros}
    <2>1. CASE \E j \in 1 .. n : j \in hits /\ x = val[j] /\ \A l \in j + 1 .. n : l \notin hits
      <3>1. PICK j \in 1 .. n : j \in hits /\ x = val[j] /\ \A l \in j + 1 .. n : l \notin hits
        BY <2>1
      <3>2. text[j] \in [tag : STRING, value : Values]
        BY <1>1, <1>2, <3>1
      <3>3. text[j] = [tag |-> kind, value |-> x] /\ x \in Values
        BY <1>2, <3>1, <3>2
      <3>4. \A l \in j + 1 .. n : text[l].tag # kind
        BY <1>2, <3>1
      <3> QED
        BY <1>2, <3>3, <3>4 DEF X!Reports
    <2>2. CASE x = X!Zeros /\ \A j \in 1 .. n : j \notin hits
      <3>1. \A j \in 1 .. n : text[j].tag # kind
        BY <2>2
      <3> QED
        BY <1>2, <2>2, <3>1 DEF X!Reports
    <2> QED
      BY <1>7, <2>1, <2>2 DEF Kept
  <1> QED
    BY <1>6, <1>8

\* The operators of the library are the same by whichever module they come.
LEMMA SameOperators ==
  ASSUME NEW S
  PROVE  /\ X!IsFiniteSet(S) <=> IsFiniteSet(S)
         /\ H!IsFiniteSet(S) <=> IsFiniteSet(S)
         /\ X!Cardinality(S) = Cardinality(S)
         /\ H!Cardinality(S) = Cardinality(S)
         /\ H!Orders(S) = X!Orders(S)
  <1>1. H!Cardinality(S) = X!Cardinality(S)
    BY DEF H!Cardinality, X!Cardinality
  <1>2. X!Cardinality(S) = Cardinality(S)
    BY DEF X!Cardinality, Cardinality
  <1>3. X!IsFiniteSet(S) <=> IsFiniteSet(S)
    BY DEF X!IsFiniteSet, IsFiniteSet
  <1>4. H!IsFiniteSet(S) <=> IsFiniteSet(S)
    BY DEF H!IsFiniteSet, IsFiniteSet
  <1> QED
    BY <1>1, <1>2, <1>3, <1>4 DEF H!Orders, X!Orders

\* The sets of the two scripts.
LEMMA SheetSets ==
  /\ IsFiniteSet(Sizes) /\ IsFiniteSet(Names)
  /\ Counts \subseteq Nat /\ IsFiniteSet(Counts)
  BY SheetsAssumption, SameOperators DEF H!HandleDataAssumption, X!HandleMixedDataAssumption

\* The listing of a finite set names each of its members once.
LEMMA OrderFacts ==
  ASSUME NEW S, IsFiniteSet(S), NEW l \in X!Orders(S)
  PROVE  /\ Cardinality(S) \in Nat /\ Len(l) = Cardinality(S) /\ l \in Seq(S)
         /\ DOMAIN l = 1 .. Cardinality(S)
         /\ \A i, j \in DOMAIN l : l[i] = l[j] => i = j
         /\ \A x \in S : \E i \in DOMAIN l : l[i] = x
  <1> DEFINE n == Cardinality(S)
  <1>1. n \in Nat
    BY FS_CardinalityType
  <1>2. l \in [1 .. n -> S] /\ {l[i] : i \in DOMAIN l} = S
    BY SameOperators DEF X!Orders
  <1>3. Len(l) = n /\ l \in Seq(S) /\ DOMAIN l = 1 .. n
    BY <1>1, <1>2
  <1>4. \A x \in S : \E i \in DOMAIN l : l[i] = x
    BY <1>2
  <1>5. \A i, j \in DOMAIN l : l[i] = l[j] => i = j
    <2>1. IsFiniteSet(1 .. n) /\ Cardinality(1 .. n) = n
      BY <1>1, FS_Interval
    <2>2. l \in Surjection(1 .. n, S)
      BY <1>2, <1>3, <1>4 DEF Surjection
    <2>3. l \in Injection(1 .. n, S)
      BY <2>1, <2>2, FS_SurjSameCardinalityImpliesInj
    <2> QED
      BY <1>3, <2>3 DEF Injection, IsInjective
  <1> QED
    BY <1>1, <1>3, <1>4, <1>5

\* What the tables of a directory hold after some of its files.
MixedFiles ==
  /\ DOMAIN mixed_files \subseteq Counts \X Counts
  /\ IsFiniteSet(DOMAIN mixed_files)
  /\ \A p \in DOMAIN mixed_files : mixed_files[p] \in MixedTexts
  /\ l_thread \in X!Orders(DOMAIN mixed_files)
  /\ next \in 1 .. Len(l_thread) + 1

InsideIs(t, kind) ==
  \A p \in DOMAIN t : ~ X!Border(p) => p \in X!Handled /\ t[p] = X!Found(mixed_files[p], kind)

BorderIs(t) ==
  \A p \in DOMAIN t : X!Border(p) =>
    \/ \E r \in Counts : t[p] = X!Label("read_", r)
    \/ \E w \in Counts : t[p] = X!Label("write_", w)

HandledIn(t, p) ==
  /\ p \in DOMAIN t
  /\ p[1] > 0 => <<p[1], 0>> \in DOMAIN t /\ t[<<p[1], 0>>] = X!Label("read_", p[1])
  /\ p[2] > 0 => <<0, p[2]>> \in DOMAIN t /\ t[<<0, p[2]>>] = X!Label("write_", p[2])

MixedInv ==
  /\ MixedFiles
  /\ \A kind \in X!Kinds :
       /\ DOMAIN tables[kind] \subseteq (Counts \cup {0}) \X (Counts \cup {0})
       /\ InsideIs(tables[kind], kind)
       /\ BorderIs(tables[kind])
       /\ \A p \in X!Handled : HandledIn(tables[kind], p)

LEMMA MixedInvInit == X!Init => MixedInv
  <1> SUFFICES ASSUME X!Init PROVE MixedInv
    OBVIOUS
  <1>1. PICK present \in SUBSET (Counts \X Counts) :
          mixed_files \in [present -> MixedTexts] /\ l_thread \in X!Orders(present)
    BY DEF X!Init
  <1>2. IsFiniteSet(present)
    <2>1. IsFiniteSet(Counts \X Counts)
      BY SheetSets, FS_Product
    <2> QED
      BY <1>1, <2>1, FS_Subset
  <1>3. MixedFiles
    <2>1. Len(l_thread) \in Nat
      BY <1>1, <1>2, OrderFacts
    <2> QED
      BY <1>1, <1>2, <2>1 DEF X!Init, MixedFiles
  <1>4. X!Handled = {}
    BY DEF X!Init, X!Handled
  <1>5. \A kind \in X!Kinds : tables[kind] = << >>
    BY DEF X!Init
  <1> QED
    BY <1>3, <1>4, <1>5 DEF MixedInv, InsideIs, BorderIs

\* The cells a file writes, where they are its own and where they overlap.
FileFills(t, u, r, w, value) ==
  /\ DOMAIN u = DOMAIN t \cup {<<r, w>>, <<r, 0>>, <<0, w>>}
  /\ u[<<0, w>>] = X!Label("write_", w)
  /\ r # 0 \/ w # 0 => u[<<r, 0>>] = X!Label("read_", r)
  /\ r # 0 /\ w # 0 => u[<<r, w>>] = value
  /\ \A p \in DOMAIN t : p \notin {<<r, w>>, <<r, 0>>, <<0, w>>} => u[p] = t[p]

LEMMA FileFacts ==
  ASSUME NEW t, NEW r \in Nat, NEW w \in Nat, NEW value
  PROVE  FileFills(t, X!Labelled(X!write(t, <<r, w>>, value), r, w), r, w, value)
  <1> DEFINE t1 == X!write(t, <<r, w>>, value)
             t2 == X!write(t1, <<r, 0>>, X!Label("read_", r))
             u == X!Labelled(t1, r, w)
  <1>1. u = X!write(t2, <<0, w>>, X!Label("write_", w))
    BY DEF X!Labelled
  <1>2. /\ DOMAIN t1 = DOMAIN t \cup {<<r, w>>} /\ t1[<<r, w>>] = value
        /\ \A p \in DOMAIN t : p # <<r, w>> => t1[p] = t[p]
    BY DEF X!write
  <1> HIDE DEF t1
  <1>3. /\ DOMAIN t2 = DOMAIN t1 \cup {<<r, 0>>} /\ t2[<<r, 0>>] = X!Label("read_", r)
        /\ \A p \in DOMAIN t1 : p # <<r, 0>> => t2[p] = t1[p]
    BY DEF X!write
  <1> HIDE DEF t2
  <1>4. /\ DOMAIN u = DOMAIN t2 \cup {<<0, w>>} /\ u[<<0, w>>] = X!Label("write_", w)
        /\ \A p \in DOMAIN t2 : p # <<0, w>> => u[p] = t2[p]
    BY <1>1 DEF X!write
  <1>5. u = X!Labelled(X!write(t, <<r, w>>, value), r, w)
    BY DEF t1
  <1> HIDE DEF u
  <1>6. FileFills(t, u, r, w, value)
    BY <1>2, <1>3, <1>4 DEF FileFills
  <1> QED
    BY <1>5, <1>6

LEMMA MixedInvStep == MixedInv /\ [X!Next]_(X!vars) => MixedInv'
  <1> SUFFICES ASSUME MixedInv, [X!Next]_(X!vars) PROVE MixedInv'
    OBVIOUS
  <1>1. CASE UNCHANGED mixedVars
    BY <1>1 DEF MixedInv, MixedFiles, InsideIs, BorderIs, HandledIn, X!Handled, mixedVars
  <1>2. CASE X!Thread
    <2> DEFINE name == l_thread[next]
    <2>1. /\ next \in DOMAIN l_thread /\ next \in Nat /\ Len(l_thread) \in Nat
          /\ name \in DOMAIN mixed_files
      BY <1>2, OrderFacts DEF MixedInv, MixedFiles, X!Thread
    <2>2. PICK r \in Counts, w \in Counts : name = <<r, w>>
      BY <2>1 DEF MixedInv, MixedFiles
    <2>nat. r \in Nat /\ w \in Nat
      BY SheetSets
    <2>3. /\ next' = next + 1 /\ mixed_files' = mixed_files /\ l_thread' = l_thread
      BY <1>2 DEF X!Thread
    <2>4. MixedFiles'
      BY <1>2, <2>1, <2>3 DEF MixedInv, MixedFiles, X!Thread
    <2>5. X!Handled' = X!Handled \cup {name}
      <3>1. 1 .. next' - 1 = (1 .. next - 1) \cup {next}
        BY <2>1, <2>3
      <3> QED
        BY <2>3, <3>1 DEF X!Handled
    <2>6. ASSUME NEW kind \in X!Kinds
          PROVE  /\ DOMAIN tables'[kind] \subseteq (Counts \cup {0}) \X (Counts \cup {0})
                 /\ InsideIs(tables[kind], kind)'
                 /\ BorderIs(tables[kind])'
                 /\ \A p \in X!Handled' : HandledIn(tables[kind], p)'
      <3> DEFINE t == tables[kind]
                 u == tables'[kind]
                 value == X!Found(mixed_files[name], kind)
      <3>1. u = X!Labelled(X!write(t, <<r, w>>, value), r, w)
        BY <1>2, <2>2 DEF X!Thread, X!get_latency_and_throughput
      <3>2. /\ DOMAIN t \subseteq (Counts \cup {0}) \X (Counts \cup {0})
            /\ InsideIs(t, kind) /\ BorderIs(t) /\ \A p \in X!Handled : HandledIn(t, p)
        BY DEF MixedInv
      <3> HIDE DEF name, t, u, value
      <3>3. /\ DOMAIN u = DOMAIN t \cup {<<r, w>>, <<r, 0>>, <<0, w>>}
            /\ u[<<0, w>>] = X!Label("write_", w)
            /\ r # 0 \/ w # 0 => u[<<r, 0>>] = X!Label("read_", r)
            /\ r # 0 /\ w # 0 => u[<<r, w>>] = value
            /\ \A p \in DOMAIN t : p \notin {<<r, w>>, <<r, 0>>, <<0, w>>} => u[p] = t[p]
        <4>1. FileFills(t, X!Labelled(X!write(t, <<r, w>>, value), r, w), r, w, value)
          BY <2>nat, FileFacts
        <4>2. FileFills(t, u, r, w, value)
          BY <3>1, <4>1
        <4> QED
          BY <4>2 DEF FileFills
      <3>4. DOMAIN u \subseteq (Counts \cup {0}) \X (Counts \cup {0})
        BY <2>2, <2>nat, <3>2, <3>3
      <3>5. ASSUME NEW p \in DOMAIN u, ~ X!Border(p)
            PROVE  p \in X!Handled \cup {name} /\ u[p] = X!Found(mixed_files[p], kind)
        <4>1. p # <<r, 0>> /\ p # <<0, w>>
          BY <3>5 DEF X!Border
        <4>2. CASE p = name
          BY <2>2, <2>nat, <3>3, <3>5, <4>2 DEF X!Border, value
        <4>3. CASE p # name
          BY <2>2, <2>nat, <3>2, <3>3, <3>5, <4>1, <4>3 DEF InsideIs
        <4> QED
          BY <4>2, <4>3
      <3>6. ASSUME NEW p \in DOMAIN u, X!Border(p)
            PROVE  \/ \E c \in Counts : u[p] = X!Label("read_", c)
                   \/ \E c \in Counts : u[p] = X!Label("write_", c)
        <4>1. CASE p = <<0, w>>
          BY <2>2, <2>nat, <3>3, <4>1
        <4>2. CASE p = <<r, 0>> /\ p # <<0, w>>
          BY <2>2, <2>nat, <3>3, <4>2
        <4>3. CASE p # <<0, w>> /\ p # <<r, 0>>
          <5>1. p # <<r, w>>
            BY <3>6, <4>3 DEF X!Border
          <5> QED
            BY <3>2, <3>3, <3>6, <4>3, <5>1 DEF BorderIs
        <4> QED
          BY <4>1, <4>2, <4>3
      <3>7. ASSUME NEW p \in X!Handled \cup {name} PROVE HandledIn(u, p)
        <4>1. p \in Nat \X Nat
          <5>1. p \in DOMAIN mixed_files
            BY <2>1, OrderFacts DEF X!Handled, MixedInv, MixedFiles, name
          <5> QED
            BY <5>1, SheetSets DEF MixedInv, MixedFiles
        <4>2. CASE p = name
          BY <2>2, <2>nat, <3>3, <4>2 DEF HandledIn
        <4>3. CASE p # name
          <5>1. HandledIn(t, p) /\ p \in DOMAIN t
            BY <3>2, <3>7, <4>3 DEF HandledIn
          <5>2. ASSUME p[1] > 0
                PROVE  <<p[1], 0>> \in DOMAIN u /\ u[<<p[1], 0>>] = X!Label("read_", p[1])
            <6>1. <<p[1], 0>> \in DOMAIN t /\ t[<<p[1], 0>>] = X!Label("read_", p[1])
              BY <5>1, <5>2 DEF HandledIn
            <6>2. CASE p[1] = r
              BY <2>2, <2>nat, <3>3, <4>1, <5>2, <6>1, <6>2
            <6>3. CASE p[1] # r
              <7>1. <<p[1], 0>> \notin {<<r, w>>, <<r, 0>>, <<0, w>>}
                BY <4>1, <5>2, <6>3
              <7> QED
                BY <3>3, <6>1, <7>1
            <6> QED
              BY <6>2, <6>3
          <5>3. ASSUME p[2] > 0
                PROVE  <<0, p[2]>> \in DOMAIN u /\ u[<<0, p[2]>>] = X!Label("write_", p[2])
            <6>1. <<0, p[2]>> \in DOMAIN t /\ t[<<0, p[2]>>] = X!Label("write_", p[2])
              BY <5>1, <5>3 DEF HandledIn
            <6>2. CASE p[2] = w
              BY <2>2, <2>nat, <3>3, <4>1, <5>3, <6>1, <6>2
            <6>3. CASE p[2] # w
              <7>1. <<0, p[2]>> \notin {<<r, w>>, <<r, 0>>, <<0, w>>}
                BY <4>1, <5>3, <6>3
              <7> QED
                BY <3>3, <6>1, <7>1
            <6> QED
              BY <6>2, <6>3
          <5> QED
            BY <3>3, <5>1, <5>2, <5>3 DEF HandledIn
        <4> QED
          BY <4>2, <4>3
      <3> QED
        BY <2>3, <2>5, <3>4, <3>5, <3>6, <3>7 DEF InsideIs, BorderIs, HandledIn, u
    <2> QED
      BY <2>4, <2>6 DEF MixedInv
  <1> QED
    BY <1>1, <1>2 DEF X!Next, X!vars, mixedVars

LEMMA MixedInvImplies ==
  ASSUME MixedInv
  PROVE  X!TypeOK /\ X!CellIsItsFile /\ X!LabelsOwnCount
  <1> DEFINE Labels == [text : {"read_", "write_"}, count : Counts]
  <1>1. X!Handled \subseteq DOMAIN mixed_files
    BY OrderFacts DEF X!Handled, MixedInv, MixedFiles
  <1>2. ASSUME NEW kind \in X!Kinds, NEW p \in DOMAIN tables[kind]
        PROVE  /\ p \in (Counts \cup {0}) \X (Counts \cup {0})
               /\ X!Border(p) => tables[kind][p] \in Labels
               /\ ~ X!Border(p) => tables[kind][p] \in Values \cup {X!Zeros}
    <2>1. CASE X!Border(p)
      <3>1. \/ \E c \in Counts : tables[kind][p] = X!Label("read_", c)
            \/ \E c \in Counts : tables[kind][p] = X!Label("write_", c)
        BY <1>2, <2>1 DEF MixedInv, BorderIs
      <3>2. \A c \in Counts : X!Label("read_", c) \in Labels /\ X!Label("write_", c) \in Labels
        BY DEF X!Label
      <3> QED
        BY <1>2, <2>1, <3>1, <3>2 DEF MixedInv
    <2>2. CASE ~ X!Border(p)
      <3>1. tables[kind][p] = X!Found(mixed_files[p], kind) /\ mixed_files[p] \in MixedTexts
        BY <1>1, <1>2, <2>2 DEF MixedInv, InsideIs, MixedFiles
      <3> QED
        BY <1>2, <2>2, <3>1, FoundFacts DEF MixedInv
    <2> QED
      BY <2>1, <2>2
  <1>3. X!TypeOK
    BY <1>2 DEF X!TypeOK, MixedInv, MixedFiles
  <1>4. ASSUME NEW kind \in X!Kinds
        PROVE  /\ {p \in DOMAIN tables[kind] : ~ X!Border(p)} = {p \in X!Handled : ~ X!Border(p)}
               /\ \A p \in X!Handled : ~ X!Border(p)
                    => X!Reports(mixed_files[p], kind, tables[kind][p])
    <2>1. \A p \in DOMAIN tables[kind] : ~ X!Border(p) => p \in X!Handled
      BY DEF MixedInv, InsideIs
    <2>2. \A p \in X!Handled : p \in DOMAIN tables[kind]
      BY DEF MixedInv, HandledIn
    <2>3. ASSUME NEW p \in X!Handled, ~ X!Border(p)
          PROVE  X!Reports(mixed_files[p], kind, tables[kind][p])
      <3>1. tables[kind][p] = X!Found(mixed_files[p], kind)
        BY <2>2, <2>3 DEF MixedInv, InsideIs
      <3>2. mixed_files[p] \in MixedTexts
        BY <1>1 DEF MixedInv, MixedFiles
      <3> QED
        BY <3>1, <3>2, FoundFacts
    <2> QED
      BY <2>1, <2>2, <2>3
  <1>5. X!CellIsItsFile
    BY <1>4 DEF X!CellIsItsFile
  <1>6. ASSUME X!Saved, NEW kind \in X!Kinds, NEW p \in DOMAIN mixed_files
        PROVE  /\ p[1] > 0 => tables[kind][<<p[1], 0>>] = X!Label("read_", p[1])
               /\ p[2] > 0 => tables[kind][<<0, p[2]>>] = X!Label("write_", p[2])
    <2>1. PICK i \in DOMAIN l_thread : l_thread[i] = p
      BY OrderFacts DEF MixedInv, MixedFiles
    <2>2. i \in 1 .. next - 1
      BY <1>6, OrderFacts DEF X!Saved, MixedInv, MixedFiles
    <2>3. p \in X!Handled
      BY <2>1, <2>2 DEF X!Handled
    <2> QED
      BY <2>3 DEF MixedInv, HandledIn
  <1>7. X!LabelsOwnCount
    BY <1>6 DEF X!LabelsOwnCount
  <1> QED
    BY <1>3, <1>5, <1>7

\* Where the filling of a sheet is, in column col at row rw: which heads and
\* which cells are written.
Rows(c) == listing[l_size[c]]

Headed(c, col, rw) == c \in 1 .. Len(l_size) /\ (c < col \/ (c = col /\ rw > 0))

Past(r, c, col, rw) ==
  /\ c \in 1 .. Len(l_size) /\ r \in 1 .. Len(Rows(c))
  /\ c < col \/ (c = col /\ r < rw)

Agreed == \A s, t \in Sizes : listing[s] = listing[t]

\* What a sheet holds then: its cells, the heads, the values, and the labels,
\* which are right for the column at work, and for all if the listings agree.
NothingElse(t, col, rw) ==
  \A p \in DOMAIN t :
    \/ \E c \in 1 .. Len(l_size) : p = <<0, c>> /\ Headed(c, col, rw)
    \/ \E c \in 1 .. Len(l_size) : \E r \in 1 .. Len(Rows(c)) :
         Past(r, c, col, rw) /\ p \in {<<r, 0>>, <<r, c>>}

HeadIn(t, c) == <<0, c>> \in DOMAIN t /\ t[<<0, c>>] = l_size[c]

CellIn(t, r, c) ==
  /\ <<r, c>> \in DOMAIN t /\ <<r, 0>> \in DOMAIN t
  /\ t[<<r, c>>] = H!get_latency_and_throughput(files[l_size[c]][Rows(c)[r]])
  /\ t[<<r, 0>>] \in Names

LabelIn(t, r, c) == t[<<r, 0>>] = Rows(c)[r]

Filled(t, col, rw) ==
  /\ NothingElse(t, col, rw)
  /\ \A c \in 1 .. Len(l_size) : Headed(c, col, rw) => HeadIn(t, c)
  /\ \A c \in 1 .. Len(l_size) : \A r \in 1 .. Len(Rows(c)) :
       Past(r, c, col, rw) => /\ CellIn(t, r, c)
                              /\ c = col \/ Agreed => LabelIn(t, r, c)

SheetFiles ==
  /\ \A s \in Sizes :
       /\ DOMAIN files[s] \subseteq Names
       /\ \A n \in DOMAIN files[s] : files[s][n] \in SumTexts
       /\ listing[s] \in X!Orders(DOMAIN files[s])
  /\ l_size \in X!Orders(Sizes)
  /\ column \in 1 .. Len(l_size) + 1
  /\ row \in Nat
  /\ column = Len(l_size) + 1 => row = 0
  /\ column <= Len(l_size) => row <= Len(Rows(column)) + 1

SheetInv == SheetFiles /\ Filled(table, column, row)

LEMMA SheetInvInit == H!Init => SheetInv
  <1> SUFFICES ASSUME H!Init PROVE SheetInv
    OBVIOUS
  <1>1. PICK present \in [Sizes -> SUBSET Names] :
          /\ files \in {f \in [Sizes -> UNION {[N -> SumTexts] : N \in SUBSET Names}] :
                          \A s \in Sizes : DOMAIN f[s] = present[s]}
          /\ listing \in {l \in [Sizes -> UNION {H!Orders(N) : N \in SUBSET Names}] :
                            \A s \in Sizes : l[s] \in H!Orders(present[s])}
    BY DEF H!Init
  <1>2. ASSUME NEW s \in Sizes
        PROVE  /\ DOMAIN files[s] \subseteq Names
               /\ \A n \in DOMAIN files[s] : files[s][n] \in SumTexts
               /\ listing[s] \in X!Orders(DOMAIN files[s])
    <2>1. DOMAIN files[s] = present[s] /\ present[s] \subseteq Names
      BY <1>1
    <2>2. files[s] \in UNION {[N -> SumTexts] : N \in SUBSET Names}
      BY <1>1
    <2>3. PICK N \in SUBSET Names : files[s] \in [N -> SumTexts]
      BY <2>2
    <2>4. listing[s] \in H!Orders(present[s])
      BY <1>1
    <2> QED
      BY <2>1, <2>3, <2>4, SameOperators
  <1>3. l_size \in X!Orders(Sizes)
    BY SameOperators DEF H!Init
  <1>4. Len(l_size) \in Nat
    BY <1>3, SheetSets, OrderFacts
  <1>5. column = 1 /\ row = 0 /\ table = << >>
    BY DEF H!Init
  <1>6. SheetFiles
    <2>1. column <= Len(l_size) => Len(Rows(column)) \in Nat
      <3>1. ASSUME column <= Len(l_size) PROVE l_size[column] \in Sizes
        BY <1>3, <1>4, <1>5, <3>1, SheetSets, OrderFacts
      <3>2. ASSUME NEW s \in Sizes PROVE Len(listing[s]) \in Nat
        <4>1. IsFiniteSet(DOMAIN files[s])
          BY <1>2, SheetSets, FS_Subset
        <4> QED
          BY <1>2, <4>1, OrderFacts
      <3> QED
        BY <3>1, <3>2 DEF Rows
    <2> QED
      BY <1>2, <1>3, <1>4, <1>5, <2>1 DEF SheetFiles
  <1>7. \A c \in 1 .. Len(l_size) : ~ Headed(c, column, row)
    BY <1>4, <1>5 DEF Headed
  <1>8. \A c \in 1 .. Len(l_size) : \A r \in 1 .. Len(Rows(c)) : ~ Past(r, c, column, row)
    BY <1>4, <1>5 DEF Past
  <1> QED
    BY <1>5, <1>6, <1>7, <1>8 DEF SheetInv, Filled, NothingElse

\* The lengths and the members of the listings.
LEMMA ListingFacts ==
  ASSUME SheetFiles
  PROVE  /\ Len(l_size) = Cardinality(Sizes) /\ Len(l_size) \in Nat
         /\ DOMAIN l_size = 1 .. Len(l_size)
         /\ \A c \in 1 .. Len(l_size) :
              /\ l_size[c] \in Sizes
              /\ IsFiniteSet(DOMAIN files[l_size[c]])
              /\ Len(Rows(c)) \in Nat
              /\ Len(Rows(c)) = Cardinality(DOMAIN files[l_size[c]])
              /\ Len(Rows(c)) <= Cardinality(Names)
              /\ DOMAIN Rows(c) = 1 .. Len(Rows(c))
              /\ \A r \in 1 .. Len(Rows(c)) : Rows(c)[r] \in DOMAIN files[l_size[c]]
              /\ \A i, j \in 1 .. Len(Rows(c)) : Rows(c)[i] = Rows(c)[j] => i = j
              /\ \A n \in DOMAIN files[l_size[c]] : \E i \in 1 .. Len(Rows(c)) : Rows(c)[i] = n
  <1>1. /\ Len(l_size) = Cardinality(Sizes) /\ Len(l_size) \in Nat
        /\ DOMAIN l_size = 1 .. Len(l_size) /\ l_size \in Seq(Sizes)
    BY SheetSets, OrderFacts DEF SheetFiles
  <1>2. ASSUME NEW s \in Sizes
        PROVE  /\ IsFiniteSet(DOMAIN files[s])
               /\ Len(listing[s]) \in Nat
               /\ Len(listing[s]) = Cardinality(DOMAIN files[s])
               /\ Len(listing[s]) <= Cardinality(Names)
               /\ DOMAIN listing[s] = 1 .. Len(listing[s])
               /\ \A r \in 1 .. Len(listing[s]) : listing[s][r] \in DOMAIN files[s]
               /\ \A i, j \in 1 .. Len(listing[s]) : listing[s][i] = listing[s][j] => i = j
               /\ \A n \in DOMAIN files[s] : \E i \in 1 .. Len(listing[s]) : listing[s][i] = n
    <2>1. DOMAIN files[s] \subseteq Names /\ listing[s] \in X!Orders(DOMAIN files[s])
      BY DEF SheetFiles
    <2>2. /\ IsFiniteSet(DOMAIN files[s])
          /\ Cardinality(DOMAIN files[s]) <= Cardinality(Names)
      BY <2>1, SheetSets, FS_Subset
    <2> DEFINE S == DOMAIN files[s]
               l == listing[s]
    <2> HIDE DEF S, l
    <2>3. /\ Cardinality(S) \in Nat /\ Len(l) = Cardinality(S) /\ l \in Seq(S)
          /\ DOMAIN l = 1 .. Cardinality(S)
          /\ \A i, j \in DOMAIN l : l[i] = l[j] => i = j
          /\ \A x \in S : \E i \in DOMAIN l : l[i] = x
      <3>1. IsFiniteSet(S) /\ l \in X!Orders(S)
        BY <2>1, <2>2 DEF S, l
      <3> QED
        BY <3>1, OrderFacts
    <2>4. \A r \in 1 .. Len(l) : l[r] \in S
      BY <2>3
    <2> QED
      BY <2>2, <2>3, <2>4 DEF S, l
  <1>3. \A c \in 1 .. Len(l_size) : l_size[c] \in Sizes
    BY <1>1
  <1> QED
    BY <1>1, <1>2, <1>3 DEF Rows

\* The head of the column at work.
LEMMA SizeFills ==
  ASSUME SheetInv, H!Size
  PROVE  SheetFiles' /\ Filled(table', column, 1)
  <1>1. /\ row = 0 /\ column \in 1 .. Len(l_size) /\ row' = 1
        /\ table' = H!write(table, <<0, column>>, l_size[column])
        /\ UNCHANGED <<files, listing, l_size, column>>
    BY ListingFacts DEF H!Size, SheetInv, SheetFiles
  <1>2. Len(l_size) \in Nat /\ \A c \in 1 .. Len(l_size) : Len(Rows(c)) \in Nat
    BY ListingFacts DEF SheetInv
  <1>3. SheetFiles'
    BY <1>1, <1>2 DEF SheetInv, SheetFiles, Rows
  <1> DEFINE u == H!write(table, <<0, column>>, l_size[column])
  <1>4. /\ DOMAIN u = DOMAIN table \cup {<<0, column>>} /\ u[<<0, column>>] = l_size[column]
        /\ \A q \in DOMAIN table : q # <<0, column>> => u[q] = table[q]
    BY DEF H!write
  <1> HIDE DEF u
  <1>5. ASSUME NEW c \in 1 .. Len(l_size)
        PROVE  /\ Headed(c, column, 1) <=> Headed(c, column, 0) \/ c = column
               /\ \A r \in 1 .. Len(Rows(c)) : Past(r, c, column, 1) <=> Past(r, c, column, 0)
    BY <1>1, <1>2 DEF Headed, Past
  <1>6. NothingElse(u, column, 1)
    BY <1>1, <1>4, <1>5 DEF SheetInv, Filled, NothingElse
  <1>7. ASSUME NEW c \in 1 .. Len(l_size), Headed(c, column, 1) PROVE HeadIn(u, c)
    BY <1>1, <1>4, <1>5, <1>7 DEF SheetInv, Filled, HeadIn
  <1>8. ASSUME NEW c \in 1 .. Len(l_size), NEW r \in 1 .. Len(Rows(c)), Past(r, c, column, 1)
        PROVE  CellIn(u, r, c) /\ (c = column \/ Agreed => LabelIn(u, r, c))
    <2>1. CellIn(table, r, c) /\ (c = column \/ Agreed => LabelIn(table, r, c))
      BY <1>1, <1>5, <1>8 DEF SheetInv, Filled
    <2>2. r # 0
      BY <1>2
    <2>3. u[<<r, c>>] = table[<<r, c>>] /\ u[<<r, 0>>] = table[<<r, 0>>]
      BY <1>4, <2>1, <2>2 DEF CellIn
    <2> QED
      BY <1>4, <2>1, <2>3 DEF CellIn, LabelIn
  <1> QED
    BY <1>1, <1>3, <1>6, <1>7, <1>8 DEF Filled, u

\* A file: the label of its row and its cell.
LEMMA ThreadFills ==
  ASSUME SheetInv, H!Thread
  PROVE  SheetFiles' /\ Filled(table', column, row + 1)
  <1>1. /\ column \in 1 .. Len(l_size) /\ row \in 1 .. Len(Rows(column)) /\ row' = row + 1
        /\ UNCHANGED <<files, listing, l_size, column>>
    <2>1. 0 < row /\ row <= Len(Rows(column)) /\ row \in Nat
      BY DEF H!Thread, H!l_thread, SheetInv, SheetFiles, Rows
    <2>2. column \in 1 .. Len(l_size)
      BY <2>1, ListingFacts DEF SheetInv, SheetFiles
    <2>3. Len(Rows(column)) \in Nat
      BY <2>2, ListingFacts DEF SheetInv
    <2> QED
      BY <2>1, <2>2, <2>3 DEF H!Thread
  <1>2. Len(l_size) \in Nat /\ \A c \in 1 .. Len(l_size) : Len(Rows(c)) \in Nat
    BY ListingFacts DEF SheetInv
  <1>3. SheetFiles'
    BY <1>1, <1>2 DEF SheetInv, SheetFiles, Rows
  <1> DEFINE thread == Rows(column)[row]
             value == H!get_latency_and_throughput(files[l_size[column]][thread])
             t1 == H!write(table, <<row, 0>>, thread)
             u == H!write(t1, <<row, column>>, value)
  <1>4. table' = u
    BY DEF H!Thread, H!l_thread, Rows
  <1>5. thread \in Names
    BY <1>1, ListingFacts DEF SheetInv, SheetFiles
  <1> HIDE DEF thread, value
  <1>6. /\ DOMAIN t1 = DOMAIN table \cup {<<row, 0>>} /\ t1[<<row, 0>>] = thread
        /\ \A q \in DOMAIN table : q # <<row, 0>> => t1[q] = table[q]
    BY DEF H!write
  <1> HIDE DEF t1
  <1>7. /\ DOMAIN u = DOMAIN t1 \cup {<<row, column>>} /\ u[<<row, column>>] = value
        /\ \A q \in DOMAIN t1 : q # <<row, column>> => u[q] = t1[q]
    BY DEF H!write
  <1> HIDE DEF u
  <1>8. /\ DOMAIN u = DOMAIN table \cup {<<row, 0>>, <<row, column>>}
        /\ u[<<row, 0>>] = thread /\ u[<<row, column>>] = value
        /\ \A q \in DOMAIN table : q \notin {<<row, 0>>, <<row, column>>} => u[q] = table[q]
    BY <1>1, <1>6, <1>7
  <1>9. ASSUME NEW c \in 1 .. Len(l_size)
        PROVE  /\ Headed(c, column, row + 1) <=> Headed(c, column, row)
               /\ \A r \in 1 .. Len(Rows(c)) :
                    Past(r, c, column, row + 1) <=>
                      Past(r, c, column, row) \/ (c = column /\ r = row)
    BY <1>1, <1>2 DEF Headed, Past
  <1>10. NothingElse(u, column, row + 1)
    <2> SUFFICES ASSUME NEW p \in DOMAIN u
                 PROVE  \/ \E c \in 1 .. Len(l_size) : p = <<0, c>> /\ Headed(c, column, row + 1)
                        \/ \E c \in 1 .. Len(l_size) : \E r \in 1 .. Len(Rows(c)) :
                             Past(r, c, column, row + 1) /\ p \in {<<r, 0>>, <<r, c>>}
      BY DEF NothingElse
    <2>1. CASE p \in {<<row, 0>>, <<row, column>>}
      BY <1>1, <1>9, <2>1
    <2>2. CASE p \notin {<<row, 0>>, <<row, column>>}
      BY <1>8, <1>9, <2>2 DEF SheetInv, Filled, NothingElse
    <2> QED
      BY <2>1, <2>2
  <1>11. ASSUME NEW c \in 1 .. Len(l_size), Headed(c, column, row + 1) PROVE HeadIn(u, c)
    <2>1. HeadIn(table, c)
      BY <1>9, <1>11 DEF SheetInv, Filled
    <2>2. <<0, c>> \notin {<<row, 0>>, <<row, column>>}
      BY <1>1
    <2> QED
      BY <1>8, <2>1, <2>2 DEF HeadIn
  <1>12. ASSUME NEW c \in 1 .. Len(l_size), NEW r \in 1 .. Len(Rows(c)),
                Past(r, c, column, row + 1)
         PROVE  CellIn(u, r, c) /\ (c = column \/ Agreed => LabelIn(u, r, c))
    <2>0. c # 0
      BY <1>2
    <2>1. CASE c = column /\ r = row
      BY <1>5, <1>8, <2>1 DEF CellIn, LabelIn, thread, value
    <2>2. CASE ~ (c = column /\ r = row)
      <3>1. CellIn(table, r, c) /\ (c = column \/ Agreed => LabelIn(table, r, c))
        BY <1>9, <1>12, <2>2 DEF SheetInv, Filled
      <3>2. <<r, c>> \notin {<<row, 0>>, <<row, column>>}
        BY <2>0, <2>2
      <3>3. u[<<r, c>>] = table[<<r, c>>] /\ <<r, c>> \in DOMAIN u
        BY <1>8, <3>1, <3>2 DEF CellIn
      <3>4. CASE r # row
        <4>1. <<r, 0>> \notin {<<row, 0>>, <<row, column>>}
          BY <3>4
        <4>2. u[<<r, 0>>] = table[<<r, 0>>] /\ <<r, 0>> \in DOMAIN u
          BY <1>8, <3>1, <4>1 DEF CellIn
        <4> QED
          BY <3>1, <3>3, <4>2 DEF CellIn, LabelIn
      <3>5. CASE r = row
        <4>1. u[<<r, 0>>] = thread /\ <<r, 0>> \in DOMAIN u
          BY <1>8, <3>5
        <4>2. CellIn(u, r, c)
          BY <1>5, <3>1, <3>3, <4>1 DEF CellIn
        <4>3. ASSUME Agreed PROVE LabelIn(u, r, c)
          <5>1. Rows(c) = Rows(column)
            BY <1>1, <4>3, ListingFacts DEF SheetInv, Agreed, Rows
          <5> QED
            BY <3>5, <4>1, <5>1 DEF LabelIn, thread
        <4> QED
          BY <2>2, <3>5, <4>2, <4>3
      <3> QED
        BY <3>4, <3>5
    <2> QED
      BY <2>1, <2>2
  <1> QED
    BY <1>3, <1>4, <1>10, <1>11, <1>12 DEF Filled

\* Between two columns nothing is written.
LEMMA NextSizeFills ==
  ASSUME SheetInv, H!NextSize
  PROVE  SheetFiles' /\ Filled(table, column + 1, 0)
  <1>1. /\ column \in 1 .. Len(l_size) /\ row = Len(Rows(column)) + 1
        /\ row' = 0 /\ column' = column + 1
        /\ UNCHANGED <<files, listing, l_size, table>>
    <2>1. row > 0 /\ row > Len(Rows(column)) /\ column \in 1 .. Len(l_size)
      BY ListingFacts DEF H!NextSize, H!l_thread, SheetInv, SheetFiles, Rows
    <2>2. row <= Len(Rows(column)) + 1 /\ row \in Nat
      BY <2>1, ListingFacts DEF SheetInv, SheetFiles
    <2>3. Len(Rows(column)) \in Nat
      BY <2>1, ListingFacts DEF SheetInv
    <2> QED
      BY <2>1, <2>2, <2>3 DEF H!NextSize
  <1>2. Len(l_size) \in Nat /\ \A c \in 1 .. Len(l_size) : Len(Rows(c)) \in Nat
    BY ListingFacts DEF SheetInv
  <1>3. SheetFiles'
    BY <1>1, <1>2 DEF SheetInv, SheetFiles, Rows
  <1>4. ASSUME NEW c \in 1 .. Len(l_size)
        PROVE  /\ Headed(c, column + 1, 0) <=> Headed(c, column, row)
               /\ \A r \in 1 .. Len(Rows(c)) :
                    Past(r, c, column + 1, 0) <=> Past(r, c, column, row)
               /\ \A r \in 1 .. Len(Rows(c)) : Past(r, c, column + 1, 0) => c # column + 1
    BY <1>1, <1>2 DEF Headed, Past
  <1> QED
    BY <1>1, <1>3, <1>4 DEF SheetInv, Filled, NothingElse

LEMMA SheetInvStep == SheetInv /\ [H!Next]_(H!vars) => SheetInv'
  <1> SUFFICES ASSUME SheetInv, [H!Next]_(H!vars) PROVE SheetInv'
    OBVIOUS
  <1>1. ASSUME UNCHANGED <<files, listing, l_size>>,
               SheetFiles', Filled(table', column', row')
        PROVE  SheetInv'
    BY <1>1 DEF SheetInv, Filled, NothingElse, HeadIn, CellIn, LabelIn, Headed, Past, Rows, Agreed
  <1>2. CASE H!Size
    BY <1>1, <1>2, SizeFills DEF H!Size
  <1>3. CASE H!Thread
    BY <1>1, <1>3, ThreadFills DEF H!Thread
  <1>4. CASE H!NextSize
    BY <1>1, <1>4, NextSizeFills DEF H!NextSize
  <1>5. CASE UNCHANGED H!vars
    <2>1. UNCHANGED <<files, listing, l_size, column, row, table>>
      BY <1>5 DEF H!vars
    <2>2. SheetFiles'
      BY <2>1 DEF SheetInv, SheetFiles, Rows
    <2> QED
      BY <1>1, <2>1, <2>2 DEF SheetInv
  <1> QED
    BY <1>2, <1>3, <1>4, <1>5 DEF H!Next

\* Cells away from the border, and where the sheet ends.
LEMMA SheetShape ==
  ASSUME SheetInv
  PROVE  /\ \A p \in H!Cells : \E c \in 1 .. Len(l_size) : \E r \in 1 .. Len(Rows(c)) :
                p = <<r, c>> /\ Past(r, c, column, row)
         /\ \A c \in 1 .. Len(l_size) : \A r \in 1 .. Cardinality(Names) :
                <<r, c>> \in DOMAIN table <=> r \in 1 .. Len(Rows(c)) /\ Past(r, c, column, row)
  <1>1. /\ Len(l_size) \in Nat
        /\ \A c \in 1 .. Len(l_size) :
             Len(Rows(c)) \in Nat /\ Len(Rows(c)) <= Cardinality(Names)
    BY ListingFacts DEF SheetInv
  <1>2. ASSUME NEW p \in DOMAIN table, p[1] # 0, p[2] # 0
        PROVE  \E c \in 1 .. Len(l_size) : \E r \in 1 .. Len(Rows(c)) :
                 p = <<r, c>> /\ Past(r, c, column, row)
    <2>1. \A c \in 1 .. Len(l_size) : p # <<0, c>>
      BY <1>2
    <2>2a. PICK c \in 1 .. Len(l_size) : \E r \in 1 .. Len(Rows(c)) :
            Past(r, c, column, row) /\ p \in {<<r, 0>>, <<r, c>>}
      BY <1>2, <2>1 DEF SheetInv, Filled, NothingElse
    <2>2. PICK r \in 1 .. Len(Rows(c)) :
            Past(r, c, column, row) /\ p \in {<<r, 0>>, <<r, c>>}
      BY <2>2a
    <2>3. p = <<r, c>>
      BY <1>2, <2>2
    <2> QED
      BY <2>2, <2>3
  <1>3. \A p \in H!Cells : p \in DOMAIN table /\ p[1] # 0 /\ p[2] # 0
    BY DEF H!Cells
  <1>4. ASSUME NEW c \in 1 .. Len(l_size), NEW r \in 1 .. Cardinality(Names)
        PROVE  <<r, c>> \in DOMAIN table <=> r \in 1 .. Len(Rows(c)) /\ Past(r, c, column, row)
    <2>1. ASSUME <<r, c>> \in DOMAIN table
          PROVE  r \in 1 .. Len(Rows(c)) /\ Past(r, c, column, row)
      <3>1. r # 0 /\ c # 0
        BY <1>1
      <3>2a. PICK d \in 1 .. Len(l_size) : \E q \in 1 .. Len(Rows(d)) :
              <<r, c>> = <<q, d>> /\ Past(q, d, column, row)
        BY <1>2, <2>1, <3>1
      <3>2. PICK q \in 1 .. Len(Rows(d)) :
              <<r, c>> = <<q, d>> /\ Past(q, d, column, row)
        BY <3>2a
      <3> QED
        BY <3>2
    <2>2. ASSUME r \in 1 .. Len(Rows(c)), Past(r, c, column, row)
          PROVE  <<r, c>> \in DOMAIN table
      BY <2>2 DEF SheetInv, Filled, CellIn
    <2> QED
      BY <2>1, <2>2
  <1> QED
    BY <1>2, <1>3, <1>4

\* A cell whose label is the file it comes from is truthful.
LEMMA RightLabel ==
  ASSUME SheetInv, NEW c \in 1 .. Len(l_size), NEW r \in 1 .. Len(Rows(c)),
         Past(r, c, column, row), c = column \/ Agreed
  PROVE  H!Truthful(<<r, c>>)
  <1> DEFINE s == l_size[c]
             n == Rows(c)[r]
  <1>1. HeadIn(table, c)
    <2>1. Headed(c, column, row)
      BY ListingFacts DEF SheetInv, SheetFiles, Headed, Past
    <2> QED
      BY <2>1 DEF SheetInv, Filled
  <1>2. CellIn(table, r, c) /\ LabelIn(table, r, c)
    BY DEF SheetInv, Filled
  <1>3. s \in Sizes /\ n \in DOMAIN files[s] /\ files[s][n] \in SumTexts
    BY ListingFacts DEF SheetInv, SheetFiles
  <1>4. H!Reports(files[s][n], table[<<r, c>>])
    BY <1>2, <1>3, SumFacts DEF CellIn
  <1> QED
    BY <1>1, <1>2, <1>3, <1>4 DEF H!Truthful, HeadIn, CellIn, LabelIn

LEMMA SheetTypes == SheetInv => H!TypeOK
  <1> SUFFICES ASSUME SheetInv PROVE H!TypeOK
    OBVIOUS
  <1>1. /\ Len(l_size) = Cardinality(Sizes) /\ Len(l_size) \in Nat
        /\ \A c \in 1 .. Len(l_size) :
             Len(Rows(c)) \in Nat /\ Len(Rows(c)) <= Cardinality(Names)
    BY ListingFacts DEF SheetInv
  <1>2. Cardinality(Names) \in Nat
    BY SheetSets, FS_CardinalityType
  <1>3. column \in 1 .. Cardinality(Sizes) + 1 /\ row \in 0 .. Cardinality(Names) + 1
    <2>1. CASE column = Len(l_size) + 1
      BY <1>1, <1>2, <2>1 DEF SheetInv, SheetFiles
    <2>2. CASE column \in 1 .. Len(l_size)
      BY <1>1, <1>2, <2>2 DEF SheetInv, SheetFiles
    <2> QED
      BY <1>1, <2>1, <2>2 DEF SheetInv, SheetFiles
  <1>4. ASSUME NEW p \in DOMAIN table
        PROVE  /\ p \in (0 .. Cardinality(Names)) \X (0 .. Cardinality(Sizes))
               /\ p[1] = 0 => table[p] \in Sizes
               /\ p[1] # 0 /\ p[2] = 0 => table[p] \in Names
               /\ p[1] # 0 /\ p[2] # 0 => table[p] \in Pairs \cup {H!Zeros}
    <2>1. CASE \E c \in 1 .. Len(l_size) : p = <<0, c>> /\ Headed(c, column, row)
      <3>1. PICK c \in 1 .. Len(l_size) : p = <<0, c>> /\ Headed(c, column, row)
        BY <2>1
      <3>2. table[p] = l_size[c] /\ l_size[c] \in Sizes
        BY <3>1, ListingFacts DEF SheetInv, Filled, HeadIn
      <3> QED
        BY <1>1, <1>2, <3>1, <3>2
    <2>2. CASE \E c \in 1 .. Len(l_size) : \E r \in 1 .. Len(Rows(c)) :
                 Past(r, c, column, row) /\ p \in {<<r, 0>>, <<r, c>>}
      <3>1a. PICK c \in 1 .. Len(l_size) : \E r \in 1 .. Len(Rows(c)) :
              Past(r, c, column, row) /\ p \in {<<r, 0>>, <<r, c>>}
        BY <2>2
      <3>1. PICK r \in 1 .. Len(Rows(c)) :
              Past(r, c, column, row) /\ p \in {<<r, 0>>, <<r, c>>}
        BY <3>1a
      <3>2. CellIn(table, r, c)
        BY <3>1 DEF SheetInv, Filled
      <3>3. table[<<r, c>>] \in Pairs \cup {H!Zeros}
        <4>1. /\ l_size[c] \in Sizes /\ Rows(c)[r] \in DOMAIN files[l_size[c]]
              /\ files[l_size[c]][Rows(c)[r]] \in SumTexts
          BY ListingFacts DEF SheetInv, SheetFiles
        <4> QED
          BY <3>2, <4>1, SumFacts DEF CellIn
      <3>4. r # 0 /\ c # 0 /\ r \in 0 .. Cardinality(Names) /\ c \in 0 .. Cardinality(Sizes)
        BY <1>1, <1>2
      <3>5. CASE p = <<r, 0>>
        BY <1>1, <3>2, <3>4, <3>5 DEF CellIn
      <3>6. CASE p = <<r, c>>
        BY <3>3, <3>4, <3>6
      <3> QED
        BY <3>1, <3>5, <3>6
    <2> QED
      BY <2>1, <2>2 DEF SheetInv, Filled, NothingElse
  <1>5. DOMAIN table \subseteq (0 .. Cardinality(Names)) \X (0 .. Cardinality(Sizes))
    BY <1>4
  <1> QED
    BY <1>3, <1>4, <1>5, SameOperators DEF H!TypeOK

LEMMA SheetTruths == SheetInv => H!LastColumnTrue /\ H!LabelsTellTruth
  <1> SUFFICES ASSUME SheetInv PROVE H!LastColumnTrue /\ H!LabelsTellTruth
    OBVIOUS
  <1>1. ASSUME NEW p \in H!Cells, p[2] = column \/ Agreed PROVE H!Truthful(p)
    <2>1a. PICK c \in 1 .. Len(l_size) : \E r \in 1 .. Len(Rows(c)) :
            p = <<r, c>> /\ Past(r, c, column, row)
      BY SheetShape
    <2>1. PICK r \in 1 .. Len(Rows(c)) :
            p = <<r, c>> /\ Past(r, c, column, row)
      BY <2>1a
    <2>2. c = column \/ Agreed
      BY <1>1, <2>1
    <2> QED
      BY <2>1, <2>2, RightLabel
  <1> QED
    BY <1>1 DEF H!LastColumnTrue, H!LabelsTellTruth, Agreed

\* In a column, the rows with a value are as many as the files that report it.
LEMMA AsManyRows ==
  ASSUME SheetInv, NEW c \in 1 .. Len(l_size),
         \A r \in 1 .. Len(Rows(c)) : Past(r, c, column, row), NEW v
  PROVE  Cardinality({r \in 1 .. Len(Rows(c)) : table[<<r, c>>] = v})
           = Cardinality({n \in DOMAIN files[l_size[c]] : H!Reports(files[l_size[c]][n], v)})
  <1> DEFINE s == l_size[c]
             N == Len(Rows(c))
             R == {r \in 1 .. N : table[<<r, c>>] = v}
             F == {n \in DOMAIN files[s] : H!Reports(files[s][n], v)}
             m == [r \in R |-> Rows(c)[r]]
  <1>1. /\ s \in Sizes /\ N \in Nat
        /\ \A r \in 1 .. N : Rows(c)[r] \in DOMAIN files[s]
        /\ \A i, j \in 1 .. N : Rows(c)[i] = Rows(c)[j] => i = j
        /\ \A n \in DOMAIN files[s] : \E i \in 1 .. N : Rows(c)[i] = n
    BY ListingFacts DEF SheetInv
  <1>2. \A r \in 1 .. N : r \in R <=> Rows(c)[r] \in F
    <2> SUFFICES ASSUME NEW r \in 1 .. N
                 PROVE  table[<<r, c>>] = v <=> H!Reports(files[s][Rows(c)[r]], v)
      BY <1>1
    <2>1. table[<<r, c>>] = H!get_latency_and_throughput(files[s][Rows(c)[r]])
      BY DEF SheetInv, Filled, CellIn
    <2>2. files[s][Rows(c)[r]] \in SumTexts
      BY <1>1 DEF SheetInv, SheetFiles
    <2> QED
      BY <2>1, <2>2, SumFacts
  <1>3. IsFiniteSet(R)
    <2>1. IsFiniteSet(1 .. N) /\ R \subseteq 1 .. N
      BY <1>1, FS_Interval
    <2> QED
      BY <2>1, FS_Subset
  <1>4. m \in Bijection(R, F)
    <2>1. R \subseteq 1 .. N /\ F \subseteq DOMAIN files[s]
      OBVIOUS
    <2> HIDE DEF R, F, N, s
    <2>2. m \in [R -> F]
      BY <1>2, <2>1
    <2>3. \A i, j \in R : m[i] = m[j] => i = j
      BY <1>1, <2>1
    <2>4. \A n \in F : \E i \in R : m[i] = n
      BY <1>1, <1>2, <2>1
    <2> HIDE DEF m
    <2> QED
      BY <2>2, <2>3, <2>4 DEF Bijection, Injection, Surjection, IsInjective
  <1> HIDE DEF R, F, m
  <1>5. Cardinality(R) = Cardinality(F)
    BY <1>3, <1>4, FS_Bijection DEF ExistsBijection
  <1> QED
    BY <1>5 DEF R, F

LEMMA SheetComplete == SheetInv => H!NothingLost
  <1> SUFFICES ASSUME SheetInv, H!Saved, NEW c \in DOMAIN l_size
               PROVE  /\ table[<<0, c>>] = l_size[c]
                      /\ LET s == l_size[c]
                             rows == {r \in 1 .. H!Cardinality(Names) : <<r, c>> \in DOMAIN table}
                         IN  /\ rows = 1 .. H!Cardinality(DOMAIN files[s])
                             /\ \A v \in Pairs \cup {H!Zeros} :
                                  H!Cardinality({r \in rows : table[<<r, c>>] = v})
                                    = H!Cardinality({n \in DOMAIN files[s] : H!Reports(files[s][n], v)})
    BY DEF H!NothingLost
  <1> DEFINE s == l_size[c]
             N == Len(Rows(c))
             rows == {r \in 1 .. Cardinality(Names) : <<r, c>> \in DOMAIN table}
  <1>1. /\ c \in 1 .. Len(l_size) /\ Len(l_size) \in Nat /\ N \in Nat
        /\ N = Cardinality(DOMAIN files[s]) /\ N <= Cardinality(Names)
    BY ListingFacts DEF SheetInv
  <1>2. column = Len(l_size) + 1
    BY <1>1 DEF H!Saved, SheetInv, SheetFiles
  <1>3. c < column
    BY <1>1, <1>2
  <1>4. \A r \in 1 .. N : Past(r, c, column, row)
    BY <1>1, <1>3 DEF Past
  <1>5. table[<<0, c>>] = l_size[c]
    BY <1>1, <1>3 DEF SheetInv, Filled, Headed, HeadIn
  <1>6. rows = 1 .. N
    <2>1. \A r \in 1 .. Cardinality(Names) : r \in rows <=> r \in 1 .. N
      BY <1>1, <1>4, SheetShape
    <2>2. 1 .. N \subseteq 1 .. Cardinality(Names)
      BY <1>1, SheetSets, FS_CardinalityType
    <2> QED
      BY <2>1, <2>2
  <1>7. \A v : Cardinality({r \in rows : table[<<r, c>>] = v})
                 = Cardinality({n \in DOMAIN files[s] : H!Reports(files[s][n], v)})
    <2> HIDE DEF rows
    <2> QED
      BY <1>1, <1>4, <1>6, AsManyRows
  <1> QED
    BY <1>1, <1>5, <1>6, <1>7, SameOperators

\* The sheets of both scripts stand for their result files.  First script: no file
\* is lost, the last [SUM] counts, the labels of the last column are right, and
\* those of all columns if the directories were listed alike.  Second script: of
\* the files with counts above 0, the last line of a kind counts, and every count
\* above 0 has its own label.
THEOREM SheetsStandForFiles == SheetsSpec => []SheetsInv
  <1>1. H!Init => SheetInv
    BY SheetInvInit
  <1>2. SheetInv /\ [H!Next]_(H!vars) => SheetInv'
    BY SheetInvStep
  <1>3. X!Init => MixedInv
    BY MixedInvInit
  <1>4. MixedInv /\ [X!Next]_(X!vars) => MixedInv'
    BY MixedInvStep
  <1>5. SheetInv /\ MixedInv => SheetsInv
    BY SheetTypes, SheetTruths, SheetComplete, MixedInvImplies DEF SheetsInv
  <1> QED
    BY <1>1, <1>2, <1>3, <1>4, <1>5, PTL DEF SheetsSpec, H!Spec, X!Spec
===============================================================================
