--------------------------------- MODULE Timer ---------------------------------
(***************************************************************************)
(* class Timer of timer.h (ssd_test/timer.h is the same class): a          *)
(* stopwatch over CLOCK_MONOTONIC, which the code reads as a pair of       *)
(* seconds and nanoseconds.  The differences are computed field by field   *)
(* in signed 64-bit arithmetic, the total is a size_t.  One action is one  *)
(* call; time passes between calls.                                        *)
(***************************************************************************)
EXTENDS Integers

CONSTANTS
  NSEC,       \* nanoseconds in a second: 1000000000
  SIZE_MOD,   \* 2^64, the number of values of a size_t
  Uninit,     \* what an unwritten struct timespec may hold
  Boot,       \* what the clock may show when the Timer is constructed
  MAX_CLOCK   \* bound of the model: the clock is not followed further

\* tv_nsec of a stack garbage timespec need not be below a second.
ASSUME TimerAssumption ==
  /\ NSEC \in Nat \ {0}
  /\ SIZE_MOD \in Nat \ {0}
  /\ Uninit \subseteq [tv_sec : Int, tv_nsec : Int]
  /\ Boot \subseteq Nat
  /\ MAX_CLOCK \in Nat

VARIABLES
  clock,     \* CLOCK_MONOTONIC, in nanoseconds
  start,     \* the members of the class
  end,
  now,
  elapsed,
  started    \* history: Start has been called

timerVars == <<clock, start, end, now, elapsed, started>>

\* clock_gettime(CLOCK_MONOTONIC).
Timespec(ns) == [tv_sec |-> ns \div NSEC, tv_nsec |-> ns % NSEC]

Nanoseconds(ts) == ts.tv_sec * NSEC + ts.tv_nsec

\* Mutated: the nanoseconds are taken as a distance.
DifferenceAbs(e, s) ==
  LET d == e.tv_nsec - s.tv_nsec
  IN  (e.tv_sec - s.tv_sec) * NSEC + (IF d < 0 THEN - d ELSE d)

\* (end.tv_sec - start.tv_sec) * 1000000000 + (end.tv_nsec - start.tv_nsec)
Difference(e, s) == (e.tv_sec - s.tv_sec) * NSEC + (e.tv_nsec - s.tv_nsec)

\* The conversion of a signed value to size_t.
Size(n) == n % SIZE_MOD

\* The constructor leaves the three timespecs alone.
TimerInit ==
  /\ clock \in Boot
  /\ start \in Uninit /\ end \in Uninit /\ now \in Uninit
  /\ elapsed = 0
  /\ started = FALSE

Tick(ns) ==
  /\ clock + ns <= MAX_CLOCK
  /\ clock' = clock + ns
  /\ UNCHANGED <<start, end, now, elapsed, started>>

Start ==
  /\ start' = Timespec(clock)
  /\ started' = TRUE
  /\ UNCHANGED <<clock, end, now, elapsed>>

Stop ==
  /\ end' = Timespec(clock)
  /\ elapsed' = Size(Difference(end', start))
  /\ UNCHANGED <<clock, start, now, started>>

Accumulate ==
  /\ end' = Timespec(clock)
  /\ elapsed' = Size(elapsed + Difference(end', start))
  /\ UNCHANGED <<clock, start, now, started>>

\* The call returns Nanoseconds(now'); Get and GetSeconds return elapsed and
\* change nothing.
Now ==
  /\ now' = Timespec(clock)
  /\ UNCHANGED <<clock, start, end, elapsed, started>>

TimerNext == (\E ns \in 1 .. MAX_CLOCK : Tick(ns)) \/ Start \/ Stop \/ Accumulate \/ Now

TimerSpec == TimerInit /\ [][TimerNext]_timerVars
-------------------------------------------------------------------------------
timespec == [tv_sec : Int, tv_nsec : Int]

\* Types of the members; a total that fits in size_t.
TimerTypeOK ==
  /\ clock \in Nat
  /\ start \in timespec /\ end \in timespec /\ now \in timespec
  /\ elapsed \in 0 .. SIZE_MOD - 1
  /\ started \in BOOLEAN

\* Whatever the mix of calls, the class is a stopwatch: the borrow between the
\* two fields, Stop after Accumulate, Now between Start and Stop change
\* nothing, and a garbage start is forgotten with the first Start.
Watch == INSTANCE Stopwatch WITH
  MODULUS <- SIZE_MOD, time <- clock, begun <- started,
  origin <- Nanoseconds(start), total <- elapsed

IsStopwatch == Watch!Spec
=============================================================================
