------------------------------ MODULE GlobalClock ------------------------------
(***************************************************************************)
(* The clock of run_mixed_benchmark: once all threads are created the main *)
(* thread starts a Timer, then stops it over and over until it shows more  *)
(* than run_seconds, raises time_is_over and goes on to join the threads.  *)
(* MixedRun takes this loop as its single action Deadline.                 *)
(***************************************************************************)
EXTENDS Timer

CONSTANTS
  RUN,        \* run_seconds, in nanoseconds
  LATEST_START   \* bound of the model: the threads are created before this

\* The loop can only end if a size_t can show more than run_seconds.
ASSUME GlobalClockAssumption ==
  /\ RUN \in Nat /\ RUN + 1 < SIZE_MOD
  /\ LATEST_START \in Nat

VARIABLES
  main_pc,        \* "start", "poll" or "join"
  time_is_over,   \* the global flag the threads look at
  begin           \* history: the clock when the Timer was started

clockVars == <<timerVars, main_pc, time_is_over, begin>>

ClockInit == TimerInit /\ main_pc = "start" /\ time_is_over = FALSE /\ begin = 0

\* Mutated: the clock is not started, the Timer is only constructed.
StartClockForgotten ==
  /\ main_pc = "start"
  /\ main_pc' = "poll"
  /\ begin' = clock
  /\ UNCHANGED <<timerVars, time_is_over>>

StartClock ==
  /\ main_pc = "start"
  /\ Start
  /\ main_pc' = "poll"
  /\ begin' = clock
  /\ UNCHANGED time_is_over

\* Mutated: the loop is left without the flag.
PollForgetsFlag ==
  /\ main_pc = "poll"
  /\ Stop
  /\ main_pc' = IF elapsed' > RUN THEN "join" ELSE "poll"
  /\ UNCHANGED <<time_is_over, begin>>

\* One turn of the loop: global_clock.Stop(), GetSeconds() > run_seconds.
Poll ==
  /\ main_pc = "poll"
  /\ Stop
  /\ \/ /\ elapsed' > RUN
        /\ time_is_over' = TRUE
        /\ main_pc' = "join"
     \/ /\ elapsed' <= RUN
        /\ UNCHANGED <<time_is_over, main_pc>>
  /\ UNCHANGED begin

ClockPass ==
  /\ \E ns \in 1 .. MAX_CLOCK : Tick(ns)
  /\ main_pc = "start" => clock' <= LATEST_START
  /\ UNCHANGED <<main_pc, time_is_over, begin>>

Joining == main_pc = "join" /\ UNCHANGED clockVars

ClockNext == StartClock \/ Poll \/ ClockPass \/ Joining

ClockSpec == ClockInit /\ [][ClockNext]_clockVars

\* The main thread runs, and CLOCK_MONOTONIC passes every time.
ClockFairness == WF_clockVars(StartClock) /\ WF_clockVars(Poll) /\ WF_clockVars(ClockPass)

ClockFairSpec == ClockSpec /\ ClockFairness
-------------------------------------------------------------------------------
\* Types; the flag goes up on the way out of the loop.
ClockTypeOK ==
  /\ TimerTypeOK
  /\ main_pc \in {"start", "poll", "join"}
  /\ time_is_over \in BOOLEAN
  /\ begin \in Nat /\ begin <= clock
  /\ time_is_over <=> main_pc = "join"

\* Whatever the fields of the two timespecs, the flag is not raised before
\* more than run_seconds have passed since the threads were created.
NeverEarly == time_is_over => clock - begin > RUN

\* A look at the clock after the deadline is the last one: the loop does not
\* go round again on a total that it has already replaced.
NoLookWasted == [][(Poll /\ clock - begin > RUN) => time_is_over']_clockVars

\* The flag is raised in the end.
DeadlineComes == <>time_is_over
=============================================================================
