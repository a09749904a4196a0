------------------------------- MODULE Stopwatch -------------------------------
(***************************************************************************)
(* What a Timer promises: over a clock that never goes back, Begin marks   *)
(* an origin, Read replaces the total by the time since the origin, Add    *)
(* adds that time to the total.  Totals are kept modulo MODULUS.  Before   *)
(* the first Begin nothing is promised about the total.                    *)
(***************************************************************************)
EXTENDS Integers

CONSTANTS MODULUS

VARIABLES
  time,     \* nanoseconds on the clock
  begun,    \* whether there has been a Begin
  origin,   \* the time of the last Begin
  total     \* what the stopwatch shows

stopwatchVars == <<time, begun, origin, total>>

Init == time \in Nat /\ begun = FALSE /\ origin \in Int /\ total = 0

Pass  == time' > time /\ UNCHANGED <<begun, origin, total>>
Begin == begun' = TRUE /\ origin' = time /\ UNCHANGED <<time, total>>
Read  == begun /\ total' = (time - origin) % MODULUS /\ UNCHANGED <<time, begun, origin>>
Add   == begun /\ total' = (total + time - origin) % MODULUS /\ UNCHANGED <<time, begun, origin>>
Noise == ~ begun /\ total' \in 0 .. MODULUS - 1 /\ UNCHANGED <<time, begun, origin>>

Next == Pass \/ Begin \/ Read \/ Add \/ Noise

Spec == Init /\ [][Next]_stopwatchVars
=============================================================================
