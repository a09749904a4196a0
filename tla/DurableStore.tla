----------------------------- MODULE DurableStore -----------------------------
(***************************************************************************)
(* What --sync=1 promises: lines reach the media one by one, in any order, *)
(* never to be replaced by older contents, and a write returns only when   *)
(* everything it promises is there.                                        *)
(***************************************************************************)
EXTENDS Integers

CONSTANT Lines

VARIABLES
  safe,       \* the contents of the media, as the stamp of a line's last store
  promised    \* the contents a returned write vouches for

vars == <<safe, promised>>

Init == safe = [l \in Lines |-> 0] /\ promised = safe

Persist ==
  /\ safe' \in [Lines -> Nat]
  /\ \A l \in Lines : safe'[l] >= safe[l]
  /\ UNCHANGED promised

Return ==
  /\ promised' \in [Lines -> Nat]
  /\ \A l \in Lines : promised'[l] \in promised[l] .. safe[l]
  /\ UNCHANGED safe

Next == Persist \/ Return

Spec == Init /\ [][Next]_vars
=============================================================================
