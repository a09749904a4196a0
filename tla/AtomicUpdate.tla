----------------------------- MODULE AtomicUpdate -----------------------------
(***************************************************************************)
(* What a transaction promises: the contents that a crash would leave      *)
(* behind change once at most, from the old ones to the new ones.          *)
(***************************************************************************)
VARIABLES
  contents,
  before, after    \* what they are and what they are to become

vars == <<contents, before, after>>

Init == contents = before

Commit ==
  /\ contents = before /\ contents' = after
  /\ UNCHANGED <<before, after>>

Spec == Init /\ [][Commit]_vars
=============================================================================
