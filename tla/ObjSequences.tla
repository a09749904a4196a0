----------------------------- MODULE ObjSequences -----------------------------
(***************************************************************************)
(* What the persistent lists promise: every head has a sequence of         *)
(* objects, and each operation changes the sequences in one step, as the   *)
(* name of its macro says.                                                 *)
(***************************************************************************)
EXTENDS SequencesExt

VARIABLES
  lists,   \* the sequence of each head
  op       \* the last operation: its macro, the head it takes from, the head
           \* it gives to, the element of the list it refers to, the object

vars == <<lists, op>>

Position(s, e) == CHOOSE i \in DOMAIN s : s[i] = e

\* Where the object comes to stand in the sequence s.
Place(s) ==
  CASE op'.name \in {"INSERT_HEAD", "MOVE_ELEMENT_HEAD"}     -> 1
    [] op'.name \in {"INSERT_TAIL", "MOVE_ELEMENT_TAIL"}     -> Len(s) + 1
    [] op'.name \in {"INSERT_BEFORE", "MOVE_ELEMENT_BEFORE"} ->
         Position(s, op'.listelm)
    [] OTHER -> Position(s, op'.listelm) + 1

Without(e) ==
  [h \in DOMAIN lists |-> IF e \in Range(lists[h])
                          THEN RemoveAt(lists[h], Position(lists[h], e)) ELSE lists[h]]
Joined(ls) == [ls EXCEPT ![op'.head_new] = InsertAt(@, Place(@), op'.elm)]

Operation ==
  /\ op'.head_new \in DOMAIN lists
  /\ lists' = IF op'.name \in {"REMOVE", "REMOVE_FREE"} THEN Without(op'.elm)
              ELSE Joined(Without(op'.elm))

Spec == (\A h \in DOMAIN lists : lists[h] = << >>) /\ [][Operation]_vars
=============================================================================
