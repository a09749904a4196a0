-------------------------------- MODULE ObjList --------------------------------
(***************************************************************************)
(* The persistent circular doubly-linked lists of libpmemobj/              *)
(* lists_atomic.h: the macros that insert, remove and move objects, each   *)
(* one call of the library, and the loops POBJ_LIST_FOREACH and            *)
(* POBJ_LIST_FOREACH_REVERSE, whose bodies use those macros.  One thread   *)
(* at a time uses a list.  What the four functions of the library do to    *)
(* the links is known from how the macros use them.                        *)
(***************************************************************************)
EXTENDS Integers, SequencesExt

CONSTANTS
  Heads,
  Elements  \* offsets of objects; that of OID_NULL, 0, is not one

ASSUME ObjListAssumption == Elements \subseteq Nat \ {0} /\ IsFiniteSet(Elements)

OID_NULL == 0
POBJ_LIST_DEST_HEAD   == 1
POBJ_LIST_DEST_TAIL   == 0
POBJ_LIST_DEST_BEFORE == 1
POBJ_LIST_DEST_AFTER  == 0

VARIABLES
  pe_first,   \* of each head
  pe_next,    \* of each object
  pe_prev,
  heap,       \* the objects that are allocated
  op,         \* history: the last operation
  list_pc,    \* "idle", "body" or "done" of the loop
  loop,       \* its head, and whether it is the reverse one
  var,        \* its variable
  visited,    \* history: the objects its body saw
  kept,       \* history: those that were in the list from its start, untouched
  gone        \* history: those that an operation of its body took from a list

links   == <<pe_first, pe_next, pe_prev>>
cursor  == <<list_pc, loop, var, visited>>
listVars == <<links, heap, op, cursor, kept, gone>>

NoOp == [name |-> "NONE", head |-> 0, head_new |-> 0, listelm |-> OID_NULL,
         elm |-> OID_NULL]

ListInit ==
  /\ pe_first = [h \in Heads |-> OID_NULL]
  /\ pe_next = [e \in Elements |-> OID_NULL]
  /\ pe_prev = [e \in Elements |-> OID_NULL]
  /\ heap \in SUBSET Elements
  /\ op = NoOp
  /\ list_pc = "idle" /\ loop = [head |-> 0, reverse |-> FALSE]
  /\ var = OID_NULL /\ visited = << >> /\ kept = {} /\ gone = {}
-------------------------------------------------------------------------------
\* The links, and what the functions of the library make of links k.
Links == [first |-> pe_first, next |-> pe_next, prev |-> pe_prev]

Linked(k, head, dest, before, e) ==
  LET f == k.first[head]
      d == IF dest # OID_NULL THEN dest
           ELSE IF before = POBJ_LIST_DEST_BEFORE THEN f ELSE k.prev[f]
      p == IF before = POBJ_LIST_DEST_BEFORE THEN k.prev[d] ELSE d
      n == IF before = POBJ_LIST_DEST_BEFORE THEN d ELSE k.next[d]
  IN  IF f = OID_NULL
      THEN [first |-> [k.first EXCEPT ![head] = e],
            next  |-> [k.next EXCEPT ![e] = e],
            prev  |-> [k.prev EXCEPT ![e] = e]]
      ELSE [first |-> IF before = POBJ_LIST_DEST_BEFORE /\ d = f
                      THEN [k.first EXCEPT ![head] = e] ELSE k.first,
            next  |-> [[k.next EXCEPT ![e] = n] EXCEPT ![p] = e],
            prev  |-> [[k.prev EXCEPT ![e] = p] EXCEPT ![n] = e]]

Unlinked(k, head, e) ==
  LET n == k.next[e]
      p == k.prev[e]
  IN  [first |-> IF k.first[head] # e THEN k.first
                 ELSE [k.first EXCEPT ![head] = IF n = e THEN OID_NULL ELSE n],
       next  |-> [[k.next EXCEPT ![p] = n] EXCEPT ![e] = OID_NULL],
       prev  |-> [[k.prev EXCEPT ![n] = p] EXCEPT ![e] = OID_NULL]]

Becomes(k) == pe_first' = k.first /\ pe_next' = k.next /\ pe_prev' = k.prev

\* A call: what it leaves of the links and of the heap, and for which macro.
pmemobj_list_insert(head, dest, before, e) ==
  Becomes(Linked(Links, head, dest, before, e)) /\ UNCHANGED heap
pmemobj_list_insert_new(head, dest, before, e) ==
  Becomes(Linked(Links, head, dest, before, e)) /\ heap' = heap \cup {e}
pmemobj_list_remove(head, e, free) ==
  /\ Becomes(Unlinked(Links, head, e))
  /\ heap' = IF free = 1 THEN heap \ {e} ELSE heap
pmemobj_list_move(head, head_new, dest, before, e) ==
  Becomes(Linked(Unlinked(Links, head, e), head_new, dest, before, e)) /\ UNCHANGED heap
-------------------------------------------------------------------------------
\* The objects from the first one on along the next ones, by links k.
ChainOf(k, head) ==
  LET path[i \in 0 .. Cardinality(Elements)] ==   \* its first i objects at most
        IF i = 0 \/ k.first[head] = OID_NULL THEN << >>
        ELSE IF i = 1 THEN <<k.first[head]>>
        ELSE LET p == path[i - 1]
                 e == k.next[Last(p)]
             IN  IF e \in {OID_NULL, p[1]} THEN p ELSE Append(p, e)
  IN  path[Cardinality(Elements)]

Chain(head) == ChainOf(Links, head)

In(head) == Range(Chain(head))
Listed   == UNION {In(h) : h \in Heads}

\* The body of a loop leaves its current object alone, and what it took from a
\* list it does not put back.
MayTouch(e) == list_pc = "body" => e # var
MayAdd(e)   == list_pc = "body" => e \notin gone \cup Range(visited)

Did(name, head, head_new, listelm, e) ==
  /\ op' = [name |-> name, head |-> head, head_new |-> head_new,
            listelm |-> listelm, elm |-> e]
  /\ kept' = kept \ {e}
  /\ gone' = IF list_pc = "body" /\ e \in Listed THEN gone \cup {e} ELSE gone
  /\ UNCHANGED cursor

Ends == {<<"INSERT_HEAD", "MOVE_ELEMENT_HEAD", POBJ_LIST_DEST_HEAD>>,
         <<"INSERT_TAIL", "MOVE_ELEMENT_TAIL", POBJ_LIST_DEST_TAIL>>}
Sides == {<<"INSERT_AFTER", "MOVE_ELEMENT_AFTER", POBJ_LIST_DEST_AFTER>>,
          <<"INSERT_BEFORE", "MOVE_ELEMENT_BEFORE", POBJ_LIST_DEST_BEFORE>>}

\* Mutated: the new object goes to the other side.
InsertOtherSide ==
  \E head \in Heads, e \in heap \ Listed, m \in Ends \cup Sides :
    \E listelm \in IF m \in Sides THEN In(head) ELSE {OID_NULL} :
      /\ MayAdd(e)
      /\ pmemobj_list_insert(head, listelm, 1 - m[3], e)
      /\ Did(m[1], head, head, listelm, e)

\* POBJ_LIST_INSERT_HEAD and _TAIL, _AFTER and _BEFORE: an object of the heap.
Insert ==
  \E head \in Heads, e \in heap \ Listed, m \in Ends \cup Sides :
    \E listelm \in IF m \in Sides THEN In(head) ELSE {OID_NULL} :
      /\ MayAdd(e)
      /\ pmemobj_list_insert(head, listelm, m[3], e)
      /\ Did(m[1], head, head, listelm, e)

\* POBJ_LIST_INSERT_NEW_HEAD, _TAIL, _AFTER and _BEFORE: an object is allocated.
InsertNew ==
  \E head \in Heads, e \in Elements \ heap, m \in Ends \cup Sides :
    \E listelm \in IF m \in Sides THEN In(head) ELSE {OID_NULL} :
      /\ MayAdd(e)
      /\ pmemobj_list_insert_new(head, listelm, m[3], e)
      /\ Did(m[1], head, head, listelm, e)

\* POBJ_LIST_REMOVE and POBJ_LIST_REMOVE_FREE.
Remove_ ==
  \E head \in Heads, free \in {0, 1} : \E e \in In(head) :
    /\ MayTouch(e)
    /\ pmemobj_list_remove(head, e, free)
    /\ Did(IF free = 1 THEN "REMOVE_FREE" ELSE "REMOVE", head, head, OID_NULL, e)

\* POBJ_LIST_MOVE_ELEMENT_HEAD, _TAIL, _AFTER and _BEFORE.
Move ==
  \E head, head_new \in Heads, m \in Ends \cup Sides : \E e \in In(head) :
    \E listelm \in IF m \in Sides THEN In(head_new) \ {e} ELSE {OID_NULL} :
      /\ MayTouch(e) /\ (head_new = loop.head => MayAdd(e))
      /\ pmemobj_list_move(head, head_new, listelm, m[3], e)
      /\ Did(m[2], head, head_new, listelm, e)
-------------------------------------------------------------------------------
POBJ_LIST_FIRST(head) == pe_first[head]
POBJ_LIST_LAST(head)  == IF pe_first[head] = OID_NULL THEN pe_first[head]
                         ELSE pe_prev[pe_first[head]]
POBJ_LIST_NEXT(e) == pe_next[e]
POBJ_LIST_PREV(e) == pe_prev[e]

\* The variable of the loop becomes e, and the loop goes on unless e is null.
Takes(e) ==
  /\ var' = e
  /\ \/ e = OID_NULL /\ list_pc' = "done" /\ UNCHANGED visited
     \/ e # OID_NULL /\ list_pc' = "body" /\ visited' = Append(visited, e)

\* A loop begins at the first object or, in reverse, at the last.
Foreach ==
  /\ list_pc = "idle"
  /\ loop' \in [head : Heads, reverse : BOOLEAN]
  /\ Takes(IF loop'.reverse THEN POBJ_LIST_LAST(loop'.head) ELSE POBJ_LIST_FIRST(loop'.head))
  /\ kept' = In(loop'.head)
  /\ UNCHANGED <<links, heap, op, gone>>

\* The body ends; the loop ends at the object whose neighbour is where it began.
NextOf(e)  == IF loop.reverse THEN POBJ_LIST_PREV(e) ELSE POBJ_LIST_NEXT(e)

\* Mutated: the reverse loop ends at the head too.
WhereBeganHead == POBJ_LIST_FIRST(loop.head)

WhereBegan == IF loop.reverse THEN POBJ_LIST_LAST(loop.head) ELSE POBJ_LIST_FIRST(loop.head)

\* Mutated: the last object is not left.
ForeachStays ==
  /\ list_pc = "body"
  /\ IF NextOf(var) = WhereBegan THEN UNCHANGED <<list_pc, var, visited>> ELSE Takes(NextOf(var))
  /\ UNCHANGED <<links, heap, op, loop, kept, gone>>

ForeachNext ==
  /\ list_pc = "body"
  /\ Takes(IF NextOf(var) = WhereBegan THEN OID_NULL ELSE NextOf(var))
  /\ UNCHANGED <<links, heap, op, loop, kept, gone>>

\* After the loop its variable is of no use.
Leave ==
  /\ list_pc = "done"
  /\ list_pc' = "idle"
  /\ loop' = [head |-> 0, reverse |-> FALSE]
  /\ visited' = << >> /\ kept' = {} /\ gone' = {}
  /\ UNCHANGED <<links, heap, op, var>>

ListNext == Insert \/ InsertNew \/ Remove_ \/ Move \/ Foreach \/ ForeachNext \/ Leave

ListSpec == ListInit /\ [][ListNext]_listVars

\* The body of a loop ends.
ListFairness == WF_listVars(ForeachNext)

ListFairSpec == ListSpec /\ ListFairness
-------------------------------------------------------------------------------
\* Types; no list, and no loop, has an object that was freed.
ListTypeOK ==
  /\ pe_first \in [Heads -> heap \cup {OID_NULL}]
  /\ pe_next \in [Elements -> heap \cup {OID_NULL}]
  /\ pe_prev \in [Elements -> heap \cup {OID_NULL}]
  /\ list_pc \in {"idle", "body", "done"}
  /\ list_pc = "body" => var \in In(loop.head)

\* Each list is a ring in both directions, no object is in two lists, and the
\* objects in none have null links.
Rings ==
  /\ \A e \in Listed : pe_prev[pe_next[e]] = e /\ pe_next[pe_prev[e]] = e
  /\ \A h \in Heads : \A e \in In(h) : pe_next[e] \in In(h)
  /\ \A g, h \in Heads : g # h => In(g) \cap In(h) = {}
  /\ \A e \in Elements \ Listed : pe_next[e] = OID_NULL /\ pe_prev[e] = OID_NULL

\* e stands somewhere before f in the sequence s.
Precedes(s, e, f) == \E i, j \in DOMAIN s : i < j /\ s[i] = e /\ s[j] = f

\* A loop sees no object twice; those that its body leaves in place it sees all,
\* in the order of the list or in reverse, whatever the body does to the others.
ForeachSeesAll ==
  /\ IsInjective(visited)
  /\ list_pc = "done" =>
       /\ kept \subseteq Range(visited)
       /\ \A e, f \in kept :
            Precedes(visited, e, f) <=> IF loop.reverse THEN Precedes(Chain(loop.head), f, e)
                                        ELSE Precedes(Chain(loop.head), e, f)

\* Lists are rings, no object is in two, and a loop over one sees what its body
\* leaves in place, whatever the body does to the others.
ListsInv == ListTypeOK /\ Rings /\ ForeachSeesAll

\* The links hold the sequences that the names of the macros promise.
Sequences_ == INSTANCE ObjSequences WITH lists <- [h \in Heads |-> Chain(h)]

ImplementsSequences == Sequences_!Spec

\* A loop ends, whatever its body inserts.
ForeachEnds == list_pc = "body" ~> list_pc # "body"
=============================================================================
