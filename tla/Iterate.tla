-------------------------------- MODULE Iterate --------------------------------
(***************************************************************************)
(* The loops of libpmemobj/iterator.h over the objects of a pool:          *)
(* POBJ_FOREACH and POBJ_FOREACH_SAFE, both also for one type only, and    *)
(* the loop from POBJ_FIRST by POBJ_NEXT.  The body frees what the loop    *)
(* lets it free, and objects are allocated at any moment.  The library     *)
(* keeps the objects in an order of its own; here it is that of their      *)
(* offsets.  Asking it about an object that is no longer there is an error *)
(* that ends the model.                                                    *)
(***************************************************************************)
EXTENDS Integers, Sequences, FiniteSetsExt

CONSTANTS
  Objects,   \* the offsets where objects may be, 0 not among them
  Types      \* type numbers

ASSUME IterateAssumption == Objects \subseteq Nat \ {0}

Kinds == {"FOREACH", "FOREACH_SAFE", "FOREACH_TYPE", "FOREACH_SAFE_TYPE", "FIRST_NEXT"}

VARIABLES
  kind,        \* the loop
  type_num,    \* the type of each object; an offset keeps its type
  wanted,      \* the type of the loops for one type
  live,        \* the objects of the pool
  loop_pc,     \* "first", "test", "body", "advance", "scan" or "done"
  varoid,      \* the loop variables
  nvaroid,
  _pobj_ret,   \* the local of POBJ_FIRST_TYPE_NUM and POBJ_NEXT_TYPE_NUM
  misused,     \* the library was asked about an object that is not there
  seen,        \* history: the objects the body saw
  untouched    \* history: the objects that were there since the beginning, or
               \* until the body saw them

pool == <<type_num, live>>
iterateVars == <<kind, pool, wanted, loop_pc, varoid, nvaroid, _pobj_ret, misused,
                 seen, untouched>>

IsSafe  == kind \in {"FOREACH_SAFE", "FOREACH_SAFE_TYPE"}
IsTyped == kind \in {"FOREACH_TYPE", "FOREACH_SAFE_TYPE", "FIRST_NEXT"}

Least(S) == IF S = {} THEN 0 ELSE Min(S)
pmemobj_first   == Least(live)
pmemobj_next(o) == Least({p \in live : p > o})

\* The calls of the library in this step are about the objects of S.
AskAbout(S) == misused' = ~ (S \subseteq live)

IterateInit ==
  /\ kind \in Kinds /\ wanted \in Types
  /\ type_num \in [Objects -> Types]
  /\ live \in SUBSET Objects /\ untouched = live
  /\ loop_pc = "first"
  /\ varoid = 0 /\ nvaroid = 0 /\ _pobj_ret = 0
  /\ misused = FALSE
  /\ seen = << >>

Running == loop_pc # "done" /\ ~ misused

\* varoid = pmemobj_first(pop), or the same for _pobj_ret in POBJ_FIRST.
First ==
  /\ Running /\ loop_pc = "first"
  /\ \/ /\ kind = "FIRST_NEXT"
        /\ _pobj_ret' = pmemobj_first /\ loop_pc' = "scan"
        /\ UNCHANGED varoid
     \/ /\ kind # "FIRST_NEXT"
        /\ varoid' = pmemobj_first /\ loop_pc' = "test"
        /\ UNCHANGED _pobj_ret
  /\ UNCHANGED <<kind, pool, wanted, nvaroid, misused, seen, untouched>>

\* One turn of the loops in POBJ_FIRST_TYPE_NUM and POBJ_NEXT_TYPE_NUM.  The
\* latter asks for the type of the object it started from each time.
Scan ==
  /\ Running /\ loop_pc = "scan"
  /\ \/ /\ _pobj_ret # 0
        /\ AskAbout({_pobj_ret} \cup ({varoid} \ {0}))
        /\ \/ /\ type_num[_pobj_ret] # wanted
              /\ _pobj_ret' = pmemobj_next(_pobj_ret)
              /\ UNCHANGED <<loop_pc, varoid, seen>>
           \/ /\ type_num[_pobj_ret] = wanted
              /\ varoid' = _pobj_ret /\ loop_pc' = "body"
              /\ seen' = Append(seen, _pobj_ret)
              /\ UNCHANGED _pobj_ret
     \/ /\ _pobj_ret = 0
        /\ varoid' = 0 /\ loop_pc' = "done"
        /\ UNCHANGED <<_pobj_ret, misused, seen>>
  /\ UNCHANGED <<kind, pool, wanted, nvaroid, untouched>>

\* The test of a FOREACH loop; the safe ones look ahead in it.  The loops for
\* one type have an if around the body.
LoopTest ==
  /\ Running /\ loop_pc = "test"
  /\ \/ /\ varoid = 0
        /\ loop_pc' = "done"
        /\ UNCHANGED <<nvaroid, misused, seen>>
     \/ /\ varoid # 0
        /\ AskAbout(IF IsSafe \/ IsTyped THEN {varoid} ELSE {})
        /\ nvaroid' = IF IsSafe THEN pmemobj_next(varoid) ELSE nvaroid
        /\ \/ /\ IsTyped /\ type_num[varoid] # wanted
              /\ loop_pc' = "advance"
              /\ UNCHANGED seen
           \/ /\ IsTyped => type_num[varoid] = wanted
              /\ loop_pc' = "body"
              /\ seen' = Append(seen, varoid)
  /\ UNCHANGED <<kind, pool, wanted, varoid, _pobj_ret, untouched>>

\* The body frees an object: in a safe loop the current one, and only there.
FreeInBody ==
  /\ Running /\ loop_pc = "body"
  /\ \E o \in live :
       /\ IF IsSafe THEN o = varoid ELSE o # varoid
       /\ live' = live \ {o}
       /\ untouched' = IF o = varoid THEN untouched ELSE untouched \ {o}
  /\ UNCHANGED <<kind, type_num, wanted, loop_pc, varoid, nvaroid, _pobj_ret, misused, seen>>

EndBody ==
  /\ Running /\ loop_pc = "body"
  /\ loop_pc' = "advance"
  /\ UNCHANGED <<kind, pool, wanted, varoid, nvaroid, _pobj_ret, misused, seen, untouched>>

\* Mutated: the safe loops go on from the current object too.
AdvanceFromCurrent ==
  /\ Running /\ loop_pc = "advance"
  /\ AskAbout({varoid})
  /\ \/ /\ kind = "FIRST_NEXT"
        /\ _pobj_ret' = pmemobj_next(varoid) /\ loop_pc' = "scan"
        /\ UNCHANGED varoid
     \/ /\ kind # "FIRST_NEXT"
        /\ varoid' = pmemobj_next(varoid) /\ loop_pc' = "test"
        /\ UNCHANGED _pobj_ret
  /\ UNCHANGED <<kind, pool, wanted, nvaroid, seen, untouched>>

\* varoid = nvaroid, varoid = pmemobj_next(varoid), or the head of POBJ_NEXT.
Advance ==
  /\ Running /\ loop_pc = "advance"
  /\ \/ /\ kind = "FIRST_NEXT"
        /\ AskAbout({varoid})
        /\ _pobj_ret' = pmemobj_next(varoid) /\ loop_pc' = "scan"
        /\ UNCHANGED varoid
     \/ /\ IsSafe
        /\ varoid' = nvaroid /\ loop_pc' = "test"
        /\ UNCHANGED <<_pobj_ret, misused>>
     \/ /\ kind # "FIRST_NEXT" /\ ~ IsSafe
        /\ AskAbout({varoid})
        /\ varoid' = pmemobj_next(varoid) /\ loop_pc' = "test"
        /\ UNCHANGED _pobj_ret
  /\ UNCHANGED <<kind, pool, wanted, nvaroid, seen, untouched>>

\* The body or another thread allocates an object.
Allocate ==
  /\ Running
  /\ \E o \in Objects \ live : live' = live \cup {o}
  /\ UNCHANGED <<kind, type_num, wanted, loop_pc, varoid, nvaroid, _pobj_ret, misused, seen, untouched>>

LoopStep == First \/ Scan \/ LoopTest \/ EndBody \/ Advance

IterateNext == LoopStep \/ FreeInBody \/ Allocate \/ (~ Running /\ UNCHANGED iterateVars)

IterateSpec == IterateInit /\ [][IterateNext]_iterateVars

\* The thread of the loop runs and the body ends.
IterateFairness == WF_iterateVars(LoopStep)

IterateFairSpec == IterateSpec /\ IterateFairness
-------------------------------------------------------------------------------
\* Types; the body sees objects that are there.
IterateTypeOK ==
  /\ live \subseteq Objects /\ untouched \subseteq Objects
  /\ {varoid, nvaroid, _pobj_ret} \subseteq Objects \cup {0}
  /\ loop_pc \in {"first", "test", "body", "advance", "scan", "done"}
  /\ loop_pc = "body" => varoid \in Objects /\ seen # << >>

\* No loop asks the library about an object that the body was allowed to free.
NeverMisused == ~ misused

\* The body sees no object twice and, by the end, each object of the wanted
\* type that was there all the time, whatever was freed and allocated between.
EachOnce ==
  LET inBody == {seen[i] : i \in DOMAIN seen}
      mine == {o \in untouched : IsTyped => type_num[o] = wanted}
  IN  /\ \A i, j \in DOMAIN seen : i < j => seen[i] < seen[j]
      /\ IsTyped => \A o \in inBody : type_num[o] = wanted
      /\ (loop_pc = "done" /\ ~ misused) => mine \subseteq inBody

\* A loop asks for no object that its body has freed, and sees each object that
\* stays in place once, in order.
LoopsInv ==
  /\ IterateTypeOK
  /\ NeverMisused
  /\ EachOnce

\* The loop ends.
LoopEnds == <>(~ Running)
=============================================================================
