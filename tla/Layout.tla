--------------------------------- MODULE Layout ---------------------------------
(***************************************************************************)
(* The typed objects of libpmemobj/types.h.  The compiler numbers the      *)
(* types of a layout with __COUNTER__, which other code has used before;   *)
(* objects carry the number of their type in the pool, which outlives the  *)
(* program.  A later build may begin at another count and append types,    *)
(* but declares those of the one before it in the same order.  A typed     *)
(* variable may hold the oid of any object: TOID_VALID tells its type.     *)
(***************************************************************************)
EXTENDS Integers, Sequences

CONSTANTS
  TypeNames,
  RootType,      \* the one that POBJ_LAYOUT_ROOT declares
  Places,        \* the offsets where objects may be, 0 not among them
  NoType,        \* what a place without an object holds
  MAX_COUNTER    \* a bound of where a build begins to count

ASSUME LayoutAssumption ==
  /\ RootType \in TypeNames /\ NoType \notin TypeNames
  /\ Places \subseteq Nat \ {0}
  /\ MAX_COUNTER \in Nat

VARIABLES
  counter,     \* what __COUNTER__ expands to next
  ref,         \* sizeof(_pobj_layout_name_ref), 0 before the layout
  cnt,         \* sizeof(_pobj_layout_name_cnt), 0 before its end
  declared,    \* the types of POBJ_LAYOUT_TOID, in order
  earlier,     \* the same of the build before
  num,         \* sizeof(_toid_t_toid_type_num) of each type, 0 undeclared
  stored,      \* the type number of the object in each place
  typed,       \* the offset in the typed variable of each type, 0 for OID_NULL
  made         \* history: the type that the program last gave each object

compiler   == <<counter, ref, cnt, declared, num>>
heapOfPool == <<stored, made>>
layoutVars == <<compiler, earlier, heapOfPool, typed>>

POBJ_ROOT_TYPE_NUM == 0

\* TOID_TYPE_NUM(t), and TOID_TYPE_NUM_OF(o) of a variable o of that type.
TOID_TYPE_NUM(t) == num[t] - 1

POBJ_LAYOUT_TYPES_NUM == cnt - 1

Declared == {t \in TypeNames : num[t] # 0}
Present  == {o \in Places : made[o] # NoType}

\* The checks of an object, of which the library reads the stored number.
OID_INSTANCEOF(o, t) == TOID_TYPE_NUM(t) = stored[o]
TOID_VALID(v)        == TOID_TYPE_NUM(v) = stored[typed[v]]

LayoutInit ==
  /\ counter \in 0 .. MAX_COUNTER
  /\ ref = 0 /\ cnt = 0
  /\ declared = << >> /\ earlier = << >>
  /\ num = [t \in TypeNames |-> 0]
  /\ stored = [o \in Places |-> 0] /\ made = [o \in Places |-> NoType]
  /\ typed = [t \in TypeNames |-> 0]

\* _pobj_layout_name_ref[__COUNTER__ + 1]
POBJ_LAYOUT_BEGIN ==
  /\ ref = 0
  /\ ref' = counter + 1
  /\ counter' = counter + 1
  /\ UNCHANGED <<cnt, declared, num, earlier, heapOfPool, typed>>

Inside == ref # 0 /\ cnt = 0

\* TOID_DECLARE(t, i): _toid_t_toid_type_num[i + 1]
TOID_DECLARE(t, i) == num' = [num EXCEPT ![t] = i + 1]

\* Mutated: the number is the counter, whatever the layout began with.
ToidAbsolute(t) ==
  /\ Inside
  /\ t \notin Declared \cup {RootType}
  /\ Len(declared) < Len(earlier) => t = earlier[Len(declared) + 1]
  /\ TOID_DECLARE(t, counter)
  /\ counter' = counter + 1
  /\ declared' = Append(declared, t)
  /\ UNCHANGED <<ref, cnt, earlier, heapOfPool, typed>>

\* A type of the layout; those of the build before come first.
POBJ_LAYOUT_TOID(t) ==
  /\ Inside
  /\ t \notin Declared \cup {RootType}
  /\ Len(declared) < Len(earlier) => t = earlier[Len(declared) + 1]
  /\ TOID_DECLARE(t, counter + 1 - ref)
  /\ counter' = counter + 1
  /\ declared' = Append(declared, t)
  /\ UNCHANGED <<ref, cnt, earlier, heapOfPool, typed>>

POBJ_LAYOUT_ROOT ==
  /\ Inside
  /\ RootType \notin Declared
  /\ TOID_DECLARE(RootType, POBJ_ROOT_TYPE_NUM)
  /\ UNCHANGED <<counter, ref, cnt, declared, earlier, heapOfPool, typed>>

\* _pobj_layout_name_cnt[__COUNTER__ + 1 - _POBJ_LAYOUT_REF(name)]
POBJ_LAYOUT_END ==
  /\ Inside
  /\ Len(earlier) <= Len(declared)
  /\ cnt' = counter + 1 - ref
  /\ counter' = counter + 1
  /\ UNCHANGED <<ref, declared, num, earlier, heapOfPool, typed>>

Usable == cnt # 0

\* Place o now holds an object that the program made as type t.
Holds(o, t) ==
  /\ stored' = [stored EXCEPT ![o] = TOID_TYPE_NUM(t)]
  /\ made'   = [made EXCEPT ![o] = t]

\* POBJ_NEW and POBJ_ALLOC, which take the address of any variable v, and
\* TX_NEW and TX_ALLOC, whose value is of type t; or no room: OID_NULL.
New(t, v) ==
  /\ Usable /\ {t, v} \subseteq Declared /\ t # RootType
  /\ \/ \E o \in Places \ Present :
          Holds(o, t) /\ typed' = [typed EXCEPT ![v] = o]
     \/ typed' = [typed EXCEPT ![v] = 0] /\ UNCHANGED heapOfPool
  /\ UNCHANGED <<compiler, earlier>>

\* POBJ_ROOT: the root object, made the first time.
Root ==
  /\ Usable /\ RootType \in Declared
  /\ \E o \in Places :
       /\ \/ made[o] = RootType /\ UNCHANGED heapOfPool
          \/ /\ o \notin Present /\ RootType \notin {made[p] : p \in Places}
             /\ stored' = [stored EXCEPT ![o] = POBJ_ROOT_TYPE_NUM]
             /\ made' = [made EXCEPT ![o] = RootType]
       /\ typed' = [typed EXCEPT ![RootType] = o]
  /\ UNCHANGED <<compiler, earlier>>

\* TOID_ASSIGN checks nothing.
TOID_ASSIGN(v, o) ==
  /\ Usable /\ v \in Declared
  /\ typed' = [typed EXCEPT ![v] = o]
  /\ UNCHANGED <<compiler, earlier, heapOfPool>>

\* The variable holds the oid of an object that may be freed or resized.
Refers(v) == Usable /\ v \in Declared /\ typed[v] \in Present /\ made[typed[v]] # RootType

\* POBJ_REALLOC, and TX_REALLOC where t is the type of v.
Realloc(t, v) ==
  /\ Refers(v) /\ t \in Declared \ {RootType}
  /\ \E o \in (Places \ Present) \cup {typed[v]} :
       /\ stored' = [[stored EXCEPT ![typed[v]] = 0] EXCEPT ![o] = TOID_TYPE_NUM(t)]
       /\ made' = [[made EXCEPT ![typed[v]] = NoType] EXCEPT ![o] = t]
       /\ typed' = [typed EXCEPT ![v] = o]
  /\ UNCHANGED <<compiler, earlier>>

\* POBJ_FREE, which clears the variable, and TX_FREE, which does not.
Free(v) ==
  /\ Refers(v)
  /\ stored' = [stored EXCEPT ![typed[v]] = 0]
  /\ made' = [made EXCEPT ![typed[v]] = NoType]
  /\ typed' \in {typed, [typed EXCEPT ![v] = 0]}
  /\ UNCHANGED <<compiler, earlier>>

\* The program is built again, after other uses of __COUNTER__, and opens the
\* pool that the build before it has left.
Rebuild ==
  /\ Usable
  /\ counter' \in 0 .. MAX_COUNTER
  /\ ref' = 0 /\ cnt' = 0
  /\ declared' = << >> /\ earlier' = declared
  /\ num' = [t \in TypeNames |-> 0]
  /\ typed' = [t \in TypeNames |-> 0]
  /\ UNCHANGED heapOfPool

Declaration == \/ POBJ_LAYOUT_BEGIN \/ POBJ_LAYOUT_ROOT \/ POBJ_LAYOUT_END
               \/ \E t \in TypeNames : POBJ_LAYOUT_TOID(t)

ObjectStep ==
  \/ Root
  \/ \E v \in TypeNames :
       \/ Free(v)
       \/ \E o \in Places \cup {0} : TOID_ASSIGN(v, o)
       \/ \E t \in TypeNames : New(t, v) \/ Realloc(t, v)

LayoutNext == Declaration \/ ObjectStep \/ Rebuild

LayoutSpec == LayoutInit /\ [][LayoutNext]_layoutVars
-------------------------------------------------------------------------------
\* The number of a type is its place in the layout and that of the root is 0,
\* wherever the build began to count; a complete layout knows how many it has.
NumberIsPlace ==
  /\ \A i \in DOMAIN declared : TOID_TYPE_NUM(declared[i]) = i
  /\ RootType \in Declared => TOID_TYPE_NUM(RootType) = POBJ_ROOT_TYPE_NUM
  /\ Usable => POBJ_LAYOUT_TYPES_NUM = Len(declared)

\* Of a variable whose object is there, TOID_VALID says whether the object was
\* last made as the variable's type, in this build of the program or an earlier
\* one, however its oid got into the variable; and so does OID_INSTANCEOF.
ValidTellsType ==
  Usable => \A v \in Declared :
    /\ \A o \in Present : OID_INSTANCEOF(o, v) <=> made[o] = v
    /\ typed[v] \in Present => (TOID_VALID(v) <=> made[typed[v]] = v)

\* Both: a program that checks its oids never takes an object for another type.
TypesAreTold == NumberIsPlace /\ ValidTellsType
=============================================================================
