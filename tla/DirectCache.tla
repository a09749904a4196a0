------------------------------ MODULE DirectCache ------------------------------
(***************************************************************************)
(* pmemobj_direct_inline of libpmemobj/base.h: the pointer of an object is *)
(* the address of its pool plus its offset, and every thread remembers the *)
(* pool it looked up last.  The library increments _pobj_cache_invalidate  *)
(* when a pool is closed; a thread compares it with the number it noted.   *)
(* Threads convert while others open and close pools, which may come back  *)
(* at another address.                                                     *)
(***************************************************************************)
EXTENDS Integers

CONSTANTS
  Threads,
  Uuids,       \* of pools, none of them 0
  Addresses,   \* where a pool may be mapped
  Offsets,     \* of objects; 0 is that of OID_NULL
  NULL,
  INT_MOD,     \* 2^32, the values of the counter
  MAX_CLOSES   \* bound of the model: pools are closed so many times

ASSUME DirectCacheAssumption ==
  /\ Uuids \subseteq Nat \ {0}
  /\ Addresses \subseteq Nat
  /\ NULL \notin Addresses
  /\ Offsets \subseteq Nat /\ 0 \in Offsets
  /\ INT_MOD \in Nat \ {0} /\ MAX_CLOSES \in Nat

\* The counter does not come round to a number that a thread still remembers.
ASSUME NoWrap == MAX_CLOSES < INT_MOD

VARIABLES
  pools,                   \* the open pools: an address by uuid
  closes,                  \* history: how many were closed
  _pobj_cache_invalidate,
  cache,                   \* _pobj_cached_pool of each thread
  pc,                      \* "idle", "test", "note", "lookup" or "return"
  oid,                     \* the argument of each thread
  result,                  \* << >> before the call returns, then a pool's
                           \* address and an offset, or NULL
  valid                    \* history: what the call may return: where the
                           \* pool has been since it was called

vars == <<pools, closes, _pobj_cache_invalidate, cache, pc, oid, result, valid>>

PMEMoid == [pool_uuid_lo : Uuids \cup {0}, off : Offsets]

\* The address of the pool of o, NULL if it is not open.
PoolOf(o) == IF o.pool_uuid_lo \in DOMAIN pools THEN pools[o.pool_uuid_lo] ELSE NULL

Init ==
  /\ pools = << >>
  /\ closes = 0
  /\ _pobj_cache_invalidate = 0
  /\ cache = [t \in Threads |-> [pop |-> NULL, uuid_lo |-> 0, invalidate |-> 0]]
  /\ pc = [t \in Threads |-> "idle"]
  /\ oid = [t \in Threads |-> [pool_uuid_lo |-> 0, off |-> 0]]
  /\ result = [t \in Threads |-> << >>]
  /\ valid = [t \in Threads |-> {}]

Goto(t, p) == pc' = [pc EXCEPT ![t] = p]

\* The threads that are converting an oid of pool u see it at a as well.
Seen(u, a) == valid' = [t \in Threads |->
  IF pc[t] # "idle" /\ oid[t].pool_uuid_lo = u THEN valid[t] \cup {a} ELSE valid[t]]

\* pmemobj_open: a pool is mapped where there is room.
Open ==
  \E u \in Uuids \ DOMAIN pools, a \in Addresses \ {pools[v] : v \in DOMAIN pools} :
    /\ pools' = [v \in DOMAIN pools \cup {u} |-> IF v = u THEN a ELSE pools[v]]
    /\ Seen(u, a)
    /\ UNCHANGED <<closes, _pobj_cache_invalidate, cache, pc, oid, result>>

\* pmemobj_close: the caches of all threads are out of date.
Close ==
  \E u \in DOMAIN pools :
    /\ closes < MAX_CLOSES
    /\ closes' = closes + 1
    /\ pools' = [v \in DOMAIN pools \ {u} |-> pools[v]]
    /\ _pobj_cache_invalidate' = (_pobj_cache_invalidate + 1) % INT_MOD
    /\ Seen(u, NULL)
    /\ UNCHANGED <<cache, pc, oid, result>>

\* The call with o, and the test for OID_NULL.
Call(t) ==
  \E o \in PMEMoid :
    /\ pc[t] = "idle"
    /\ oid' = [oid EXCEPT ![t] = o]
    /\ valid' = [valid EXCEPT ![t] = {PoolOf(o)}]
    /\ \/ /\ o.off = 0 \/ o.pool_uuid_lo = 0
          /\ result' = [result EXCEPT ![t] = <<NULL>>]
          /\ Goto(t, "return")
       \/ /\ o.off # 0 /\ o.pool_uuid_lo # 0
          /\ result' = [result EXCEPT ![t] = << >>]
          /\ Goto(t, "test")
    /\ UNCHANGED <<pools, closes, _pobj_cache_invalidate, cache>>

Direct(t, pop) == result' = [result EXCEPT ![t] = <<pop, oid[t].off>>]

\* Mutated: the counter is not compared.
TestUuidOnly(t) ==
  /\ pc[t] = "test"
  /\ \/ /\ cache[t].uuid_lo # oid[t].pool_uuid_lo
        /\ Goto(t, "note")
        /\ UNCHANGED result
     \/ /\ cache[t].uuid_lo = oid[t].pool_uuid_lo
        /\ Direct(t, cache[t].pop)
        /\ Goto(t, "return")
  /\ UNCHANGED <<pools, closes, _pobj_cache_invalidate, cache, oid, valid>>

\* Is the pool in the cache the one of the oid, and is the cache up to date?
Test(t) ==
  LET stale == \/ _pobj_cache_invalidate # cache[t].invalidate
               \/ cache[t].uuid_lo # oid[t].pool_uuid_lo
  IN  /\ pc[t] = "test"
      /\ \/ /\ stale
            /\ Goto(t, "note")
            /\ UNCHANGED result
         \/ /\ ~ stale
            /\ Direct(t, cache[t].pop)
            /\ Goto(t, "return")
      /\ UNCHANGED <<pools, closes, _pobj_cache_invalidate, cache, oid, valid>>

\* cache->invalidate = _pobj_cache_invalidate, a second read of the counter.
Note(t) ==
  /\ pc[t] = "note"
  /\ cache' = [cache EXCEPT ![t].invalidate = _pobj_cache_invalidate]
  /\ Goto(t, "lookup")
  /\ UNCHANGED <<pools, closes, _pobj_cache_invalidate, oid, result, valid>>

\* pmemobj_pool_by_oid, which finds open pools only, and what is kept of it.
Lookup(t) ==
  LET pop == PoolOf(oid[t])
      u   == IF pop = NULL THEN 0 ELSE oid[t].pool_uuid_lo
  IN  /\ pc[t] = "lookup"
      /\ cache' = [cache EXCEPT ![t].pop = pop, ![t].uuid_lo = u]
      /\ \/ pop = NULL /\ result' = [result EXCEPT ![t] = <<NULL>>]
         \/ pop # NULL /\ Direct(t, pop)
      /\ Goto(t, "return")
      /\ UNCHANGED <<pools, closes, _pobj_cache_invalidate, oid, valid>>

Return(t) ==
  /\ pc[t] = "return"
  /\ Goto(t, "idle")
  /\ UNCHANGED <<pools, closes, _pobj_cache_invalidate, cache, oid, result, valid>>

ThreadStep(t) == Call(t) \/ Test(t) \/ Note(t) \/ Lookup(t) \/ Return(t)

Next == Open \/ Close \/ \E t \in Threads : ThreadStep(t)

Spec == Init /\ [][Next]_vars
-------------------------------------------------------------------------------
\* Types; a call that has not returned knows what it may return.
TypeOK ==
  /\ DOMAIN pools \subseteq Uuids /\ \A u \in DOMAIN pools : pools[u] \in Addresses
  /\ closes \in 0 .. MAX_CLOSES
  /\ _pobj_cache_invalidate \in 0 .. INT_MOD - 1
  /\ cache \in [Threads -> [pop : Addresses \cup {NULL}, uuid_lo : Uuids \cup {0},
                            invalidate : 0 .. INT_MOD - 1]]
  /\ pc \in [Threads -> {"idle", "test", "note", "lookup", "return"}]
  /\ oid \in [Threads -> PMEMoid]
  /\ result \in [Threads -> {<< >>, <<NULL>>} \cup (Addresses \X Offsets)]
  /\ valid \in [Threads -> SUBSET (Addresses \cup {NULL})]
  /\ \A t \in Threads : pc[t] # "idle" => valid[t] # {}
  /\ \A t \in Threads : cache[t].uuid_lo # 0 => cache[t].pop # NULL

\* A call returns the pointer into the pool where the pool is or was during the
\* call, or NULL only if it was not open for some of it: never an address that
\* a closed pool had before, never NULL for a pool that was open all the time.
NeverStale ==
  \A t \in Threads : pc[t] = "return" =>
    LET o == oid[t] IN
    IF o.off = 0 \/ o.pool_uuid_lo = 0 THEN result[t] = <<NULL>>
    ELSE \E a \in valid[t] : result[t] = IF a = NULL THEN <<NULL>> ELSE <<a, o.off>>
=============================================================================
