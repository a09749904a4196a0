------------------------------- MODULE PmdkProofs -------------------------------
(***************************************************************************)
(* The pool cache never returns the address of a pool that is gone, for    *)
(* every number of threads, pools and closings; a transaction block is     *)
(* atomic and runs its sections in order, for every set of fields, every   *)
(* WORK section and every choice of sections; the numbers of types tell    *)
(* the types of objects, in every build that only appends types; the loops *)
(* over a pool see each object once, for every set of objects; and the     *)
(* lists are the sequences that the names of their macros promise, for     *)
(* every set of heads and of objects.                                      *)
(***************************************************************************)
EXTENDS DirectCache, TxBlock, Layout, Iterate, ObjList, WellFoundedInduction,
  FiniteSetTheorems, SequenceTheorems, TLAPS

\* The counter counts the closings; no thread has noted more than that.
CounterCounts ==
  /\ _pobj_cache_invalidate = closes
  /\ \A t \in Threads : cache[t].invalidate <= closes

\* Outside the gap between the two assignments of a refill, a cache that bears
\* the current number holds a pool that is open, and where it is.
CacheFresh ==
  \A t \in Threads :
    (pc[t] # "lookup" /\ cache[t].invalidate = closes /\ cache[t].uuid_lo # 0) =>
      cache[t].uuid_lo \in DOMAIN pools /\ cache[t].pop = pools[cache[t].uuid_lo]

\* What is true of the pool now may be returned, and only real oids get past
\* the first test.
CallSound ==
  \A t \in Threads :
    /\ pc[t] # "idle" => PoolOf(oid[t]) \in valid[t]
    /\ pc[t] \in {"test", "note", "lookup"} => oid[t].off # 0 /\ oid[t].pool_uuid_lo # 0

CacheInv == TypeOK /\ CounterCounts /\ CacheFresh /\ CallSound /\ NeverStale

\* What the counter does when a pool is closed.
LEMMA CountUp ==
  ASSUME NEW c \in Nat, c < MAX_CLOSES
  PROVE  (c + 1) % INT_MOD = c + 1
  BY DirectCacheAssumption, NoWrap

LEMMA CacheInvInit == Init => CacheInv
  <1> SUFFICES ASSUME Init PROVE CacheInv
    OBVIOUS
  <1> USE DirectCacheAssumption, NoWrap DEF Init
  <1>1. TypeOK
    BY DEF TypeOK, PMEMoid
  <1>2. CounterCounts /\ CacheFresh /\ CallSound /\ NeverStale
    BY DEF CounterCounts, CacheFresh, CallSound, NeverStale
  <1> QED
    BY <1>1, <1>2 DEF CacheInv

\* Where a pool is, if it is open.
LEMMA PoolOfType ==
  ASSUME TypeOK, NEW o \in PMEMoid
  PROVE  /\ PoolOf(o) \in Addresses \cup {NULL}
         /\ PoolOf(o) # NULL => /\ o.pool_uuid_lo \in DOMAIN pools
                                /\ PoolOf(o) = pools[o.pool_uuid_lo]
         /\ o.pool_uuid_lo \in Uuids \cup {0}
  BY DirectCacheAssumption DEF TypeOK, PoolOf, PMEMoid

\* Opening or closing pool u, which then is at a, or nowhere if a is NULL.
\* The threads that are converting have seen it.
LEMMA PoolMoves ==
  ASSUME CacheInv, NEW u \in Uuids, NEW a \in Addresses \cup {NULL}, Seen(u, a),
         DOMAIN pools' = IF a = NULL THEN DOMAIN pools \ {u} ELSE DOMAIN pools \cup {u},
         \A v \in DOMAIN pools' : pools'[v] = IF v = u THEN a ELSE pools[v],
         UNCHANGED <<pc, oid, result>>
  PROVE  /\ CallSound' /\ NeverStale'
         /\ valid' \in [Threads -> SUBSET (Addresses \cup {NULL})]
         /\ \A t \in Threads : pc'[t] # "idle" => valid'[t] # {}
  <1>1. \A t \in Threads :
          valid'[t] = IF pc[t] # "idle" /\ oid[t].pool_uuid_lo = u
                      THEN valid[t] \cup {a} ELSE valid[t]
    BY DEF Seen
  <1>2. \A t \in Threads : valid[t] \subseteq valid'[t]
    BY <1>1
  <1>3. ASSUME NEW t \in Threads, pc[t] # "idle" PROVE PoolOf(oid[t])' \in valid'[t]
    <2>1. PoolOf(oid[t])' = IF oid[t].pool_uuid_lo \in DOMAIN pools'
                            THEN pools'[oid[t].pool_uuid_lo] ELSE NULL
      BY DEF PoolOf
    <2>2. PoolOf(oid[t]) \in valid[t]
      BY <1>3 DEF CacheInv, CallSound
    <2>3. CASE oid[t].pool_uuid_lo = u
      <3>1. PoolOf(oid[t])' = a
        BY <2>1, <2>3, DirectCacheAssumption
      <3> QED
        BY <1>1, <1>3, <2>3, <3>1
    <2>4. CASE oid[t].pool_uuid_lo # u
      <3>1. PoolOf(oid[t])' = PoolOf(oid[t])
        BY <2>1, <2>4 DEF PoolOf
      <3> QED
        BY <1>2, <2>2, <3>1
    <2> QED
      BY <2>3, <2>4
  <1>4. CallSound'
    BY <1>3 DEF CacheInv, CallSound
  <1>5. NeverStale'
    BY <1>2 DEF CacheInv, NeverStale
  <1>6. valid' \in [Threads -> SUBSET (Addresses \cup {NULL})]
    BY DEF Seen, CacheInv, TypeOK
  <1>7. \A t \in Threads : pc'[t] # "idle" => valid'[t] # {}
    BY <1>2 DEF CacheInv, TypeOK
  <1> QED
    BY <1>4, <1>5, <1>6, <1>7

LEMMA InvOpen == CacheInv /\ Open => CacheInv'
  <1> SUFFICES ASSUME CacheInv, NEW u \in Uuids \ DOMAIN pools,
                      NEW a \in Addresses \ {pools[v] : v \in DOMAIN pools},
                      pools' = [v \in DOMAIN pools \cup {u} |-> IF v = u THEN a ELSE pools[v]],
                      Seen(u, a),
                      UNCHANGED <<closes, _pobj_cache_invalidate, cache, pc, oid, result>>
               PROVE  CacheInv'
    BY DEF Open
  <1>1. /\ DOMAIN pools' = DOMAIN pools \cup {u}
        /\ \A v \in DOMAIN pools' : pools'[v] = IF v = u THEN a ELSE pools[v]
    OBVIOUS
  <1>2. a # NULL
    BY DirectCacheAssumption
  <1>3. /\ CallSound' /\ NeverStale'
        /\ valid' \in [Threads -> SUBSET (Addresses \cup {NULL})]
        /\ \A t \in Threads : pc'[t] # "idle" => valid'[t] # {}
    BY <1>1, <1>2, PoolMoves
  <1>4. TypeOK'
    BY <1>1, <1>3 DEF CacheInv, TypeOK
  <1>5. CounterCounts' /\ CacheFresh'
    BY <1>1 DEF CacheInv, CounterCounts, CacheFresh
  <1> QED
    BY <1>3, <1>4, <1>5 DEF CacheInv

LEMMA InvClose == CacheInv /\ Close => CacheInv'
  <1> SUFFICES ASSUME CacheInv, NEW u \in DOMAIN pools,
                      closes < MAX_CLOSES, closes' = closes + 1,
                      pools' = [v \in DOMAIN pools \ {u} |-> pools[v]],
                      _pobj_cache_invalidate' = (_pobj_cache_invalidate + 1) % INT_MOD,
                      Seen(u, NULL),
                      UNCHANGED <<cache, pc, oid, result>>
               PROVE  CacheInv'
    BY DEF Close
  <1>1. /\ DOMAIN pools' = DOMAIN pools \ {u}
        /\ \A v \in DOMAIN pools' : pools'[v] = pools[v]
        /\ u \in Uuids
    BY DEF CacheInv, TypeOK
  <1>2. /\ CallSound' /\ NeverStale'
        /\ valid' \in [Threads -> SUBSET (Addresses \cup {NULL})]
        /\ \A t \in Threads : pc'[t] # "idle" => valid'[t] # {}
    BY <1>1, PoolMoves
  <1>3. /\ closes \in Nat /\ closes' \in 0 .. MAX_CLOSES
        /\ _pobj_cache_invalidate' = closes + 1
    <2>1. closes \in Nat /\ _pobj_cache_invalidate = closes
      BY DirectCacheAssumption DEF CacheInv, TypeOK, CounterCounts
    <2> QED
      BY <2>1, CountUp, DirectCacheAssumption
  <1>4. TypeOK'
    <2>1. _pobj_cache_invalidate' \in 0 .. INT_MOD - 1
      BY <1>3, DirectCacheAssumption, NoWrap
    <2> QED
      BY <1>1, <1>2, <1>3, <2>1 DEF CacheInv, TypeOK
  <1>5. CounterCounts'
    BY <1>3 DEF CacheInv, TypeOK, CounterCounts
  <1>6. CacheFresh'
    <2>1. \A t \in Threads : cache[t].invalidate # closes'
      BY <1>3 DEF CacheInv, TypeOK, CounterCounts
    <2> QED
      BY <2>1 DEF CacheFresh
  <1> QED
    BY <1>2, <1>4, <1>5, <1>6 DEF CacheInv

\* A thread's step leaves pools and the other threads alone.
LEMMA InvCall == ASSUME CacheInv, NEW t \in Threads, Call(t) PROVE CacheInv'
  <1> PICK o \in PMEMoid :
        /\ pc[t] = "idle"
        /\ oid' = [oid EXCEPT ![t] = o]
        /\ valid' = [valid EXCEPT ![t] = {PoolOf(o)}]
        /\ \/ /\ o.off = 0 \/ o.pool_uuid_lo = 0
              /\ result' = [result EXCEPT ![t] = <<NULL>>]
              /\ pc' = [pc EXCEPT ![t] = "return"]
           \/ /\ o.off # 0 /\ o.pool_uuid_lo # 0
              /\ result' = [result EXCEPT ![t] = << >>]
              /\ pc' = [pc EXCEPT ![t] = "test"]
        /\ UNCHANGED <<pools, closes, _pobj_cache_invalidate, cache>>
    BY DEF Call, Goto
  <1>1. PoolOf(o) \in Addresses \cup {NULL}
    BY PoolOfType DEF CacheInv
  <1>2. \A p \in PMEMoid : PoolOf(p)' = PoolOf(p)
    BY DEF PoolOf
  <1>3. /\ oid'[t] = o /\ valid'[t] = {PoolOf(o)}
        /\ pc'[t] \in {"return", "test"}
        /\ \A u \in Threads \ {t} : /\ oid'[u] = oid[u] /\ valid'[u] = valid[u]
                                    /\ result'[u] = result[u] /\ pc'[u] = pc[u]
    BY DEF CacheInv, TypeOK
  <1>4. TypeOK'
    <2>1. /\ oid' \in [Threads -> PMEMoid]
          /\ valid' \in [Threads -> SUBSET (Addresses \cup {NULL})]
          /\ result' \in [Threads -> {<< >>, <<NULL>>} \cup (Addresses \X Offsets)]
          /\ pc' \in [Threads -> {"idle", "test", "note", "lookup", "return"}]
      BY <1>1 DEF CacheInv, TypeOK
    <2>2. \A u \in Threads : pc'[u] # "idle" => valid'[u] # {}
      BY <1>3 DEF CacheInv, TypeOK
    <2> QED
      BY <2>1, <2>2 DEF CacheInv, TypeOK
  <1>5. CounterCounts' /\ CacheFresh'
    BY <1>3 DEF CacheInv, CounterCounts, CacheFresh
  <1>6. CallSound'
    BY <1>2, <1>3 DEF CacheInv, CallSound, TypeOK
  <1>7. NeverStale'
    <2> SUFFICES ASSUME NEW u \in Threads, pc'[u] = "return"
                 PROVE  IF oid'[u].off = 0 \/ oid'[u].pool_uuid_lo = 0
                        THEN result'[u] = <<NULL>>
                        ELSE \E a \in valid'[u] :
                               result'[u] = IF a = NULL THEN <<NULL>> ELSE <<a, oid'[u].off>>
      BY DEF NeverStale
    <2>1. CASE u = t
      <3>1. pc'[t] = "return" /\ oid'[t] = o
        BY <1>3, <2>1
      <3>2. (o.off = 0 \/ o.pool_uuid_lo = 0) /\ result' = [result EXCEPT ![t] = <<NULL>>]
        BY <3>1 DEF CacheInv, TypeOK
      <3>3. result'[t] = <<NULL>>
        BY <3>2 DEF CacheInv, TypeOK
      <3> QED
        BY <2>1, <3>1, <3>2, <3>3
    <2>2. CASE u # t
      <3>1. pc[u] = "return" /\ oid'[u] = oid[u] /\ valid'[u] = valid[u] /\ result'[u] = result[u]
        BY <1>3, <2>2
      <3> QED
        BY <3>1 DEF CacheInv, NeverStale
    <2> QED
      BY <2>1, <2>2
  <1> QED
    BY <1>4, <1>5, <1>6, <1>7 DEF CacheInv

\* The cache is hit: it is fresh, so the answer is where the pool is now.
LEMMA InvTest == ASSUME CacheInv, NEW t \in Threads, Test(t) PROVE CacheInv'
  <1> DEFINE c == cache[t]
             o == oid[t]
  <1>1. /\ pc[t] = "test"
        /\ UNCHANGED <<pools, closes, _pobj_cache_invalidate, cache, oid, valid>>
        /\ \/ /\ pc' = [pc EXCEPT ![t] = "note"]
              /\ UNCHANGED result
           \/ /\ _pobj_cache_invalidate = c.invalidate /\ c.uuid_lo = o.pool_uuid_lo
              /\ result' = [result EXCEPT ![t] = <<c.pop, o.off>>]
              /\ pc' = [pc EXCEPT ![t] = "return"]
    BY DEF Test, Goto, Direct
  <1>2. o \in PMEMoid /\ o.off # 0 /\ o.pool_uuid_lo # 0 /\ PoolOf(o) \in valid[t]
    BY <1>1 DEF CacheInv, CallSound, TypeOK
  <1>3. \A u \in Threads : PoolOf(oid[u])' = PoolOf(oid[u])
    BY <1>1 DEF PoolOf
  <1>4. CASE pc' = [pc EXCEPT ![t] = "note"] /\ UNCHANGED result
    <2>1. /\ pc'[t] = "note" /\ \A u \in Threads \ {t} : pc'[u] = pc[u]
          /\ pc' \in [Threads -> {"idle", "test", "note", "lookup", "return"}]
      BY <1>4 DEF CacheInv, TypeOK
    <2>2. TypeOK'
      BY <1>1, <1>4, <2>1 DEF CacheInv, TypeOK
    <2>3. CounterCounts' /\ CacheFresh'
      BY <1>1, <2>1 DEF CacheInv, CounterCounts, CacheFresh
    <2>4. CallSound'
      BY <1>1, <1>2, <1>3, <2>1 DEF CacheInv, CallSound
    <2>5. NeverStale'
      BY <1>1, <1>4, <2>1 DEF CacheInv, NeverStale
    <2> QED
      BY <2>2, <2>3, <2>4, <2>5 DEF CacheInv
  <1>5. CASE /\ _pobj_cache_invalidate = c.invalidate /\ c.uuid_lo = o.pool_uuid_lo
             /\ result' = [result EXCEPT ![t] = <<c.pop, o.off>>]
             /\ pc' = [pc EXCEPT ![t] = "return"]
    <2>1. c.pop = PoolOf(o) /\ c.pop \in Addresses
      <3>1. c.uuid_lo \in DOMAIN pools /\ c.pop = pools[c.uuid_lo]
        BY <1>1, <1>2, <1>5 DEF CacheInv, CounterCounts, CacheFresh
      <3> QED
        BY <1>5, <3>1 DEF PoolOf, CacheInv, TypeOK
    <2>2. /\ result'[t] = <<c.pop, o.off>> /\ pc'[t] = "return"
          /\ \A u \in Threads \ {t} : pc'[u] = pc[u] /\ result'[u] = result[u]
      BY <1>5 DEF CacheInv, TypeOK
    <2>3. <<c.pop, o.off>> \in Addresses \X Offsets
      BY <1>2, <2>1 DEF PMEMoid
    <2>4. TypeOK'
      BY <1>1, <1>5, <2>2, <2>3 DEF CacheInv, TypeOK
    <2>5. CounterCounts' /\ CacheFresh'
      BY <1>1, <2>2 DEF CacheInv, CounterCounts, CacheFresh
    <2>6. CallSound'
      BY <1>1, <1>3, <2>2 DEF CacheInv, CallSound
    <2>7. NeverStale'
      <3>1. \E a \in valid'[t] : result'[t] = IF a = NULL THEN <<NULL>> ELSE <<a, o.off>>
        <4>1. c.pop \in valid'[t] /\ c.pop # NULL
          BY <1>1, <1>2, <2>1, DirectCacheAssumption
        <4> QED
          BY <2>2, <4>1
      <3> QED
        BY <1>1, <1>2, <2>2, <3>1 DEF CacheInv, NeverStale
    <2> QED
      BY <2>4, <2>5, <2>6, <2>7 DEF CacheInv
  <1> QED
    BY <1>1, <1>4, <1>5

\* The cache bears the current number but not yet the pool.
LEMMA InvNote == ASSUME CacheInv, NEW t \in Threads, Note(t) PROVE CacheInv'
  <1>1. /\ pc[t] = "note"
        /\ cache' = [cache EXCEPT ![t].invalidate = _pobj_cache_invalidate]
        /\ pc' = [pc EXCEPT ![t] = "lookup"]
        /\ UNCHANGED <<pools, closes, _pobj_cache_invalidate, oid, result, valid>>
    BY DEF Note, Goto
  <1>2. /\ pc'[t] = "lookup" /\ cache'[t].invalidate = _pobj_cache_invalidate
        /\ cache'[t].uuid_lo = cache[t].uuid_lo /\ cache'[t].pop = cache[t].pop
        /\ \A u \in Threads \ {t} : pc'[u] = pc[u] /\ cache'[u] = cache[u]
    BY <1>1 DEF CacheInv, TypeOK
  <1>3. \A u \in Threads : PoolOf(oid[u])' = PoolOf(oid[u])
    BY <1>1 DEF PoolOf
  <1>4. TypeOK'
    BY <1>1, <1>2 DEF CacheInv, TypeOK
  <1>5. CounterCounts' /\ CacheFresh'
    BY <1>1, <1>2, DirectCacheAssumption DEF CacheInv, CounterCounts, CacheFresh, TypeOK
  <1>6. CallSound'
    BY <1>1, <1>2, <1>3 DEF CacheInv, CallSound
  <1>7. NeverStale'
    BY <1>1, <1>2 DEF CacheInv, NeverStale
  <1> QED
    BY <1>4, <1>5, <1>6, <1>7 DEF CacheInv

\* The answer of the library is where the pool is, and that is remembered.
LEMMA InvLookup == ASSUME CacheInv, NEW t \in Threads, Lookup(t) PROVE CacheInv'
  <1> DEFINE o == oid[t]
             pop == PoolOf(o)
             n == IF pop = NULL THEN 0 ELSE o.pool_uuid_lo
             r == IF pop = NULL THEN <<NULL>> ELSE <<pop, o.off>>
  <1>1. /\ pc[t] = "lookup"
        /\ cache' = [cache EXCEPT ![t].pop = pop, ![t].uuid_lo = n]
        /\ result' = [result EXCEPT ![t] = r]
        /\ pc' = [pc EXCEPT ![t] = "return"]
        /\ UNCHANGED <<pools, closes, _pobj_cache_invalidate, oid, valid>>
    BY DEF Lookup, Goto, Direct
  <1>2. /\ o \in PMEMoid /\ o.off # 0 /\ o.pool_uuid_lo # 0 /\ pop \in valid[t]
    BY <1>1 DEF CacheInv, CallSound, TypeOK
  <1>3. /\ pop \in Addresses \cup {NULL} /\ n \in Uuids \cup {0}
        /\ n # 0 => n \in DOMAIN pools /\ pop = pools[n]
        /\ n # 0 => pop # NULL
    BY <1>2, PoolOfType DEF CacheInv
  <1>4. r \in {<< >>, <<NULL>>} \cup (Addresses \X Offsets)
    BY <1>2, <1>3 DEF PMEMoid
  <1>5. \A u \in Threads : PoolOf(oid[u])' = PoolOf(oid[u])
    BY <1>1 DEF PoolOf
  <1> HIDE DEF pop, n, r
  <1>6. /\ pc'[t] = "return" /\ result'[t] = r
        /\ cache'[t].pop = pop /\ cache'[t].uuid_lo = n
        /\ cache'[t].invalidate = cache[t].invalidate
        /\ \A u \in Threads \ {t} : /\ pc'[u] = pc[u] /\ cache'[u] = cache[u]
                                    /\ result'[u] = result[u]
    BY <1>1 DEF CacheInv, TypeOK
  <1>7. TypeOK'
    <2>1. cache' \in [Threads -> [pop : Addresses \cup {NULL}, uuid_lo : Uuids \cup {0},
                                  invalidate : 0 .. INT_MOD - 1]]
      <3> DEFINE R == [pop : Addresses \cup {NULL}, uuid_lo : Uuids \cup {0},
                       invalidate : 0 .. INT_MOD - 1]
                 found == [cache[t] EXCEPT !.pop = pop, !.uuid_lo = n]
      <3>1. cache \in [Threads -> R]
        BY DEF CacheInv, TypeOK
      <3>2. found \in R
        BY <1>3, <3>1
      <3>3. cache' = [cache EXCEPT ![t] = found]
        BY <1>1, <3>1
      <3> HIDE DEF R, found
      <3>4. cache' \in [Threads -> R]
        BY <3>1, <3>2, <3>3
      <3> QED
        BY <3>4 DEF R
    <2>2. result' \in [Threads -> {<< >>, <<NULL>>} \cup (Addresses \X Offsets)]
      BY <1>1, <1>4 DEF CacheInv, TypeOK
    <2>3. pc' \in [Threads -> {"idle", "test", "note", "lookup", "return"}]
      BY <1>1 DEF CacheInv, TypeOK
    <2>4. /\ \A u \in Threads : pc'[u] # "idle" => valid'[u] # {}
          /\ \A u \in Threads : cache'[u].uuid_lo # 0 => cache'[u].pop # NULL
      BY <1>1, <1>3, <1>6 DEF CacheInv, TypeOK
    <2> QED
      BY <1>1, <2>1, <2>2, <2>3, <2>4 DEF CacheInv, TypeOK
  <1>8. CounterCounts' /\ CacheFresh'
    <2> SUFFICES ASSUME NEW u \in Threads
                 PROVE  /\ cache'[u].invalidate <= closes
                        /\ (pc'[u] # "lookup" /\ cache'[u].invalidate = closes
                            /\ cache'[u].uuid_lo # 0) =>
                              /\ cache'[u].uuid_lo \in DOMAIN pools
                              /\ cache'[u].pop = pools[cache'[u].uuid_lo]
      BY <1>1 DEF CacheInv, CounterCounts, CacheFresh
    <2>1. CASE u = t
      BY <1>3, <1>6, <2>1 DEF CacheInv, CounterCounts
    <2>2. CASE u # t
      BY <1>6, <2>2 DEF CacheInv, CounterCounts, CacheFresh
    <2> QED
      BY <2>1, <2>2
  <1>9. CallSound'
    BY <1>1, <1>5, <1>6 DEF CacheInv, CallSound
  <1>10. NeverStale'
    <2>1. \E a \in valid'[t] : result'[t] = IF a = NULL THEN <<NULL>> ELSE <<a, o.off>>
      BY <1>1, <1>2, <1>6 DEF r
    <2> QED
      BY <1>1, <1>2, <1>6, <2>1 DEF CacheInv, NeverStale
  <1> QED
    BY <1>7, <1>8, <1>9, <1>10 DEF CacheInv

LEMMA InvReturn == ASSUME CacheInv, NEW t \in Threads, Return(t) PROVE CacheInv'
  <1>1. /\ pc[t] = "return" /\ pc' = [pc EXCEPT ![t] = "idle"]
        /\ UNCHANGED <<pools, closes, _pobj_cache_invalidate, cache, oid, result, valid>>
    BY DEF Return, Goto
  <1>2. pc'[t] = "idle" /\ \A u \in Threads \ {t} : pc'[u] = pc[u]
    BY <1>1 DEF CacheInv, TypeOK
  <1>3. TypeOK'
    BY <1>1, <1>2 DEF CacheInv, TypeOK
  <1>4. CounterCounts' /\ CacheFresh' /\ CallSound' /\ NeverStale'
    BY <1>1, <1>2 DEF CacheInv, CounterCounts, CacheFresh, CallSound, NeverStale, PoolOf
  <1> QED
    BY <1>3, <1>4 DEF CacheInv

LEMMA CacheInvStep == CacheInv /\ [Next]_vars => CacheInv'
  <1> SUFFICES ASSUME CacheInv, [Next]_vars PROVE CacheInv'
    OBVIOUS
  <1>1. ASSUME NEW t \in Threads, ThreadStep(t) PROVE CacheInv'
    BY <1>1, InvCall, InvTest, InvNote, InvLookup, InvReturn DEF ThreadStep
  <1>2. CASE UNCHANGED vars
    BY <1>2 DEF vars, CacheInv, TypeOK, CounterCounts, CacheFresh, CallSound, NeverStale,
                PoolOf
  <1> QED
    BY <1>1, <1>2, InvOpen, InvClose DEF Next

\* The variables keep their types, and a cache that names a pool has an address.
THEOREM CacheTypeCorrect == Spec => []TypeOK
  <1>1. CacheInv => TypeOK
    BY DEF CacheInv
  <1> QED
    BY <1>1, CacheInvInit, CacheInvStep, PTL DEF Spec

\* A pointer is never made from an address that the pool had before it was
\* closed, whatever the other threads open and close meanwhile.
THEOREM DirectNeverStale == Spec => []NeverStale
  <1>1. CacheInv => NeverStale
    BY DEF CacheInv
  <1> QED
    BY <1>1, CacheInvInit, CacheInvStep, PTL DEF Spec
-------------------------------------------------------------------------------
(***************************************************************************)
(* Transaction blocks: whenever the machine crashes, and whether a range   *)
(* cannot be added, the section aborts or it commits, all of the fields it *)
(* sets have changed or none of them has.                                  *)
(***************************************************************************)

\* The fields that the WORK section has set so far.
Set(f) == \E i \in 1 .. k - 1 : work[i] = f

\* While the transaction is open, what was set is in the undo log with the old
\* value, and the rest is as it was.
OpenInv ==
  /\ \A f \in Fields : data[f] = IF Set(f) THEN 1 ELSE 0
  /\ \A f \in Fields : Set(f) => f \in DOMAIN undo
  /\ \A f \in DOMAIN undo : undo[f] = 0
  /\ snapped => k <= Len(work) /\ work[k] \in DOMAIN undo

\* Once it is not, the fields are as before or as asked, as the error says.
ClosedInv ==
  /\ DOMAIN undo = {}
  /\ stage = TX_STAGE_ONABORT => error # 0
  /\ error # 0 => data = Zero
  /\ error = 0 => data = IF tx_pc = "begin" THEN Zero ELSE Asked

TxInv ==
  /\ TxTypeOK
  /\ work \in Programs /\ DOMAIN undo \subseteq Fields
  /\ tx_pc = "begin" => stage = TX_STAGE_NONE /\ error = 0 /\ k = 1 /\ ~ snapped
  /\ tx_pc = "default" => stage \in Optional
  /\ tx_pc = "jumped" => stage = TX_STAGE_ONABORT
  /\ tx_pc \in {"end", "done"} => stage = TX_STAGE_NONE
  /\ tx_pc = "done" /\ error # 0 => errno = error
  /\ tx_pc # "recovered" => IF stage = TX_STAGE_WORK THEN error = 0 /\ OpenInv ELSE ClosedInv
-------------------------------------------------------------------------------
LEMMA NoUndo == DOMAIN << >> = {}
  OBVIOUS

LEMMA WorkFacts ==
  ASSUME work \in Programs
  PROVE  /\ Len(work) \in Nat
         /\ \A i \in 1 .. Len(work) : work[i] \in Fields
         /\ DOMAIN work = 1 .. Len(work)
  BY TxBlockAssumption

\* What an open transaction leaves behind when it is cut off is what was before.
LEMMA OpenRollsBack ==
  ASSUME OpenInv
  PROVE  RolledBack = Zero
  BY DEF OpenInv, RolledBack, Zero

\* Without an undo log the fields are what a crash leaves of them.
LEMMA ClosedRollsBack ==
  ASSUME data \in [Fields -> {0, 1}], DOMAIN undo = {}
  PROVE  RolledBack = data
  BY DEF RolledBack

\* Giving the transaction up, at its beginning or in the WORK section.
LEMMA AbortFacts ==
  ASSUME TxInv, tx_pc = "begin" \/ Working, NEW e \in Errors, Abort(e)
  PROVE  /\ RolledBack = Zero
         /\ data' = Zero /\ data' \in [Fields -> {0, 1}]
         /\ DOMAIN undo' = {} /\ undo' = << >>
         /\ error' = e /\ e # 0
         /\ stage' = TX_STAGE_ONABORT
  <1>1. RolledBack = Zero
    <2>1. CASE tx_pc = "begin"
      <3>1. ClosedInv /\ data = Zero
        BY <2>1 DEF TxInv, ClosedInv, TX_STAGE_NONE, TX_STAGE_WORK
      <3> QED
        BY <3>1, ClosedRollsBack DEF TxInv, TxTypeOK, ClosedInv
    <2>2. CASE Working
      <3>1. OpenInv
        BY <2>2 DEF TxInv, TxTypeOK, Working
      <3> QED
        BY <3>1, OpenRollsBack
    <2> QED
      BY <2>1, <2>2
  <1>2. Zero \in [Fields -> {0, 1}]
    BY DEF Zero
  <1> QED
    BY <1>1, <1>2, NoUndo, TxBlockAssumption DEF Abort

\* Stages that differ.
LEMMA Stages ==
  /\ TX_STAGE_WORK \notin Optional /\ TX_STAGE_NONE \notin Optional
  /\ TX_STAGE_NONE # TX_STAGE_WORK /\ TX_STAGE_ONABORT # TX_STAGE_WORK
  /\ TX_STAGE_ONABORT # TX_STAGE_NONE
  /\ TX_STAGE_ONCOMMIT \notin {TX_STAGE_WORK, TX_STAGE_ONABORT, TX_STAGE_NONE, TX_STAGE_FINALLY}
  /\ TX_STAGE_FINALLY \notin {TX_STAGE_WORK, TX_STAGE_ONABORT, TX_STAGE_NONE}
  /\ pobj_tx_stage = {TX_STAGE_NONE, TX_STAGE_WORK} \cup Optional
  /\ Optional = {TX_STAGE_ONCOMMIT, TX_STAGE_ONABORT, TX_STAGE_FINALLY}
  BY DEF TX_STAGE_NONE, TX_STAGE_WORK, TX_STAGE_ONCOMMIT, TX_STAGE_ONABORT,
         TX_STAGE_FINALLY, pobj_tx_stage, Optional

LEMMA TxInvInit ==
  ASSUME TxInit
  PROVE  TxInv
  <1> USE DEF TxInit
  <1>1. work \in Programs /\ Len(work) \in Nat
    BY WorkFacts
  <1>2. Zero \in [Fields -> {0, 1}]
    BY DEF Zero
  <1>3. TxTypeOK
    <2>1. k \in 1 .. Len(work) + 1
      BY <1>1
    <2>2. snapped \in BOOLEAN /\ stage \in pobj_tx_stage
      BY Stages
    <2>3. data \in [Fields -> {0, 1}]
      BY <1>2
    <2> QED
      BY <2>1, <2>2, <2>3 DEF TxTypeOK
  <1>4. ClosedInv
    BY Stages, NoUndo DEF ClosedInv
  <1> QED
    BY <1>1, <1>3, <1>4, Stages, NoUndo DEF TxInv

\* When the WORK section is over, its program has been set.
LEMMA WorkDone ==
  ASSUME TxInv, OpenInv, k > Len(work)
  PROVE  data = Asked
  <1>1. /\ k = Len(work) + 1 /\ Len(work) \in Nat
        /\ DOMAIN work = 1 .. Len(work)
    BY WorkFacts DEF TxInv, TxTypeOK
  <1>2. DOMAIN work = 1 .. k - 1
    BY <1>1
  <1>3. \A f \in Fields : Set(f) <=> \E i \in DOMAIN work : work[i] = f
    BY <1>2 DEF Set
  <1> QED
    BY <1>3 DEF TxInv, TxTypeOK, OpenInv, Asked

LEMMA AbortStep ==
  ASSUME TxInv, tx_pc = "begin" \/ Working, NEW e \in Errors, Abort(e),
         UNCHANGED <<code, k>>, tx_pc' \in {"jumped", "loop"}, snapped' \in BOOLEAN,
         _stage' \in pobj_tx_stage \cup {Garbage},
         _pobj_errno' \in Errors \cup {0, Garbage}, errno' \in Errors \cup {0, Noise}
  PROVE  TxInv'
  <1>1. /\ data' = Zero /\ data' \in [Fields -> {0, 1}]
        /\ DOMAIN undo' = {}
        /\ error' = e /\ e # 0
        /\ stage' = TX_STAGE_ONABORT
    BY AbortFacts
  <1>2. k' \in 1 .. Len(work') + 1 /\ work' \in Programs
    BY DEF TxInv, TxTypeOK, code
  <1>3. TxTypeOK'
    BY <1>1, <1>2, Stages DEF TxTypeOK
  <1>4. ClosedInv'
    BY <1>1 DEF ClosedInv, Zero
  <1> QED
    BY <1>1, <1>2, <1>3, <1>4, Stages DEF TxInv

LEMMA AddStep ==
  ASSUME TxInv, Add
  PROVE  TxInv'
  <1> DEFINE f == work[k]
  <1>0. /\ Working /\ k <= Len(work) /\ ~ snapped
        /\ UNCHANGED <<code, errno, k, ran>>
    BY DEF Add
  <1>1. f \in Fields /\ Len(work) \in Nat /\ k \in 1 .. Len(work)
    BY <1>0, WorkFacts DEF TxInv, TxTypeOK
  <1>2. ASSUME NEW e \in Errors, Abort(e), Longjmp, UNCHANGED snapped
        PROVE  TxInv'
    <2>1. /\ tx_pc' \in {"jumped", "loop"} /\ snapped' \in BOOLEAN
          /\ _stage' \in pobj_tx_stage \cup {Garbage}
          /\ _pobj_errno' \in Errors \cup {0, Garbage} /\ errno' \in Errors \cup {0, Noise}
      BY <1>0, <1>2 DEF Longjmp, TxInv, TxTypeOK
    <2> QED
      BY <1>0, <1>2, <2>1, AbortStep
  <1>3. ASSUME undo' = IF f \in DOMAIN undo THEN undo
                       ELSE [g \in DOMAIN undo \cup {f} |-> IF g = f THEN data[f] ELSE undo[g]],
               snapped' = TRUE, UNCHANGED <<tx_pc, locals, stage, error, data>>
        PROVE  TxInv'
    <2>1. OpenInv /\ stage = TX_STAGE_WORK /\ tx_pc = "section"
      BY <1>0 DEF TxInv, TxTypeOK, Working
    <2>2. UNCHANGED <<POBJ_TX_CRASH_ON_NO_ONABORT, sections, work, errno, k, tx_pc, _stage,
                      _pobj_errno, stage, error, data>>
      BY <1>0, <1>3 DEF code, locals
    <2>3. TxTypeOK'
      BY <1>3, <2>2 DEF TxInv, TxTypeOK
    <2>4. /\ DOMAIN undo' = DOMAIN undo \cup {f}
          /\ \A g \in DOMAIN undo : undo'[g] = undo[g]
          /\ f \notin DOMAIN undo => undo'[f] = data[f]
      BY <1>3
    <2>5. \A g : Set(g)' <=> Set(g)
      BY <2>2 DEF Set
    <2>6. f \notin DOMAIN undo => data[f] = 0
      BY <1>1, <2>1 DEF OpenInv
    <2>7. \A g \in DOMAIN undo' : undo'[g] = 0
      BY <2>1, <2>4, <2>6 DEF OpenInv
    <2>8. snapped' => k' <= Len(work') /\ work'[k'] \in DOMAIN undo'
      BY <1>1, <2>2, <2>4
    <2>9. OpenInv'
      <3>1. \A g \in Fields : data'[g] = IF Set(g)' THEN 1 ELSE 0
        BY <2>1, <2>2, <2>5 DEF OpenInv
      <3>2. \A g \in Fields : Set(g)' => g \in DOMAIN undo'
        BY <2>1, <2>4, <2>5 DEF OpenInv
      <3> QED
        BY <3>1, <3>2, <2>7, <2>8 DEF OpenInv
    <2>10. DOMAIN undo' \subseteq Fields /\ work' \in Programs
      BY <1>1, <2>2, <2>4 DEF TxInv
    <2>11. stage' = TX_STAGE_WORK /\ error' = 0 /\ tx_pc' = "section"
      BY <2>1, <2>2 DEF TxInv
    <2> QED
      BY <2>3, <2>9, <2>10, <2>11 DEF TxInv
  <1> QED
    BY <1>2, <1>3 DEF Add

LEMMA StoreStep ==
  ASSUME TxInv, Store
  PROVE  TxInv'
  <1> DEFINE f == work[k]
  <1>0. /\ Working /\ k <= Len(work) /\ snapped
        /\ data' = [data EXCEPT ![f] = 1]
        /\ k' = k + 1
        /\ snapped' = FALSE
        /\ UNCHANGED <<POBJ_TX_CRASH_ON_NO_ONABORT, sections, work, tx_pc, _stage, _pobj_errno,
                       errno, stage, error, undo>>
    BY DEF Store, code, locals, tx
  <1>1. f \in Fields /\ Len(work) \in Nat /\ k \in 1 .. Len(work)
    BY <1>0, WorkFacts DEF TxInv, TxTypeOK
  <1>2. OpenInv /\ stage = TX_STAGE_WORK /\ tx_pc = "section"
    BY <1>0 DEF TxInv, TxTypeOK, Working
  <1>3. data' \in [Fields -> {0, 1}] /\ k' \in 1 .. Len(work') + 1 /\ snapped' \in BOOLEAN
    <2>1. data \in [Fields -> {0, 1}]
      BY DEF TxInv, TxTypeOK
    <2>2. data' \in [Fields -> {0, 1}]
      BY <1>0, <2>1
    <2>3. k' \in 1 .. Len(work') + 1
      BY <1>0, <1>1
    <2>4. snapped' \in BOOLEAN
      BY <1>0
    <2> QED
      BY <2>2, <2>3, <2>4
  <1>4. TxTypeOK'
    BY <1>0, <1>3 DEF TxInv, TxTypeOK
  <1>5. \A g : Set(g)' <=> Set(g) \/ g = f
    <2>1. 1 .. k' - 1 = (1 .. k - 1) \cup {k}
      BY <1>0, <1>1
    <2> QED
      BY <1>0, <2>1 DEF Set
  <1>6. \A g \in Fields : data'[g] = IF g = f THEN 1 ELSE data[g]
    BY <1>0, <1>1 DEF TxInv, TxTypeOK
  <1>7. OpenInv'
    <2>1. \A g \in Fields : data'[g] = IF Set(g)' THEN 1 ELSE 0
      BY <1>2, <1>5, <1>6 DEF OpenInv
    <2>2. \A g \in Fields : Set(g)' => g \in DOMAIN undo'
      BY <1>0, <1>2, <1>5 DEF OpenInv
    <2> QED
      BY <1>0, <1>2, <2>1, <2>2 DEF OpenInv
  <1> QED
    BY <1>0, <1>2, <1>4, <1>7 DEF TxInv

\* A section, or the place of one that is not written down, is over.
LEMMA ProcessStep ==
  ASSUME TxInv, Process, tx_pc \in {"section", "default"},
         stage = TX_STAGE_WORK => k > Len(work),
         tx_pc' = "loop", errno' \in Errors \cup {0, Noise},
         UNCHANGED <<code, locals, data, k, snapped>>
  PROVE  TxInv'
  <1>0. UNCHANGED <<POBJ_TX_CRASH_ON_NO_ONABORT, sections, work, _stage, _pobj_errno, error>>
    BY DEF code, locals, Process
  <1>1. stage' \in {TX_STAGE_ONCOMMIT, TX_STAGE_FINALLY, TX_STAGE_NONE}
    BY DEF Process
  <1>2. TxTypeOK'
    BY <1>0, <1>1, Stages DEF TxInv, TxTypeOK
  <1>3. Asked' = Asked
    BY <1>0 DEF Asked
  <1>4. ClosedInv'
    <2>1. CASE stage = TX_STAGE_WORK
      <3>1. error = 0 /\ data = Asked
        BY <2>1, WorkDone DEF TxInv
      <3>2. DOMAIN undo' = {}
        BY <2>1, NoUndo DEF Process
      <3> QED
        BY <1>0, <1>1, <1>3, <3>1, <3>2, Stages DEF ClosedInv
    <2>2. CASE stage # TX_STAGE_WORK
      <3>1. ClosedInv /\ undo' = undo
        BY <2>2 DEF TxInv, Process
      <3> QED
        BY <1>0, <1>1, <1>3, <3>1, Stages DEF ClosedInv, Zero
    <2> QED
      BY <2>1, <2>2
  <1>5. DOMAIN undo' \subseteq Fields /\ work' \in Programs
    BY <1>0, <1>4 DEF ClosedInv, TxInv
  <1> QED
    BY <1>1, <1>2, <1>4, <1>5, Stages DEF TxInv

\* A crash leaves what the undo log makes of the fields.
LEMMA CrashFacts ==
  ASSUME TxInv, tx_pc \notin Over
  PROVE  RolledBack \in [Fields -> {0, 1}]
  <1>1. CASE stage = TX_STAGE_WORK
    <2>1. RolledBack = Zero
      BY <1>1, OpenRollsBack DEF TxInv, Over
    <2> QED
      BY <2>1 DEF Zero
  <1>2. CASE stage # TX_STAGE_WORK
    <2>1. RolledBack = data
      BY <1>2, ClosedRollsBack DEF TxInv, ClosedInv, TxTypeOK, Over
    <2> QED
      BY <2>1 DEF TxInv, TxTypeOK
  <1> QED
    BY <1>1, <1>2

\* The steps that leave the transaction and the fields alone.
LEMMA RestStep ==
  ASSUME TxInv, UNCHANGED <<code, tx, body>>, tx_pc \notin Over \cup {"begin"},
         tx_pc' \in {"loop", "section", "default", "end", "done", "killed"},
         _stage' \in pobj_tx_stage \cup {Garbage},
         _pobj_errno' \in Errors \cup {0, Garbage}, errno' \in Errors \cup {0, Noise},
         tx_pc' \in {"section", "default"} => _stage' = stage,
         tx_pc' = "default" => stage \in Optional,
         tx_pc' \in {"end", "done"} => stage = TX_STAGE_NONE,
         tx_pc' = "done" => _pobj_errno' = error /\ (error # 0 => errno' = error)
  PROVE  TxInv'
  <1>0. UNCHANGED <<POBJ_TX_CRASH_ON_NO_ONABORT, sections, work, stage, error, undo,
                    data, k, snapped>>
    BY DEF code, tx, body
  <1>1. TxTypeOK'
    BY <1>0 DEF TxInv, TxTypeOK, Over
  <1>2. OpenInv' <=> OpenInv
    BY <1>0 DEF OpenInv, Set
  <1>3. ClosedInv => ClosedInv'
    BY <1>0 DEF ClosedInv, Asked, Zero
  <1> QED
    BY <1>0, <1>1, <1>2, <1>3 DEF TxInv, Over

LEMMA TxInvStep ==
  ASSUME TxInv, [TxNext]_txVars
  PROVE  TxInv'
  <1>1. CASE Begin
    <2>0. tx_pc = "begin" /\ tx_pc' = "loop" /\ UNCHANGED <<code, _stage, k, snapped, ran>>
      BY <1>1 DEF Begin
    <2>1. CASE /\ stage' = TX_STAGE_WORK
               /\ _pobj_errno' = 0
               /\ UNCHANGED <<errno, error, undo, data>>
      <3>1. /\ stage = TX_STAGE_NONE /\ error = 0 /\ k = 1 /\ ~ snapped
            /\ ClosedInv
        BY <2>0, Stages DEF TxInv
      <3>2. \A f \in Fields : ~ Set(f)'
        BY <2>0, <3>1 DEF Set
      <3>3. DOMAIN undo' = {} /\ data' = Zero
        BY <2>0, <2>1, <3>1 DEF ClosedInv
      <3>4. OpenInv'
        BY <2>0, <3>1, <3>2, <3>3 DEF OpenInv, Zero
      <3>5. TxTypeOK'
        BY <2>0, <2>1, Stages DEF TxInv, TxTypeOK, code
      <3> QED
        BY <2>0, <2>1, <3>1, <3>3, <3>4, <3>5, Stages DEF TxInv, code
    <2>2. ASSUME NEW e \in Errors, Abort(e), _pobj_errno' = e, errno' = e PROVE TxInv'
      BY <2>0, <2>2, AbortStep DEF TxInv, TxTypeOK
    <2> QED
      BY <1>1, <2>1, <2>2 DEF Begin
  <1>2. CASE Jumped
    BY <1>2, RestStep DEF Jumped, TxInv, TxTypeOK, Over, locals
  <1>3. CASE Loop
    <2>1. tx_pc = "loop" /\ _stage' = stage /\ UNCHANGED <<code, _pobj_errno, errno, tx, body>>
      BY <1>3 DEF Loop
    <2>2. tx_pc' \in {"end", "section", "default"}
      BY <1>3 DEF Loop
    <2>3. tx_pc' = "end" => stage = TX_STAGE_NONE
      BY <1>3 DEF Loop
    <2>4. tx_pc' = "default" => stage \in Optional
      BY <1>3 DEF Loop
    <2> QED
      BY <2>1, <2>2, <2>3, <2>4, RestStep DEF TxInv, TxTypeOK, Over
  <1>4. CASE UserAbort
    <2>1. PICK e \in Errors : Abort(e)
      BY <1>4 DEF UserAbort
    <2>2. Working /\ Longjmp /\ UNCHANGED <<code, errno, k, snapped, ran>>
      BY <1>4 DEF UserAbort
    <2> QED
      BY <2>1, <2>2, AbortStep DEF Longjmp, TxInv, TxTypeOK
  <1>5. CASE Add
    BY <1>5, AddStep
  <1>6. CASE Store
    BY <1>6, StoreStep
  <1>7. CASE EndSection
    <2>1. errno' \in Errors \cup {0, Noise}
      BY <1>7 DEF EndSection, TxInv, TxTypeOK
    <2>2. stage = TX_STAGE_WORK => k > Len(work)
      <3>1. Len(work) \in Nat /\ k \in 1 .. Len(work) + 1 /\ _stage = stage
        BY <1>7, WorkFacts DEF EndSection, TxInv, TxTypeOK
      <3> QED
        BY <1>7, <3>1 DEF EndSection
    <2> QED
      BY <1>7, <2>1, <2>2, ProcessStep DEF EndSection, body
  <1>8. CASE Default
    <2>1. tx_pc = "default" /\ stage # TX_STAGE_WORK /\ UNCHANGED <<code, locals, errno, body, ran>>
      BY <1>8, Stages DEF Default, TxInv
    <2>2. CASE tx_pc' = "killed" /\ UNCHANGED tx
      BY <2>1, <2>2, RestStep DEF TxInv, TxTypeOK, Over, locals
    <2>3. CASE Process /\ tx_pc' = "loop"
      BY <2>1, <2>3, ProcessStep DEF TxInv, TxTypeOK, body
    <2> QED
      BY <1>8, <2>2, <2>3 DEF Default
  <1>9. CASE End
    <2>1. /\ tx_pc = "end" /\ tx_pc' = "done" /\ _pobj_errno' = error
          /\ errno' = IF error # 0 THEN error ELSE errno
          /\ UNCHANGED <<code, _stage, tx, body, ran>>
      BY <1>9 DEF End
    <2> QED
      BY <2>1, RestStep DEF TxInv, TxTypeOK, Over
  <1>10. CASE Crash
    <2>1. /\ tx_pc \notin Over /\ tx_pc' = "recovered" /\ data' = RolledBack /\ undo' = << >>
          /\ UNCHANGED <<POBJ_TX_CRASH_ON_NO_ONABORT, sections, work, _stage, _pobj_errno,
                         errno, stage, error, k, snapped, ran>>
      BY <1>10 DEF Crash, code, locals
    <2>2. data' \in [Fields -> {0, 1}]
      BY <2>1, CrashFacts
    <2>3. TxTypeOK'
      BY <2>1, <2>2 DEF TxInv, TxTypeOK, Over
    <2> QED
      BY <2>1, <2>3, NoUndo DEF TxInv
  <1>11. CASE UNCHANGED txVars
    <2>1. UNCHANGED <<POBJ_TX_CRASH_ON_NO_ONABORT, sections, work, tx_pc, _stage, _pobj_errno,
                      errno, stage, error, undo, data, k, snapped, ran>>
      BY <1>11 DEF txVars, code, locals, tx, body
    <2> QED
      BY <2>1 DEF TxInv, TxTypeOK, OpenInv, ClosedInv, Set, Asked, Zero
  <1> QED
    BY <1>1, <1>2, <1>3, <1>4, <1>5, <1>6, <1>7, <1>8, <1>9, <1>10, <1>11
    DEF TxNext, BlockStep
-------------------------------------------------------------------------------
\* A section that ends moves the contents from before to after if it ends the
\* WORK stage, and leaves them alone otherwise.
LEMMA ProcessPromise ==
  ASSUME TxInv, Process, tx_pc \in {"section", "default"},
         stage = TX_STAGE_WORK => k > Len(work), UNCHANGED <<code, data>>
  PROVE  \/ RolledBack = Zero /\ RolledBack' = Asked
         \/ RolledBack' = RolledBack
  <1>1. CASE stage = TX_STAGE_WORK
    <2>1. OpenInv /\ RolledBack = Zero
      BY <1>1, OpenRollsBack DEF TxInv
    <2>2. data' = Asked
      BY <1>1, <2>1, WorkDone
    <2>3. DOMAIN undo' = {}
      BY <1>1, NoUndo DEF Process
    <2>4. RolledBack' = data'
      BY <2>3, ClosedRollsBack DEF RolledBack, TxInv, TxTypeOK
    <2> QED
      BY <2>1, <2>2, <2>4
  <1>2. CASE stage # TX_STAGE_WORK
    BY <1>2 DEF Process, RolledBack
  <1> QED
    BY <1>1, <1>2

\* Adding a range to the log does not change what a crash would leave.
LEMMA AddPromise ==
  ASSUME TxInv, Working, Add
  PROVE  RolledBack' = RolledBack
  <1> DEFINE f == work[k]
  <1>1. ASSUME NEW e \in Errors, Abort(e)
        PROVE  RolledBack' = RolledBack
    <2>1. RolledBack = Zero /\ data' = Zero /\ DOMAIN undo' = {}
      BY <1>1, AbortFacts
    <2> QED
      BY <2>1 DEF RolledBack, Zero
  <1>2. ASSUME undo' = IF f \in DOMAIN undo THEN undo
                       ELSE [g \in DOMAIN undo \cup {f} |-> IF g = f THEN data[f] ELSE undo[g]],
               data' = data
        PROVE  RolledBack' = RolledBack
    BY <1>2 DEF RolledBack
  <1> QED
    BY <1>1, <1>2 DEF Add

LEMMA PromiseInit ==
  ASSUME TxInit
  PROVE  RolledBack = Zero
  BY NoUndo DEF TxInit, RolledBack, Zero

\* What the block is to do is written in its code.
LEMMA AskedStays ==
  ASSUME [TxNext]_txVars
  PROVE  UNCHANGED <<Zero, Asked>>
  <1>1. work' = work
    BY DEF TxNext, BlockStep, Begin, Jumped, Loop, UserAbort, Add, Store, EndSection,
           Default, End, Crash, txVars, code
  <1> QED
    BY <1>1 DEF Zero, Asked

\* Every step commits, once, or leaves what a crash would find alone.
LEMMA PromiseStep ==
  ASSUME TxInv, TxInv', [TxNext]_txVars
  PROVE  \/ RolledBack = Zero /\ RolledBack' = Asked
         \/ RolledBack' = RolledBack
  <1>a. ASSUME tx_pc = "begin" \/ Working, NEW e \in Errors, Abort(e)
        PROVE  RolledBack' = RolledBack
    <2>1. RolledBack = Zero /\ data' = Zero /\ DOMAIN undo' = {}
      BY <1>a, AbortFacts
    <2> QED
      BY <2>1 DEF RolledBack, Zero
  <1>b. ASSUME UNCHANGED <<data, undo>> PROVE RolledBack' = RolledBack
    BY <1>b DEF RolledBack
  <1>1. CASE Begin
    BY <1>1, <1>a, <1>b DEF Begin
  <1>2. CASE Jumped
    BY <1>2, <1>b DEF Jumped, tx, body
  <1>3. CASE Loop
    BY <1>3, <1>b DEF Loop, tx, body
  <1>4. CASE UserAbort
    BY <1>4, <1>a DEF UserAbort
  <1>5. CASE Add
    BY <1>5, AddPromise DEF Add
  <1>6. CASE Store
    <2>1. OpenInv /\ OpenInv'
      BY <1>6 DEF TxInv, TxTypeOK, Store, Working, tx, locals
    <2> QED
      BY <2>1, OpenRollsBack DEF OpenInv, RolledBack, Zero
  <1>7. CASE EndSection
    <2>1. stage = TX_STAGE_WORK => k > Len(work)
      BY <1>7 DEF EndSection, TxInv, TxTypeOK
    <2> QED
      BY <1>7, <2>1, ProcessPromise DEF EndSection, body
  <1>8. CASE Default
    <2>1. CASE UNCHANGED tx
      BY <1>8, <2>1, <1>b DEF Default, tx, body
    <2>2. CASE Process
      BY <1>8, <2>2, Stages, ProcessPromise DEF Default, TxInv, body
    <2> QED
      BY <1>8, <2>1, <2>2 DEF Default
  <1>9. CASE End
    BY <1>9, <1>b DEF End, tx, body
  <1>10. CASE Crash
    <2>1. data' = RolledBack /\ undo' = << >>
      BY <1>10 DEF Crash
    <2> QED
      BY <2>1, NoUndo DEF RolledBack
  <1>11. CASE UNCHANGED txVars
    BY <1>11, <1>b DEF txVars, tx, body
  <1> QED
    BY <1>1, <1>2, <1>3, <1>4, <1>5, <1>6, <1>7, <1>8, <1>9, <1>10, <1>11
    DEF TxNext, BlockStep
-------------------------------------------------------------------------------
(***************************************************************************)
(* The sections of a block.                                                *)
(***************************************************************************)

\* The sections of the stages before the present one have run, and its own if
\* the block is in it.
Due(began) ==
  {s \in Path(began) \cap Written :
     s \in Before(stage) \/ (s = stage /\ tx_pc = "section")}

RanInOrder == \A i, j \in DOMAIN ran : i < j => ran[i] \in Before(ran[j])

RanInv ==
  /\ sections \subseteq Optional
  /\ ran \in Seq(pobj_tx_stage)
  /\ stage = TX_STAGE_ONCOMMIT => error = 0
  /\ RanInOrder
  /\ tx_pc = "begin" => ran = << >>
  /\ tx_pc = "section" => stage \in Written
  /\ tx_pc = "default" => stage \notin Written
  /\ tx_pc \notin {"begin", "killed", "recovered"} =>
       \E began \in BOOLEAN : (error = 0 => began) /\ Visited = Due(began)

\* The stages before each stage.
LEMMA StagesBefore ==
  /\ Before(TX_STAGE_WORK) = {}
  /\ Before(TX_STAGE_ONCOMMIT) = {TX_STAGE_WORK}
  /\ Before(TX_STAGE_ONABORT) = {TX_STAGE_WORK}
  /\ Before(TX_STAGE_FINALLY) = {TX_STAGE_WORK, TX_STAGE_ONCOMMIT, TX_STAGE_ONABORT}
  /\ Before(TX_STAGE_NONE) = pobj_tx_stage \ {TX_STAGE_NONE}
  BY DEF Before, TX_STAGE_NONE, TX_STAGE_WORK, TX_STAGE_ONCOMMIT, TX_STAGE_ONABORT,
         TX_STAGE_FINALLY

\* What a stage has yet to run is not before it.
LEMMA NotBeforeItself ==
  ASSUME NEW s \in pobj_tx_stage
  PROVE  s \notin Before(s)
  BY StagesBefore, Stages

LEMMA RanInvInit == TxInit => RanInv
  <1> SUFFICES ASSUME TxInit PROVE RanInv
    OBVIOUS
  <1> USE DEF TxInit
  <1>1. ran \in Seq(pobj_tx_stage) /\ DOMAIN ran = {}
    OBVIOUS
  <1>2. QED
    BY <1>1, Stages DEF RanInv, RanInOrder

\* No section begins, and what is due stays due.
LEMMA RanKept ==
  ASSUME RanInv, UNCHANGED <<sections, ran>>,
         stage' = TX_STAGE_ONCOMMIT => error' = 0,
         tx_pc' # "begin",
         tx_pc' = "section" => stage' \in Written,
         tx_pc' = "default" => stage' \notin Written,
         tx_pc' \notin {"killed", "recovered"} =>
           \E began \in BOOLEAN : (error' = 0 => began) /\ Visited = Due(began)'
  PROVE  RanInv'
  <1>1. Visited' = Visited /\ Written' = Written
    BY DEF Visited, Written
  <1>2. RanInOrder'
    BY DEF RanInv, RanInOrder, Before
  <1>3. QED
    BY <1>1, <1>2 DEF RanInv

\* The transaction is given up in its beginning or in the WORK section.
LEMMA RanAborts ==
  ASSUME TxInv, RanInv, NEW e \in Errors, Abort(e), UNCHANGED <<code, ran>>,
         \/ tx_pc = "begin" /\ tx_pc' = "loop"
         \/ Working /\ tx_pc' = "jumped"
  PROVE  RanInv'
  <1>1. sections' = sections /\ stage' = TX_STAGE_ONABORT /\ error' # 0
    BY TxBlockAssumption DEF Abort, code
  <1>2. \A began \in BOOLEAN : Due(began)' = IF began THEN {TX_STAGE_WORK} ELSE {}
    BY <1>1, Stages, StagesBefore DEF Due, Path, Written, Before
  <1>3. \E began \in BOOLEAN : Visited = IF began THEN {TX_STAGE_WORK} ELSE {}
    <2>1. CASE tx_pc = "begin"
      <3>1. Visited = {}
        BY <2>1 DEF RanInv, Visited
      <3>2. QED
        BY <3>1
    <2>2. CASE Working
      <3>1. stage = TX_STAGE_WORK /\ error = 0 /\ tx_pc = "section"
        BY <2>2 DEF Working, TxInv, TxTypeOK
      <3>2. Visited = Due(TRUE)
        BY <3>1 DEF RanInv
      <3>3. Due(TRUE) = {TX_STAGE_WORK}
        BY <3>1, StagesBefore DEF Due, Path, Written
      <3>4. QED
        BY <3>2, <3>3
    <2>3. QED
      BY <2>1, <2>2
  <1>4. QED
    BY <1>1, <1>2, <1>3, RanKept, Stages

\* The stage ends: its section has run if it is written down.
LEMMA RanProcessed ==
  ASSUME TxInv, RanInv, Process, UNCHANGED <<code, ran>>, tx_pc' = "loop",
         tx_pc = "section" \/ (tx_pc = "default" /\ stage \notin sections)
  PROVE  RanInv'
  <1>1. sections' = sections /\ error' = error /\ sections \subseteq Optional
    BY DEF Process, code, RanInv
  <1>2. PICK began \in BOOLEAN : (error = 0 => began) /\ Visited = Due(began)
    BY DEF RanInv
  <1>3. /\ Path(began)' = Path(began) /\ Written' = Written
        /\ stage = TX_STAGE_WORK => error = 0 /\ tx_pc = "section"
        /\ stage = TX_STAGE_ONABORT => error # 0
        /\ stage = TX_STAGE_ONCOMMIT => error = 0
        /\ stage \in pobj_tx_stage
    <2>1. tx_pc = "default" => stage \in Optional
      BY DEF TxInv
    <2>2. QED
      BY <1>1, <2>1, Stages DEF Path, Written, TxInv, TxTypeOK, ClosedInv, RanInv
  <1>4. CASE stage = TX_STAGE_WORK
    <2>1. stage' = TX_STAGE_ONCOMMIT
      BY <1>4, Stages DEF Process
    <2>2. Due(began) = {TX_STAGE_WORK} /\ Due(began)' = {TX_STAGE_WORK}
      BY <1>2, <1>3, <1>4, <2>1, StagesBefore, Stages DEF Due, Path, Written, Before
    <2>3. QED
      BY <1>1, <1>2, <1>3, <1>4, <2>2, RanKept
  <1>5. CASE stage \in {TX_STAGE_ONCOMMIT, TX_STAGE_ONABORT}
    <2>1. stage' = TX_STAGE_FINALLY
      BY <1>5, Stages DEF Process
    <2>2. Due(began)' = {s \in Path(began) \cap Written : s # TX_STAGE_FINALLY}
      BY <1>1, <1>3, <2>1, StagesBefore, Stages DEF Due, Path, Written, Before
    <2>3. Due(began) = {s \in Path(began) \cap Written : s # TX_STAGE_FINALLY}
      BY <1>1, <1>3, <1>5, StagesBefore, Stages DEF Due, Path, Written
    <2>4. QED
      BY <1>1, <1>2, <2>1, <2>2, <2>3, RanKept, Stages
  <1>6. CASE stage = TX_STAGE_FINALLY
    <2>1. stage' = TX_STAGE_NONE
      BY <1>6, Stages DEF Process
    <2>2. Due(began)' = Path(began) \cap Written
      BY <1>1, <1>3, <2>1, StagesBefore, Stages DEF Due, Path, Written, Before
    <2>3. Due(began) = Path(began) \cap Written
      BY <1>1, <1>3, <1>6, StagesBefore, Stages DEF Due, Path, Written
    <2>4. QED
      BY <1>1, <1>2, <2>1, <2>2, <2>3, RanKept, Stages
  <1>7. stage # TX_STAGE_NONE
    BY <1>1, Stages DEF RanInv, TxInv, Written
  <1>8. QED
    BY <1>3, <1>4, <1>5, <1>6, <1>7, Stages

\* The loop enters the section of the stage, or finds none.
LEMMA RanLoops ==
  ASSUME TxInv, RanInv, Loop
  PROVE  RanInv'
  <1> USE DEF Loop
  <1>1. /\ UNCHANGED <<sections, stage, error>> /\ tx_pc = "loop"
        /\ sections \subseteq Optional /\ stage \in pobj_tx_stage
    BY DEF code, tx, RanInv, TxInv, TxTypeOK
  <1>2. PICK began \in BOOLEAN : (error = 0 => began) /\ Visited = Due(began)
    BY <1>1 DEF RanInv
  <1>3. CASE /\ UNCHANGED ran
             /\ \/ tx_pc' = "end"
                \/ tx_pc' = "default" /\ stage \in Optional \ sections
    <2>1. Due(began)' = Due(began)
      BY <1>1, <1>3 DEF Due, Path, Written, Before
    <2>2. stage \in Optional \ sections => stage' \notin Written
      BY <1>1, Stages DEF Written
    <2>3. QED
      BY <1>1, <1>2, <1>3, <2>1, <2>2, RanKept DEF RanInv
  <1>4. CASE stage \in {TX_STAGE_WORK} \cup sections /\ tx_pc' = "section"
             /\ ran' = Append(ran, stage)
    <2>1. /\ ran \in Seq(pobj_tx_stage) /\ Len(ran) \in Nat
          /\ DOMAIN ran = 1 .. Len(ran)
      BY DEF RanInv
    <2>2. /\ DOMAIN ran' = 1 .. Len(ran) + 1
          /\ \A i \in DOMAIN ran : ran'[i] = ran[i]
          /\ ran'[Len(ran) + 1] = stage
          /\ ran' \in Seq(pobj_tx_stage)
      BY <1>1, <1>4, <2>1
    <2>3. Visited' = Visited \cup {stage}
      BY <2>1, <2>2 DEF Visited
    <2>4. stage \in Path(began) \cap Written
      <3>1. stage = TX_STAGE_WORK => began
        BY <1>2 DEF TxInv
      <3>2. stage = TX_STAGE_ONABORT => error # 0
        BY <1>1, Stages DEF TxInv, ClosedInv
      <3>3. stage = TX_STAGE_ONCOMMIT => error = 0
        BY DEF RanInv
      <3>4. QED
        BY <1>1, <1>4, <3>1, <3>2, <3>3, Stages DEF Path, Written
    <2>5. Due(began)' = Due(began) \cup {stage}
      BY <1>1, <1>4, <2>4 DEF Due, Path, Written, Before
    <2>6. Visited \subseteq Before(stage)
      BY <1>1, <1>2 DEF Due
    <2>7. RanInOrder'
      <3>1. ASSUME NEW i \in DOMAIN ran', NEW j \in DOMAIN ran', i < j
            PROVE  ran'[i] \in Before(ran'[j])
        <4>1. i \in DOMAIN ran
          BY <2>1, <2>2, <3>1
        <4>2. CASE j \in DOMAIN ran
          BY <2>2, <3>1, <4>1, <4>2 DEF RanInv, RanInOrder
        <4>3. CASE j = Len(ran) + 1
          BY <2>2, <2>6, <4>1, <4>3 DEF Visited
        <4>4. QED
          BY <2>1, <2>2, <4>2, <4>3
      <3>2. QED
        BY <3>1 DEF RanInOrder, Before
    <2>8. QED
      BY <1>1, <1>2, <1>4, <2>2, <2>3, <2>5, <2>7 DEF RanInv, Written
  <1>5. QED
    BY <1>3, <1>4

LEMMA RanInvStep ==
  ASSUME TxInv, RanInv, [TxNext]_txVars
  PROVE  RanInv'
  <1> USE DEF code, tx
  <1>1. CASE Begin
    <2>1. CASE /\ stage' = TX_STAGE_WORK /\ UNCHANGED error
      <3>1. error' = 0 /\ Visited = {}
        BY <1>1, <2>1 DEF Begin, TxInv, RanInv, Visited
      <3>2. Due(TRUE)' = {}
        BY <1>1, <2>1, Stages, StagesBefore DEF Begin, Due, Before
      <3>3. QED
        BY <1>1, <2>1, <3>1, <3>2, RanKept, Stages DEF Begin
    <2>2. CASE \E e \in Errors : Abort(e)
      BY <1>1, <2>2, RanAborts DEF Begin
    <2>3. QED
      BY <1>1, <2>1, <2>2 DEF Begin
  <1>2. ASSUME UNCHANGED <<sections, stage, error, ran>>, tx_pc \notin Over \cup {"begin"},
               tx_pc' \notin {"begin", "default"}, tx_pc = "section" <=> tx_pc' = "section"
        PROVE  RanInv'
    <2>1. PICK began \in BOOLEAN : (error = 0 => began) /\ Visited = Due(began)
      BY <1>2 DEF RanInv, Over
    <2>2. Due(began)' = Due(began)
      BY <1>2 DEF Due, Path, Written, Before
    <2>3. QED
      BY <1>2, <2>1, <2>2, RanKept DEF RanInv
  <1>3. CASE Jumped
    BY <1>2, <1>3 DEF Jumped, Over
  <1>4. CASE Loop
    BY <1>4, RanLoops
  <1>5. CASE UserAbort
    BY <1>5, RanAborts DEF UserAbort, Longjmp
  <1>6. CASE Add
    <2>1. CASE UNCHANGED <<tx_pc, stage, error>>
      BY <1>2, <1>6, <2>1 DEF Add, Working, Over
    <2>2. CASE (\E e \in Errors : Abort(e)) /\ Longjmp
      BY <1>6, <2>2, RanAborts DEF Add, Longjmp
    <2>3. QED
      BY <1>6, <2>1, <2>2 DEF Add, locals
  <1>7. CASE Store
    BY <1>2, <1>7 DEF Store, Working, Over
  <1>8. CASE EndSection
    BY <1>8, RanProcessed DEF EndSection
  <1>9. CASE Default
    <2>1. CASE tx_pc' = "killed" /\ UNCHANGED tx
      BY <1>2, <1>9, <2>1 DEF Default, Over
    <2>2. CASE Process /\ tx_pc' = "loop"
      <3>1. stage \notin sections
        BY <1>9 DEF Default, RanInv, Written
      <3>2. QED
        BY <1>9, <2>2, <3>1, RanProcessed DEF Default
    <2>3. QED
      BY <1>9, <2>1, <2>2 DEF Default
  <1>10. CASE End
    BY <1>2, <1>10 DEF End, Over
  <1>11. CASE Crash
    BY <1>11, RanKept DEF Crash, RanInv
  <1>12. CASE UNCHANGED txVars
    <2>1. UNCHANGED <<sections, tx_pc, stage, error, ran>>
      BY <1>12 DEF txVars
    <2>2. QED
      BY <2>1 DEF RanInv, RanInOrder, Visited, Due, Path, Written, Before
  <1>13. QED
    BY <1>1, <1>3, <1>4, <1>5, <1>6, <1>7, <1>8, <1>9, <1>10, <1>11, <1>12
    DEF TxNext, BlockStep

LEMMA RanIsPath == TxInv /\ RanInv => SectionsInOrder
  <1> SUFFICES ASSUME TxInv, RanInv PROVE SectionsInOrder
    OBVIOUS
  <1>1. ASSUME tx_pc = "done"
        PROVE  \E began \in BOOLEAN :
                 (error = 0 => began) /\ Visited = Path(began) \cap Written
    <2>1. PICK began \in BOOLEAN : (error = 0 => began) /\ Visited = Due(began)
      BY <1>1 DEF RanInv
    <2>2. stage = TX_STAGE_NONE /\ sections \subseteq Optional
      BY <1>1 DEF TxInv, RanInv
    <2>3. Due(began) = Path(began) \cap Written
      BY <2>2, StagesBefore, Stages DEF Due, Path, Written
    <2>4. QED
      BY <2>1, <2>3
  <1>2. QED
    BY <1>1 DEF SectionsInOrder, RanInv, RanInOrder
-------------------------------------------------------------------------------
\* Every block, whatever its fields, its WORK section and its other sections,
\* keeps the types; no local that the longjmp of pmemobj_tx_abort made
\* indeterminate reaches the switch, errno or the value of the block.
THEOREM BlockTypeCorrect == TxSpec => []TxTypeOK
  <1>1. TxInit => TxInv
    BY TxInvInit
  <1>2. TxInv /\ [TxNext]_txVars => TxInv'
    BY TxInvStep
  <1>3. TxInv => TxTypeOK
    BY DEF TxInv
  <1> QED
    BY <1>1, <1>2, <1>3, PTL DEF TxSpec

\* After TX_END errno is the error of a transaction that failed, whatever the
\* sections did to it, and the fields are as before then, as asked otherwise.
THEOREM FailureIsTold == TxSpec => []ErrnoTellsFailure
  <1>1. TxInit => TxInv
    BY TxInvInit
  <1>2. TxInv /\ [TxNext]_txVars => TxInv'
    BY TxInvStep
  <1>3. TxInv => ErrnoTellsFailure
    BY Stages DEF TxInv, ErrnoTellsFailure, ClosedInv
  <1> QED
    BY <1>1, <1>2, <1>3, PTL DEF TxSpec

\* What TX_BEGIN to TX_END do implements an atomic update: all of the fields
\* the WORK section sets change at once or none does, as seen after a crash at
\* any moment and after an abort.
THEOREM TransactionIsAtomic == TxSpec => AllOrNothing
  <1>1. TxInit => TxInv
    BY TxInvInit
  <1>2. TxInv /\ [TxNext]_txVars => TxInv'
    BY TxInvStep
  <1>3. TxInit => Promise!Init
    BY PromiseInit DEF Promise!Init
  <1>4. TxInv /\ TxInv' /\ [TxNext]_txVars => [Promise!Commit]_(Promise!vars)
    BY PromiseStep, AskedStays DEF Promise!Commit, Promise!vars
  <1> QED
    BY <1>1, <1>2, <1>3, <1>4, PTL DEF TxSpec, AllOrNothing, Promise!Spec

\* Of a block's sections those that are written down run, in the order of the
\* stages and once: ONCOMMIT after a commit, ONABORT after an abort, FINALLY after
\* both; no indeterminate local is used, and errno tells a failure.
THEOREM BlocksRunTheirSections == TxSpec => []BlockInv
  <1>1. TxInit => TxInv /\ RanInv
    BY TxInvInit, RanInvInit
  <1>2. (TxInv /\ RanInv) /\ [TxNext]_txVars => (TxInv /\ RanInv)'
    BY TxInvStep, RanInvStep
  <1>3. TxInv /\ RanInv => BlockInv
    BY RanIsPath, Stages DEF BlockInv, TxInv, ErrnoTellsFailure, ClosedInv
  <1>4. QED
    BY <1>1, <1>2, <1>3, PTL DEF TxSpec

-------------------------------------------------------------------------------
(***************************************************************************)
(* Layout: the numbers of types.                                           *)
(***************************************************************************)

LayoutTypeOK ==
  /\ counter \in Nat /\ ref \in Nat /\ cnt \in Nat
  /\ declared \in Seq(TypeNames) /\ earlier \in Seq(TypeNames)
  /\ num \in [TypeNames -> Nat]
  /\ stored \in [Places -> Nat]
  /\ made \in [Places -> TypeNames \cup {NoType}]
  /\ typed \in [TypeNames -> Places \cup {0}]

\* What a build declares: each type once, the root type apart.
OnceEach(types) ==
  /\ \A i, j \in DOMAIN types : types[i] = types[j] => i = j
  /\ \A i \in DOMAIN types : types[i] # RootType

\* The numbers given so far, and no others.
Numbered ==
  /\ \A i \in DOMAIN declared : num[declared[i]] = i + 1
  /\ num[RootType] \in {0, 1}
  /\ \A t \in Declared \ {RootType} : \E i \in DOMAIN declared : declared[i] = t

\* A build repeats the one before it as far as both go.
Repeats ==
  \A i \in DOMAIN earlier : i \in DOMAIN declared => earlier[i] = declared[i]

\* Inside a layout nothing but its types counts.
Counted ==
  /\ ref = 0 => declared = << >> /\ cnt = 0
  /\ Inside => counter = ref + Len(declared)
  /\ Usable => cnt = Len(declared) + 1 /\ Len(earlier) <= Len(declared)

\* The objects of the pool bear the numbers of the types a build declares.
Bears(types) ==
  \A o \in Present :
    \/ made[o] = RootType /\ stored[o] = POBJ_ROOT_TYPE_NUM
    \/ \E i \in DOMAIN types : made[o] = types[i] /\ stored[o] = i

LayoutInv ==
  /\ LayoutTypeOK
  /\ OnceEach(declared) /\ OnceEach(earlier)
  /\ Numbered /\ Repeats /\ Counted
  /\ IF Usable THEN Bears(declared) ELSE Bears(earlier)

LEMMA LayoutInvInit == LayoutInit => LayoutInv
  <1> SUFFICES ASSUME LayoutInit PROVE LayoutInv
    OBVIOUS
  <1> USE LayoutAssumption DEF LayoutInit
  <1>1. LayoutTypeOK
    BY DEF LayoutTypeOK
  <1>2. OnceEach(declared) /\ OnceEach(earlier)
    BY DEF OnceEach
  <1>3. Numbered /\ Repeats /\ Counted
    BY DEF Numbered, Repeats, Counted, Declared, Inside, Usable
  <1>4. Bears(earlier) /\ ~ Usable
    BY DEF Bears, Present, Usable
  <1>5. QED
    BY <1>1, <1>2, <1>3, <1>4 DEF LayoutInv

LEMMA LayoutDeclares ==
  ASSUME LayoutInv, Declaration
  PROVE  LayoutInv'
  <1> USE LayoutAssumption DEF LayoutInv, heapOfPool
  <1>1. CASE POBJ_LAYOUT_BEGIN
    <2> USE <1>1 DEF POBJ_LAYOUT_BEGIN
    <2>1. ~ Usable /\ ~ Usable' /\ declared = << >>
      BY DEF Usable, Counted
    <2>2. LayoutTypeOK'
      BY DEF LayoutTypeOK
    <2>3. OnceEach(declared)' /\ OnceEach(earlier)' /\ Repeats'
      BY DEF OnceEach, Repeats
    <2>4. Numbered'
      BY DEF Numbered, Declared
    <2>5. Counted'
      BY <2>1 DEF Counted, Inside, Usable, LayoutTypeOK
    <2>6. Bears(earlier)'
      BY <2>1 DEF Bears, Present
    <2>7. QED
      BY <2>1, <2>2, <2>3, <2>4, <2>5, <2>6
  <1>2. ASSUME NEW t \in TypeNames, POBJ_LAYOUT_TOID(t)
        PROVE  LayoutInv'
    <2> USE <1>2 DEF POBJ_LAYOUT_TOID, TOID_DECLARE
    <2>1. /\ ~ Usable /\ ~ Usable' /\ ref # 0 /\ cnt = 0
          /\ counter \in Nat /\ ref \in Nat /\ counter = ref + Len(declared)
      BY DEF Usable, Inside, Counted, LayoutTypeOK
    <2>2. /\ declared \in Seq(TypeNames) /\ declared' = Append(declared, t)
          /\ Len(declared) \in Nat
      BY DEF LayoutTypeOK
    <2>3. /\ Len(declared') = Len(declared) + 1
          /\ DOMAIN declared = 1 .. Len(declared)
          /\ DOMAIN declared' = 1 .. Len(declared) + 1
          /\ \A i \in DOMAIN declared : declared'[i] = declared[i]
          /\ declared'[Len(declared) + 1] = t
          /\ declared' \in Seq(TypeNames)
      BY <2>2
    <2>4. counter + 1 - ref = Len(declared) + 1
      BY <2>1, <2>2
    <2>5. num \in [TypeNames -> Nat] /\ num' = [num EXCEPT ![t] = Len(declared) + 2]
      <3>1. (counter + 1 - ref) + 1 = Len(declared) + 2
        BY <2>1, <2>2
      <3>2. QED
        BY <3>1 DEF LayoutTypeOK
    <2>6. num[t] = 0 /\ t # RootType
      BY DEF Declared
    <2>7. \A i \in DOMAIN declared : declared[i] \in TypeNames /\ declared[i] # t
      <3>1. \A i \in DOMAIN declared : num[declared[i]] = i + 1 /\ declared[i] \in TypeNames
        BY <2>2 DEF Numbered
      <3>2. QED
        BY <2>3, <2>2, <2>6, <3>1
    <2>8. LayoutTypeOK'
      BY <2>1, <2>2, <2>3, <2>5 DEF LayoutTypeOK
    <2>9. OnceEach(declared)' /\ OnceEach(earlier)'
      <3>1. OnceEach(earlier)'
        BY DEF OnceEach
      <3>2. ASSUME NEW i \in DOMAIN declared', NEW j \in DOMAIN declared',
                   declared'[i] = declared'[j]
            PROVE  i = j
        BY <2>2, <2>3, <2>7, <3>2 DEF OnceEach
      <3>3. ASSUME NEW i \in DOMAIN declared'
            PROVE  declared'[i] # RootType
        BY <2>2, <2>3, <2>6 DEF OnceEach
      <3>4. QED
        BY <3>1, <3>2, <3>3 DEF OnceEach
    <2>10. Numbered'
      <3>1. ASSUME NEW i \in DOMAIN declared'
            PROVE  num'[declared'[i]] = i + 1
        <4>1. CASE i \in DOMAIN declared
          BY <2>3, <2>5, <2>7, <4>1 DEF Numbered
        <4>2. CASE i = Len(declared) + 1
          BY <2>2, <2>3, <2>5, <4>2
        <4>3. QED
          BY <2>2, <2>3, <4>1, <4>2
      <3>2. num'[RootType] \in {0, 1}
        BY <2>5, <2>6 DEF Numbered
      <3>3. ASSUME NEW u \in Declared' \ {RootType}
            PROVE  \E i \in DOMAIN declared' : declared'[i] = u
        <4>1. CASE u = t
          BY <2>2, <2>3, <4>1
        <4>2. CASE u # t
          <5>1. u \in Declared \ {RootType}
            BY <2>5, <4>2 DEF Declared
          <5>2. PICK i \in DOMAIN declared : declared[i] = u
            BY <5>1 DEF Numbered
          <5>3. i \in DOMAIN declared' /\ declared'[i] = u
            BY <2>2, <2>3, <5>2
          <5>4. QED
            BY <5>3
        <4>3. QED
          BY <4>1, <4>2
      <3>4. QED
        BY <3>1, <3>2, <3>3 DEF Numbered
    <2>11. Repeats'
      <3>1. SUFFICES ASSUME NEW i \in DOMAIN earlier, i \in DOMAIN declared'
                     PROVE  earlier[i] = declared'[i]
        BY DEF Repeats
      <3>2. CASE i \in DOMAIN declared
        BY <2>3, <3>2 DEF Repeats
      <3>3. CASE i = Len(declared) + 1
        BY <2>2, <2>3, <3>3 DEF LayoutTypeOK
      <3>4. QED
        BY <2>2, <2>3, <3>1, <3>2, <3>3
    <2>12. Counted'
      BY <2>1, <2>2, <2>3 DEF Counted, Inside, Usable
    <2>13. Bears(earlier)'
      BY <2>1 DEF Bears, Present
    <2>14. QED
      BY <2>1, <2>8, <2>9, <2>10, <2>11, <2>12, <2>13
  <1>3. CASE POBJ_LAYOUT_ROOT
    <2> USE <1>3 DEF POBJ_LAYOUT_ROOT, TOID_DECLARE, POBJ_ROOT_TYPE_NUM
    <2>1. ~ Usable /\ ~ Usable'
      BY DEF Usable, Inside
    <2>2. num \in [TypeNames -> Nat] /\ num' = [num EXCEPT ![RootType] = 1]
      BY DEF LayoutTypeOK
    <2>3. LayoutTypeOK'
      BY <2>2 DEF LayoutTypeOK
    <2>4. OnceEach(declared)' /\ OnceEach(earlier)' /\ Repeats'
      BY DEF OnceEach, Repeats
    <2>5. Numbered'
      <3>1. \A i \in DOMAIN declared : declared[i] \in TypeNames /\ declared[i] # RootType
        BY DEF OnceEach, LayoutTypeOK
      <3>2. QED
        BY <2>2, <3>1 DEF Numbered, Declared
    <2>6. Counted'
      BY <2>1 DEF Counted, Inside, Usable
    <2>7. Bears(earlier)'
      BY <2>1 DEF Bears, Present
    <2>8. QED
      BY <2>1, <2>3, <2>4, <2>5, <2>6, <2>7
  <1>4. CASE POBJ_LAYOUT_END
    <2> USE <1>4 DEF POBJ_LAYOUT_END
    <2>1. /\ ~ Usable /\ counter = ref + Len(declared)
          /\ counter \in Nat /\ ref \in Nat /\ ref # 0
          /\ declared \in Seq(TypeNames) /\ earlier \in Seq(TypeNames)
          /\ Len(declared) \in Nat
      BY DEF Usable, Inside, Counted, LayoutTypeOK
    <2>2. cnt' = Len(declared) + 1 /\ Usable'
      BY <2>1 DEF Usable
    <2>3. LayoutTypeOK'
      BY <2>1, <2>2 DEF LayoutTypeOK
    <2>4. OnceEach(declared)' /\ OnceEach(earlier)' /\ Repeats'
      BY DEF OnceEach, Repeats
    <2>5. Numbered'
      BY DEF Numbered, Declared
    <2>6. Counted'
      BY <2>1, <2>2 DEF Counted, Inside, Usable
    <2>7. Bears(declared)'
      <3>1. \A i \in DOMAIN earlier : i \in DOMAIN declared /\ earlier[i] = declared[i]
        BY <2>1 DEF Repeats
      <3>2. QED
        BY <2>1, <3>1 DEF Bears, Present
    <2>8. QED
      BY <2>2, <2>3, <2>4, <2>5, <2>6, <2>7
  <1>5. QED
    BY <1>1, <1>2, <1>3, <1>4 DEF Declaration

\* The build is complete; of its variables none that counts types changes.
LEMMA CompilerRests ==
  ASSUME LayoutInv, Usable, UNCHANGED <<compiler, earlier>>,
         LayoutTypeOK', Bears(declared)'
  PROVE  LayoutInv'
  <1> USE DEF compiler, LayoutInv
  <1>1. Usable'
    BY DEF Usable
  <1>2. OnceEach(declared)' /\ OnceEach(earlier)' /\ Repeats'
    BY DEF OnceEach, Repeats
  <1>3. Numbered' /\ Counted'
    BY <1>1 DEF Numbered, Declared, Counted, Inside, Usable
  <1>4. QED
    BY <1>1, <1>2, <1>3

\* A declared type has a number of its own.
LEMMA DeclaredNumber ==
  ASSUME LayoutInv, NEW t \in Declared
  PROVE  \/ t = RootType /\ TOID_TYPE_NUM(t) = POBJ_ROOT_TYPE_NUM
         \/ t # RootType /\ \E i \in DOMAIN declared :
              declared[i] = t /\ TOID_TYPE_NUM(t) = i /\ i \in Nat \ {0}
  <1>1. t \in TypeNames /\ num[t] # 0
    BY DEF Declared
  <1>2. CASE t = RootType
    BY <1>1, <1>2 DEF LayoutInv, Numbered, TOID_TYPE_NUM, POBJ_ROOT_TYPE_NUM
  <1>3. CASE t # RootType
    <2>1. PICK i \in DOMAIN declared : declared[i] = t
      BY <1>3 DEF LayoutInv, Numbered
    <2>2. i \in Nat \ {0} /\ num[t] = i + 1
      BY <2>1 DEF LayoutInv, Numbered, LayoutTypeOK
    <2>3. TOID_TYPE_NUM(t) = i
      BY <2>2 DEF TOID_TYPE_NUM
    <2>4. QED
      BY <1>3, <2>1, <2>2, <2>3
  <1>4. QED
    BY <1>2, <1>3

\* An object that is made as a declared type bears its number, and the others
\* bear theirs still.
LEMMA BearsMade ==
  ASSUME LayoutInv, Usable, UNCHANGED <<compiler, earlier>>,
         NEW t \in Declared, NEW o \in Places,
         stored'[o] = TOID_TYPE_NUM(t), made'[o] = t,
         \A p \in Places \ {o} :
            made'[p] = NoType \/ (made'[p] = made[p] /\ stored'[p] = stored[p])
  PROVE  Bears(declared)'
  <1>1. declared' = declared /\ Bears(declared)
    BY DEF compiler, LayoutInv
  <1>2. SUFFICES ASSUME NEW p \in Places, made'[p] # NoType
                 PROVE  \/ made'[p] = RootType /\ stored'[p] = POBJ_ROOT_TYPE_NUM
                        \/ \E i \in DOMAIN declared : made'[p] = declared[i] /\ stored'[p] = i
    BY <1>1 DEF Bears, Present
  <1>3. CASE p = o
    BY <1>3, DeclaredNumber
  <1>4. CASE p # o
    BY <1>1, <1>2, <1>4 DEF Bears, Present
  <1>5. QED
    BY <1>3, <1>4

LEMMA ObjectsMove ==
  ASSUME LayoutInv, ObjectStep
  PROVE  LayoutInv'
  <1> USE LayoutAssumption
  <1>1. /\ stored \in [Places -> Nat] /\ made \in [Places -> TypeNames \cup {NoType}]
        /\ typed \in [TypeNames -> Places \cup {0}] /\ LayoutTypeOK
    BY DEF LayoutInv, LayoutTypeOK
  <1>2. ASSUME NEW t \in Declared
        PROVE  TOID_TYPE_NUM(t) \in Nat /\ t \in TypeNames
    BY DeclaredNumber DEF Declared, POBJ_ROOT_TYPE_NUM
  <1>3. ASSUME Usable, UNCHANGED heapOfPool, UNCHANGED <<compiler, earlier>>
        PROVE  Bears(declared)'
    BY <1>3 DEF LayoutInv, Bears, Present, heapOfPool, compiler
  <1>4. CASE Root
    <2> USE <1>4 DEF Root
    <2>1. PICK o \in Places :
            /\ \/ made[o] = RootType /\ UNCHANGED heapOfPool
               \/ /\ stored' = [stored EXCEPT ![o] = POBJ_ROOT_TYPE_NUM]
                  /\ made' = [made EXCEPT ![o] = RootType]
            /\ typed' = [typed EXCEPT ![RootType] = o]
      OBVIOUS
    <2>2. LayoutTypeOK'
      <3>1. /\ stored' \in [Places -> Nat] /\ made' \in [Places -> TypeNames \cup {NoType}]
            /\ typed' \in [TypeNames -> Places \cup {0}]
        BY <1>1, <2>1 DEF heapOfPool, POBJ_ROOT_TYPE_NUM
      <3>2. QED
        BY <1>1, <3>1 DEF LayoutTypeOK, compiler
    <2>3. TOID_TYPE_NUM(RootType) = POBJ_ROOT_TYPE_NUM
      BY DeclaredNumber
    <2>4. Bears(declared)'
      <3>1. CASE UNCHANGED heapOfPool
        BY <1>3, <3>1
      <3>2. CASE /\ stored' = [stored EXCEPT ![o] = POBJ_ROOT_TYPE_NUM]
                 /\ made' = [made EXCEPT ![o] = RootType]
        <4>1. stored'[o] = TOID_TYPE_NUM(RootType) /\ made'[o] = RootType
          BY <1>1, <2>3, <3>2
        <4>2. \A p \in Places \ {o} : made'[p] = made[p] /\ stored'[p] = stored[p]
          BY <1>1, <3>2
        <4>3. QED
          BY <4>1, <4>2, BearsMade
      <3>3. QED
        BY <2>1, <3>1, <3>2
    <2>5. QED
      BY <2>2, <2>4, CompilerRests
  <1>5. ASSUME NEW v \in TypeNames, Free(v)
        PROVE  LayoutInv'
    <2> USE <1>5 DEF Free
    <2>1. Usable /\ typed[v] \in Places
      BY DEF Refers, Present
    <2>2. LayoutTypeOK'
      BY <1>1, <2>1 DEF LayoutTypeOK, compiler
    <2>3. \A p \in Places :
            made'[p] = NoType \/ (made'[p] = made[p] /\ stored'[p] = stored[p])
      BY <1>1, <2>1
    <2>4. Bears(declared)'
      BY <2>1, <2>3 DEF LayoutInv, Bears, Present, compiler
    <2>5. QED
      BY <2>1, <2>2, <2>4, CompilerRests
  <1>6. ASSUME NEW v \in TypeNames, NEW o \in Places \cup {0}, TOID_ASSIGN(v, o)
        PROVE  LayoutInv'
    <2> USE <1>6 DEF TOID_ASSIGN
    <2>1. LayoutTypeOK'
      BY <1>1 DEF LayoutTypeOK, compiler, heapOfPool
    <2>2. QED
      BY <1>3, <2>1, CompilerRests
  <1>7. ASSUME NEW v \in TypeNames, NEW t \in TypeNames, New(t, v)
        PROVE  LayoutInv'
    <2> USE <1>7 DEF New
    <2>1. Usable /\ t \in Declared
      OBVIOUS
    <2>2. CASE typed' = [typed EXCEPT ![v] = 0] /\ UNCHANGED heapOfPool
      <3>1. LayoutTypeOK'
        BY <1>1, <2>2 DEF LayoutTypeOK, compiler, heapOfPool
      <3>2. QED
        BY <1>3, <2>1, <2>2, <3>1, CompilerRests
    <2>3. CASE \E o \in Places \ Present :
                 Holds(o, t) /\ typed' = [typed EXCEPT ![v] = o]
      <3>1. PICK o \in Places : Holds(o, t) /\ typed' = [typed EXCEPT ![v] = o]
        BY <2>3
      <3>2. LayoutTypeOK'
        BY <1>1, <1>2, <2>1, <3>1 DEF LayoutTypeOK, compiler, Holds
      <3>3. stored'[o] = TOID_TYPE_NUM(t) /\ made'[o] = t
        BY <1>1, <3>1 DEF Holds
      <3>4. \A p \in Places \ {o} : made'[p] = made[p] /\ stored'[p] = stored[p]
        BY <1>1, <3>1 DEF Holds
      <3>5. Bears(declared)'
        BY <2>1, <3>3, <3>4, BearsMade
      <3>6. QED
        BY <2>1, <3>2, <3>5, CompilerRests
    <2>4. QED
      BY <2>2, <2>3
  <1>8. ASSUME NEW v \in TypeNames, NEW t \in TypeNames, Realloc(t, v)
        PROVE  LayoutInv'
    <2> USE <1>8 DEF Realloc
    <2>1. Usable /\ t \in Declared /\ typed[v] \in Places
      BY DEF Refers, Present
    <2>2. PICK o \in Places :
            /\ stored' = [[stored EXCEPT ![typed[v]] = 0] EXCEPT ![o] = TOID_TYPE_NUM(t)]
            /\ made' = [[made EXCEPT ![typed[v]] = NoType] EXCEPT ![o] = t]
            /\ typed' = [typed EXCEPT ![v] = o]
      BY <2>1
    <2>3. LayoutTypeOK'
      BY <1>1, <1>2, <2>1, <2>2 DEF LayoutTypeOK, compiler
    <2>4. stored'[o] = TOID_TYPE_NUM(t) /\ made'[o] = t
      BY <1>1, <2>1, <2>2
    <2>5. \A p \in Places \ {o} :
            made'[p] = NoType \/ (made'[p] = made[p] /\ stored'[p] = stored[p])
      BY <1>1, <2>1, <2>2
    <2>6. Bears(declared)'
      BY <2>1, <2>4, <2>5, BearsMade
    <2>7. QED
      BY <2>1, <2>3, <2>6, CompilerRests
  <1>9. QED
    BY <1>4, <1>5, <1>6, <1>7, <1>8 DEF ObjectStep

\* The pool passes from one build to the next.
LEMMA PoolOutlivesBuild ==
  ASSUME LayoutInv, Rebuild
  PROVE  LayoutInv'
  <1> USE LayoutAssumption DEF LayoutInv, Rebuild, heapOfPool
  <1>1. LayoutTypeOK'
    BY DEF LayoutTypeOK
  <1>2. OnceEach(declared)' /\ OnceEach(earlier)' /\ Repeats'
    BY DEF OnceEach, Repeats
  <1>3. Numbered' /\ Counted'
    BY DEF Numbered, Counted, Declared, Inside, Usable
  <1>4. Bears(earlier)' /\ ~ Usable'
    BY DEF Bears, Present, Usable
  <1>5. QED
    BY <1>1, <1>2, <1>3, <1>4

LEMMA LayoutInvStep == LayoutInv /\ [LayoutNext]_layoutVars => LayoutInv'
  <1> SUFFICES ASSUME LayoutInv, [LayoutNext]_layoutVars PROVE LayoutInv'
    OBVIOUS
  <1>1. CASE UNCHANGED layoutVars
    BY <1>1 DEF layoutVars, compiler, heapOfPool, LayoutInv, LayoutTypeOK, OnceEach,
                Numbered, Declared, Repeats, Counted, Inside, Usable, Bears, Present
  <1>2. QED
    BY <1>1, LayoutDeclares, ObjectsMove, PoolOutlivesBuild DEF LayoutNext

\* Numbers of their own tell the types apart.
LEMMA NumbersTell == LayoutInv => TypesAreTold
  <1> SUFFICES ASSUME LayoutInv PROVE TypesAreTold
    OBVIOUS
  <1>1. NumberIsPlace
    <2>1. ASSUME NEW i \in DOMAIN declared
          PROVE  TOID_TYPE_NUM(declared[i]) = i
      <3>1. num[declared[i]] = i + 1 /\ i \in Nat
        BY DEF LayoutInv, Numbered, LayoutTypeOK
      <3>2. QED
        BY <3>1 DEF TOID_TYPE_NUM
    <2>2. RootType \in Declared => TOID_TYPE_NUM(RootType) = POBJ_ROOT_TYPE_NUM
      BY DeclaredNumber
    <2>3. Usable => POBJ_LAYOUT_TYPES_NUM = Len(declared)
      <3>1. declared \in Seq(TypeNames)
        BY DEF LayoutInv, LayoutTypeOK
      <3>2. QED
        BY <3>1 DEF LayoutInv, Counted, POBJ_LAYOUT_TYPES_NUM
    <2>4. QED
      BY <2>1, <2>2, <2>3 DEF NumberIsPlace
  <1>2. ASSUME Usable, NEW v \in Declared, NEW o \in Present
        PROVE  TOID_TYPE_NUM(v) = stored[o] <=> made[o] = v
    <2>1. \/ made[o] = RootType /\ stored[o] = 0
          \/ \E i \in DOMAIN declared : made[o] = declared[i] /\ stored[o] = i
      BY <1>2 DEF LayoutInv, Bears, POBJ_ROOT_TYPE_NUM
    <2>2. \A i \in DOMAIN declared : declared[i] # RootType /\ i \in Nat \ {0}
      BY DEF LayoutInv, OnceEach, LayoutTypeOK
    <2>3. CASE v = RootType
      BY <2>1, <2>2, <2>3, DeclaredNumber DEF POBJ_ROOT_TYPE_NUM
    <2>4. CASE v # RootType
      <3>1. PICK i \in DOMAIN declared : declared[i] = v /\ TOID_TYPE_NUM(v) = i
        BY <2>4, DeclaredNumber
      <3>2. QED
        BY <2>1, <2>2, <3>1 DEF LayoutInv, OnceEach
    <2>5. QED
      BY <2>3, <2>4
  <1>3. ValidTellsType
    BY <1>2 DEF ValidTellsType, OID_INSTANCEOF, TOID_VALID
  <1>4. QED
    BY <1>1, <1>3 DEF TypesAreTold

\* A type's number is its place in the layout, wherever __COUNTER__ stood when
\* the layout began, so that TOID_VALID and OID_INSTANCEOF tell an object's type
\* also in a later build that appends types, whichever variable holds its oid.
THEOREM CheckedTypesAreRight == LayoutSpec => []TypesAreTold
  <1>1. LayoutInit => LayoutInv
    BY LayoutInvInit
  <1>2. LayoutInv /\ [LayoutNext]_layoutVars => LayoutInv'
    BY LayoutInvStep
  <1>3. LayoutInv => TypesAreTold
    BY NumbersTell
  <1>4. QED
    BY <1>1, <1>2, <1>3, PTL DEF LayoutSpec
-------------------------------------------------------------------------------
\* The natural numbers are well ordered, so that the library's order has a
\* first object and a next one.
LEMMA LeastFacts ==
  ASSUME NEW S, S \subseteq Nat \ {0}
  PROVE  /\ S = {} => Least(S) = 0
         /\ S # {} => Least(S) \in S /\ \A y \in S : Least(S) <= y
  <1>1. ASSUME S # {} PROVE \E x \in S : \A y \in S : x <= y
    <2> DEFINE R == OpToRel(<, Nat)
    <2>1. IsWellFoundedOn(R, Nat)
      BY NatLessThanWellFounded
    <2>2. S \subseteq Nat
      OBVIOUS
    <2>3. PICK x \in S : \A y \in S : ~ (<<y, x>> \in R)
      BY <1>1, <2>1, <2>2, WFMin
    <2>4. \A y \in S : ~ (y < x)
      BY <2>2, <2>3 DEF OpToRel
    <2>5. \A y \in S : x <= y
      BY <2>2, <2>4
    <2> QED
      BY <2>5
  <1> QED
    BY <1>1 DEF Least, Min

\* What the library answers.
LEMMA LibraryFacts ==
  ASSUME live \subseteq Objects
  PROVE  /\ pmemobj_first \in live \cup {0}
         /\ \A o \in live : pmemobj_first # 0 /\ pmemobj_first <= o
         /\ \A x \in Nat :
              /\ pmemobj_next(x) \in live \cup {0}
              /\ pmemobj_next(x) # 0 => pmemobj_next(x) > x
              /\ \A o \in live : o > x => pmemobj_next(x) # 0 /\ pmemobj_next(x) <= o
  <1>1. live \subseteq Nat \ {0}
    BY IterateAssumption
  <1>2. /\ pmemobj_first \in live \cup {0}
        /\ \A o \in live : pmemobj_first # 0 /\ pmemobj_first <= o
    BY <1>1, LeastFacts DEF pmemobj_first
  <1>3. ASSUME NEW x \in Nat
        PROVE  /\ pmemobj_next(x) \in live \cup {0}
               /\ pmemobj_next(x) # 0 => pmemobj_next(x) > x
               /\ \A o \in live : o > x => pmemobj_next(x) # 0 /\ pmemobj_next(x) <= o
    <2> DEFINE T == {p \in live : p > x}
    <2>1. T \subseteq Nat \ {0} /\ T \subseteq live
      BY <1>1
    <2>2. pmemobj_next(x) = Least(T)
      BY DEF pmemobj_next
    <2>3. CASE T = {}
      <3>1. pmemobj_next(x) = 0 /\ \A o \in live : ~ (o > x)
        BY <2>1, <2>2, <2>3, LeastFacts
      <3> QED
        BY <3>1
    <2>4. CASE T # {}
      <3>1. Least(T) \in T /\ \A y \in T : Least(T) <= y
        BY <2>1, <2>4, LeastFacts
      <3>2. Least(T) \in live /\ Least(T) > x /\ Least(T) # 0
        BY <2>1, <3>1
      <3>3. \A o \in live : o > x => Least(T) <= o
        BY <3>1
      <3> QED
        BY <2>2, <3>2, <3>3
    <2> QED
      BY <2>3, <2>4
  <1> QED
    BY <1>2, <1>3

\* The objects that the body has seen, and those that it must still see.
InBody == {seen[n] : n \in DOMAIN seen}
Mine   == {o \in untouched : IsTyped => type_num[o] = wanted}

\* The loop stands before x, or at its end if x is 0; it stands at x.
StandsBefore(x) ==
  /\ \A o \in Mine \ InBody : x # 0 /\ x <= o
  /\ x # 0 => \A o \in InBody : o < x
StandsAt(x) ==
  /\ \A o \in Mine \ InBody : x < o
  /\ \A o \in InBody : o <= x

LoopTypes ==
  /\ kind \in Kinds
  /\ live \subseteq Objects /\ untouched \subseteq Objects
  /\ {varoid, nvaroid, _pobj_ret} \subseteq Objects \cup {0}
  /\ loop_pc \in {"first", "test", "body", "advance", "scan", "done"}
  /\ misused = FALSE
  /\ seen \in Seq(Objects)

\* The objects that the body has seen are in order and of the type; what it did
\* not see of those left alone is still there.
SeenInOrder ==
  /\ \A m, n \in DOMAIN seen : m < n => seen[m] < seen[n]
  /\ IsTyped => \A o \in InBody : type_num[o] = wanted
  /\ untouched \subseteq live \cup InBody

\* Where the loop stands.  After its test a safe loop stands before the object
\* it looked ahead to, the others at the current one, which is still there.
Stands ==
  /\ loop_pc = "first" => seen = << >> /\ varoid = 0
  /\ loop_pc = "test" => kind # "FIRST_NEXT" /\ varoid \in live \cup {0} /\ StandsBefore(varoid)
  /\ loop_pc = "scan" => /\ kind = "FIRST_NEXT" /\ {varoid, _pobj_ret} \subseteq live \cup {0}
                         /\ StandsBefore(_pobj_ret)
  /\ loop_pc \in {"body", "advance"} =>
       /\ varoid # 0
       /\ IsSafe => nvaroid \in live \cup {0} /\ StandsBefore(nvaroid)
       /\ ~ IsSafe => varoid \in live /\ StandsAt(varoid)
  /\ loop_pc = "body" => varoid \in InBody
  /\ loop_pc = "done" => StandsBefore(0)

LoopInv == LoopTypes /\ SeenInOrder /\ Stands

LEMMA LoopNats ==
  ASSUME LoopTypes
  PROVE  /\ Objects \subseteq Nat \ {0} /\ live \subseteq Nat
         /\ InBody \subseteq Nat /\ Mine \subseteq Nat
  <1>1. \A n \in DOMAIN seen : seen[n] \in Objects
    BY DEF LoopTypes
  <1> QED
    BY <1>1, IterateAssumption DEF LoopTypes, InBody, Mine

\* A step that changes none of these keeps where the loop stands.
LEMMA StandsKept ==
  ASSUME UNCHANGED <<kind, type_num, wanted, seen, untouched>>
  PROVE  /\ IsTyped' = IsTyped /\ IsSafe' = IsSafe /\ InBody' = InBody /\ Mine' = Mine
         /\ \A x : StandsBefore(x)' = StandsBefore(x) /\ StandsAt(x)' = StandsAt(x)
  BY DEF IsTyped, IsSafe, InBody, Mine, StandsBefore, StandsAt

LEMMA LoopInitInv == IterateInit => LoopInv
  <1> SUFFICES ASSUME IterateInit PROVE LoopInv
    OBVIOUS
  <1>1. InBody = {}
    BY DEF IterateInit, InBody
  <1>2. LoopTypes
    BY DEF IterateInit, LoopTypes
  <1>3. SeenInOrder
    BY <1>1 DEF IterateInit, SeenInOrder
  <1>4. Stands
    BY DEF IterateInit, Stands
  <1> QED
    BY <1>2, <1>3, <1>4 DEF LoopInv

LEMMA FirstInv == LoopInv /\ First => LoopInv'
  <1> SUFFICES ASSUME LoopInv, First PROVE LoopInv'
    OBVIOUS
  <1>1. /\ loop_pc = "first" /\ seen = << >> /\ varoid = 0
        /\ UNCHANGED <<kind, pool, wanted, nvaroid, misused, seen, untouched>>
        /\ UNCHANGED <<live, type_num>>
        /\ LoopTypes /\ SeenInOrder
    BY DEF First, LoopInv, Stands, pool
  <1>2. /\ pmemobj_first \in live \cup {0}
        /\ \A o \in live : pmemobj_first # 0 /\ pmemobj_first <= o
    BY <1>1, LibraryFacts DEF LoopTypes
  <1>3. InBody = {} /\ untouched \subseteq live
    BY <1>1 DEF InBody, SeenInOrder
  <1>4. StandsBefore(pmemobj_first)
    BY <1>2, <1>3 DEF StandsBefore, Mine
  <1>5. /\ IsTyped' = IsTyped /\ IsSafe' = IsSafe /\ InBody' = InBody /\ Mine' = Mine
        /\ \A x : StandsBefore(x)' = StandsBefore(x) /\ StandsAt(x)' = StandsAt(x)
    BY <1>1, StandsKept
  <1>6. SeenInOrder'
    BY <1>1, <1>5 DEF SeenInOrder
  <1>7. CASE /\ kind = "FIRST_NEXT" /\ _pobj_ret' = pmemobj_first
             /\ loop_pc' = "scan" /\ varoid' = varoid
    <2>1. LoopTypes'
      BY <1>1, <1>2, <1>7 DEF LoopTypes
    <2>2. Stands'
      BY <1>1, <1>2, <1>4, <1>5, <1>7 DEF Stands
    <2> QED
      BY <1>6, <2>1, <2>2 DEF LoopInv
  <1>8. CASE /\ kind # "FIRST_NEXT" /\ varoid' = pmemobj_first
             /\ loop_pc' = "test" /\ _pobj_ret' = _pobj_ret
    <2>1. LoopTypes'
      BY <1>1, <1>2, <1>8 DEF LoopTypes
    <2>2. Stands'
      BY <1>1, <1>2, <1>4, <1>5, <1>8 DEF Stands
    <2> QED
      BY <1>6, <2>1, <2>2 DEF LoopInv
  <1> QED
    BY <1>7, <1>8 DEF First

\* The body is about to see x, before which the loop stood.
LEMMA SeesNext ==
  ASSUME LoopInv, NEW x \in Objects, StandsBefore(x), x # 0,
         IsTyped => type_num[x] = wanted,
         seen' = Append(seen, x), UNCHANGED <<kind, type_num, wanted, live, untouched>>
  PROVE  /\ seen' \in Seq(Objects) /\ SeenInOrder' /\ InBody' = InBody \cup {x}
         /\ StandsAt(x)' /\ IsTyped' = IsTyped /\ IsSafe' = IsSafe /\ Mine' = Mine
  <1>1. seen \in Seq(Objects) /\ Len(seen) \in Nat /\ DOMAIN seen = 1 .. Len(seen)
    BY DEF LoopInv, LoopTypes
  <1>2. /\ seen' \in Seq(Objects) /\ DOMAIN seen' = 1 .. Len(seen) + 1
        /\ seen'[Len(seen) + 1] = x /\ \A n \in DOMAIN seen : seen'[n] = seen[n]
    BY <1>1
  <1>3. InBody' = InBody \cup {x}
    <2>1. \A n \in DOMAIN seen' : n \in DOMAIN seen \/ n = Len(seen) + 1
      BY <1>1, <1>2
    <2>2. DOMAIN seen \subseteq DOMAIN seen' /\ Len(seen) + 1 \in DOMAIN seen'
      BY <1>1, <1>2
    <2> QED
      BY <1>2, <2>1, <2>2 DEF InBody
  <1>4. IsTyped' = IsTyped /\ IsSafe' = IsSafe /\ Mine' = Mine
    BY DEF IsTyped, IsSafe, Mine
  <1>5. x \in Nat /\ InBody \subseteq Nat /\ Mine \subseteq Nat
    BY LoopNats DEF LoopInv
  <1>6. \A o \in InBody : o < x
    BY DEF StandsBefore
  <1>7. SeenInOrder'
    <2>1. ASSUME NEW m \in DOMAIN seen', NEW n \in DOMAIN seen', m < n
          PROVE  seen'[m] < seen'[n]
      <3>1. CASE n \in DOMAIN seen
        <4>1. m \in DOMAIN seen
          BY <1>1, <1>2, <2>1, <3>1
        <4> QED
          BY <1>2, <2>1, <3>1, <4>1 DEF LoopInv, SeenInOrder
      <3>2. CASE n = Len(seen) + 1
        <4>1. m \in DOMAIN seen
          BY <1>1, <1>2, <2>1, <3>2
        <4>2. seen[m] \in InBody
          BY <4>1 DEF InBody
        <4> QED
          BY <1>2, <1>6, <3>2, <4>1, <4>2
      <3> QED
        BY <1>1, <1>2, <2>1, <3>1, <3>2
    <2>2. IsTyped => \A o \in InBody \cup {x} : type_num[o] = wanted
      BY DEF LoopInv, SeenInOrder
    <2>3. untouched \subseteq live \cup (InBody \cup {x})
      BY DEF LoopInv, SeenInOrder
    <2> QED
      BY <1>3, <1>4, <2>1, <2>2, <2>3 DEF SeenInOrder
  <1>8. StandsAt(x)'
    <2>1. \A o \in Mine \ (InBody \cup {x}) : x < o
      BY <1>5 DEF StandsBefore
    <2>2. \A o \in InBody \cup {x} : o <= x
      BY <1>5, <1>6
    <2> QED
      BY <1>3, <1>4, <2>1, <2>2 DEF StandsAt
  <1> QED
    BY <1>2, <1>3, <1>4, <1>7, <1>8

\* From the object where the loop stands the library leads to the next one.
LEMMA NextStands ==
  ASSUME LoopTypes, SeenInOrder, NEW x \in Objects, StandsAt(x)
  PROVE  pmemobj_next(x) \in live \cup {0} /\ StandsBefore(pmemobj_next(x))
  <1>1. x \in Nat /\ live \subseteq Nat /\ InBody \subseteq Nat
    BY LoopNats
  <1>2. /\ pmemobj_next(x) \in live \cup {0}
        /\ pmemobj_next(x) # 0 => pmemobj_next(x) > x
        /\ \A o \in live : o > x => pmemobj_next(x) # 0 /\ pmemobj_next(x) <= o
    BY <1>1, LibraryFacts DEF LoopTypes
  <1>3. \A o \in Mine \ InBody : o \in live /\ o > x
    BY <1>1 DEF SeenInOrder, Mine, StandsAt
  <1>4. \A o \in Mine \ InBody : pmemobj_next(x) # 0 /\ pmemobj_next(x) <= o
    BY <1>2, <1>3
  <1>5. ASSUME pmemobj_next(x) # 0, NEW o \in InBody PROVE o < pmemobj_next(x)
    <2>1. pmemobj_next(x) \in Nat /\ pmemobj_next(x) > x /\ o \in Nat /\ o <= x
      BY <1>1, <1>2, <1>5 DEF StandsAt
    <2> QED
      BY <1>1, <2>1
  <1> QED
    BY <1>2, <1>4, <1>5 DEF StandsBefore

LEMMA AfterStands ==
  ASSUME LoopTypes', SeenInOrder', NEW x \in Objects, StandsAt(x)', live' = live, NEW y,
         y = pmemobj_next(x)
  PROVE  StandsBefore(y)'
  <1>1. x \in Nat /\ live \subseteq Nat /\ InBody' \subseteq Nat /\ live \subseteq Objects
    <2>1. \A n \in DOMAIN seen' : seen'[n] \in Objects
      BY DEF LoopTypes
    <2> QED
      BY <2>1, IterateAssumption DEF LoopTypes, InBody
  <1>2. /\ y # 0 => y > x /\ y \in Nat
        /\ \A o \in live : o > x => y # 0 /\ y <= o
    BY <1>1, LibraryFacts
  <1>3. \A o \in Mine' \ InBody' : o \in live /\ o > x
    BY <1>1 DEF SeenInOrder, Mine, StandsAt
  <1>4. \A o \in Mine' \ InBody' : y # 0 /\ y <= o
    BY <1>2, <1>3
  <1>5. ASSUME y # 0, NEW o \in InBody' PROVE o < y
    <2>1. y \in Nat /\ y > x /\ o \in Nat /\ o <= x
      BY <1>1, <1>2, <1>5 DEF StandsAt
    <2> QED
      BY <1>1, <2>1
  <1> QED
    BY <1>2, <1>4, <1>5 DEF StandsBefore

\* An object of another type is passed by.
LEMMA PassesBy ==
  ASSUME LoopTypes, NEW x \in Objects, StandsBefore(x), IsTyped, type_num[x] # wanted
  PROVE  StandsAt(x)
  <1>1. x \in Nat /\ x # 0 /\ InBody \subseteq Nat /\ Mine \subseteq Nat
    BY LoopNats
  <1>2. x \notin Mine
    BY DEF Mine
  <1> QED
    BY <1>1, <1>2 DEF StandsBefore, StandsAt

LEMMA ScanInv == LoopInv /\ Scan => LoopInv'
  <1> SUFFICES ASSUME LoopInv, Scan PROVE LoopInv'
    OBVIOUS
  <1>1. /\ loop_pc = "scan" /\ kind = "FIRST_NEXT" /\ IsTyped /\ ~ IsSafe
        /\ {varoid, _pobj_ret} \subseteq live \cup {0} /\ StandsBefore(_pobj_ret)
        /\ UNCHANGED <<kind, type_num, live, wanted, nvaroid, untouched>>
        /\ LoopTypes /\ SeenInOrder
    BY DEF Scan, LoopInv, Stands, pool, IsTyped, IsSafe
  <1>2. CASE _pobj_ret = 0
    <2>1. varoid' = 0 /\ loop_pc' = "done" /\ UNCHANGED <<_pobj_ret, misused, seen>>
      BY <1>2 DEF Scan
    <2>2. /\ IsTyped' = IsTyped /\ IsSafe' = IsSafe /\ InBody' = InBody /\ Mine' = Mine
          /\ \A x : StandsBefore(x)' = StandsBefore(x) /\ StandsAt(x)' = StandsAt(x)
      BY <1>1, <2>1, StandsKept
    <2>3. LoopTypes' /\ SeenInOrder'
      BY <1>1, <2>1, <2>2 DEF LoopTypes, SeenInOrder
    <2>4. Stands'
      BY <1>1, <1>2, <2>1, <2>2 DEF Stands
    <2> QED
      BY <2>3, <2>4 DEF LoopInv
  <1>3. CASE _pobj_ret # 0
    <2>1. _pobj_ret \in live /\ _pobj_ret \in Objects /\ misused' = FALSE
      BY <1>1, <1>3 DEF Scan, AskAbout, LoopTypes
    <2>2. ASSUME type_num[_pobj_ret] # wanted, _pobj_ret' = pmemobj_next(_pobj_ret),
                 UNCHANGED <<loop_pc, varoid, seen>>
          PROVE  LoopInv'
      <3>1. pmemobj_next(_pobj_ret) \in live \cup {0} /\ StandsBefore(pmemobj_next(_pobj_ret))
        BY <1>1, <2>1, <2>2, PassesBy, NextStands
      <3>2. /\ IsTyped' = IsTyped /\ IsSafe' = IsSafe /\ InBody' = InBody /\ Mine' = Mine
            /\ \A x : StandsBefore(x)' = StandsBefore(x) /\ StandsAt(x)' = StandsAt(x)
        BY <1>1, <2>2, StandsKept
      <3>3. LoopTypes' /\ SeenInOrder'
        BY <1>1, <2>1, <2>2, <3>1, <3>2 DEF LoopTypes, SeenInOrder
      <3>4. Stands'
        BY <1>1, <2>2, <3>1, <3>2 DEF Stands
      <3> QED
        BY <3>3, <3>4 DEF LoopInv
    <2>3. ASSUME type_num[_pobj_ret] = wanted, varoid' = _pobj_ret, loop_pc' = "body",
                 seen' = Append(seen, _pobj_ret), UNCHANGED _pobj_ret
          PROVE  LoopInv'
      <3>1. /\ seen' \in Seq(Objects) /\ SeenInOrder' /\ InBody' = InBody \cup {_pobj_ret}
            /\ \A x : x = _pobj_ret => StandsAt(x)'
            /\ IsTyped' = IsTyped /\ IsSafe' = IsSafe /\ Mine' = Mine
        BY <1>1, <1>3, <2>1, <2>3, SeesNext
      <3>2. LoopTypes'
        BY <1>1, <2>1, <2>3, <3>1 DEF LoopTypes
      <3>3. Stands'
        BY <1>1, <1>3, <2>1, <2>3, <3>1 DEF Stands
      <3> QED
        BY <3>1, <3>2, <3>3 DEF LoopInv
    <2> QED
      BY <1>3, <2>2, <2>3 DEF Scan
  <1> QED
    BY <1>2, <1>3

LEMMA LoopTestInv == LoopInv /\ LoopTest => LoopInv'
  <1> SUFFICES ASSUME LoopInv, LoopTest PROVE LoopInv'
    OBVIOUS
  <1>1. /\ loop_pc = "test" /\ kind # "FIRST_NEXT"
        /\ varoid \in live \cup {0} /\ StandsBefore(varoid)
        /\ UNCHANGED <<kind, type_num, live, wanted, varoid, _pobj_ret, untouched>>
        /\ LoopTypes /\ SeenInOrder
    BY DEF LoopTest, LoopInv, Stands, pool
  <1>2. CASE varoid = 0
    <2>1. loop_pc' = "done" /\ UNCHANGED <<nvaroid, misused, seen>>
      BY <1>2 DEF LoopTest
    <2>2. /\ IsTyped' = IsTyped /\ IsSafe' = IsSafe /\ InBody' = InBody /\ Mine' = Mine
          /\ \A x : StandsBefore(x)' = StandsBefore(x) /\ StandsAt(x)' = StandsAt(x)
      BY <1>1, <2>1, StandsKept
    <2>3. LoopTypes' /\ SeenInOrder'
      BY <1>1, <2>1, <2>2 DEF LoopTypes, SeenInOrder
    <2>4. Stands'
      BY <1>1, <1>2, <2>1, <2>2 DEF Stands
    <2> QED
      BY <2>3, <2>4 DEF LoopInv
  <1>3. CASE varoid # 0
    <2>1. varoid \in live /\ varoid \in Objects /\ varoid \in Nat /\ misused' = FALSE
      BY <1>1, <1>3, LoopNats DEF LoopTest, AskAbout, LoopTypes
    <2>2. nvaroid' = IF IsSafe THEN pmemobj_next(varoid) ELSE nvaroid
      BY <1>3 DEF LoopTest
    <2>3. /\ pmemobj_next(varoid) \in live \cup {0}
          /\ pmemobj_next(varoid) # 0 => pmemobj_next(varoid) > varoid
      BY <1>1, <2>1, LibraryFacts DEF LoopTypes
    <2>4. ASSUME IsTyped, type_num[varoid] # wanted, loop_pc' = "advance", UNCHANGED seen
          PROVE  LoopInv'
      <3>1. StandsAt(varoid) /\ StandsBefore(pmemobj_next(varoid))
        BY <1>1, <2>1, <2>4, PassesBy, NextStands
      <3>2. /\ IsTyped' = IsTyped /\ IsSafe' = IsSafe /\ InBody' = InBody /\ Mine' = Mine
            /\ \A x : StandsBefore(x)' = StandsBefore(x) /\ StandsAt(x)' = StandsAt(x)
        BY <1>1, <2>4, StandsKept
      <3>3. LoopTypes' /\ SeenInOrder'
        BY <1>1, <2>1, <2>2, <2>3, <2>4, <3>2 DEF LoopTypes, SeenInOrder
      <3>4. Stands'
        BY <1>1, <1>3, <2>1, <2>2, <2>3, <2>4, <3>1, <3>2 DEF Stands
      <3> QED
        BY <3>3, <3>4 DEF LoopInv
    <2>5. ASSUME IsTyped => type_num[varoid] = wanted, loop_pc' = "body",
                 seen' = Append(seen, varoid)
          PROVE  LoopInv'
      <3>1. /\ seen' \in Seq(Objects) /\ SeenInOrder' /\ InBody' = InBody \cup {varoid}
            /\ \A x : x = varoid => StandsAt(x)'
            /\ IsTyped' = IsTyped /\ IsSafe' = IsSafe /\ Mine' = Mine
        BY <1>1, <1>3, <2>1, <2>5, SeesNext
      <3>2. LoopTypes'
        BY <1>1, <2>1, <2>2, <2>3, <2>5, <3>1 DEF LoopTypes
      <3>3. \A x : x = pmemobj_next(varoid) => StandsBefore(x)'
        <4>1. StandsAt(varoid)'
          BY <1>1, <3>1
        <4> QED
          BY <1>1, <2>1, <3>1, <3>2, <4>1, AfterStands
      <3>4. Stands'
        BY <1>1, <1>3, <2>1, <2>2, <2>3, <2>5, <3>1, <3>3 DEF Stands
      <3> QED
        BY <3>1, <3>2, <3>4 DEF LoopInv
    <2> QED
      BY <1>3, <2>4, <2>5 DEF LoopTest
  <1> QED
    BY <1>2, <1>3

LEMMA FreeInBodyInv == LoopInv /\ FreeInBody => LoopInv'
  <1> SUFFICES ASSUME LoopInv, FreeInBody PROVE LoopInv'
    OBVIOUS
  <1>1. /\ loop_pc = "body" /\ varoid \in InBody /\ varoid # 0
        /\ UNCHANGED <<kind, type_num, wanted, loop_pc, varoid, nvaroid, _pobj_ret, misused,
                       seen>>
        /\ LoopTypes /\ SeenInOrder
    BY DEF FreeInBody, LoopInv, Stands
  <1>2. PICK o \in live : /\ IF IsSafe THEN o = varoid ELSE o # varoid
                         /\ live' = live \ {o}
                         /\ untouched' = IF o = varoid THEN untouched ELSE untouched \ {o}
    BY DEF FreeInBody
  <1>3. /\ IsTyped' = IsTyped /\ IsSafe' = IsSafe /\ InBody' = InBody
        /\ Mine' \subseteq Mine /\ untouched' \subseteq untouched
    BY <1>1, <1>2 DEF IsTyped, IsSafe, InBody, Mine
  <1>4. LoopTypes'
    BY <1>1, <1>2 DEF LoopTypes
  <1>5. SeenInOrder'
    BY <1>1, <1>2, <1>3 DEF SeenInOrder
  <1>6. \A x : (StandsBefore(x) => StandsBefore(x)') /\ (StandsAt(x) => StandsAt(x)')
    BY <1>3 DEF StandsBefore, StandsAt
  <1>7. CASE IsSafe
    <2>1. nvaroid \in live \cup {0} /\ StandsBefore(nvaroid)
      BY <1>1, <1>7 DEF LoopInv, Stands
    <2>2. nvaroid # varoid
      <3>1. nvaroid # 0 => varoid < nvaroid /\ varoid \in Nat
        BY <1>1, <2>1, LoopNats DEF StandsBefore
      <3> QED
        BY <1>1, <3>1
    <2>3. Stands'
      BY <1>1, <1>2, <1>3, <1>6, <1>7, <2>1, <2>2 DEF Stands
    <2> QED
      BY <1>4, <1>5, <2>3 DEF LoopInv
  <1>8. CASE ~ IsSafe
    <2>1. varoid \in live /\ StandsAt(varoid)
      BY <1>1, <1>8 DEF LoopInv, Stands
    <2>2. Stands'
      BY <1>1, <1>2, <1>3, <1>6, <1>8, <2>1 DEF Stands
    <2> QED
      BY <1>4, <1>5, <2>2 DEF LoopInv
  <1> QED
    BY <1>7, <1>8

LEMMA EndBodyInv == LoopInv /\ EndBody => LoopInv'
  <1> SUFFICES ASSUME LoopInv, EndBody PROVE LoopInv'
    OBVIOUS
  <1>1. /\ loop_pc = "body" /\ loop_pc' = "advance"
        /\ UNCHANGED <<kind, type_num, live, wanted, varoid, nvaroid, _pobj_ret, misused,
                       seen, untouched>>
    BY DEF EndBody, pool
  <1>2. /\ IsTyped' = IsTyped /\ IsSafe' = IsSafe /\ InBody' = InBody /\ Mine' = Mine
        /\ \A x : StandsBefore(x)' = StandsBefore(x) /\ StandsAt(x)' = StandsAt(x)
    BY <1>1, StandsKept
  <1>3. LoopTypes' /\ SeenInOrder'
    BY <1>1, <1>2 DEF LoopInv, LoopTypes, SeenInOrder
  <1>4. Stands'
    BY <1>1, <1>2 DEF LoopInv, Stands
  <1> QED
    BY <1>3, <1>4 DEF LoopInv

LEMMA AdvanceInv == LoopInv /\ Advance => LoopInv'
  <1> SUFFICES ASSUME LoopInv, Advance PROVE LoopInv'
    OBVIOUS
  <1>1. /\ loop_pc = "advance" /\ varoid # 0 /\ misused = FALSE
        /\ UNCHANGED <<kind, type_num, live, wanted, nvaroid, seen, untouched>>
        /\ LoopTypes /\ SeenInOrder
    BY DEF Advance, LoopInv, LoopTypes, Stands, pool
  <1>2. /\ IsTyped' = IsTyped /\ IsSafe' = IsSafe /\ InBody' = InBody /\ Mine' = Mine
        /\ \A x : StandsBefore(x)' = StandsBefore(x) /\ StandsAt(x)' = StandsAt(x)
    BY <1>1, StandsKept
  <1>3. SeenInOrder'
    BY <1>1, <1>2 DEF SeenInOrder
  <1>4. CASE IsSafe /\ varoid' = nvaroid /\ loop_pc' = "test" /\ UNCHANGED <<_pobj_ret, misused>>
    <2>1. nvaroid \in live \cup {0} /\ StandsBefore(nvaroid) /\ kind # "FIRST_NEXT"
      BY <1>1, <1>4 DEF LoopInv, Stands, IsSafe
    <2>2. LoopTypes'
      BY <1>1, <1>4, <2>1 DEF LoopTypes
    <2>3. Stands'
      BY <1>1, <1>2, <1>4, <2>1 DEF Stands
    <2> QED
      BY <1>3, <2>2, <2>3 DEF LoopInv
  <1>5. ASSUME ~ IsSafe, AskAbout({varoid}),
               \/ /\ kind = "FIRST_NEXT" /\ _pobj_ret' = pmemobj_next(varoid)
                  /\ loop_pc' = "scan" /\ UNCHANGED varoid
               \/ /\ kind # "FIRST_NEXT" /\ varoid' = pmemobj_next(varoid)
                  /\ loop_pc' = "test" /\ UNCHANGED _pobj_ret
        PROVE  LoopInv'
    <2>1. varoid \in live /\ varoid \in Objects /\ StandsAt(varoid)
      BY <1>1, <1>5 DEF LoopInv, LoopTypes, Stands
    <2>2. misused' = FALSE
      BY <1>5, <2>1 DEF AskAbout
    <2>3. pmemobj_next(varoid) \in live \cup {0} /\ StandsBefore(pmemobj_next(varoid))
      BY <1>1, <2>1, NextStands
    <2>4. LoopTypes'
      BY <1>1, <1>5, <2>2, <2>3 DEF LoopTypes
    <2>5. Stands'
      BY <1>1, <1>2, <1>5, <2>1, <2>3 DEF Stands
    <2> QED
      BY <1>3, <2>4, <2>5 DEF LoopInv
  <1>6. kind = "FIRST_NEXT" => ~ IsSafe
    BY DEF IsSafe
  <1> QED
    BY <1>4, <1>5, <1>6 DEF Advance

LEMMA AllocateInv == LoopInv /\ Allocate => LoopInv'
  <1> SUFFICES ASSUME LoopInv, Allocate PROVE LoopInv'
    OBVIOUS
  <1>1. /\ live \subseteq live' /\ live' \subseteq Objects
        /\ UNCHANGED <<kind, type_num, wanted, loop_pc, varoid, nvaroid, _pobj_ret, misused,
                       seen, untouched>>
    BY DEF Allocate, LoopInv, LoopTypes
  <1>2. /\ IsTyped' = IsTyped /\ IsSafe' = IsSafe /\ InBody' = InBody /\ Mine' = Mine
        /\ \A x : StandsBefore(x)' = StandsBefore(x) /\ StandsAt(x)' = StandsAt(x)
    BY <1>1, StandsKept
  <1>3. LoopTypes' /\ SeenInOrder'
    BY <1>1, <1>2 DEF LoopInv, LoopTypes, SeenInOrder
  <1>4. Stands'
    BY <1>1, <1>2 DEF LoopInv, Stands
  <1> QED
    BY <1>3, <1>4 DEF LoopInv

LEMMA IterateStep == LoopInv /\ [IterateNext]_iterateVars => LoopInv'
  <1> SUFFICES ASSUME LoopInv, [IterateNext]_iterateVars PROVE LoopInv'
    OBVIOUS
  <1>1. CASE UNCHANGED iterateVars
    <2>1. UNCHANGED <<kind, type_num, live, wanted, loop_pc, varoid, nvaroid, _pobj_ret,
                      misused, seen, untouched>>
      BY <1>1 DEF iterateVars, pool
    <2>2. /\ IsTyped' = IsTyped /\ IsSafe' = IsSafe /\ InBody' = InBody /\ Mine' = Mine
          /\ \A x : StandsBefore(x)' = StandsBefore(x) /\ StandsAt(x)' = StandsAt(x)
      BY <2>1, StandsKept
    <2>3. LoopTypes' /\ SeenInOrder'
      BY <2>1, <2>2 DEF LoopInv, LoopTypes, SeenInOrder
    <2>4. Stands'
      BY <2>1, <2>2 DEF LoopInv, Stands
    <2> QED
      BY <2>3, <2>4 DEF LoopInv
  <1> QED
    BY <1>1, FirstInv, ScanInv, LoopTestInv, FreeInBodyInv, EndBodyInv, AdvanceInv, AllocateInv
    DEF IterateNext, LoopStep

LEMMA LoopInvImplies == LoopInv => LoopsInv
  <1> SUFFICES ASSUME LoopInv PROVE LoopsInv
    OBVIOUS
  <1>1. IterateTypeOK
    <2>1. loop_pc = "body" => seen # << >> /\ varoid \in Objects
      BY DEF LoopInv, LoopTypes, Stands, InBody
    <2> QED
      BY <2>1 DEF LoopInv, LoopTypes, IterateTypeOK
  <1>2. NeverMisused
    BY DEF LoopInv, LoopTypes, NeverMisused
  <1>3. EachOnce
    <2>1. loop_pc = "done" => Mine \subseteq InBody
      BY DEF LoopInv, Stands, StandsBefore
    <2> QED
      BY <2>1 DEF LoopInv, SeenInOrder, EachOnce, Mine, InBody
  <1> QED
    BY <1>1, <1>2, <1>3 DEF LoopsInv

\* The loops over the objects of a pool ask for no object that the body may have
\* freed, and see each object that was left alone once and in order.
THEOREM LoopsSeeEachOnce == IterateSpec => []LoopsInv
  BY LoopInitInv, IterateStep, LoopInvImplies, PTL DEF IterateSpec
-------------------------------------------------------------------------------
\* The sequence s as a ring of the links lk.
After(s, i)  == IF i = Len(s) THEN 1 ELSE i + 1
Behind(s, i) == IF i = 1 THEN Len(s) ELSE i - 1

Ring(lk, head, s) ==
  /\ s \in Seq(Elements)
  /\ \A i, j \in 1 .. Len(s) : s[i] = s[j] => i = j
  /\ lk.first[head] = IF s = << >> THEN OID_NULL ELSE s[1]
  /\ \A i \in 1 .. Len(s) : /\ lk.next[s[i]] = s[After(s, i)]
                            /\ lk.prev[s[i]] = s[Behind(s, i)]

LEMMA SingleSeq ==
  ASSUME NEW S, NEW u \in Seq(S), Len(u) = 1
  PROVE  u = <<u[1]>>
  OBVIOUS

LEMMA RingIsShort ==
  ASSUME NEW lk, NEW head, NEW s, Ring(lk, head, s)
  PROVE  Len(s) \in Nat /\ Cardinality(Elements) \in Nat /\ Len(s) <= Cardinality(Elements)
  <1>1. s \in [1 .. Len(s) -> Elements] /\ Len(s) \in Nat
    BY DEF Ring
  <1>2. s \in Injection(1 .. Len(s), Elements)
    BY <1>1 DEF Ring, Injection, IsInjective
  <1>3. Cardinality(1 .. Len(s)) <= Cardinality(Elements)
    BY <1>2, FS_Injection, ObjListAssumption
  <1>4. Cardinality(1 .. Len(s)) = Len(s)
    <2>1. Cardinality(1 .. Len(s)) = IF 1 > Len(s) THEN 0 ELSE Len(s) - 1 + 1
      BY <1>1, FS_Interval
    <2> QED
      BY <1>1, <2>1
  <1> QED
    BY <1>1, <1>3, <1>4, FS_CardinalityType, ObjListAssumption

\* What the links lead to is the ring.
LEMMA ChainIsRing ==
  ASSUME NEW lk, NEW head, NEW s, Ring(lk, head, s)
  PROVE  ChainOf(lk, head) = s
  <1> DEFINE N == Cardinality(Elements)
             Up(p) == LET e == lk.next[Last(p)]
                      IN  IF e \in {OID_NULL, p[1]} THEN p ELSE Append(p, e)
             Step(path, i) == IF i = 0 \/ lk.first[head] = OID_NULL THEN << >>
                              ELSE IF i = 1 THEN <<lk.first[head]>> ELSE Up(path[i - 1])
             m(i) == IF i < Len(s) THEN i ELSE Len(s)
             f == [i \in 0 .. N |-> SubSeq(s, 1, m(i))]
             path == CHOOSE p : p = [i \in 0 .. N |-> Step(p, i)]
  <1>1. Len(s) \in Nat /\ N \in Nat /\ Len(s) <= N
    BY RingIsShort
  <1>2. s \in [1 .. Len(s) -> Elements] /\ OID_NULL \notin Elements
    BY ObjListAssumption DEF Ring, OID_NULL
  <1>3. ASSUME NEW i \in 1 .. N, i > 1, s # << >>
        PROVE  Up(SubSeq(s, 1, m(i - 1))) = SubSeq(s, 1, m(i))
    <2> DEFINE p == SubSeq(s, 1, m(i - 1))
               n == m(i - 1)
    <2>1. n \in 1 .. Len(s)
      BY <1>1, <1>3
    <2>2. p \in Seq(Elements) /\ Len(p) = n /\ \A j \in 1 .. n : p[j] = s[j]
      BY <1>2, <2>1 DEF Ring
    <2>3. Last(p) = s[n] /\ p[1] = s[1]
      BY <2>1, <2>2 DEF Last
    <2>4. lk.next[Last(p)] = s[After(s, n)]
      BY <2>1, <2>3 DEF Ring
    <2>5. CASE n = Len(s)
      <3>1. lk.next[Last(p)] = p[1]
        BY <2>3, <2>4, <2>5 DEF After
      <3>2. m(i) = n
        BY <1>1, <2>5
      <3> QED
        BY <3>1, <3>2
    <2>6. CASE n < Len(s)
      <3>1. n = i - 1 /\ m(i) = i
        BY <1>1, <2>6
      <3>2. lk.next[Last(p)] = s[i] /\ s[i] # s[1] /\ s[i] # OID_NULL
        <4>1. After(s, n) = i /\ i \in 1 .. Len(s) /\ 1 \in 1 .. Len(s)
          BY <1>1, <2>6, <3>1 DEF After
        <4>2. s[i] \in Elements /\ s[i] # s[1]
          BY <1>2, <1>3, <4>1 DEF Ring
        <4> QED
          BY <1>2, <2>4, <4>1, <4>2
      <3>3. Append(p, s[i]) = SubSeq(s, 1, i)
        BY <1>1, <1>2, <2>2, <2>6, <3>1 DEF Ring
      <3> QED
        BY <2>3, <3>1, <3>2, <3>3
    <2> QED
      BY <2>1, <2>5, <2>6
  <1>4. f = [i \in 0 .. N |-> Step(f, i)]
    <2>1. ASSUME NEW i \in 0 .. N PROVE f[i] = Step(f, i)
      <3> HIDE DEF Up
      <3>1. CASE s = << >>
        BY <1>1, <3>1 DEF Ring
      <3>2. CASE s # << >> /\ i > 1
        <4>1. f[i - 1] = SubSeq(s, 1, m(i - 1))
          BY <1>1, <2>1, <3>2
        <4>2. lk.first[head] # OID_NULL
          BY <1>1, <1>2, <3>2 DEF Ring
        <4>3. Up(f[i - 1]) = SubSeq(s, 1, m(i))
          <5> HIDE DEF f, m
          <5> QED
            BY <1>1, <1>3, <3>2, <4>1
        <4> QED
          BY <3>2, <4>2, <4>3
      <3>3. CASE s # << >> /\ i \in {0, 1}
        <4>1. lk.first[head] = s[1] /\ s[1] # OID_NULL /\ Len(s) >= 1
          BY <1>1, <1>2, <3>3 DEF Ring
        <4>2. SubSeq(s, 1, 0) = << >> /\ SubSeq(s, 1, 1) = <<s[1]>>
          <5>1. s[1] \in Elements /\ 1 \in 1 .. Len(s)
            BY <1>1, <1>2, <4>1
          <5>2. SubSeq(s, 1, 0) = << >>
            BY <1>1, <1>2
          <5>3. /\ SubSeq(s, 1, 1) \in Seq(Elements) /\ Len(SubSeq(s, 1, 1)) = 1
                /\ SubSeq(s, 1, 1)[1] = s[1]
            BY <1>1, <1>2, <5>1 DEF Ring
          <5> QED
            BY <5>2, <5>3, SingleSeq
        <4> QED
          BY <3>3, <4>1, <4>2
      <3> QED
        BY <3>1, <3>2, <3>3
    <2> QED
      BY <2>1
  <1>5. path = [i \in 0 .. N |-> Step(path, i)]
    <2> HIDE DEF f, Step
    <2> QED
      BY <1>4
  <1>6. ASSUME NEW i \in 0 .. N, path[i] # f[i] PROVE FALSE
    <2> DEFINE R == OpToRel(<, Nat)
               B == {j \in 0 .. N : path[j] # f[j]}
    <2> HIDE DEF path, f
    <2>0. IsWellFoundedOn(R, Nat)
      BY NatLessThanWellFounded
    <2>1. B \subseteq Nat /\ i \in B
      BY <1>1, <1>6
    <2>2. PICK j \in B : \A x \in B : ~ (<<x, j>> \in R)
      BY <2>0, <2>1, WFMin
    <2>3. \A x \in B : ~ (x < j)
      BY <2>1, <2>2 DEF OpToRel
    <2>7. j \in 0 .. N /\ path[j] # f[j]
      BY <2>2
    <2>4. path[j] = Step(path, j) /\ f[j] = Step(f, j)
      <3> HIDE DEF path, f, Step
      <3> QED
        BY <1>4, <1>5, <2>7
    <2>5. CASE j \in {0, 1}
      <3> HIDE DEF path, f, Up
      <3> QED
        BY <2>4, <2>5, <2>7
    <2>6. CASE j > 1
      <3>1. j - 1 \in 0 .. N /\ j - 1 < j
        BY <1>1, <2>6, <2>7
      <3> HIDE DEF path, f, Up
      <3>2. path[j - 1] = f[j - 1]
        BY <2>3, <3>1
      <3> QED
        BY <2>4, <2>6, <2>7, <3>2
    <2> QED
      BY <1>1, <2>7, <2>5, <2>6
  <1>7. path[N] = SubSeq(s, 1, Len(s))
    <2>1. f[N] = SubSeq(s, 1, Len(s))
      BY <1>1
    <2> HIDE DEF path, f
    <2> QED
      BY <1>1, <1>6, <2>1
  <1>8. SubSeq(s, 1, Len(s)) = s
    BY <1>1, <1>2 DEF Ring
  <1>9. ChainOf(lk, head) = path[N]
    BY DEF ChainOf
  <1> QED
    BY <1>7, <1>8, <1>9
-------------------------------------------------------------------------------
LEMMA InsertFacts ==
  ASSUME NEW s \in Seq(Elements), NEW e \in Elements, NEW q \in 1 .. Len(s) + 1
  PROVE  /\ InsertAt(s, q, e) \in Seq(Elements)
         /\ Len(InsertAt(s, q, e)) = Len(s) + 1
         /\ \A j \in 1 .. Len(s) + 1 :
              InsertAt(s, q, e)[j] = IF j < q THEN s[j] ELSE IF j = q THEN e ELSE s[j - 1]
  <1> DEFINE a == SubSeq(s, 1, q - 1)
             b == SubSeq(s, q, Len(s))
  <1>1. a \in Seq(Elements) /\ Len(a) = q - 1 /\ \A j \in 1 .. q - 1 : a[j] = s[j]
    OBVIOUS
  <1>2. /\ b \in Seq(Elements) /\ Len(b) = Len(s) + 1 - q
        /\ \A j \in 1 .. Len(s) + 1 - q : b[j] = s[q + j - 1]
    OBVIOUS
  <1>3. InsertAt(s, q, e) = (a \o <<e>>) \o b
    BY DEF InsertAt
  <1> HIDE DEF a, b
  <1> DEFINE c == a \o <<e>>
  <1>4. /\ c \in Seq(Elements) /\ Len(c) = q
        /\ \A j \in 1 .. q : c[j] = IF j = q THEN e ELSE a[j]
    BY <1>1
  <1> HIDE DEF c
  <1>5. /\ c \o b \in Seq(Elements) /\ Len(c \o b) = Len(s) + 1
        /\ \A j \in 1 .. Len(s) + 1 : (c \o b)[j] = IF j <= q THEN c[j] ELSE b[j - q]
    <2>1. \A j \in 1 .. Len(c) + Len(b) : (c \o b)[j] = IF j <= Len(c) THEN c[j] ELSE b[j - Len(c)]
      BY <1>2, <1>4, ConcatProperties
    <2> QED
      BY <1>2, <1>4, <2>1
  <1>6. ASSUME NEW j \in 1 .. Len(s) + 1
        PROVE  (c \o b)[j] = IF j < q THEN s[j] ELSE IF j = q THEN e ELSE s[j - 1]
    BY <1>1, <1>2, <1>4, <1>5
  <1> QED
    BY <1>3, <1>5, <1>6 DEF c

LEMMA RemoveFacts ==
  ASSUME NEW s \in Seq(Elements), NEW q \in 1 .. Len(s)
  PROVE  /\ RemoveAt(s, q) \in Seq(Elements)
         /\ Len(RemoveAt(s, q)) = Len(s) - 1
         /\ \A j \in 1 .. Len(s) - 1 : RemoveAt(s, q)[j] = IF j < q THEN s[j] ELSE s[j + 1]
  <1> DEFINE a == SubSeq(s, 1, q - 1)
             b == SubSeq(s, q + 1, Len(s))
  <1>1. a \in Seq(Elements) /\ Len(a) = q - 1 /\ \A j \in 1 .. q - 1 : a[j] = s[j]
    OBVIOUS
  <1>2. /\ b \in Seq(Elements) /\ Len(b) = Len(s) - q
        /\ \A j \in 1 .. Len(s) - q : b[j] = s[q + j]
    OBVIOUS
  <1>3. RemoveAt(s, q) = a \o b
    BY DEF RemoveAt
  <1> HIDE DEF a, b
  <1>5. /\ a \o b \in Seq(Elements) /\ Len(a \o b) = Len(s) - 1
        /\ \A j \in 1 .. Len(s) - 1 : (a \o b)[j] = IF j <= q - 1 THEN a[j] ELSE b[j - (q - 1)]
    <2>1. \A j \in 1 .. Len(a) + Len(b) : (a \o b)[j] = IF j <= Len(a) THEN a[j] ELSE b[j - Len(a)]
      BY <1>1, <1>2, ConcatProperties
    <2>2. a \o b \in Seq(Elements) /\ Len(a \o b) = Len(s) - 1 /\ Len(a) + Len(b) = Len(s) - 1
      <3>1. a \o b \in Seq(Elements) /\ Len(a \o b) = Len(a) + Len(b)
        BY <1>1, <1>2, ConcatProperties
      <3> QED
        BY <1>1, <1>2, <3>1
    <2> HIDE DEF a, b
    <2> QED
      BY <1>1, <2>1, <2>2
  <1>6. ASSUME NEW j \in 1 .. Len(s) - 1
        PROVE  (a \o b)[j] = IF j < q THEN s[j] ELSE s[j + 1]
    BY <1>1, <1>2, <1>5
  <1> QED
    BY <1>3, <1>5, <1>6

\* The types of links, which keep the provers from taking them for any record.
Typed(lk) ==
  /\ lk.first \in [Heads -> Elements \cup {OID_NULL}]
  /\ lk.next \in [Elements -> Elements \cup {OID_NULL}]
  /\ lk.prev \in [Elements -> Elements \cup {OID_NULL}]

\* The neighbours of an object that comes to stand at place q.
PrevAt(s, q) == IF q = 1 THEN s[Len(s)] ELSE s[q - 1]
NextAt(s, q) == IF q = Len(s) + 1 THEN s[1] ELSE s[q]

Destinations == {POBJ_LIST_DEST_BEFORE, POBJ_LIST_DEST_AFTER}

\* The place in s that the arguments of a call ask for.
Asks(s, dest, before, q) ==
  /\ dest = OID_NULL => q = IF before = 1 THEN 1 ELSE Len(s) + 1
  /\ (dest # OID_NULL /\ before = 1) => q <= Len(s) /\ s[q] = dest
  /\ (dest # OID_NULL /\ before = 0) => q > 1 /\ s[q - 1] = dest

\* The links with e at place q of the ring s.
LinkedAt(lk, head, s, q, e) ==
  [first |-> [lk.first EXCEPT ![head] = IF q = 1 THEN e ELSE s[1]],
   next  |-> [[lk.next EXCEPT ![e] = NextAt(s, q)] EXCEPT ![PrevAt(s, q)] = e],
   prev  |-> [[lk.prev EXCEPT ![e] = PrevAt(s, q)] EXCEPT ![NextAt(s, q)] = e]]

\* An object is linked into a ring at place q, and object q is taken out of it.
LEMMA LinkRing ==
  ASSUME NEW lk, NEW head \in Heads, NEW s, Ring(lk, head, s), NEW e \in Elements, Len(s) > 0,
         \A i \in 1 .. Len(s) : s[i] # e,
         NEW q \in 1 .. Len(s) + 1, Typed(lk)
  PROVE  Ring(LinkedAt(lk, head, s, q, e), head, InsertAt(s, q, e))
  <1> DEFINE k2 == LinkedAt(lk, head, s, q, e)
             p == PrevAt(s, q)
             n == NextAt(s, q)
  <1> DEFINE t == InsertAt(s, q, e)
  <1>1. s \in Seq(Elements) /\ Len(s) \in Nat /\ \A i \in 1 .. Len(s) : s[i] \in Elements
    BY DEF Ring
  <1>2. /\ t \in Seq(Elements) /\ Len(t) = Len(s) + 1
        /\ \A j \in 1 .. Len(s) + 1 :
             t[j] = IF j < q THEN s[j] ELSE IF j = q THEN e ELSE s[j - 1]
    <2>1. s \in Seq(Elements) /\ e \in Elements /\ q \in 1 .. Len(s) + 1
      BY <1>1
    <2> QED
      BY ONLY <2>1, InsertFacts
  <1>3. \A i, j \in 1 .. Len(s) : s[i] = s[j] => i = j
    BY DEF Ring
  <1>4. \A i \in 1 .. Len(s) : lk.next[s[i]] = s[After(s, i)] /\ lk.prev[s[i]] = s[Behind(s, i)]
    BY DEF Ring
  <1>0. p = (IF q = 1 THEN s[Len(s)] ELSE s[q - 1]) /\ n = (IF q = Len(s) + 1 THEN s[1] ELSE s[q])
    BY DEF PrevAt, NextAt
  <1> HIDE DEF t, k2, p, n
  <1>5. p \in Elements /\ n \in Elements /\ p # e /\ n # e
    BY <1>0, <1>1
  <1>11. /\ k2.first[head] = (IF q = 1 THEN e ELSE s[1])
         /\ \A x \in Elements :
              /\ k2.next[x] = IF x = p THEN e ELSE IF x = e THEN n ELSE lk.next[x]
              /\ k2.prev[x] = IF x = n THEN e ELSE IF x = e THEN p ELSE lk.prev[x]
    <2>1. /\ k2.first = [lk.first EXCEPT ![head] = IF q = 1 THEN e ELSE s[1]]
          /\ k2.next = [[lk.next EXCEPT ![e] = n] EXCEPT ![p] = e]
          /\ k2.prev = [[lk.prev EXCEPT ![e] = p] EXCEPT ![n] = e]
      BY DEF k2, LinkedAt, p, n
    <2> QED
      BY <1>5, <2>1 DEF Typed
  <1>6. ASSUME NEW i \in 1 .. Len(t), NEW j \in 1 .. Len(t), t[i] = t[j] PROVE i = j
    <2> DEFINE back(l) == IF l < q THEN l ELSE l - 1
    <2>1. \A l \in 1 .. Len(t) : l # q => back(l) \in 1 .. Len(s) /\ t[l] = s[back(l)]
      BY <1>1, <1>2
    <2>2. t[q] = e /\ (i = q <=> j = q)
      BY <1>1, <1>2, <1>6, <2>1
    <2>3. ASSUME i # q PROVE i = j
      <3>1. back(i) \in 1 .. Len(s) /\ back(j) \in 1 .. Len(s) /\ s[back(i)] = s[back(j)]
        BY <1>6, <2>1, <2>2, <2>3
      <3>2. back(i) = back(j)
        BY <1>3, <3>1
      <3> QED
        BY <1>2, <2>2, <2>3, <3>2
    <2> QED
      BY <2>2, <2>3
  <1>7. k2.first[head] = t[1] /\ t # << >>
    BY <1>1, <1>2, <1>11
  <1>8. ASSUME NEW j \in 1 .. Len(t) PROVE k2.next[t[j]] = t[After(t, j)]
    <2>1. CASE j = q
      BY <1>0, <1>1, <1>2, <1>5, <1>11, <2>1 DEF After
    <2>2. CASE j < q
      <3>1. t[j] = s[j] /\ s[j] # e /\ j \in 1 .. Len(s)
        BY <1>1, <1>2, <2>2
      <3>2. s[j] = p <=> j = q - 1
        <4>1. p = s[q - 1] /\ q - 1 \in 1 .. Len(s)
          BY <1>0, <1>1, <2>2, <3>1
        <4> QED
          BY <1>3, <3>1, <4>1
      <3>3. j # q - 1 => lk.next[s[j]] = s[j + 1]
        BY <1>4, <2>2, <3>1 DEF After
      <3> QED
        BY <1>1, <1>2, <2>2, <1>0, <1>5, <1>11, <3>1, <3>2, <3>3 DEF After
    <2>3. CASE j > q
      <3>1. t[j] = s[j - 1] /\ s[j - 1] # e /\ j - 1 \in 1 .. Len(s)
        BY <1>1, <1>2, <2>3
      <3>2. s[j - 1] = p <=> (q = 1 /\ j - 1 = Len(s))
        <4>1. CASE q = 1
          <5>1. p = s[Len(s)] /\ Len(s) \in 1 .. Len(s)
            BY <1>0, <1>1, <4>1
          <5> QED
            BY <1>3, <3>1, <4>1, <5>1
        <4>2. CASE q # 1
          <5>1. p = s[q - 1] /\ q - 1 \in 1 .. Len(s)
            BY <1>0, <1>1, <4>2
          <5> QED
            BY <1>1, <1>3, <2>3, <3>1, <4>2, <5>1
        <4> QED
          BY <4>1, <4>2
      <3>3. lk.next[s[j - 1]] = IF j - 1 = Len(s) THEN s[1] ELSE s[j]
        BY <1>4, <2>3, <3>1 DEF After
      <3> QED
        BY <1>1, <1>2, <2>3, <1>0, <1>5, <1>11, <3>1, <3>2, <3>3 DEF After
    <2> QED
      BY <1>2, <2>1, <2>2, <2>3
  <1>9. ASSUME NEW j \in 1 .. Len(t) PROVE k2.prev[t[j]] = t[Behind(t, j)]
    <2>1. CASE j = q
      BY <1>0, <1>1, <1>2, <1>5, <1>11, <2>1 DEF Behind
    <2>2. CASE j < q
      <3>1. t[j] = s[j] /\ s[j] # e /\ j \in 1 .. Len(s)
        BY <1>1, <1>2, <2>2
      <3>2. s[j] = n <=> (j = 1 /\ q = Len(s) + 1)
        <4>1. CASE q = Len(s) + 1
          <5>1. n = s[1] /\ 1 \in 1 .. Len(s)
            BY <1>0, <1>1, <4>1
          <5> QED
            BY <1>3, <3>1, <4>1, <5>1
        <4>2. CASE q # Len(s) + 1
          <5>1. n = s[q] /\ q \in 1 .. Len(s)
            BY <1>0, <1>1, <4>2
          <5> QED
            BY <1>1, <1>3, <2>2, <3>1, <4>2, <5>1
        <4> QED
          BY <4>1, <4>2
      <3>3. lk.prev[s[j]] = IF j = 1 THEN s[Len(s)] ELSE s[j - 1]
        BY <1>4, <2>2, <3>1 DEF Behind
      <3> QED
        BY <1>1, <1>2, <2>2, <1>0, <1>5, <1>11, <3>1, <3>2, <3>3 DEF Behind
    <2>3. CASE j > q
      <3>1. t[j] = s[j - 1] /\ s[j - 1] # e /\ j - 1 \in 1 .. Len(s)
        BY <1>1, <1>2, <2>3
      <3>2. s[j - 1] = n <=> j - 1 = q
        <4>1. n = s[q] /\ q \in 1 .. Len(s)
          BY <1>0, <1>1, <1>2, <2>3, <3>1
        <4> QED
          BY <1>3, <3>1, <4>1
      <3>3. j - 1 # q => lk.prev[s[j - 1]] = s[j - 2]
        BY <1>4, <2>3, <3>1 DEF Behind
      <3> QED
        BY <1>1, <1>2, <2>3, <1>0, <1>5, <1>11, <3>1, <3>2, <3>3 DEF Behind
    <2> QED
      BY <1>2, <2>1, <2>2, <2>3
  <1>10. Ring(k2, head, t)
    BY <1>2, <1>6, <1>7, <1>8, <1>9 DEF Ring
  <1> QED
    BY <1>10 DEF t, k2

LEMMA UnlinkRing ==
  ASSUME NEW lk, NEW head, NEW s, Ring(lk, head, s),
         NEW q \in 1 .. Len(s), NEW k2, NEW p, p = s[Behind(s, q)], NEW n, n = s[After(s, q)],
         k2.first[head] = (IF Len(s) = 1 THEN OID_NULL ELSE IF q = 1 THEN s[2] ELSE s[1]),
         \A x \in Elements :
           /\ k2.next[x] = IF x = s[q] THEN OID_NULL ELSE IF x = p THEN n ELSE lk.next[x]
           /\ k2.prev[x] = IF x = s[q] THEN OID_NULL ELSE IF x = n THEN p ELSE lk.prev[x]
  PROVE  Ring(k2, head, RemoveAt(s, q))
  <1> DEFINE t == RemoveAt(s, q)
  <1>1. s \in Seq(Elements) /\ Len(s) \in Nat /\ \A i \in 1 .. Len(s) : s[i] \in Elements
    BY DEF Ring
  <1>2. /\ t \in Seq(Elements) /\ Len(t) = Len(s) - 1
        /\ \A j \in 1 .. Len(s) - 1 : t[j] = IF j < q THEN s[j] ELSE s[j + 1]
    BY <1>1, RemoveFacts
  <1>3. \A i, j \in 1 .. Len(s) : s[i] = s[j] => i = j
    BY DEF Ring
  <1>4. \A i \in 1 .. Len(s) : lk.next[s[i]] = s[After(s, i)] /\ lk.prev[s[i]] = s[Behind(s, i)]
    BY DEF Ring
  <1> HIDE DEF t
  <1>7. k2.first[head] = IF t = << >> THEN OID_NULL ELSE t[1]
    BY <1>1, <1>2
  \* The place in s of what is object j of t.
  <1> DEFINE m(j) == IF j < q THEN j ELSE j + 1
  <1>5. ASSUME NEW j \in 1 .. Len(t)
        PROVE  m(j) \in 1 .. Len(s) /\ m(j) # q /\ t[j] = s[m(j)] /\ s[m(j)] # s[q]
    BY <1>1, <1>2, <1>3
  <1>6. ASSUME NEW i \in 1 .. Len(t), NEW j \in 1 .. Len(t), t[i] = t[j] PROVE i = j
    <2>1. m(i) = m(j)
      BY <1>3, <1>5, <1>6
    <2> QED
      BY <1>2, <2>1
  <1>8. ASSUME NEW j \in 1 .. Len(t) PROVE k2.next[t[j]] = t[After(t, j)]
    <2>1. lk.next[s[m(j)]] = s[After(s, m(j))]
      BY <1>4, <1>5
    <2>2. s[m(j)] = p <=> m(j) = Behind(s, q)
      BY <1>1, <1>3, <1>5 DEF Behind
    <2>3. CASE m(j) = Behind(s, q)
      <3>1. k2.next[t[j]] = s[After(s, q)]
        BY <1>1, <1>5, <2>2, <2>3
      <3>2. After(t, j) \in 1 .. Len(t) /\ m(After(t, j)) = After(s, q)
        BY <1>1, <1>2, <1>5, <2>3 DEF After, Behind
      <3> QED
        BY <1>5, <3>1, <3>2
    <2>4. CASE m(j) # Behind(s, q)
      <3>1. k2.next[t[j]] = s[After(s, m(j))]
        BY <1>1, <1>5, <2>1, <2>2, <2>4
      <3>2. After(t, j) \in 1 .. Len(t) /\ m(After(t, j)) = After(s, m(j))
        <4>1. CASE j = Len(t)
          BY <1>1, <1>2, <1>5, <2>4, <4>1 DEF After, Behind
        <4>2. CASE j # Len(t) /\ j < q
          BY <1>1, <1>2, <1>5, <2>4, <4>2 DEF After, Behind
        <4>3. CASE j # Len(t) /\ ~ (j < q)
          BY <1>1, <1>2, <1>5, <2>4, <4>3 DEF After, Behind
        <4> QED
          BY <1>2, <4>1, <4>2, <4>3
      <3> QED
        BY <1>5, <3>1, <3>2
    <2> QED
      BY <2>3, <2>4
  <1>9. ASSUME NEW j \in 1 .. Len(t) PROVE k2.prev[t[j]] = t[Behind(t, j)]
    <2>1. lk.prev[s[m(j)]] = s[Behind(s, m(j))]
      BY <1>4, <1>5
    <2>2. s[m(j)] = n <=> m(j) = After(s, q)
      BY <1>1, <1>3, <1>5 DEF After
    <2>3. CASE m(j) = After(s, q)
      <3>1. k2.prev[t[j]] = s[Behind(s, q)]
        BY <1>1, <1>5, <2>2, <2>3
      <3>2. Behind(t, j) \in 1 .. Len(t) /\ m(Behind(t, j)) = Behind(s, q)
        BY <1>1, <1>2, <1>5, <2>3 DEF After, Behind
      <3> QED
        BY <1>5, <3>1, <3>2
    <2>4. CASE m(j) # After(s, q)
      <3>1. k2.prev[t[j]] = s[Behind(s, m(j))]
        BY <1>1, <1>5, <2>1, <2>2, <2>4
      <3>2. Behind(t, j) \in 1 .. Len(t) /\ m(Behind(t, j)) = Behind(s, m(j))
        BY <1>1, <1>2, <1>5, <2>4 DEF After, Behind
      <3> QED
        BY <1>5, <3>1, <3>2
    <2> QED
      BY <2>3, <2>4
  <1>10. Ring(k2, head, t)
    BY <1>2, <1>6, <1>7, <1>8, <1>9 DEF Ring
  <1> QED
    BY <1>10 DEF t
-------------------------------------------------------------------------------
\* The links lk hold the sequences ls: each is a ring, no object stands in two,
\* and what stands in none is linked to nothing.
Hold(lk, ls) ==
  /\ Typed(lk)
  /\ ls \in [Heads -> Seq(Elements)]
  /\ \A h \in Heads : Ring(lk, h, ls[h])
  /\ \A g, h \in Heads : g # h => \A x \in Elements : ~ (x \in Range(ls[g]) /\ x \in Range(ls[h]))
  /\ \A e \in Elements : (\A h \in Heads : e \notin Range(ls[h])) =>
       lk.next[e] = OID_NULL /\ lk.prev[e] = OID_NULL

LEMMA RangeFacts ==
  ASSUME NEW S, NEW s \in Seq(S)
  PROVE  /\ \A i \in 1 .. Len(s) : s[i] \in Range(s)
         /\ \A x \in Range(s) : x \in S /\ \E i \in 1 .. Len(s) : s[i] = x
  BY DEF Range

\* What stands in a sequence after an insertion, and after a removal.
LEMMA InsertRange ==
  ASSUME NEW s \in Seq(Elements), NEW e \in Elements, NEW q \in 1 .. Len(s) + 1
  PROVE  Range(InsertAt(s, q, e)) = Range(s) \cup {e}
  <1> DEFINE t == InsertAt(s, q, e)
  <1>1. /\ t \in Seq(Elements) /\ Len(t) = Len(s) + 1
        /\ \A j \in 1 .. Len(s) + 1 :
             t[j] = IF j < q THEN s[j] ELSE IF j = q THEN e ELSE s[j - 1]
    BY InsertFacts
  <1> HIDE DEF t
  <1>2. ASSUME NEW x \in Range(t) PROVE x \in Range(s) \cup {e}
    <2>1. PICK j \in 1 .. Len(t) : t[j] = x
      BY <1>1, RangeFacts
    <2>2. CASE j < q
      BY <1>1, <2>1, <2>2, RangeFacts
    <2>3. CASE j = q
      BY <1>1, <2>1, <2>3
    <2>4. CASE j > q
      <3>1. j - 1 \in 1 .. Len(s) /\ s[j - 1] = x
        BY <1>1, <2>1, <2>4
      <3> QED
        BY <3>1, RangeFacts
    <2> QED
      BY <1>1, <2>2, <2>3, <2>4
  <1>3. ASSUME NEW x \in Range(s) PROVE x \in Range(t)
    <2>1. PICK i \in 1 .. Len(s) : s[i] = x
      BY RangeFacts
    <2>2. (i < q => t[i] = x) /\ (i >= q => t[i + 1] = x)
      BY <1>1, <2>1
    <2>3. i \in 1 .. Len(t) /\ i + 1 \in 1 .. Len(t)
      BY <1>1
    <2> QED
      <3>1. \A j \in 1 .. Len(t) : t[j] \in Range(t)
        BY <1>1, RangeFacts
      <3>2. i < q \/ i >= q
        BY <2>1
      <3> QED
        BY <2>2, <2>3, <3>1, <3>2
  <1>4. e \in Range(t)
    <2>1. q \in 1 .. Len(t) /\ t[q] = e
      BY <1>1
    <2> QED
      BY <1>1, <2>1, RangeFacts
  <1> QED
    BY <1>2, <1>3, <1>4 DEF t

LEMMA RemoveRange ==
  ASSUME NEW s \in Seq(Elements), \A i, j \in 1 .. Len(s) : s[i] = s[j] => i = j,
         NEW q \in 1 .. Len(s)
  PROVE  Range(RemoveAt(s, q)) = Range(s) \ {s[q]}
  <1> DEFINE t == RemoveAt(s, q)
  <1>1. /\ t \in Seq(Elements) /\ Len(t) = Len(s) - 1
        /\ \A j \in 1 .. Len(s) - 1 : t[j] = IF j < q THEN s[j] ELSE s[j + 1]
    BY RemoveFacts
  <1> HIDE DEF t
  <1>2. ASSUME NEW x \in Range(t) PROVE x \in Range(s) \ {s[q]}
    <2>1. PICK j \in 1 .. Len(t) : t[j] = x
      BY <1>1, RangeFacts
    <2>4. /\ j < q => j \in 1 .. Len(s) /\ s[j] = x /\ j # q
          /\ ~ (j < q) => j + 1 \in 1 .. Len(s) /\ s[j + 1] = x /\ j + 1 # q
      BY <1>1, <2>1
    <2>2. PICK i \in 1 .. Len(s) : s[i] = x /\ i # q
      BY <2>4
    <2> QED
      BY <2>2, RangeFacts
  <1>3. ASSUME NEW x \in Range(s) \ {s[q]} PROVE x \in Range(t)
    <2>1. PICK i \in 1 .. Len(s) : s[i] = x
      BY RangeFacts
    <2>2. /\ i < q => t[i] = x /\ i \in 1 .. Len(t)
          /\ i > q => t[i - 1] = x /\ i - 1 \in 1 .. Len(t)
      BY <1>1, <2>1
    <2> QED
      BY <1>1, <2>1, <2>2, RangeFacts
  <1> QED
    BY <1>2, <1>3 DEF t

LEMMA InsertIntoNone ==
  ASSUME NEW s \in Seq(Elements), NEW e \in Elements, NEW q \in 1 .. Len(s) + 1
  PROVE  Len(s) = 0 => /\ InsertAt(s, q, e) \in Seq(Elements)
                       /\ Len(InsertAt(s, q, e)) = 1 /\ InsertAt(s, q, e)[1] = e
                       /\ InsertAt(s, q, e) # << >>
  <1> DEFINE t == InsertAt(s, q, e)
  <1>1. /\ t \in Seq(Elements) /\ Len(t) = Len(s) + 1
        /\ \A j \in 1 .. Len(s) + 1 :
             t[j] = IF j < q THEN s[j] ELSE IF j = q THEN e ELSE s[j - 1]
    BY InsertFacts
  <1> HIDE DEF t
  <1>2. Len(s) = 0 => Len(t) = 1 /\ t[1] = e /\ t # << >>
    <2>1. Len(s) = 0 => Len(t) = 1
      BY <1>1
    <2>2. Len(s) = 0 => t[1] = e
      BY <1>1
    <2>3. t = << >> => Len(t) = 0
      OBVIOUS
    <2> QED
      BY <2>1, <2>2, <2>3
  <1> QED
    BY <1>1, <1>2 DEF t

\* Where the library links an object in.
LEMMA LinkedFirst ==
  ASSUME NEW lk, NEW head, NEW s, Ring(lk, head, s), lk.first[head] = OID_NULL,
         NEW dest, NEW before, NEW e \in Elements,
         NEW q \in 1 .. Len(s) + 1,
         Typed(lk), head \in Heads
  PROVE  /\ Ring(Linked(lk, head, dest, before, e), head, InsertAt(s, q, e))
         /\ Linked(lk, head, dest, before, e).first = [lk.first EXCEPT ![head] = e]
         /\ \A x \in Elements : x # e =>
              /\ Linked(lk, head, dest, before, e).next[x] = lk.next[x]
              /\ Linked(lk, head, dest, before, e).prev[x] = lk.prev[x]
         /\ Linked(lk, head, dest, before, e).next \in [Elements -> Elements \cup {OID_NULL}]
         /\ Linked(lk, head, dest, before, e).prev \in [Elements -> Elements \cup {OID_NULL}]
  <1> DEFINE t == InsertAt(s, q, e)
             k2 == Linked(lk, head, dest, before, e)
  <1>0. s \in Seq(Elements) /\ s = << >> /\ Len(s) = 0
    <2>1. s \in Seq(Elements) /\ (s # << >> => s[1] \in Elements)
      BY DEF Ring
    <2> QED
      BY <2>1, ObjListAssumption DEF Ring, OID_NULL
  <1>1. t \in Seq(Elements) /\ Len(t) = 1 /\ t[1] = e /\ t # << >>
    BY <1>0, InsertIntoNone
  <1>2. k2 = [first |-> [lk.first EXCEPT ![head] = e], next |-> [lk.next EXCEPT ![e] = e],
              prev |-> [lk.prev EXCEPT ![e] = e]]
    BY DEF Linked
  <1>4. /\ lk.first \in [Heads -> Elements \cup {OID_NULL}]
        /\ lk.next \in [Elements -> Elements \cup {OID_NULL}]
        /\ lk.prev \in [Elements -> Elements \cup {OID_NULL}]
    BY DEF Typed
  <1> HIDE DEF t, k2
  <1>3. Ring(k2, head, t)
    <2>1. k2.first[head] = e /\ k2.next[e] = e /\ k2.prev[e] = e
      BY <1>2, <1>4
    <2>2. t # << >> /\ 1 .. Len(t) = {1}
      <3>1. t # << >>
        BY <1>1
      <3> DEFINE m == Len(t)
      <3>2. m = 1
        BY <1>1
      <3> HIDE DEF m
      <3>3. 1 .. m = {1}
        BY <3>2
      <3> QED
        BY <3>1, <3>3 DEF m
    <2>3. After(t, 1) = 1 /\ Behind(t, 1) = 1
      BY <1>1 DEF After, Behind
    <2> QED
      BY <1>1, <2>1, <2>2, <2>3 DEF Ring
  <1> QED
    BY <1>2, <1>3, <1>4 DEF t, k2

LEMMA LinkedPlace ==
  ASSUME NEW lk, NEW head \in Heads, NEW s, Ring(lk, head, s), Len(s) > 0, NEW e \in Elements,
         NEW before \in Destinations, NEW dest, NEW q \in 1 .. Len(s) + 1,
         Asks(s, dest, before, q),
         Typed(lk)
  PROVE  Linked(lk, head, dest, before, e) = LinkedAt(lk, head, s, q, e)
  <1> DEFINE f == lk.first[head]
             d == IF dest # OID_NULL THEN dest
                  ELSE IF before = POBJ_LIST_DEST_BEFORE THEN f ELSE lk.prev[f]
             pp == IF before = POBJ_LIST_DEST_BEFORE THEN lk.prev[d] ELSE d
             nn == IF before = POBJ_LIST_DEST_BEFORE THEN d ELSE lk.next[d]
  <1>1. s \in Seq(Elements) /\ Len(s) \in Nat /\ \A i \in 1 .. Len(s) : s[i] \in Elements
    BY DEF Ring
  <1>2. f = s[1] /\ f # OID_NULL
    BY <1>1, ObjListAssumption DEF Ring, OID_NULL
  <1>3. \A i, j \in 1 .. Len(s) : s[i] = s[j] => i = j
    BY DEF Ring
  <1>4. \A i \in 1 .. Len(s) : lk.next[s[i]] = s[After(s, i)] /\ lk.prev[s[i]] = s[Behind(s, i)]
    BY DEF Ring
  <1> HIDE DEF f
  <1>5. ASSUME before = 1
        PROVE  /\ d = s[q] /\ q \in 1 .. Len(s)
               /\ pp = PrevAt(s, q) /\ nn = NextAt(s, q) /\ (d = f <=> q = 1)
    <2>1. d = s[q] /\ q \in 1 .. Len(s)
      BY <1>1, <1>2, <1>5 DEF POBJ_LIST_DEST_BEFORE, Asks
    <2>2. pp = s[Behind(s, q)] /\ nn = s[q]
      <3> HIDE DEF d
      <3> QED
        BY <1>4, <1>5, <2>1 DEF POBJ_LIST_DEST_BEFORE
    <2>3. d = f <=> q = 1
      <3> HIDE DEF d
      <3> QED
        BY <1>1, <1>2, <1>3, <2>1
    <2> HIDE DEF d, pp, nn
    <2> QED
      BY <1>1, <2>1, <2>2, <2>3 DEF Behind, PrevAt, NextAt
  <1>6. ASSUME before = 0
        PROVE  q > 1 /\ pp = PrevAt(s, q) /\ nn = NextAt(s, q)
    <2>1. q > 1 /\ q - 1 \in 1 .. Len(s)
      BY <1>1, <1>6 DEF Asks
    <2>2. d = s[q - 1]
      <3>1. lk.prev[s[1]] = s[Len(s)]
        BY <1>1, <1>4 DEF Behind
      <3> QED
        BY <1>1, <1>2, <1>6, <3>1 DEF POBJ_LIST_DEST_BEFORE, Asks
    <2>3. pp = s[q - 1] /\ nn = s[After(s, q - 1)]
      <3> HIDE DEF d
      <3> QED
        BY <1>4, <1>6, <2>1, <2>2 DEF POBJ_LIST_DEST_BEFORE
    <2> HIDE DEF d, pp, nn
    <2> QED
      BY <1>1, <2>1, <2>3 DEF After, PrevAt, NextAt
  <1>7. Linked(lk, head, dest, before, e) =
          [first |-> IF before = POBJ_LIST_DEST_BEFORE /\ d = f
                     THEN [lk.first EXCEPT ![head] = e] ELSE lk.first,
           next  |-> [[lk.next EXCEPT ![e] = nn] EXCEPT ![pp] = e],
           prev  |-> [[lk.prev EXCEPT ![e] = pp] EXCEPT ![nn] = e]]
    BY <1>2 DEF Linked, f
  <1> HIDE DEF d, pp, nn
  <1>0. before \in {0, 1}
    BY DEF Destinations, POBJ_LIST_DEST_BEFORE, POBJ_LIST_DEST_AFTER
  <1>10. lk.first \in [Heads -> Elements \cup {OID_NULL}]
    BY DEF Typed
  <1>8. (IF before = POBJ_LIST_DEST_BEFORE /\ d = f
         THEN [lk.first EXCEPT ![head] = e] ELSE lk.first)
        = [lk.first EXCEPT ![head] = IF q = 1 THEN e ELSE s[1]]
    <2>1. CASE before = 1
      <3>1. CASE q = 1
        BY <1>5, <2>1, <3>1 DEF POBJ_LIST_DEST_BEFORE
      <3>2. CASE q # 1
        BY <1>2, <1>5, <1>10, <2>1, <3>2 DEF POBJ_LIST_DEST_BEFORE, f
      <3> QED
        BY <3>1, <3>2
    <2>2. CASE before = 0
      <3>1. q # 1
        BY <1>6, <2>2
      <3> QED
        BY <1>2, <1>10, <2>2, <3>1 DEF POBJ_LIST_DEST_BEFORE, f
    <2> QED
      BY <1>0, <2>1, <2>2
  <1>9. pp = PrevAt(s, q) /\ nn = NextAt(s, q)
    BY <1>0, <1>5, <1>6
  <1> QED
    BY <1>7, <1>8, <1>9 DEF LinkedAt

LEMMA LinkedHold ==
  ASSUME NEW lk, NEW ls, Hold(lk, ls), NEW head \in Heads, NEW e \in Elements,
         \A h \in Heads : e \notin Range(ls[h]),
         NEW before \in Destinations, NEW dest, NEW q \in 1 .. Len(ls[head]) + 1,
         Asks(ls[head], dest, before, q)
  PROVE  Hold(Linked(lk, head, dest, before, e), [ls EXCEPT ![head] = InsertAt(ls[head], q, e)])
  <1> DEFINE s == ls[head]
             t == InsertAt(s, q, e)
             ls2 == [ls EXCEPT ![head] = t]
             k2 == Linked(lk, head, dest, before, e)
             p == PrevAt(s, q)
             n == NextAt(s, q)
  <1>1. /\ Typed(lk)
        /\ ls \in [Heads -> Seq(Elements)]
        /\ \A h \in Heads : Ring(lk, h, ls[h])
        /\ \A h \in Heads : ls[h] \in Seq(Elements)
    BY DEF Hold
  <1>2. s \in Seq(Elements) /\ Ring(lk, head, s) /\ Len(s) \in Nat
    BY <1>1
  <1>3. \A i \in 1 .. Len(s) : s[i] # e /\ s[i] \in Elements
    BY <1>2, RangeFacts
  <1>4. t \in Seq(Elements) /\ Range(t) = Range(s) \cup {e}
    BY <1>2, InsertFacts, InsertRange
  <1>5. /\ Ring(k2, head, t)
        /\ \A h \in Heads \ {head} : k2.first[h] = lk.first[h]
        /\ \A x \in Elements : (x # e /\ x \notin Range(s)) =>
             k2.next[x] = lk.next[x] /\ k2.prev[x] = lk.prev[x]
        /\ Typed(k2)
    <2>1. CASE Len(s) = 0
      <3>3. q \in 1 .. Len(s) + 1 /\ lk.first[head] = OID_NULL
        BY <1>2, <2>1 DEF Ring
      <3> HIDE DEF s
      <3>2. /\ Ring(k2, head, t)
            /\ k2.first = [lk.first EXCEPT ![head] = e]
            /\ \A x \in Elements : x # e => k2.next[x] = lk.next[x] /\ k2.prev[x] = lk.prev[x]
            /\ k2.next \in [Elements -> Elements \cup {OID_NULL}]
            /\ k2.prev \in [Elements -> Elements \cup {OID_NULL}]
        BY <1>1, <1>2, <2>1, <3>3, LinkedFirst
      <3> HIDE DEF k2, t
      <3> QED
        BY <1>1, <3>2 DEF Typed
    <2>2. CASE Len(s) > 0
      <3>1. q \in 1 .. Len(s) + 1 /\ Asks(s, dest, before, q)
        OBVIOUS
      <3> HIDE DEF s
      <3>2. k2 = LinkedAt(lk, head, s, q, e)
        BY <1>1, <1>2, <2>2, <3>1, LinkedPlace
      <3>3. Ring(k2, head, t)
        BY <1>1, <1>2, <1>3, <2>2, <3>1, <3>2, LinkRing
      <3>4. /\ p \in Range(s) /\ n \in Range(s)
            /\ p \in Elements /\ n \in Elements /\ s[1] \in Elements
        <4>1. \A i \in 1 .. Len(s) : s[i] \in Range(s)
          BY <1>2, RangeFacts
        <4>2. /\ Len(s) \in 1 .. Len(s) /\ 1 \in 1 .. Len(s)
              /\ q # 1 => q - 1 \in 1 .. Len(s)
              /\ q # Len(s) + 1 => q \in 1 .. Len(s)
          BY <1>2, <2>2, <3>1
        <4> QED
          BY <1>3, <4>1, <4>2 DEF PrevAt, NextAt
      <3> HIDE DEF k2, t, p, n
      <3>5. /\ k2.first = [lk.first EXCEPT ![head] = IF q = 1 THEN e ELSE s[1]]
            /\ k2.next = [[lk.next EXCEPT ![e] = n] EXCEPT ![p] = e]
            /\ k2.prev = [[lk.prev EXCEPT ![e] = p] EXCEPT ![n] = e]
        BY <3>2 DEF LinkedAt, p, n
      <3>6. /\ \A h \in Heads \ {head} : k2.first[h] = lk.first[h]
            /\ \A x \in Elements : (x # e /\ x \notin Range(s)) =>
                 k2.next[x] = lk.next[x] /\ k2.prev[x] = lk.prev[x]
        BY <1>1, <3>4, <3>5 DEF Typed
      <3>7. Typed(k2)
        <4> DEFINE v == IF q = 1 THEN e ELSE s[1]
        <4>1. v \in Elements \cup {OID_NULL}
          BY <3>4
        <4>2. k2.first = [lk.first EXCEPT ![head] = v]
          BY <3>5
        <4> HIDE DEF v
        <4>3. k2.first \in [Heads -> Elements \cup {OID_NULL}]
          BY <1>1, <4>1, <4>2 DEF Typed
        <4>4. /\ [lk.next EXCEPT ![e] = n] \in [Elements -> Elements \cup {OID_NULL}]
              /\ [lk.prev EXCEPT ![e] = p] \in [Elements -> Elements \cup {OID_NULL}]
          BY <1>1, <3>4 DEF Typed
        <4>5. k2.next \in [Elements -> Elements \cup {OID_NULL}]
          BY <3>5, <4>4
        <4>6. k2.prev \in [Elements -> Elements \cup {OID_NULL}]
          BY <3>5, <4>4
        <4> QED
          BY <4>3, <4>5, <4>6 DEF Typed
      <3> QED
        BY <3>3, <3>6, <3>7
    <2> QED
      BY <1>2, <2>1, <2>2
  <1> HIDE DEF k2, s, t
  <1>6. /\ ls2 \in [Heads -> Seq(Elements)] /\ ls2[head] = t
        /\ \A h \in Heads \ {head} : ls2[h] = ls[h]
    BY <1>1, <1>4
  <1>7. \A h \in Heads \ {head} : \A x \in Elements : ~ (x \in Range(ls[h]) /\ x \in Range(s))
    BY DEF Hold, s
  <1>8. ASSUME NEW h \in Heads \ {head} PROVE Ring(k2, h, ls[h])
    <2>1. \A i \in 1 .. Len(ls[h]) : ls[h][i] \in Elements /\ ls[h][i] \in Range(ls[h])
      BY <1>1, RangeFacts
    <2>2. \A i \in 1 .. Len(ls[h]) : ls[h][i] # e /\ ls[h][i] \notin Range(s)
      BY <1>7, <2>1
    <2>3. Ring(lk, h, ls[h])
      BY <1>1
    <2> QED
      BY <1>5, <2>1, <2>2, <2>3 DEF Ring
  <1>9. \A h \in Heads : Ring(k2, h, ls2[h])
    BY <1>5, <1>6, <1>8
  <1>10. \A h \in Heads : Range(ls2[h]) = IF h = head THEN Range(ls[h]) \cup {e} ELSE Range(ls[h])
    BY <1>4, <1>6 DEF s
  <1> HIDE DEF ls2
  <1>11. \A g, h \in Heads : g # h =>
           \A x \in Elements : ~ (x \in Range(ls2[g]) /\ x \in Range(ls2[h]))
    <2>1. /\ \A g, h \in Heads : g # h =>
               \A x \in Elements : ~ (x \in Range(ls[g]) /\ x \in Range(ls[h]))
          /\ \A h \in Heads : e \notin Range(ls[h])
      BY DEF Hold
    <2> QED
      BY <1>10, <2>1
  <1>12. ASSUME NEW x \in Elements, \A h \in Heads : x \notin Range(ls2[h])
         PROVE  k2.next[x] = OID_NULL /\ k2.prev[x] = OID_NULL
    <2>1. x # e /\ \A h \in Heads : x \notin Range(ls[h])
      BY <1>10, <1>12
    <2>2. lk.next[x] = OID_NULL /\ lk.prev[x] = OID_NULL
      BY <2>1 DEF Hold
    <2> QED
      BY <1>5, <2>1, <2>2 DEF s
  <1>13. Hold(k2, ls2)
    BY <1>5, <1>6, <1>9, <1>11, <1>12 DEF Hold
  <1> QED
    BY <1>13 DEF k2, ls2, s, t

LEMMA UnlinkedHold ==
  ASSUME NEW lk, NEW ls, Hold(lk, ls), NEW head \in Heads, NEW q \in 1 .. Len(ls[head]),
         NEW e, e = ls[head][q]
  PROVE  Hold(Unlinked(lk, head, e), [ls EXCEPT ![head] = RemoveAt(ls[head], q)])
  <1> DEFINE s == ls[head]
             t == RemoveAt(s, q)
             ls2 == [ls EXCEPT ![head] = t]
             k2 == Unlinked(lk, head, e)
             p == s[Behind(s, q)]
             n == s[After(s, q)]
  <1>1. /\ Typed(lk)
        /\ ls \in [Heads -> Seq(Elements)]
        /\ \A h \in Heads : Ring(lk, h, ls[h])
        /\ \A h \in Heads : ls[h] \in Seq(Elements)
    BY DEF Hold
  <1>2. s \in Seq(Elements) /\ Ring(lk, head, s) /\ Len(s) \in Nat /\ q \in 1 .. Len(s) /\ e = s[q]
    BY <1>1
  <1>3. \A i \in 1 .. Len(s) : s[i] \in Elements /\ s[i] \in Range(s)
    BY <1>2, RangeFacts
  <1> HIDE DEF s
  <1>4. t \in Seq(Elements) /\ Range(t) = Range(s) \ {e}
    <2>1. \A i, j \in 1 .. Len(s) : s[i] = s[j] => i = j
      BY <1>2 DEF Ring
    <2>2. t \in Seq(Elements)
      BY <1>2, RemoveFacts
    <2>3. Range(t) = Range(s) \ {s[q]}
      BY <1>2, <2>1, RemoveRange
    <2> QED
      BY <1>2, <2>2, <2>3
  <1>5. /\ lk.next[e] = n /\ lk.prev[e] = p
        /\ lk.first[head] = s[1] /\ s[1] # OID_NULL
        /\ p \in Range(s) /\ n \in Range(s) /\ p \in Elements /\ n \in Elements /\ e \in Elements
        /\ e = s[1] <=> q = 1
        /\ n = e <=> Len(s) = 1
    <2>1. /\ Behind(s, q) \in 1 .. Len(s) /\ After(s, q) \in 1 .. Len(s) /\ 1 \in 1 .. Len(s)
          /\ After(s, q) = q <=> Len(s) = 1
      <3> DEFINE m == Len(s)
      <3>1. m \in Nat /\ q \in 1 .. m
        BY <1>2
      <3>2. /\ Behind(s, q) = IF q = 1 THEN m ELSE q - 1
            /\ After(s, q) = IF q = m THEN 1 ELSE q + 1
        BY DEF Behind, After
      <3> HIDE DEF m
      <3>3. /\ Behind(s, q) \in 1 .. m /\ After(s, q) \in 1 .. m /\ 1 \in 1 .. m
            /\ After(s, q) = q <=> m = 1
        BY <3>1, <3>2
      <3> QED
        BY <3>3 DEF m
    <2>2. lk.next[e] = n /\ lk.prev[e] = p /\ lk.first[head] = s[1] /\ e \in Elements
      BY <1>2, <1>3, <2>1 DEF Ring
    <2>3. (e = s[1] <=> q = 1) /\ (n = e <=> Len(s) = 1)
      BY <1>2, <2>1 DEF Ring
    <2> QED
      BY <1>3, <2>1, <2>2, <2>3, ObjListAssumption DEF OID_NULL
  <1>6. /\ k2.first = [lk.first EXCEPT ![head] = IF Len(s) = 1 THEN OID_NULL
                                               ELSE IF q = 1 THEN s[2] ELSE s[1]]
        /\ k2.next = [[lk.next EXCEPT ![p] = n] EXCEPT ![e] = OID_NULL]
        /\ k2.prev = [[lk.prev EXCEPT ![n] = p] EXCEPT ![e] = OID_NULL]
    <2>1. /\ k2.next = [[lk.next EXCEPT ![p] = n] EXCEPT ![e] = OID_NULL]
          /\ k2.prev = [[lk.prev EXCEPT ![n] = p] EXCEPT ![e] = OID_NULL]
          /\ k2.first = IF lk.first[head] # e THEN lk.first
                        ELSE [lk.first EXCEPT ![head] = IF n = e THEN OID_NULL ELSE n]
      <3> HIDE DEF p, n
      <3> QED
        BY <1>5 DEF Unlinked
    <2>2. CASE q = 1
      <3>1. Len(s) # 1 => n = s[2]
        BY <1>2, <2>2 DEF After
      <3> QED
        BY <1>5, <2>1, <2>2, <3>1
    <2>3. CASE q # 1
      <3>1. k2.first = lk.first /\ Len(s) # 1
        BY <1>2, <1>5, <2>1, <2>3
      <3>2. lk.first = [lk.first EXCEPT ![head] = s[1]]
        BY <1>1, <1>5 DEF Typed
      <3> QED
        BY <2>1, <2>3, <3>1, <3>2
    <2> QED
      BY <2>2, <2>3
  <1> HIDE DEF k2, t, p, n
  <1>7. \A x \in Elements :
          /\ k2.next[x] = IF x = e THEN OID_NULL ELSE IF x = p THEN n ELSE lk.next[x]
          /\ k2.prev[x] = IF x = e THEN OID_NULL ELSE IF x = n THEN p ELSE lk.prev[x]
    BY <1>1, <1>5, <1>6 DEF Typed
  <1>8. Ring(k2, head, t)
    <2>1. k2.first[head] = (IF Len(s) = 1 THEN OID_NULL ELSE IF q = 1 THEN s[2] ELSE s[1])
      BY <1>1, <1>6 DEF Typed
    <2>2. p = s[Behind(s, q)] /\ n = s[After(s, q)]
      BY DEF p, n
    <2> QED
      BY <1>2, <1>7, <2>1, <2>2, UnlinkRing DEF t
  <1>9. /\ \A h \in Heads \ {head} : k2.first[h] = lk.first[h]
        /\ \A x \in Elements : x \notin Range(s) =>
             k2.next[x] = lk.next[x] /\ k2.prev[x] = lk.prev[x]
        /\ Typed(k2)
    <2>1. e \in Range(s)
      BY <1>2, <1>3
    <2>2. \A i \in 1 .. Len(s) : s[i] \in Elements \cup {OID_NULL}
      BY <1>3
    <2>3. Len(s) # 1 => s[2] \in Elements \cup {OID_NULL}
      <3> DEFINE m == Len(s)
      <3>0. m \in Nat /\ q \in 1 .. m
        BY <1>2
      <3> HIDE DEF m
      <3>2. m # 1 => 2 \in 1 .. m
        BY <3>0
      <3>1. Len(s) # 1 => 2 \in 1 .. Len(s)
        BY <3>2 DEF m
      <3> QED
        BY <2>2, <3>1
    <2>4. /\ k2.first \in [Heads -> Elements \cup {OID_NULL}]
          /\ \A h \in Heads \ {head} : k2.first[h] = lk.first[h]
      <3>1. s[1] \in Elements \cup {OID_NULL}
        <4>1. 1 \in 1 .. Len(s)
          BY <1>2
        <4> QED
          BY <2>2, <4>1
      <3> DEFINE v == IF Len(s) = 1 THEN OID_NULL ELSE IF q = 1 THEN s[2] ELSE s[1]
      <3>2. v \in Elements \cup {OID_NULL}
        BY <2>3, <3>1
      <3> HIDE DEF v
      <3>3. k2.first = [lk.first EXCEPT ![head] = v]
        BY <1>6 DEF v
      <3> QED
        BY <1>1, <3>2, <3>3 DEF Typed
    <2>5. \A x \in Elements : x \notin Range(s) => x # e /\ x # p /\ x # n
      BY <1>5, <2>1
    <2>6. /\ k2.next \in [Elements -> Elements \cup {OID_NULL}]
          /\ k2.prev \in [Elements -> Elements \cup {OID_NULL}]
      <3>1. p \in Elements \cup {OID_NULL} /\ n \in Elements \cup {OID_NULL}
        BY <1>5
      <3>2. /\ [lk.next EXCEPT ![p] = n] \in [Elements -> Elements \cup {OID_NULL}]
            /\ [lk.prev EXCEPT ![n] = p] \in [Elements -> Elements \cup {OID_NULL}]
        BY <1>1, <3>1 DEF Typed
      <3> QED
        BY <1>6, <3>2
    <2> QED
      BY <1>7, <2>4, <2>5, <2>6 DEF Typed
  <1>10. /\ ls2 \in [Heads -> Seq(Elements)] /\ ls2[head] = t
         /\ \A h \in Heads \ {head} : ls2[h] = ls[h]
    BY <1>1, <1>4
  <1>11. \A h \in Heads \ {head} : \A x \in Elements : ~ (x \in Range(ls[h]) /\ x \in Range(s))
    BY DEF Hold, s
  <1>12. ASSUME NEW h \in Heads \ {head} PROVE Ring(k2, h, ls[h])
    <2>1. \A i \in 1 .. Len(ls[h]) : ls[h][i] \in Elements /\ ls[h][i] \in Range(ls[h])
      BY <1>1, RangeFacts
    <2>2. \A i \in 1 .. Len(ls[h]) : ls[h][i] \notin Range(s)
      BY <1>11, <2>1
    <2>3. Ring(lk, h, ls[h])
      BY <1>1
    <2> QED
      BY <1>9, <2>1, <2>2, <2>3 DEF Ring
  <1>13. \A h \in Heads : Ring(k2, h, ls2[h])
    BY <1>8, <1>10, <1>12
  <1>14. \A h \in Heads : Range(ls2[h]) = IF h = head THEN Range(ls[h]) \ {e} ELSE Range(ls[h])
    BY <1>4, <1>10 DEF s
  <1> HIDE DEF ls2
  <1>15. \A g, h \in Heads : g # h =>
           \A x \in Elements : ~ (x \in Range(ls2[g]) /\ x \in Range(ls2[h]))
    BY <1>14 DEF Hold
  <1>16. ASSUME NEW x \in Elements, \A h \in Heads : x \notin Range(ls2[h])
         PROVE  k2.next[x] = OID_NULL /\ k2.prev[x] = OID_NULL
    <2>1. CASE x = e
      BY <1>7, <2>1
    <2>2. CASE x # e
      <3>1. \A h \in Heads : x \notin Range(ls[h])
        BY <1>14, <1>16, <2>2
      <3>2. lk.next[x] = OID_NULL /\ lk.prev[x] = OID_NULL
        BY <3>1 DEF Hold
      <3> QED
        BY <1>9, <3>1, <3>2 DEF s
    <2> QED
      BY <2>1, <2>2
  <1>17. Hold(k2, ls2)
    BY <1>9, <1>10, <1>13, <1>15, <1>16 DEF Hold
  <1> QED
    BY <1>17 DEF k2, ls2, s, t
-------------------------------------------------------------------------------
\* The order of a sequence, and of a loop over it in either direction.
Distinct(s) == \A i, j \in 1 .. Len(s) : s[i] = s[j] => i = j

LEMMA PrecedesPlaces ==
  ASSUME NEW s \in Seq(Elements), Distinct(s)
  PROVE  /\ \A i, j \in 1 .. Len(s) : Precedes(s, s[i], s[j]) <=> i < j
         /\ \A x, y : Precedes(s, x, y) => x \in Range(s) /\ y \in Range(s)
  <1>1. DOMAIN s = 1 .. Len(s) /\ Len(s) \in Nat
    OBVIOUS
  <1>2. ASSUME NEW i \in 1 .. Len(s), NEW j \in 1 .. Len(s)
        PROVE  Precedes(s, s[i], s[j]) <=> i < j
    BY <1>1 DEF Precedes, Distinct
  <1>3. ASSUME NEW x, NEW y, Precedes(s, x, y) PROVE x \in Range(s) /\ y \in Range(s)
    BY <1>1, <1>3 DEF Precedes, Range
  <1> QED
    BY <1>2, <1>3

LEMMA PrecedesInsert ==
  ASSUME NEW s \in Seq(Elements), NEW e \in Elements, NEW q \in 1 .. Len(s) + 1,
         NEW x, NEW y, x # e, y # e
  PROVE  Precedes(InsertAt(s, q, e), x, y) <=> Precedes(s, x, y)
  <1> DEFINE t == InsertAt(s, q, e)
             m(i) == IF i < q THEN i ELSE i + 1
             back(j) == IF j < q THEN j ELSE j - 1
  <1>1. /\ t \in Seq(Elements) /\ Len(t) = Len(s) + 1
        /\ \A j \in 1 .. Len(s) + 1 :
             t[j] = IF j < q THEN s[j] ELSE IF j = q THEN e ELSE s[j - 1]
    BY InsertFacts
  <1> HIDE DEF t
  <1>2. DOMAIN s = 1 .. Len(s) /\ DOMAIN t = 1 .. Len(s) + 1 /\ Len(s) \in Nat
    BY <1>1
  <1>3. \A i \in 1 .. Len(s) : m(i) \in 1 .. Len(s) + 1 /\ t[m(i)] = s[i]
    BY <1>1, <1>2
  <1>4. \A j \in 1 .. Len(s) + 1 : j # q => back(j) \in 1 .. Len(s) /\ t[j] = s[back(j)]
    BY <1>1, <1>2
  <1>5. t[q] = e
    BY <1>1
  <1>6. \A i, j \in 1 .. Len(s) : i < j => m(i) < m(j)
    BY <1>2
  <1>7. \A i, j \in 1 .. Len(s) + 1 : (i < j /\ i # q /\ j # q) => back(i) < back(j)
    BY <1>2
  <1> HIDE DEF m, back
  <1>8. Precedes(s, x, y) => Precedes(t, x, y)
    BY <1>2, <1>3, <1>6 DEF Precedes
  <1>9. Precedes(t, x, y) => Precedes(s, x, y)
    BY <1>2, <1>4, <1>5, <1>7 DEF Precedes
  <1> QED
    BY <1>8, <1>9 DEF t

LEMMA PrecedesRemove ==
  ASSUME NEW s \in Seq(Elements), NEW q \in 1 .. Len(s), NEW x, NEW y, x # s[q], y # s[q]
  PROVE  Precedes(RemoveAt(s, q), x, y) <=> Precedes(s, x, y)
  <1> DEFINE t == RemoveAt(s, q)
             m(j) == IF j < q THEN j ELSE j + 1
             back(i) == IF i < q THEN i ELSE i - 1
  <1>1. /\ t \in Seq(Elements) /\ Len(t) = Len(s) - 1
        /\ \A j \in 1 .. Len(s) - 1 : t[j] = IF j < q THEN s[j] ELSE s[j + 1]
    BY RemoveFacts
  <1> HIDE DEF t
  <1>2. DOMAIN s = 1 .. Len(s) /\ DOMAIN t = 1 .. Len(s) - 1 /\ Len(s) \in Nat
    BY <1>1
  <1>3. \A j \in 1 .. Len(s) - 1 : m(j) \in 1 .. Len(s) /\ s[m(j)] = t[j]
    BY <1>1, <1>2
  <1>4. \A i \in 1 .. Len(s) : i # q => back(i) \in 1 .. Len(s) - 1 /\ t[back(i)] = s[i]
    BY <1>1, <1>2
  <1>6. \A i, j \in 1 .. Len(s) - 1 : i < j => m(i) < m(j)
    BY <1>2
  <1>7. \A i, j \in 1 .. Len(s) : (i < j /\ i # q /\ j # q) => back(i) < back(j)
    BY <1>2
  <1> HIDE DEF m, back
  <1>8. Precedes(t, x, y) => Precedes(s, x, y)
    BY <1>2, <1>3, <1>6 DEF Precedes
  <1>9. Precedes(s, x, y) => Precedes(t, x, y)
    BY <1>2, <1>4, <1>7 DEF Precedes
  <1> QED
    BY <1>8, <1>9 DEF t

\* A sequence to which nothing happens but to e.
Alike(s, t, e) ==
  /\ Range(t) \ {e} = Range(s) \ {e}
  /\ \A x, y : (x # e /\ y # e) => (Precedes(t, x, y) <=> Precedes(s, x, y))

LEMMA AlikeInsert ==
  ASSUME NEW s \in Seq(Elements), NEW e \in Elements, NEW q \in 1 .. Len(s) + 1
  PROVE  Alike(s, InsertAt(s, q, e), e)
  <1>1. Range(InsertAt(s, q, e)) = Range(s) \cup {e}
    BY InsertRange
  <1>2. \A x, y : (x # e /\ y # e) => (Precedes(InsertAt(s, q, e), x, y) <=> Precedes(s, x, y))
    BY PrecedesInsert
  <1> QED
    BY <1>1, <1>2 DEF Alike

LEMMA AlikeRemove ==
  ASSUME NEW s \in Seq(Elements), Distinct(s), NEW q \in 1 .. Len(s), NEW e, e = s[q]
  PROVE  Alike(s, RemoveAt(s, q), e)
  <1>1. Range(RemoveAt(s, q)) = Range(s) \ {e}
    BY RemoveRange DEF Distinct
  <1>2. \A x, y : (x # e /\ y # e) => (Precedes(RemoveAt(s, q), x, y) <=> Precedes(s, x, y))
    BY PrecedesRemove
  <1> QED
    BY <1>1, <1>2 DEF Alike

LEMMA AlikeBoth ==
  ASSUME NEW s, NEW t, NEW u, NEW e, Alike(s, t, e), Alike(t, u, e)
  PROVE  Alike(s, u, e)
  BY DEF Alike

LEMMA AlikeItself == ASSUME NEW s, NEW e PROVE Alike(s, s, e)
  BY DEF Alike
-------------------------------------------------------------------------------
\* The sequences of the heads, as the links hold them.
Held == [h \in Heads |-> Chain(h)]

\* Objects stand in lists only if they are allocated.
ListHeld ==
  /\ Hold(Links, Held)
  /\ heap \subseteq Elements
  /\ \A h \in Heads : In(h) \subseteq heap

\* Links that hold sequences hold just those.
LEMMA HoldIsHeld ==
  ASSUME NEW lk, NEW ls, Hold(lk, ls)
  PROVE  /\ ls = [h \in Heads |-> ChainOf(lk, h)]
         /\ \A h \in Heads : ls[h] = ChainOf(lk, h) /\ ls[h] \in Seq(Elements) /\ Distinct(ls[h])
  <1>1. ls \in [Heads -> Seq(Elements)] /\ \A h \in Heads : Ring(lk, h, ls[h])
    BY DEF Hold
  <1>2. \A h \in Heads : ChainOf(lk, h) = ls[h] /\ Distinct(ls[h])
    <2> TAKE h \in Heads
    <2>1. Ring(lk, h, ls[h])
      BY <1>1
    <2> QED
      BY <2>1, ChainIsRing DEF Ring, Distinct
  <1> QED
    BY <1>1, <1>2

\* An operation that turns the links into lk, which hold ls.
LEMMA HoldNext ==
  ASSUME NEW lk, NEW ls, Hold(lk, ls), Becomes(lk)
  PROVE  Hold(Links, Held)' /\ Held' = ls /\ \A h \in Heads : Chain(h)' = ls[h]
  <1> DEFINE k2 == [first |-> lk.first, next |-> lk.next, prev |-> lk.prev]
  <1>1. Hold(k2, ls)
    BY DEF Hold, Typed, Ring
  <1>2. Links' = k2
    BY DEF Becomes, Links
  <1> HIDE DEF k2
  <1>3. \A h \in Heads : Chain(h)' = ChainOf(Links', h)
    BY DEF Chain
  <1>4. ls = [h \in Heads |-> ChainOf(Links', h)] /\ \A h \in Heads : ls[h] = ChainOf(Links', h)
    BY <1>1, <1>2, HoldIsHeld
  <1>5. Held' = ls
    BY <1>3, <1>4 DEF Held
  <1>6. Hold(Links', Held')
    BY <1>1, <1>2, <1>5
  <1> QED
    BY <1>3, <1>4, <1>5, <1>6

\* The place that the arguments of an insertion name.
PlaceOf(s, m, listelm) ==
  IF m \in Sides THEN IF m[3] = POBJ_LIST_DEST_BEFORE THEN Sequences_!Position(s, listelm)
                      ELSE Sequences_!Position(s, listelm) + 1
  ELSE IF m[3] = POBJ_LIST_DEST_HEAD THEN 1 ELSE Len(s) + 1

LEMMA PositionIs ==
  ASSUME NEW s \in Seq(Elements), NEW i \in 1 .. Len(s), Distinct(s)
  PROVE  Sequences_!Position(s, s[i]) = i
  <1>1. DOMAIN s = 1 .. Len(s)
    OBVIOUS
  <1>2. \A j \in DOMAIN s : s[j] = s[i] => j = i
    BY <1>1 DEF Distinct
  <1> QED
    BY <1>1, <1>2 DEF Sequences_!Position

LEMMA PlaceAsked ==
  ASSUME NEW s \in Seq(Elements), Distinct(s), NEW m \in Ends \cup Sides,
         NEW listelm \in IF m \in Sides THEN Range(s) ELSE {OID_NULL}
  PROVE  /\ PlaceOf(s, m, listelm) \in 1 .. Len(s) + 1
         /\ Asks(s, listelm, m[3], PlaceOf(s, m, listelm))
         /\ m[3] \in Destinations
  <1>0. Len(s) \in Nat /\ m[3] \in Destinations
    BY DEF Ends, Sides, Destinations, POBJ_LIST_DEST_HEAD, POBJ_LIST_DEST_TAIL,
           POBJ_LIST_DEST_BEFORE, POBJ_LIST_DEST_AFTER
  <1>1. CASE m \in Sides
    <2>1. PICK i \in 1 .. Len(s) : s[i] = listelm
      BY <1>1, RangeFacts
    <2>2. Sequences_!Position(s, listelm) = i /\ listelm # OID_NULL
      BY <2>1, PositionIs, ObjListAssumption DEF OID_NULL
    <2>3. PlaceOf(s, m, listelm) = IF m[3] = 1 THEN i ELSE i + 1
      BY <1>1, <2>2 DEF PlaceOf, POBJ_LIST_DEST_BEFORE
    <2> QED
      BY <1>0, <2>1, <2>2, <2>3
         DEF Asks, Destinations, POBJ_LIST_DEST_BEFORE, POBJ_LIST_DEST_AFTER
  <1>2. CASE m \notin Sides
    <2>1. m \in Ends /\ listelm = OID_NULL
      BY <1>2
    <2>2. PlaceOf(s, m, listelm) = IF m[3] = 1 THEN 1 ELSE Len(s) + 1
      BY <1>2 DEF PlaceOf, POBJ_LIST_DEST_HEAD
    <2> QED
      BY <1>0, <2>1, <2>2 DEF Asks, POBJ_LIST_DEST_HEAD
  <1> QED
    BY <1>1, <1>2

\* What an insertion makes of the lists, and what it leaves alone.
LEMMA Joining ==
  ASSUME NEW lk, NEW ls, Hold(lk, ls), NEW head \in Heads, NEW e \in Elements,
         \A h \in Heads : e \notin Range(ls[h]), NEW m \in Ends \cup Sides,
         NEW listelm \in IF m \in Sides THEN Range(ls[head]) ELSE {OID_NULL}
  PROVE  LET ls2 == [ls EXCEPT ![head] = InsertAt(ls[head], PlaceOf(ls[head], m, listelm), e)]
         IN  /\ Hold(Linked(lk, head, listelm, m[3], e), ls2)
             /\ \A h \in Heads : Alike(ls[h], ls2[h], e)
             /\ \A h \in Heads : e \in Range(ls2[h]) => h = head
  <1> DEFINE s == ls[head]
             q == PlaceOf(s, m, listelm)
             ls2 == [ls EXCEPT ![head] = InsertAt(s, q, e)]
  <1>1. s \in Seq(Elements) /\ Distinct(s) /\ ls \in [Heads -> Seq(Elements)]
    BY HoldIsHeld DEF Hold
  <1>2. q \in 1 .. Len(s) + 1 /\ Asks(s, listelm, m[3], q) /\ m[3] \in Destinations
    BY <1>1, PlaceAsked
  <1> HIDE DEF q
  <1>3. Hold(Linked(lk, head, listelm, m[3], e), ls2)
    BY <1>2, LinkedHold
  <1>4. ls2[head] = InsertAt(s, q, e) /\ \A h \in Heads \ {head} : ls2[h] = ls[h]
    BY <1>1
  <1> HIDE DEF s, ls2
  <1>5. Alike(s, InsertAt(s, q, e), e)
    BY <1>1, <1>2, AlikeInsert
  <1>6. ASSUME NEW h \in Heads PROVE Alike(ls[h], ls2[h], e)
    BY <1>4, <1>5, AlikeItself DEF s
  <1>7. \A h \in Heads : e \in Range(ls2[h]) => h = head
    BY <1>4
  <1> QED
    BY <1>3, <1>6, <1>7 DEF s, q, ls2

\* What a removal makes of the lists, and what it leaves alone.
LEMMA Leaving ==
  ASSUME NEW lk, NEW ls, Hold(lk, ls), NEW head \in Heads, NEW e \in Range(ls[head])
  PROVE  LET ls2 == [ls EXCEPT ![head] = RemoveAt(ls[head], Sequences_!Position(ls[head], e))]
         IN  /\ Hold(Unlinked(lk, head, e), ls2)
             /\ \A h \in Heads : Alike(ls[h], ls2[h], e) /\ e \notin Range(ls2[h])
             /\ e \in Elements
             /\ \A h \in Heads : e \in Range(ls[h]) => h = head
  <1> DEFINE s == ls[head]
             q == Sequences_!Position(s, e)
             ls2 == [ls EXCEPT ![head] = RemoveAt(s, q)]
  <1>1. s \in Seq(Elements) /\ Distinct(s) /\ ls \in [Heads -> Seq(Elements)]
    BY HoldIsHeld DEF Hold
  <1>2. q \in 1 .. Len(s) /\ e = s[q] /\ e \in Elements
    <2>1. PICK i \in 1 .. Len(s) : s[i] = e
      BY <1>1, RangeFacts
    <2> QED
      BY <1>1, <2>1, PositionIs, RangeFacts
  <1> HIDE DEF q
  <1>3. Hold(Unlinked(lk, head, e), ls2)
    BY <1>2, UnlinkedHold
  <1>4. ls2[head] = RemoveAt(s, q) /\ \A h \in Heads \ {head} : ls2[h] = ls[h]
    BY <1>1
  <1>5. \A h \in Heads : e \in Range(ls[h]) => h = head
    BY <1>2 DEF Hold
  <1> HIDE DEF s, ls2
  <1>6. Alike(s, RemoveAt(s, q), e)
    BY <1>1, <1>2, AlikeRemove
  <1>7. e \notin Range(RemoveAt(s, q))
    <2>1. Range(RemoveAt(s, q)) = Range(s) \ {s[q]}
      BY <1>1, <1>2, RemoveRange DEF Distinct
    <2> QED
      BY <1>2, <2>1
  <1>8. ASSUME NEW h \in Heads PROVE Alike(ls[h], ls2[h], e) /\ e \notin Range(ls2[h])
    BY <1>4, <1>5, <1>6, <1>7, AlikeItself DEF s
  <1> QED
    BY <1>2, <1>3, <1>5, <1>8 DEF s, q, ls2
-------------------------------------------------------------------------------
\* f is met after e by a loop over s, or over s in reverse.
Ahead(s, reverse, e, f) == IF reverse THEN Precedes(s, f, e) ELSE Precedes(s, e, f)

\* No object ahead of the variable was visited before, what is ahead of it is
\* what is still to be seen, and what was seen was seen in order.
ForeachInv ==
  /\ list_pc \in {"idle", "body", "done"}
  /\ visited \in Seq(Elements) /\ Distinct(visited)
  /\ list_pc = "idle" => visited = << >> /\ kept = {}
  /\ list_pc # "idle" => /\ loop \in [head : Heads, reverse : BOOLEAN]
                         /\ kept \subseteq In(loop.head)
  /\ list_pc = "body" =>
       /\ var \in In(loop.head) \cap Range(visited)
       /\ \A e \in Range(visited) : ~ Ahead(Chain(loop.head), loop.reverse, var, e)
       /\ \A e \in kept \ Range(visited) : Ahead(Chain(loop.head), loop.reverse, var, e)
  /\ list_pc = "done" => kept \subseteq Range(visited)
  /\ \A e, f \in kept \cap Range(visited) :
       Precedes(visited, e, f) <=> Ahead(Chain(loop.head), loop.reverse, e, f)

ListInv == ListHeld /\ ForeachInv

\* What every operation on an object e does to the rest.
Touched(e) ==
  /\ ListHeld'
  /\ \A h \in Heads : Alike(Chain(h), Chain(h)', e)
  /\ list_pc = "body" => e # var /\ (e \in Range(Chain(loop.head)') => e \notin Range(visited))
  /\ kept' = kept \ {e}
  /\ UNCHANGED cursor
  /\ Sequences_!Operation

LEMMA Placed ==
  ASSUME NEW s, NEW m \in Ends \cup Sides, op'.name = m[1] \/ op'.name = m[2]
  PROVE  Sequences_!Place(s) = PlaceOf(s, m, op'.listelm)
  BY DEF Sequences_!Place, PlaceOf, Ends, Sides, POBJ_LIST_DEST_HEAD, POBJ_LIST_DEST_TAIL,
         POBJ_LIST_DEST_BEFORE, POBJ_LIST_DEST_AFTER

LEMMA NamesTell ==
  ASSUME NEW m \in Ends \cup Sides
  PROVE  m[1] \notin {"REMOVE", "REMOVE_FREE"} /\ m[2] \notin {"REMOVE", "REMOVE_FREE"}
  BY DEF Ends, Sides

LEMMA SameOperators ==
  ASSUME NEW s, NEW i, NEW e
  PROVE  /\ Sequences_!InsertAt(s, i, e) = InsertAt(s, i, e)
         /\ Sequences_!RemoveAt(s, i) = RemoveAt(s, i)
         /\ Sequences_!Range(s) = Range(s)
  BY DEF Sequences_!InsertAt, InsertAt, Sequences_!RemoveAt, RemoveAt, Sequences_!Range, Range

\* What an operation promises, of the lists that are held.
LEMMA OperationPromised ==
  ASSUME NEW ls2, Held' = ls2, op'.head_new \in Heads,
         ls2 = IF op'.name \in {"REMOVE", "REMOVE_FREE"} THEN Sequences_!Without(op'.elm)
               ELSE Sequences_!Joined(Sequences_!Without(op'.elm))
  PROVE  Sequences_!Operation
  BY DEF Sequences_!Operation, Held

LEMMA HeldFacts ==
  ASSUME Hold(Links, Held)
  PROVE  /\ Held \in [Heads -> Seq(Elements)]
         /\ \A h \in Heads : Held[h] = Chain(h) /\ In(h) = Range(Held[h])
         /\ \A h \in Heads : Chain(h) \in Seq(Elements) /\ Distinct(Chain(h))
  BY HoldIsHeld DEF Hold, Held, In, Chain

LEMMA WithoutStranger ==
  ASSUME NEW e, \A h \in Heads : e \notin Range(Held[h])
  PROVE  Sequences_!Without(e) = Held
  BY SameOperators DEF Sequences_!Without, Held

LEMMA WithoutListed ==
  ASSUME Hold(Links, Held), NEW head \in Heads, NEW e \in Range(Held[head])
  PROVE  Sequences_!Without(e)
           = [Held EXCEPT ![head] = RemoveAt(Held[head], Sequences_!Position(Held[head], e))]
  <1>1. \A h \in Heads : e \in Range(Held[h]) <=> h = head
    BY Leaving
  <1>2. Sequences_!Without(e)
          = [h \in Heads |-> IF e \in Range(Held[h])
                             THEN RemoveAt(Held[h], Sequences_!Position(Held[h], e)) ELSE Held[h]]
    BY SameOperators DEF Sequences_!Without, Held
  <1> QED
    BY <1>1, <1>2, HeldFacts

LEMMA JoinedIs ==
  ASSUME NEW ls, NEW m \in Ends \cup Sides, op'.name = m[1] \/ op'.name = m[2]
  PROVE  Sequences_!Joined(ls)
           = [ls EXCEPT ![op'.head_new] =
                InsertAt(ls[op'.head_new], PlaceOf(ls[op'.head_new], m, op'.listelm), op'.elm)]
  BY Placed, SameOperators DEF Sequences_!Joined

\* An object that stands in no list is inserted: it was allocated, or is now.
LEMMA TouchInsert ==
  ASSUME ListInv, NEW head \in Heads, NEW e \in Elements \ Listed, NEW m \in Ends \cup Sides,
         NEW listelm \in IF m \in Sides THEN In(head) ELSE {OID_NULL}, MayAdd(e),
         Becomes(Linked(Links, head, listelm, m[3], e)), heap' = heap \cup {e},
         Did(m[1], head, head, listelm, e)
  PROVE  Touched(e)
  <1> DEFINE q == PlaceOf(Held[head], m, listelm)
             ls2 == [Held EXCEPT ![head] = InsertAt(Held[head], q, e)]
  <1>1. /\ Hold(Links, Held) /\ heap \subseteq Elements
        /\ \A h \in Heads : In(h) \subseteq heap
    BY DEF ListInv, ListHeld
  <1>2. \A h \in Heads : Held[h] = Chain(h) /\ In(h) = Range(Held[h])
    BY <1>1, HeldFacts
  <1>3. \A h \in Heads : e \notin Range(Held[h])
    BY <1>2 DEF Listed
  <1>4. /\ Hold(Linked(Links, head, listelm, m[3], e), ls2)
        /\ \A h \in Heads : Alike(Held[h], ls2[h], e)
        /\ \A h \in Heads : e \in Range(ls2[h]) => h = head
    BY <1>1, <1>2, <1>3, Joining
  <1> HIDE DEF ls2
  <1>5. Hold(Links, Held)' /\ Held' = ls2 /\ \A h \in Heads : Chain(h)' = ls2[h]
    BY <1>4, HoldNext
  <1>6. \A h \in Heads : Alike(Chain(h), Chain(h)', e)
    BY <1>2, <1>4, <1>5
  <1>7. ListHeld'
    <2>1. \A h \in Heads : In(h)' \subseteq heap'
      BY <1>1, <1>6 DEF Alike, In
    <2> QED
      BY <1>1, <1>5, <2>1 DEF ListHeld
  <1>8. list_pc = "body" => e # var /\ (e \in Range(Chain(loop.head)') => e \notin Range(visited))
    BY <1>2, <1>3 DEF MayAdd, ListInv, ForeachInv
  <1>9. op'.name = m[1] /\ op'.head_new = head /\ op'.listelm = listelm /\ op'.elm = e
    BY DEF Did
  <1>10. Sequences_!Operation
    <2>1. Sequences_!Without(e) = Held
      BY <1>3, WithoutStranger
    <2>2. Sequences_!Joined(Held) = ls2
      BY <1>9, JoinedIs DEF ls2
    <2> QED
      BY <1>5, <1>9, <2>1, <2>2, NamesTell, OperationPromised
  <1> QED
    BY <1>6, <1>7, <1>8, <1>10 DEF Touched, Did

LEMMA TouchRemove ==
  ASSUME ListInv, NEW head \in Heads, NEW e \in In(head), NEW free \in {0, 1}, MayTouch(e),
         pmemobj_list_remove(head, e, free),
         Did(IF free = 1 THEN "REMOVE_FREE" ELSE "REMOVE", head, head, OID_NULL, e)
  PROVE  Touched(e)
  <1> DEFINE ls2 == [Held EXCEPT ![head] = RemoveAt(Held[head], Sequences_!Position(Held[head], e))]
  <1>1. /\ Hold(Links, Held) /\ heap \subseteq Elements
        /\ \A h \in Heads : In(h) \subseteq heap
    BY DEF ListInv, ListHeld
  <1>2. \A h \in Heads : Held[h] = Chain(h) /\ In(h) = Range(Held[h])
    BY <1>1, HeldFacts
  <1>4. /\ Hold(Unlinked(Links, head, e), ls2)
        /\ \A h \in Heads : Alike(Held[h], ls2[h], e) /\ e \notin Range(ls2[h])
    BY <1>1, <1>2, Leaving
  <1> HIDE DEF ls2
  <1>5. Hold(Links, Held)' /\ Held' = ls2 /\ \A h \in Heads : Chain(h)' = ls2[h]
    BY <1>4, HoldNext DEF pmemobj_list_remove
  <1>6. \A h \in Heads : Alike(Chain(h), Chain(h)', e) /\ e \notin In(h)'
    BY <1>2, <1>4, <1>5 DEF In
  <1>7. ListHeld'
    <2>1. heap \ {e} \subseteq heap' /\ heap' \subseteq Elements
      BY <1>1 DEF pmemobj_list_remove
    <2>2. \A h \in Heads : In(h)' \subseteq heap'
      BY <1>1, <1>6, <2>1 DEF Alike, In
    <2> QED
      BY <1>5, <2>1, <2>2 DEF ListHeld
  <1>8. list_pc = "body" => e # var /\ (e \in Range(Chain(loop.head)') => e \notin Range(visited))
    <2>1. loop' = loop /\ \A h \in Heads : e \notin Range(Chain(h)')
      BY <1>6 DEF In, Did, cursor
    <2> QED
      BY <2>1 DEF MayTouch, ListInv, ForeachInv
  <1>9. op'.name \in {"REMOVE", "REMOVE_FREE"} /\ op'.head_new = head /\ op'.elm = e
    BY DEF Did
  <1>10. Sequences_!Operation
    <2>1. Sequences_!Without(e) = ls2
      BY <1>1, <1>2, WithoutListed DEF ls2
    <2> QED
      BY <1>5, <1>9, <2>1, OperationPromised
  <1> QED
    BY <1>6, <1>7, <1>8, <1>10 DEF Touched, Did

LEMMA TouchMove ==
  ASSUME ListInv, NEW head \in Heads, NEW head_new \in Heads, NEW m \in Ends \cup Sides,
         NEW e \in In(head),
         NEW listelm \in IF m \in Sides THEN In(head_new) \ {e} ELSE {OID_NULL},
         MayTouch(e), head_new = loop.head => MayAdd(e),
         pmemobj_list_move(head, head_new, listelm, m[3], e),
         Did(m[2], head, head_new, listelm, e)
  PROVE  Touched(e)
  <1> DEFINE ls1 == [Held EXCEPT ![head] = RemoveAt(Held[head], Sequences_!Position(Held[head], e))]
             k1 == Unlinked(Links, head, e)
             q == PlaceOf(ls1[head_new], m, listelm)
             ls2 == [ls1 EXCEPT ![head_new] = InsertAt(ls1[head_new], q, e)]
  <1>1. /\ Hold(Links, Held) /\ heap \subseteq Elements
        /\ \A h \in Heads : In(h) \subseteq heap
    BY DEF ListInv, ListHeld
  <1>2. \A h \in Heads : Held[h] = Chain(h) /\ In(h) = Range(Held[h])
    BY <1>1, HeldFacts
  <1>3. /\ Hold(k1, ls1) /\ e \in Elements
        /\ \A h \in Heads : Alike(Held[h], ls1[h], e) /\ e \notin Range(ls1[h])
    BY <1>1, <1>2, Leaving
  <1>11. Sequences_!Without(e) = ls1
    BY <1>1, <1>2, WithoutListed
  <1> HIDE DEF ls1, k1
  <1>4. /\ Hold(Linked(k1, head_new, listelm, m[3], e), ls2)
        /\ \A h \in Heads : Alike(ls1[h], ls2[h], e)
        /\ \A h \in Heads : e \in Range(ls2[h]) => h = head_new
    <2>1. listelm \in IF m \in Sides THEN Range(ls1[head_new]) ELSE {OID_NULL}
      BY <1>2, <1>3 DEF Alike
    <2> QED
      BY <1>3, <2>1, Joining
  <1> HIDE DEF ls2
  <1>5. Hold(Links, Held)' /\ Held' = ls2 /\ \A h \in Heads : Chain(h)' = ls2[h]
    BY <1>4, HoldNext DEF pmemobj_list_move, k1
  <1>6. \A h \in Heads : Alike(Chain(h), Chain(h)', e)
    BY <1>2, <1>3, <1>4, <1>5, AlikeBoth
  <1>7. ListHeld'
    <2>1. e \in heap /\ heap' = heap
      BY <1>1 DEF pmemobj_list_move
    <2>2. \A h \in Heads : In(h)' \subseteq heap'
      BY <1>1, <1>6, <2>1 DEF Alike, In
    <2> QED
      BY <1>1, <1>5, <2>1, <2>2 DEF ListHeld
  <1>8. list_pc = "body" => e # var /\ (e \in Range(Chain(loop.head)') => e \notin Range(visited))
    <2>1. loop' = loop /\ \A h \in Heads : e \in Range(Chain(h)') => h = head_new
      BY <1>4, <1>5 DEF Did, cursor
    <2> QED
      BY <2>1 DEF MayTouch, MayAdd, ListInv, ForeachInv
  <1>9. op'.name = m[2] /\ op'.head_new = head_new /\ op'.listelm = listelm /\ op'.elm = e
    BY DEF Did
  <1>10. Sequences_!Operation
    <2>2. Sequences_!Joined(ls1) = ls2
      BY <1>9, JoinedIs DEF ls2
    <2> QED
      BY <1>5, <1>9, <1>11, <2>2, NamesTell, OperationPromised
  <1> QED
    BY <1>6, <1>7, <1>8, <1>10 DEF Touched, Did

\* An operation of the user leaves alone what the loop relies on.
LEMMA TouchedLoop == ASSUME ListInv, NEW e, Touched(e) PROVE ForeachInv'
  <1> DEFINE s == Chain(loop.head)
             t == Chain(loop.head)'
  <1>0. /\ loop' = loop /\ list_pc' = list_pc /\ var' = var /\ visited' = visited
        /\ kept' = kept \ {e}
    BY DEF Touched, cursor
  <1>1. list_pc # "idle" => Alike(s, t, e) /\ loop.reverse \in BOOLEAN
    BY <1>0 DEF Touched, ListInv, ForeachInv
  <1> HIDE DEF s, t
  <1>2. list_pc # "idle" =>
          \A x, y : (x # e /\ y # e) =>
            (Ahead(t, loop.reverse, x, y) <=> Ahead(s, loop.reverse, x, y))
    BY <1>1 DEF Alike, Ahead
  <1>3. list_pc # "idle" => kept' \subseteq Range(t)
    BY <1>0, <1>1 DEF ListInv, ForeachInv, In, s, Alike
  <1>4. list_pc = "body" => var \in Range(t) /\ var # e
    BY <1>1 DEF ListInv, ForeachInv, In, s, Alike, Touched
  <1>5. ASSUME list_pc = "body", NEW x \in Range(visited)
        PROVE  ~ Ahead(t, loop.reverse, var, x)
    <2>1. CASE x = e
      <3>1. e \notin Range(t)
        BY <1>0, <1>5, <2>1 DEF Touched, t
      <3>2. Ahead(t, loop.reverse, var, e) => e \in Range(t)
        BY DEF Ahead, Precedes, Range
      <3> QED
        BY <2>1, <3>1, <3>2
    <2>2. CASE x # e
      BY <1>2, <1>4, <1>5, <2>2 DEF ListInv, ForeachInv, s
    <2> QED
      BY <2>1, <2>2
  <1>6. ASSUME list_pc = "body", NEW x \in kept' \ Range(visited)
        PROVE  Ahead(t, loop.reverse, var, x)
    BY <1>0, <1>2, <1>4, <1>6 DEF ListInv, ForeachInv, s
  <1>7. \A x, y \in kept' \cap Range(visited) :
          Precedes(visited, x, y) <=> Ahead(t, loop.reverse, x, y)
    <2>1. list_pc = "idle" => kept' = {}
      BY <1>0 DEF ListInv, ForeachInv
    <2>2. ASSUME list_pc # "idle",
                 NEW x \in kept' \cap Range(visited), NEW y \in kept' \cap Range(visited)
          PROVE  Precedes(visited, x, y) <=> Ahead(t, loop.reverse, x, y)
      BY <1>0, <1>2, <2>2 DEF ListInv, ForeachInv, s
    <2> QED
      BY <2>1, <2>2
  <1>8. /\ list_pc \in {"idle", "body", "done"}
        /\ visited \in Seq(Elements) /\ Distinct(visited)
        /\ list_pc = "idle" => visited = << >> /\ kept' = {}
        /\ list_pc # "idle" => loop \in [head : Heads, reverse : BOOLEAN]
        /\ list_pc = "body" => var \in Range(visited)
        /\ list_pc = "done" => kept' \subseteq Range(visited)
    BY <1>0 DEF ListInv, ForeachInv
  <1> QED
    BY <1>0, <1>3, <1>4, <1>5, <1>6, <1>7, <1>8 DEF ForeachInv, In, t

\* The object at place i of s for a loop over s, or over s in reverse.
At(s, reverse, i) == IF reverse THEN s[Len(s) + 1 - i] ELSE s[i]

LEMMA AtFacts ==
  ASSUME NEW s \in Seq(Elements), Distinct(s), NEW r \in BOOLEAN
  PROVE  /\ \A i \in 1 .. Len(s) : At(s, r, i) \in Range(s)
         /\ \A x \in Range(s) : \E i \in 1 .. Len(s) : At(s, r, i) = x
         /\ \A i, j \in 1 .. Len(s) :
              /\ Ahead(s, r, At(s, r, i), At(s, r, j)) <=> i < j
              /\ At(s, r, i) = At(s, r, j) => i = j
  <1>1. Len(s) \in Nat /\ \A i \in 1 .. Len(s) : Len(s) + 1 - i \in 1 .. Len(s)
    OBVIOUS
  <1>2. CASE ~ r
    BY <1>1, <1>2, RangeFacts, PrecedesPlaces DEF At, Ahead, Distinct
  <1>3. CASE r
    <2>1. \A i, j \in 1 .. Len(s) : Len(s) + 1 - i < Len(s) + 1 - j <=> j < i
      BY <1>1
    <2>2. \A i, j \in 1 .. Len(s) : Len(s) + 1 - i = Len(s) + 1 - j => i = j
      BY <1>1
    <2>3. \A i \in 1 .. Len(s) : At(s, r, i) \in Range(s)
      BY <1>1, <1>3, RangeFacts DEF At
    <2>4. ASSUME NEW x \in Range(s) PROVE \E i \in 1 .. Len(s) : At(s, r, i) = x
      <3>1. PICK j \in 1 .. Len(s) : s[j] = x
        BY RangeFacts
      <3>2. Len(s) + 1 - (Len(s) + 1 - j) = j
        BY <1>1
      <3> QED
        BY <1>1, <1>3, <3>1, <3>2 DEF At
    <2>5. ASSUME NEW i \in 1 .. Len(s), NEW j \in 1 .. Len(s)
          PROVE  /\ Ahead(s, r, At(s, r, i), At(s, r, j)) <=> i < j
                 /\ At(s, r, i) = At(s, r, j) => i = j
      BY <1>1, <1>3, <2>1, <2>2, PrecedesPlaces DEF At, Ahead, Distinct
    <2> QED
      BY <2>3, <2>4, <2>5
  <1> QED
    BY <1>2, <1>3

\* What the first, last, next and previous objects of a list are.
LEMMA Begins ==
  ASSUME Hold(Links, Held), NEW h \in Heads, NEW r \in BOOLEAN
  PROVE  (IF r THEN POBJ_LIST_LAST(h) ELSE POBJ_LIST_FIRST(h))
           = IF Len(Chain(h)) = 0 THEN OID_NULL ELSE At(Chain(h), r, 1)
  <1> DEFINE s == Chain(h)
  <1>1. Ring(Links, h, s) /\ s \in Seq(Elements) /\ Len(s) \in Nat
    BY HeldFacts DEF Hold
  <1> HIDE DEF s
  <1>2. CASE Len(s) = 0
    <2>1. pe_first[h] = OID_NULL
      BY <1>1, <1>2 DEF Ring, Links
    <2> QED
      BY <1>2, <2>1 DEF POBJ_LIST_LAST, POBJ_LIST_FIRST, s
  <1>3. CASE Len(s) # 0
    <2>1. 1 \in 1 .. Len(s) /\ s # << >> /\ Behind(s, 1) = Len(s)
      BY <1>1, <1>3 DEF Behind
    <2>2. pe_first[h] = s[1] /\ pe_prev[s[1]] = s[Len(s)]
      BY <1>1, <2>1 DEF Ring, Links
    <2>3. s[1] # OID_NULL
      <3>1. s[1] \in Elements
        BY <1>1, <2>1
      <3> QED
        BY <3>1, ObjListAssumption DEF OID_NULL
    <2>4. At(s, r, 1) = IF r THEN s[Len(s)] ELSE s[1]
      BY <1>1 DEF At
    <2> QED
      BY <1>3, <2>2, <2>3, <2>4 DEF POBJ_LIST_LAST, POBJ_LIST_FIRST, s
  <1> QED
    BY <1>2, <1>3

LEMMA Continues ==
  ASSUME Hold(Links, Held), loop \in [head : Heads, reverse : BOOLEAN],
         NEW i \in 1 .. Len(Chain(loop.head))
  PROVE  NextOf(At(Chain(loop.head), loop.reverse, i))
           = At(Chain(loop.head), loop.reverse, IF i = Len(Chain(loop.head)) THEN 1 ELSE i + 1)
  <1> DEFINE h == loop.head
             s == Chain(h)
             r == loop.reverse
  <1>1. Ring(Links, h, s) /\ s \in Seq(Elements) /\ Len(s) \in Nat /\ r \in BOOLEAN
    BY HeldFacts DEF Hold
  <1>0. i \in 1 .. Len(s)
    OBVIOUS
  <1> HIDE DEF s, r
  <1>2. \A j \in 1 .. Len(s) : pe_next[s[j]] = s[After(s, j)] /\ pe_prev[s[j]] = s[Behind(s, j)]
    BY <1>1 DEF Ring, Links
  <1>3. CASE ~ r
    BY <1>0, <1>1, <1>2, <1>3 DEF NextOf, POBJ_LIST_NEXT, After, At, s, r
  <1>4. CASE r
    <2>1. Len(s) + 1 - i \in 1 .. Len(s)
      BY <1>0, <1>1
    <2>2. Behind(s, Len(s) + 1 - i) = IF i = Len(s) THEN Len(s) ELSE Len(s) - i
      BY <1>0, <1>1 DEF Behind
    <2>3. NextOf(At(s, r, i)) = s[Behind(s, Len(s) + 1 - i)]
      BY <1>2, <1>4, <2>1 DEF NextOf, POBJ_LIST_PREV, At, r
    <2>4. At(s, r, IF i = Len(s) THEN 1 ELSE i + 1) = s[IF i = Len(s) THEN Len(s) ELSE Len(s) - i]
      BY <1>0, <1>1, <1>4 DEF At
    <2> QED
      BY <2>2, <2>3, <2>4 DEF s, r
  <1> QED
    BY <1>1, <1>3, <1>4

LEMMA LinksRest ==
  ASSUME ListHeld, UNCHANGED <<links, heap>>
  PROVE  ListHeld' /\ Held' = Held /\ \A h \in Heads : Chain(h)' = Chain(h) /\ In(h)' = In(h)
  <1>1. Links' = Links /\ heap' = heap
    BY DEF Links, links
  <1>2. \A h \in Heads : Chain(h)' = Chain(h) /\ In(h)' = In(h)
    BY <1>1 DEF Chain, In
  <1>3. Held' = Held
    BY <1>2 DEF Held
  <1> QED
    BY <1>1, <1>2, <1>3 DEF ListHeld

\* One more object is visited.
LEMMA VisitFacts ==
  ASSUME NEW vs \in Seq(Elements), Distinct(vs), NEW v \in Elements \ Range(vs)
  PROVE  /\ Append(vs, v) \in Seq(Elements) /\ Distinct(Append(vs, v))
         /\ Range(Append(vs, v)) = Range(vs) \cup {v}
         /\ \A x, y \in Range(vs) : Precedes(Append(vs, v), x, y) <=> Precedes(vs, x, y)
         /\ \A x \in Range(vs) : Precedes(Append(vs, v), x, v) /\ ~ Precedes(Append(vs, v), v, x)
         /\ ~ Precedes(Append(vs, v), v, v)
  <1> DEFINE ws == Append(vs, v)
             n == Len(vs)
  <1>1. /\ ws \in Seq(Elements) /\ Len(ws) = n + 1 /\ n \in Nat /\ ws[n + 1] = v
        /\ \A i \in 1 .. n : ws[i] = vs[i]
    OBVIOUS
  <1> HIDE DEF ws
  <1>2. \A i \in 1 .. n : vs[i] # v
    BY RangeFacts
  <1>3. \A i, j \in 1 .. n : vs[i] = vs[j] => i = j
    BY DEF Distinct
  <1> HIDE DEF n
  <1>4. Distinct(ws)
    <2> SUFFICES ASSUME NEW i \in 1 .. n + 1, NEW j \in 1 .. n + 1, ws[i] = ws[j] PROVE i = j
      BY <1>1 DEF Distinct
    <2> QED
      BY <1>1, <1>2, <1>3
  <1>5. Range(ws) = Range(vs) \cup {v}
    <2>1. ASSUME NEW x \in Range(ws) PROVE x \in Range(vs) \cup {v}
      <3>1. PICK i \in 1 .. n + 1 : ws[i] = x
        BY <1>1, RangeFacts
      <3>2. i # n + 1 => i \in 1 .. n
        BY <1>1
      <3> QED
        BY <1>1, <3>1, <3>2, RangeFacts DEF n
    <2>2. ASSUME NEW x \in Range(vs) PROVE x \in Range(ws)
      <3>1. PICK i \in 1 .. n : vs[i] = x
        BY RangeFacts DEF n
      <3>2. i \in 1 .. n + 1
        BY <1>1
      <3> QED
        BY <1>1, <3>1, <3>2, RangeFacts
    <2>3. v \in Range(ws)
      <3>1. n + 1 \in 1 .. n + 1
        BY <1>1
      <3> QED
        BY <1>1, <3>1, RangeFacts
    <2> QED
      BY <2>1, <2>2, <2>3
  <1>6. \A i, j \in 1 .. n + 1 : Precedes(ws, ws[i], ws[j]) <=> i < j
    BY <1>1, <1>4, PrecedesPlaces
  <1>7. \A i, j \in 1 .. n : Precedes(vs, vs[i], vs[j]) <=> i < j
    BY PrecedesPlaces DEF n
  <1>8. \A x \in Range(vs) : \E i \in 1 .. n : vs[i] = x
    BY RangeFacts DEF n
  <1>9. n + 1 \in 1 .. n + 1 /\ \A i \in 1 .. n : i \in 1 .. n + 1 /\ i < n + 1 /\ ~ (n + 1 < i)
    BY <1>1
  <1>10. ASSUME NEW x \in Range(vs)
         PROVE  Precedes(ws, x, v) /\ ~ Precedes(ws, v, x)
    <2>1. PICK i \in 1 .. n : vs[i] = x
      BY <1>8
    <2> QED
      BY <1>1, <1>6, <1>9, <2>1
  <1>11. ASSUME NEW x \in Range(vs), NEW y \in Range(vs)
         PROVE  Precedes(ws, x, y) <=> Precedes(vs, x, y)
    <2>1. PICK i \in 1 .. n : vs[i] = x
      BY <1>8
    <2>2. PICK j \in 1 .. n : vs[j] = y
      BY <1>8
    <2> QED
      BY <1>1, <1>6, <1>7, <1>9, <2>1, <2>2
  <1>12. ~ Precedes(ws, v, v)
    BY <1>1, <1>6, <1>9
  <1> QED
    BY <1>1, <1>4, <1>5, <1>10, <1>11, <1>12 DEF ws

LEMMA ForeachStep == ListInv /\ Foreach => ListInv'
  <1> SUFFICES ASSUME ListInv, Foreach PROVE ListInv'
    OBVIOUS
  <1> DEFINE h == loop'.head
             r == loop'.reverse
             s == Chain(h)
  <1>1. /\ ListHeld /\ Hold(Links, Held) /\ visited = << >> /\ list_pc = "idle"
        /\ loop' \in [head : Heads, reverse : BOOLEAN]
    BY DEF ListInv, ListHeld, ForeachInv, Foreach
  <1>2. ListHeld' /\ \A g \in Heads : Chain(g)' = Chain(g) /\ In(g)' = In(g)
    BY <1>1, LinksRest DEF Foreach
  <1>3. h \in Heads /\ r \in BOOLEAN /\ s \in Seq(Elements) /\ Distinct(s) /\ Len(s) \in Nat
    BY <1>1, HeldFacts
  <1>4. (IF r THEN POBJ_LIST_LAST(h) ELSE POBJ_LIST_FIRST(h))
          = IF Len(s) = 0 THEN OID_NULL ELSE At(s, r, 1)
    BY <1>1, <1>3, Begins
  <1>5. Takes(IF Len(s) = 0 THEN OID_NULL ELSE At(s, r, 1)) /\ kept' = Range(s)
    BY <1>4 DEF Foreach, In
  <1>6. Chain(loop.head)' = s /\ In(loop.head)' = Range(s)
    <2>1. \A g \in Heads : Chain(g)' = Chain(g)
      BY <1>2
    <2> QED
      BY <1>3, <2>1 DEF In
  <1>11. list_pc' # "idle" /\ (loop \in [head : Heads, reverse : BOOLEAN])'
    BY <1>1, <1>5 DEF Takes
  <1> HIDE DEF h, s, r
  <1>7. CASE Len(s) = 0
    <2>1. s = << >> /\ Range(s) = {}
      <3>1. \A x \in Range(s) : \E i \in 1 .. Len(s) : s[i] = x
        BY <1>3, RangeFacts
      <3> QED
        BY <1>3, <1>7, <3>1
    <2>2. list_pc' = "done" /\ visited' = << >> /\ kept' = {}
      BY <1>1, <1>5, <1>7, <2>1 DEF Takes
    <2>3. << >> \in Seq(Elements) /\ Distinct(<< >>)
      BY DEF Distinct
    <2>4. ForeachInv'
      BY <1>11, <2>2, <2>3 DEF ForeachInv
    <2> QED
      BY <1>2, <2>4 DEF ListInv
  <1>8. CASE Len(s) # 0
    <2> DEFINE v == At(s, r, 1)
    <2>1. 1 \in 1 .. Len(s)
      BY <1>3, <1>8
    <2>2. v \in Range(s) /\ v \in Elements /\ v # OID_NULL
      <3>1. v \in Range(s)
        BY <1>3, <2>1, AtFacts
      <3>2. v \in Elements
        BY <1>3, <3>1, RangeFacts
      <3> QED
        BY <3>1, <3>2, ObjListAssumption DEF OID_NULL
    <2>3. \A x \in Range(s) : (~ Ahead(s, r, x, v)) /\ (x # v => Ahead(s, r, v, x))
      <3> TAKE x \in Range(s)
      <3>1. PICK i \in 1 .. Len(s) : At(s, r, i) = x
        BY <1>3, AtFacts
      <3>2. /\ Ahead(s, r, At(s, r, i), At(s, r, 1)) <=> i < 1
            /\ Ahead(s, r, At(s, r, 1), At(s, r, i)) <=> 1 < i
        BY <1>3, <2>1, AtFacts
      <3>3. ~ (i < 1) /\ (i # 1 => 1 < i)
        BY <1>3
      <3> QED
        BY <3>1, <3>2, <3>3
    <2> HIDE DEF v
    <2>4. list_pc' = "body" /\ var' = v /\ visited' = Append(<< >>, v)
      BY <1>1, <1>5, <1>8, <2>2 DEF Takes, v
    <2>5. << >> \in Seq(Elements) /\ Distinct(<< >>) /\ Range(<< >>) = {}
      BY DEF Distinct, Range
    <2>6. /\ visited' \in Seq(Elements) /\ Distinct(visited') /\ Range(visited') = {v}
          /\ ~ Precedes(visited', v, v)
      BY <2>2, <2>4, <2>5, VisitFacts
    <2>7. /\ var' \in Range(s) /\ var' \in Range(visited')
          /\ \A x \in Range(visited') : ~ Ahead(s, r, var', x)
          /\ \A x \in kept' \ Range(visited') : Ahead(s, r, var', x)
          /\ \A x, y \in kept' \cap Range(visited') : Precedes(visited', x, y) <=> Ahead(s, r, x, y)
      BY <1>5, <2>2, <2>3, <2>4, <2>6
    <2>8. ForeachInv'
      BY <1>5, <1>6, <1>11, <2>4, <2>6, <2>7 DEF ForeachInv, r
    <2> QED
      BY <1>2, <2>8 DEF ListInv
  <1> QED
    BY <1>7, <1>8

LEMMA ForeachNextStep == ListInv /\ ForeachNext => ListInv'
  <1> SUFFICES ASSUME ListInv, ForeachNext PROVE ListInv'
    OBVIOUS
  <1> DEFINE h == loop.head
             r == loop.reverse
             s == Chain(h)
             n == Len(s)
  <1>1. /\ ListHeld /\ Hold(Links, Held) /\ list_pc = "body"
        /\ loop \in [head : Heads, reverse : BOOLEAN] /\ loop' = loop /\ kept' = kept
        /\ visited \in Seq(Elements) /\ Distinct(visited)
    BY DEF ListInv, ListHeld, ForeachInv, ForeachNext
  <1>2. ListHeld' /\ \A g \in Heads : Chain(g)' = Chain(g) /\ In(g)' = In(g)
    BY <1>1, LinksRest DEF ForeachNext
  <1>3. h \in Heads /\ r \in BOOLEAN /\ s \in Seq(Elements) /\ Distinct(s) /\ n \in Nat
    BY <1>1, HeldFacts
  <1>4. /\ var \in Range(s) /\ var \in Range(visited) /\ kept \subseteq Range(s)
        /\ \A e \in Range(visited) : ~ Ahead(s, r, var, e)
        /\ \A e \in kept \ Range(visited) : Ahead(s, r, var, e)
        /\ \A e, f \in kept \cap Range(visited) : Precedes(visited, e, f) <=> Ahead(s, r, e, f)
    BY <1>1 DEF ListInv, ForeachInv, In
  <1>5. PICK i \in 1 .. n : At(s, r, i) = var
    BY <1>3, <1>4, AtFacts
  <1>6. NextOf(var) = At(s, r, IF i = n THEN 1 ELSE i + 1)
    BY <1>1, <1>5, Continues
  <1>7. WhereBegan = At(s, r, 1)
    <2>1. WhereBegan = IF n = 0 THEN OID_NULL ELSE At(s, r, 1)
      BY <1>1, <1>3, Begins DEF WhereBegan
    <2>2. n # 0
      BY <1>3, <1>5
    <2> QED
      BY <2>1, <2>2
  <1>8. Chain(loop.head)' = s /\ In(loop.head)' = Range(s)
    <2>1. \A g \in Heads : Chain(g)' = Chain(g)
      BY <1>2
    <2> QED
      BY <1>1, <1>3, <2>1 DEF In
  <1>9. \A j, l \in 1 .. n : (Ahead(s, r, At(s, r, j), At(s, r, l)) <=> j < l)
                             /\ (At(s, r, j) = At(s, r, l) => j = l)
    BY <1>3, AtFacts
  <1>10. \A x \in Range(s) : \E j \in 1 .. n : At(s, r, j) = x
    BY <1>3, AtFacts
  <1>16. \A j \in 1 .. n : At(s, r, j) \in Range(s) /\ At(s, r, j) \in Elements
    <2>1. \A j \in 1 .. n : At(s, r, j) \in Range(s)
      BY <1>3, AtFacts
    <2> QED
      BY <1>3, <2>1, RangeFacts
  <1> HIDE DEF h, s, r, n
  <1>11. CASE i = n
    <2>1. list_pc' = "done" /\ visited' = visited
      BY <1>6, <1>7, <1>11 DEF ForeachNext, Takes
    <2>2. \A x \in Range(s) : ~ Ahead(s, r, var, x)
      <3> TAKE x \in Range(s)
      <3>1. PICK j \in 1 .. n : At(s, r, j) = x
        BY <1>10
      <3>2. ~ (n < j)
        BY <1>3
      <3> QED
        BY <1>5, <1>9, <1>11, <3>1, <3>2
    <2>3. kept \subseteq Range(visited)
      BY <1>4, <2>2
    <2>4. ForeachInv'
      BY <1>1, <1>4, <1>8, <2>1, <2>3 DEF ForeachInv, r
    <2> QED
      BY <1>2, <2>4 DEF ListInv
  <1>12. CASE i # n
    <2> DEFINE v == At(s, r, i + 1)
    <2>1. i + 1 \in 1 .. n /\ 1 \in 1 .. n /\ i + 1 # 1 /\ i < i + 1
      BY <1>3, <1>12
    <2>2. v \in Range(s) /\ v \in Elements /\ v # OID_NULL
      BY <1>16, <2>1, ObjListAssumption DEF OID_NULL
    <2>3. NextOf(var) = v /\ v # WhereBegan
      BY <1>6, <1>7, <1>9, <1>12, <2>1
    <2>4. Ahead(s, r, var, v)
      BY <1>5, <1>9, <2>1
    <2>5. v \notin Range(visited)
      BY <1>4, <2>4
    <2>6. \A x \in Range(s) : /\ Ahead(s, r, v, x) => Ahead(s, r, var, x)
                              /\ (x # v /\ Ahead(s, r, var, x)) => Ahead(s, r, v, x)
                              /\ ~ Ahead(s, r, var, x) => (Ahead(s, r, x, v) /\ ~ Ahead(s, r, v, x))
                              /\ ~ Ahead(s, r, v, v)
      <3> TAKE x \in Range(s)
      <3>1. PICK j \in 1 .. n : At(s, r, j) = x
        BY <1>10
      <3>2. /\ Ahead(s, r, v, x) <=> i + 1 < j
            /\ Ahead(s, r, var, x) <=> i < j
            /\ Ahead(s, r, x, v) <=> j < i + 1
            /\ ~ Ahead(s, r, v, v)
        <4>1. ~ (i + 1 < i + 1)
          BY <2>1
        <4> QED
          BY <1>5, <1>9, <2>1, <3>1, <4>1
      <3>3. x # v => j # i + 1
        BY <3>1
      <3>4. /\ (i + 1 < j => i < j) /\ (j # i + 1 /\ i < j => i + 1 < j)
            /\ (~ (i < j) => j < i + 1 /\ ~ (i + 1 < j))
        BY <1>3
      <3> QED
        BY <3>2, <3>3, <3>4
    <2> HIDE DEF v
    <2>7. list_pc' = "body" /\ var' = v /\ visited' = Append(visited, v)
      BY <2>2, <2>3 DEF ForeachNext, Takes
    <2>8. /\ visited' \in Seq(Elements) /\ Distinct(visited')
          /\ Range(visited') = Range(visited) \cup {v}
          /\ \A x, y \in Range(visited) : Precedes(visited', x, y) <=> Precedes(visited, x, y)
          /\ \A x \in Range(visited) : Precedes(visited', x, v) /\ ~ Precedes(visited', v, x)
          /\ ~ Precedes(visited', v, v)
      BY <1>1, <2>2, <2>5, <2>7, VisitFacts
    <2>9. ASSUME NEW x \in Range(visited') PROVE ~ Ahead(s, r, v, x)
      <3>1. CASE x \in Range(s)
        BY <1>4, <2>6, <2>8, <2>9, <3>1
      <3>2. CASE x \notin Range(s)
        BY <3>2 DEF Ahead, Precedes, Range
      <3> QED
        BY <3>1, <3>2
    <2>10. ASSUME NEW x \in kept \ Range(visited') PROVE Ahead(s, r, v, x)
      BY <1>4, <2>6, <2>8, <2>10
    <2>11. ASSUME NEW x \in kept \cap Range(visited'), NEW y \in kept \cap Range(visited')
           PROVE  Precedes(visited', x, y) <=> Ahead(s, r, x, y)
      <3>1. CASE x # v /\ y # v
        BY <1>4, <2>8, <3>1
      <3>2. CASE x # v /\ y = v
        BY <1>4, <2>6, <2>8, <3>2
      <3>3. CASE x = v /\ y # v
        BY <1>4, <2>6, <2>8, <3>3
      <3>4. CASE x = v /\ y = v
        BY <2>2, <2>6, <2>8, <3>4
      <3> QED
        BY <3>1, <3>2, <3>3, <3>4
    <2>12. v \in Range(s) /\ v \in Range(visited')
      BY <2>2, <2>8
    <2>13. ForeachInv'
      BY <1>1, <1>4, <1>8, <2>7, <2>8, <2>9, <2>10, <2>11, <2>12 DEF ForeachInv, r
    <2> QED
      BY <1>2, <2>13 DEF ListInv
  <1> QED
    BY <1>11, <1>12

LEMMA LeaveStep == ListInv /\ Leave => ListInv'
  <1> SUFFICES ASSUME ListInv, Leave PROVE ListInv'
    OBVIOUS
  <1>1. ListHeld'
    BY LinksRest DEF ListInv, Leave
  <1>2. << >> \in Seq(Elements) /\ Distinct(<< >>)
    BY DEF Distinct
  <1>3. ForeachInv'
    BY <1>2 DEF ForeachInv, Leave
  <1> QED
    BY <1>1, <1>3 DEF ListInv

LEMMA ListInvInit == ListInit => ListInv /\ \A h \in Heads : Chain(h) = << >>
  <1> SUFFICES ASSUME ListInit PROVE ListInv /\ \A h \in Heads : Chain(h) = << >>
    OBVIOUS
  <1> DEFINE ls == [h \in Heads |-> << >>]
  <1>1. << >> \in Seq(Elements) /\ Distinct(<< >>) /\ Range(<< >>) = {} /\ Len(<< >>) = 0
    BY DEF Distinct, Range
  <1>2. Typed(Links)
    BY DEF ListInit, Links, Typed
  <1>3. ASSUME NEW h \in Heads PROVE Ring(Links, h, << >>)
    BY <1>1 DEF ListInit, Links, Ring
  <1>4. Hold(Links, ls)
    <2>1. \A e \in Elements : Links.next[e] = OID_NULL /\ Links.prev[e] = OID_NULL
      BY DEF ListInit, Links
    <2> QED
      BY <1>1, <1>2, <1>3, <2>1 DEF Hold
  <1>5. ls = Held /\ \A h \in Heads : Chain(h) = << >>
    BY <1>4, HoldIsHeld DEF Held, Chain
  <1>6. ListHeld
    BY <1>1, <1>4, <1>5 DEF ListHeld, ListInit, In
  <1>7. ForeachInv
    BY <1>1 DEF ForeachInv, ListInit
  <1> QED
    BY <1>5, <1>6, <1>7 DEF ListInv

\* Each operation is one that the names promise; the rest does nothing to lists.
LEMMA ListStep ==
  ListInv /\ [ListNext]_listVars => ListInv' /\ [Sequences_!Operation]_(Sequences_!vars)
  <1> SUFFICES ASSUME ListInv, [ListNext]_listVars
               PROVE  ListInv' /\ (Sequences_!Operation \/ UNCHANGED Sequences_!vars)
    OBVIOUS
  <1>1. ASSUME NEW e, Touched(e) PROVE ListInv' /\ Sequences_!Operation
    BY <1>1, TouchedLoop DEF ListInv, Touched
  <1>2. heap \subseteq Elements /\ \A e \in heap : heap \cup {e} = heap
    BY DEF ListInv, ListHeld
  <1>3. CASE Insert
    <2>1. PICK head \in Heads, e \in heap \ Listed, m \in Ends \cup Sides :
            \E listelm \in IF m \in Sides THEN In(head) ELSE {OID_NULL} :
              /\ MayAdd(e)
              /\ pmemobj_list_insert(head, listelm, m[3], e)
              /\ Did(m[1], head, head, listelm, e)
      BY <1>3 DEF Insert
    <2>2. PICK listelm \in IF m \in Sides THEN In(head) ELSE {OID_NULL} :
            /\ MayAdd(e)
            /\ pmemobj_list_insert(head, listelm, m[3], e)
            /\ Did(m[1], head, head, listelm, e)
      BY <2>1
    <2>3. e \in Elements \ Listed /\ heap' = heap \cup {e}
      BY <1>2, <2>2 DEF pmemobj_list_insert
    <2>4. Touched(e)
      BY <2>2, <2>3, TouchInsert DEF pmemobj_list_insert
    <2> QED
      BY <1>1, <2>4
  <1>4. CASE InsertNew
    <2>1. PICK head \in Heads, e \in Elements \ heap, m \in Ends \cup Sides :
            \E listelm \in IF m \in Sides THEN In(head) ELSE {OID_NULL} :
              /\ MayAdd(e)
              /\ pmemobj_list_insert_new(head, listelm, m[3], e)
              /\ Did(m[1], head, head, listelm, e)
      BY <1>4 DEF InsertNew
    <2>2. PICK listelm \in IF m \in Sides THEN In(head) ELSE {OID_NULL} :
            /\ MayAdd(e)
            /\ pmemobj_list_insert_new(head, listelm, m[3], e)
            /\ Did(m[1], head, head, listelm, e)
      BY <2>1
    <2>3. e \in Elements \ Listed /\ heap' = heap \cup {e}
      BY <2>2 DEF pmemobj_list_insert_new, Listed, ListInv, ListHeld
    <2>4. Touched(e)
      BY <2>2, <2>3, TouchInsert DEF pmemobj_list_insert_new
    <2> QED
      BY <1>1, <2>4
  <1>5. CASE Remove_
    BY <1>1, <1>5, TouchRemove DEF Remove_
  <1>6. CASE Move
    <2>1. PICK head \in Heads, head_new \in Heads, m \in Ends \cup Sides : \E e \in In(head) :
            \E listelm \in IF m \in Sides THEN In(head_new) \ {e} ELSE {OID_NULL} :
              /\ MayTouch(e) /\ (head_new = loop.head => MayAdd(e))
              /\ pmemobj_list_move(head, head_new, listelm, m[3], e)
              /\ Did(m[2], head, head_new, listelm, e)
      BY <1>6 DEF Move
    <2>2. PICK e \in In(head) :
            \E listelm \in IF m \in Sides THEN In(head_new) \ {e} ELSE {OID_NULL} :
              /\ MayTouch(e) /\ (head_new = loop.head => MayAdd(e))
              /\ pmemobj_list_move(head, head_new, listelm, m[3], e)
              /\ Did(m[2], head, head_new, listelm, e)
      BY <2>1
    <2>3. Touched(e)
      BY <2>2, TouchMove
    <2> QED
      BY <1>1, <2>3
  <1>7. ASSUME UNCHANGED <<links, heap, op>> PROVE UNCHANGED Sequences_!vars
    <2>1. Held' = Held
      BY <1>7, LinksRest DEF ListInv
    <2> QED
      BY <1>7, <2>1 DEF Sequences_!vars, Held
  <1>8. CASE Foreach
    BY <1>7, <1>8, ForeachStep DEF Foreach
  <1>9. CASE ForeachNext
    BY <1>7, <1>9, ForeachNextStep DEF ForeachNext
  <1>10. CASE Leave
    BY <1>7, <1>10, LeaveStep DEF Leave
  <1>11. CASE UNCHANGED listVars
    <2>1. /\ UNCHANGED <<links, heap, op>> /\ loop' = loop /\ list_pc' = list_pc /\ var' = var
          /\ visited' = visited /\ kept' = kept
      BY <1>11 DEF listVars, cursor
    <2>2. ListHeld' /\ \A h \in Heads : Chain(h)' = Chain(h) /\ In(h)' = In(h)
      BY <2>1, LinksRest DEF ListInv
    <2>3. list_pc # "idle" =>
            Chain(loop.head)' = Chain(loop.head) /\ In(loop.head)' = In(loop.head)
      BY <2>1, <2>2 DEF ListInv, ForeachInv
    <2>4. ForeachInv'
      <3>1. CASE list_pc # "idle"
        BY <2>1, <2>3, <3>1 DEF ListInv, ForeachInv
      <3>2. CASE list_pc = "idle"
        BY <2>1, <3>2 DEF ListInv, ForeachInv
      <3> QED
        BY <3>1, <3>2
    <2> QED
      BY <1>7, <2>1, <2>2, <2>4 DEF ListInv
  <1> QED
    BY <1>3, <1>4, <1>5, <1>6, <1>8, <1>9, <1>10, <1>11 DEF ListNext

\* What the invariant says of the links and of the loop.
LEMMA ListInvImplies == ListInv => ListsInv
  <1> SUFFICES ASSUME ListInv PROVE ListsInv
    OBVIOUS
  <1>1. /\ Hold(Links, Held) /\ heap \subseteq Elements
        /\ \A h \in Heads : In(h) \subseteq heap
    BY DEF ListInv, ListHeld
  <1>2. \A h \in Heads : /\ Held[h] = Chain(h) /\ In(h) = Range(Chain(h))
                         /\ Chain(h) \in Seq(Elements) /\ Ring(Links, h, Chain(h))
    BY <1>1, HeldFacts DEF Hold
  <1>3. ASSUME NEW h \in Heads, NEW e \in In(h)
        PROVE  /\ pe_next[e] \in In(h) /\ pe_prev[e] \in In(h)
               /\ pe_prev[pe_next[e]] = e /\ pe_next[pe_prev[e]] = e
    <2> DEFINE s == Chain(h)
    <2>1. s \in Seq(Elements) /\ Ring(Links, h, s) /\ In(h) = Range(s) /\ Len(s) \in Nat
      BY <1>2
    <2> HIDE DEF s
    <2>2. PICK i \in 1 .. Len(s) : s[i] = e
      BY <1>3, <2>1, RangeFacts
    <2>3. /\ After(s, i) \in 1 .. Len(s) /\ Behind(s, After(s, i)) = i
          /\ Behind(s, i) \in 1 .. Len(s) /\ After(s, Behind(s, i)) = i
      BY <2>1, <2>2 DEF After, Behind
    <2>4. \A j \in 1 .. Len(s) : pe_next[s[j]] = s[After(s, j)] /\ pe_prev[s[j]] = s[Behind(s, j)]
      BY <2>1 DEF Ring, Links
    <2> QED
      BY <2>1, <2>2, <2>3, <2>4, RangeFacts
  <1>4. ASSUME NEW e \in Elements \ Listed PROVE pe_next[e] = OID_NULL /\ pe_prev[e] = OID_NULL
    <2>1. \A h \in Heads : e \notin Range(Held[h])
      BY <1>2 DEF Listed
    <2> QED
      BY <1>1, <2>1 DEF Hold, Links
  <1>5. Rings
    <2>1. \A g, h \in Heads : g # h => In(g) \cap In(h) = {}
      <3> SUFFICES ASSUME NEW g \in Heads, NEW h \in Heads, g # h PROVE In(g) \cap In(h) = {}
        OBVIOUS
      <3>1. In(g) \subseteq Elements
        BY <1>1
      <3>2. \A x \in Elements : ~ (x \in In(g) /\ x \in In(h))
        BY <1>1, <1>2 DEF Hold
      <3> QED
        BY <3>1, <3>2
    <2> QED
      BY <1>3, <1>4, <2>1 DEF Rings, Listed
  <1>6. ListTypeOK
    <2>1. /\ pe_first \in [Heads -> Elements \cup {OID_NULL}]
          /\ pe_next \in [Elements -> Elements \cup {OID_NULL}]
          /\ pe_prev \in [Elements -> Elements \cup {OID_NULL}]
      BY <1>1 DEF Hold, Typed, Links
    <2>2. ASSUME NEW h \in Heads PROVE pe_first[h] \in heap \cup {OID_NULL}
      <3> DEFINE s == Chain(h)
      <3>1. s \in Seq(Elements) /\ Ring(Links, h, s) /\ Range(s) \subseteq heap
        BY <1>1, <1>2
      <3> HIDE DEF s
      <3>2. s # << >> => 1 \in 1 .. Len(s)
        BY <3>1
      <3> QED
        BY <3>1, <3>2, RangeFacts DEF Ring, Links
    <2>3. ASSUME NEW e \in Elements
          PROVE  pe_next[e] \in heap \cup {OID_NULL} /\ pe_prev[e] \in heap \cup {OID_NULL}
      <3>1. CASE e \in Listed
        BY <1>1, <1>3, <3>1 DEF Listed
      <3>2. CASE e \notin Listed
        BY <1>4, <3>2
      <3> QED
        BY <3>1, <3>2
    <2> QED
      BY <2>1, <2>2, <2>3 DEF ListTypeOK, ListInv, ForeachInv
  <1>7. ForeachSeesAll
    <2>1. IsInjective(visited)
      BY DEF ListInv, ForeachInv, Distinct, IsInjective
    <2> QED
      BY <2>1 DEF ForeachSeesAll, ListInv, ForeachInv, Ahead
  <1> QED
    BY <1>5, <1>6, <1>7 DEF ListsInv

\* Whatever objects are allocated, inserted, removed, moved and freed, in whatever
\* order: each list is a ring in both directions and no object stands in two or
\* was freed; a loop whose body does any of this to other objects than its own
\* has seen each object that is left in place once, in its order, when it ends.
THEOREM ListsAreRings == ListSpec => []ListsInv
  <1>1. ListInit => ListInv
    BY ListInvInit
  <1>2. ListInv /\ [ListNext]_listVars => ListInv'
    BY ListStep
  <1>3. ListInv => ListsInv
    BY ListInvImplies
  <1> QED
    BY <1>1, <1>2, <1>3, PTL DEF ListSpec

\* The links implement sequences: each macro changes them in its one step as its
\* name says, for every number of lists and of objects.
THEOREM MacrosKeepTheirNames == ListSpec => ImplementsSequences
  <1>1. ListInit => ListInv
    BY ListInvInit
  <1>2. ListInit => \A h \in DOMAIN Held : Held[h] = << >>
    BY ListInvInit DEF Held
  <1>3. ListInv /\ [ListNext]_listVars => ListInv' /\ [Sequences_!Operation]_(Sequences_!vars)
    BY ListStep
  <1> QED
    BY <1>1, <1>2, <1>3, PTL DEF ListSpec, ImplementsSequences, Sequences_!Spec, Held
=============================================================================
