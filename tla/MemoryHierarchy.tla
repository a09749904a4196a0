---------------------------- MODULE MemoryHierarchy ----------------------------
(***************************************************************************)
(* The path of a store from one core to persistent media, as pflush.c uses *)
(* it: cached stores, streaming stores, clflush, clflushopt / clwb and     *)
(* sfence.  External: it is the processor, not code of the repository.     *)
(*                                                                         *)
(* Instead of bytes a line holds the stamp of the last store it contains:  *)
(* stamps grow in program order, and 0 means "nothing pending here".       *)
(***************************************************************************)
EXTENDS Integers

CONSTANT Lines    \* the cache lines of the pool

VARIABLES
  media,     \* what survives a power failure
  cache,     \* dirty lines of the cache
  wcb,       \* streaming stores still in a write-combining buffer
  flushq     \* write-backs started by clflushopt or clwb, not yet finished

memoryVars == <<media, cache, wcb, flushq>>

Nothing == [l \in Lines |-> 0]

MemoryInit == media = Nothing /\ cache = Nothing /\ wcb = Nothing /\ flushq = Nothing

Newest(a, b) == IF a > b THEN a ELSE b

\* What a load of line l returns.
Visible(l) == Newest(Newest(cache[l], wcb[l]), Newest(flushq[l], media[l]))

\* A cached store of stamp v to the lines L.  A streaming store still pending
\* for one of them goes to the media first.
CachedStore(L, v) ==
  /\ media' = [l \in Lines |-> IF l \in L THEN Newest(media[l], wcb[l]) ELSE media[l]]
  /\ wcb' = [l \in Lines |-> IF l \in L THEN 0 ELSE wcb[l]]
  /\ cache' = [l \in Lines |-> IF l \in L THEN v ELSE cache[l]]
  /\ UNCHANGED flushq

\* A streaming store evicts the line from the cache and waits in a
\* write-combining buffer.
NtStore(L, v) ==
  /\ media' = [l \in Lines |-> IF l \in L
                               THEN Newest(media[l], Newest(cache[l], flushq[l]))
                               ELSE media[l]]
  /\ wcb' = [l \in Lines |-> IF l \in L THEN v ELSE wcb[l]]
  /\ cache' = [l \in Lines |-> IF l \in L THEN 0 ELSE cache[l]]
  /\ flushq' = [l \in Lines |-> IF l \in L THEN 0 ELSE flushq[l]]

\* clflushopt and clwb start the write-back of one line and return.
StartFlush(l) ==
  /\ flushq' = [flushq EXCEPT ![l] = Newest(@, cache[l])]
  /\ cache' = [cache EXCEPT ![l] = 0]
  /\ UNCHANGED <<media, wcb>>

\* clflush is ordered with the stores before and after it: it returns with the
\* line written back.
Flush(l) ==
  /\ media' = [media EXCEPT ![l] = Newest(@, Newest(flushq[l], cache[l]))]
  /\ cache' = [cache EXCEPT ![l] = 0]
  /\ flushq' = [flushq EXCEPT ![l] = 0]
  /\ UNCHANGED wcb

\* sfence retires once every streaming store and every flush is finished.
Fenced == wcb = Nothing /\ flushq = Nothing

\* What the hardware does on its own: evict a dirty line, drain a
\* write-combining buffer, finish a flush.
Evict(l) ==
  /\ cache[l] # 0 /\ flushq[l] = 0
  /\ media' = [media EXCEPT ![l] = cache[l]]
  /\ cache' = [cache EXCEPT ![l] = 0]
  /\ UNCHANGED <<wcb, flushq>>

Drain(l) ==
  /\ wcb[l] # 0
  /\ media' = [media EXCEPT ![l] = wcb[l]]
  /\ wcb' = [wcb EXCEPT ![l] = 0]
  /\ UNCHANGED <<cache, flushq>>

FinishFlush(l) ==
  /\ flushq[l] # 0
  /\ media' = [media EXCEPT ![l] = flushq[l]]
  /\ flushq' = [flushq EXCEPT ![l] = 0]
  /\ UNCHANGED <<cache, wcb>>
=============================================================================
