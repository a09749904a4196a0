----------------------------- MODULE PersistProofs -----------------------------
(***************************************************************************)
(* A synchronous write that has returned survives a power failure, for     *)
(* every pool, every block size, every target and every choice of options; *)
(* and the thread with the memory under it implements DurableStore.        *)
(***************************************************************************)
EXTENDS PersistWrite, TLAPS

\* Stores of one line reach the media in the order they were made: what is on
\* its way is newer than what is there, a streaming store is alone on its way,
\* and a dirty line is newer than a write-back of it.
InOrder(l) ==
  /\ wcb[l] # 0 => cache[l] = 0 /\ flushq[l] = 0 /\ wcb[l] >= media[l]
  /\ cache[l] # 0 => cache[l] >= media[l] /\ cache[l] >= flushq[l]
  /\ flushq[l] # 0 => flushq[l] >= media[l]

\* What the two loops have reached: the block has no store that only the cache
\* holds in front of dest, as the pieces there were streamed, nor in front of
\* ptr, as the lines there are on their way to the media.
Reached ==
  /\ pc # "idle" => base \in Targets
  /\ (pc = "stream" /\ dest > base) => \A l \in LineOf(base) .. LineOf(dest - 1) : cache[l] = 0
  /\ pc \in {"tail", "flush"} =>
       ptr % LINE = 0 /\ \A l \in LineOf(base) .. LineOf(ptr) - 1 : cache[l] = 0
  /\ (pc = "fence" /\ mode.sync) => \A l \in LineOf(base) .. LineOf(End - 1) : cache[l] = 0

PersistInv ==
  /\ TypeOK
  /\ \A l \in Lines : InOrder(l)
  /\ Reached
  /\ Durable
-------------------------------------------------------------------------------
(***************************************************************************)
(* Lines and pieces.                                                       *)
(***************************************************************************)

LEMMA LineFacts ==
  ASSUME NEW a \in Nat
  PROVE  /\ LineOf(a) \in Nat
         /\ LineStart(a) \in Nat /\ LineStart(a) % LINE = 0
         /\ LineStart(a) <= a /\ a < LineStart(a) + LINE
         /\ LineOf(LineStart(a)) = LineOf(a)
         /\ LineOf(a + LINE) = LineOf(a) + 1
  BY DEF LineOf, LineStart, LINE

LEMMA LineMono ==
  ASSUME NEW a \in Nat, NEW b \in Nat
  PROVE  /\ a <= b => LineOf(a) <= LineOf(b)
         /\ a < b => LineOf(a) <= LineOf(b - 1) /\ LineOf(b - 1) \in Nat
                     /\ LineOf(b) <= LineOf(b - 1) + 1
         /\ (b % LINE = 0 /\ a < b) => LineOf(a) < LineOf(b)
  BY DEF LineOf, LINE

\* A piece is not empty and fits; one that is no streaming store is the rest.
LEMMA PieceFacts ==
  ASSUME NEW n \in Nat \ {0}
  PROVE  /\ PieceSize(n) \in 1 .. n
         /\ ~ IsStream(PieceSize(n)) => PieceSize(n) = n /\ n < LINE
  BY DEF PieceSize, IsStream, NeedsAlignment, LINE

LEMMA NewestFacts ==
  ASSUME NEW a \in Nat, NEW b \in Nat
  PROVE  /\ Newest(a, b) \in Nat
         /\ Newest(a, b) >= a /\ Newest(a, b) >= b
         /\ Newest(a, b) = a \/ Newest(a, b) = b
  BY DEF Newest

\* The lines of a block are lines of the pool.
LEMMA BlockLines ==
  ASSUME NEW m \in Modes, NEW a \in Targets
  PROVE  /\ a \in Nat /\ m.block_size \in Nat \ {0}
         /\ LinesOf(a, m.block_size) \subseteq Lines
         /\ m.sync \in BOOLEAN
  BY PersistWriteAssumption DEF LinesOf, LineOf
-------------------------------------------------------------------------------
(***************************************************************************)
(* The memory.  Whatever it does, the media of a line never goes back, and *)
(* the order of its stores is kept.                                        *)
(***************************************************************************)

MemoryType(n) ==
  /\ media \in [Lines -> 0 .. n] /\ cache \in [Lines -> 0 .. n]
  /\ wcb \in [Lines -> 0 .. n] /\ flushq \in [Lines -> 0 .. n]

MemoryTypeNext(n) ==
  /\ media' \in [Lines -> 0 .. n] /\ cache' \in [Lines -> 0 .. n]
  /\ wcb' \in [Lines -> 0 .. n] /\ flushq' \in [Lines -> 0 .. n]

\* What a step of the memory may do to a line.
Keeps(l) == InOrder(l)' /\ media'[l] >= media[l]

\* A store of a new stamp.
LEMMA CachedStoreKeeps ==
  ASSUME NEW n \in Nat, MemoryType(n), \A l \in Lines : InOrder(l),
         NEW L \in SUBSET Lines, CachedStore(L, n + 1)
  PROVE  /\ MemoryTypeNext(n + 1)
         /\ \A l \in Lines : Keeps(l)
         /\ \A l \in Lines : l \notin L => cache'[l] = cache[l]
  <1>1. \A l \in Lines : /\ media[l] \in 0 .. n /\ cache[l] \in 0 .. n
                         /\ wcb[l] \in 0 .. n /\ flushq[l] \in 0 .. n
    BY DEF MemoryType, MemoryTypeNext
  <1>2. \A l \in Lines :
          /\ media'[l] = IF l \in L THEN Newest(media[l], wcb[l]) ELSE media[l]
          /\ wcb'[l] = IF l \in L THEN 0 ELSE wcb[l]
          /\ cache'[l] = IF l \in L THEN n + 1 ELSE cache[l]
          /\ flushq'[l] = flushq[l]
    BY DEF CachedStore
  <1>3. MemoryTypeNext(n + 1)
    <2>1. \A l \in Lines : /\ media'[l] \in 0 .. n + 1 /\ cache'[l] \in 0 .. n + 1
                           /\ wcb'[l] \in 0 .. n + 1
      BY <1>1, <1>2 DEF Newest
    <2>2. flushq' \in [Lines -> 0 .. n + 1]
      BY DEF CachedStore, MemoryType, MemoryTypeNext
    <2> QED
      BY <2>1, <2>2 DEF CachedStore, MemoryType, MemoryTypeNext
  <1>4. ASSUME NEW l \in Lines PROVE Keeps(l)
    BY <1>1, <1>2 DEF Keeps, InOrder, Newest
  <1> QED
    BY <1>2, <1>3, <1>4

LEMMA NtStoreKeeps ==
  ASSUME NEW n \in Nat, MemoryType(n), \A l \in Lines : InOrder(l),
         NEW L \in SUBSET Lines, NtStore(L, n + 1)
  PROVE  /\ MemoryTypeNext(n + 1)
         /\ \A l \in Lines : Keeps(l)
         /\ \A l \in Lines : cache'[l] = IF l \in L THEN 0 ELSE cache[l]
  <1>1. \A l \in Lines : /\ media[l] \in 0 .. n /\ cache[l] \in 0 .. n
                         /\ wcb[l] \in 0 .. n /\ flushq[l] \in 0 .. n
    BY DEF MemoryType, MemoryTypeNext
  <1>2. \A l \in Lines :
          /\ media'[l] = IF l \in L THEN Newest(media[l], Newest(cache[l], flushq[l]))
                         ELSE media[l]
          /\ wcb'[l] = IF l \in L THEN n + 1 ELSE wcb[l]
          /\ cache'[l] = IF l \in L THEN 0 ELSE cache[l]
          /\ flushq'[l] = IF l \in L THEN 0 ELSE flushq[l]
    BY DEF NtStore
  <1>3. MemoryTypeNext(n + 1)
    <2>1. \A l \in Lines : /\ media'[l] \in 0 .. n + 1 /\ cache'[l] \in 0 .. n + 1
                           /\ wcb'[l] \in 0 .. n + 1 /\ flushq'[l] \in 0 .. n + 1
      BY <1>1, <1>2 DEF Newest
    <2> QED
      BY <2>1 DEF NtStore, MemoryType, MemoryTypeNext
  <1>4. ASSUME NEW l \in Lines PROVE Keeps(l)
    BY <1>1, <1>2 DEF Keeps, InOrder, Newest
  <1> QED
    BY <1>2, <1>3, <1>4

\* What reads and writes back: a flush of line a, by either instruction.
LEMMA FlushKeeps ==
  ASSUME NEW n \in Nat, MemoryType(n), \A l \in Lines : InOrder(l),
         NEW a, StartFlush(a) \/ Flush(a)
  PROVE  /\ MemoryTypeNext(n)
         /\ \A l \in Lines : Keeps(l)
         /\ \A l \in Lines : cache'[l] = IF l = a THEN 0 ELSE cache[l]
  <1>1. \A l \in Lines : /\ media[l] \in 0 .. n /\ cache[l] \in 0 .. n
                         /\ wcb[l] \in 0 .. n /\ flushq[l] \in 0 .. n
    BY DEF MemoryType, MemoryTypeNext
  <1>2. \A l \in Lines : cache'[l] = IF l = a THEN 0 ELSE cache[l]
    BY DEF StartFlush, Flush, MemoryType, MemoryTypeNext
  <1>3. CASE StartFlush(a)
    <2>1. \A l \in Lines :
            /\ flushq'[l] = IF l = a THEN Newest(flushq[l], cache[l]) ELSE flushq[l]
            /\ media'[l] = media[l] /\ wcb'[l] = wcb[l]
      BY <1>3 DEF StartFlush, MemoryType, MemoryTypeNext
    <2>2. MemoryTypeNext(n)
      <3>1. \A l \in Lines : cache'[l] \in 0 .. n /\ flushq'[l] \in 0 .. n
        BY <1>1, <1>2, <2>1 DEF Newest
      <3>2. cache' \in [Lines -> 0 .. n] /\ flushq' \in [Lines -> 0 .. n]
        BY <1>3, <3>1 DEF StartFlush, MemoryType, MemoryTypeNext
      <3> QED
        BY <1>3, <3>2 DEF StartFlush, MemoryType, MemoryTypeNext
    <2>3. ASSUME NEW l \in Lines PROVE Keeps(l)
      BY <1>1, <1>2, <2>1 DEF Keeps, InOrder, Newest
    <2> QED
      BY <1>2, <2>2, <2>3
  <1>4. CASE Flush(a)
    <2>1. \A l \in Lines :
            /\ media'[l] = IF l = a THEN Newest(media[l], Newest(flushq[l], cache[l]))
                           ELSE media[l]
            /\ flushq'[l] = IF l = a THEN 0 ELSE flushq[l]
            /\ wcb'[l] = wcb[l]
      BY <1>4 DEF Flush, MemoryType, MemoryTypeNext
    <2>2. MemoryTypeNext(n)
      <3>1. \A l \in Lines : /\ cache'[l] \in 0 .. n /\ flushq'[l] \in 0 .. n
                             /\ media'[l] \in 0 .. n
        BY <1>1, <1>2, <2>1 DEF Newest
      <3>2. /\ cache' \in [Lines -> 0 .. n] /\ flushq' \in [Lines -> 0 .. n]
            /\ media' \in [Lines -> 0 .. n]
        BY <1>4, <3>1 DEF Flush, MemoryType, MemoryTypeNext
      <3> QED
        BY <1>4, <3>2 DEF Flush, MemoryType, MemoryTypeNext
    <2>3. ASSUME NEW l \in Lines PROVE Keeps(l)
      BY <1>1, <1>2, <2>1 DEF Keeps, InOrder, Newest
    <2> QED
      BY <1>2, <2>2, <2>3
  <1> QED
    BY <1>3, <1>4

\* What the hardware does on its own.
LEMMA HardwareKeeps ==
  ASSUME NEW n \in Nat, MemoryType(n), \A l \in Lines : InOrder(l),
         NEW a \in Lines, Evict(a) \/ Drain(a) \/ FinishFlush(a)
  PROVE  /\ MemoryTypeNext(n)
         /\ \A l \in Lines : Keeps(l)
         /\ \A l \in Lines : cache[l] = 0 => cache'[l] = 0
  <1>1. \A l \in Lines : /\ media[l] \in 0 .. n /\ cache[l] \in 0 .. n
                         /\ wcb[l] \in 0 .. n /\ flushq[l] \in 0 .. n
    BY DEF MemoryType, MemoryTypeNext
  <1>2. CASE Evict(a)
    <2>1. \A l \in Lines : /\ media'[l] = IF l = a THEN cache[l] ELSE media[l]
                           /\ cache'[l] = IF l = a THEN 0 ELSE cache[l]
                           /\ wcb'[l] = wcb[l] /\ flushq'[l] = flushq[l]
      BY <1>2 DEF Evict, MemoryType, MemoryTypeNext
    <2>2. MemoryTypeNext(n)
      BY <1>1, <1>2 DEF Evict, MemoryType, MemoryTypeNext
    <2>3. ASSUME NEW l \in Lines PROVE Keeps(l)
      BY <1>1, <1>2, <2>1 DEF Keeps, InOrder, Evict
    <2> QED
      BY <2>1, <2>2, <2>3
  <1>3. CASE Drain(a)
    <2>1. \A l \in Lines : /\ media'[l] = IF l = a THEN wcb[l] ELSE media[l]
                           /\ wcb'[l] = IF l = a THEN 0 ELSE wcb[l]
                           /\ cache'[l] = cache[l] /\ flushq'[l] = flushq[l]
      BY <1>3 DEF Drain, MemoryType, MemoryTypeNext
    <2>2. MemoryTypeNext(n)
      BY <1>1, <1>3 DEF Drain, MemoryType, MemoryTypeNext
    <2>3. ASSUME NEW l \in Lines PROVE Keeps(l)
      BY <1>1, <1>3, <2>1 DEF Keeps, InOrder, Drain
    <2> QED
      BY <2>1, <2>2, <2>3
  <1>4. CASE FinishFlush(a)
    <2>1. \A l \in Lines : /\ media'[l] = IF l = a THEN flushq[l] ELSE media[l]
                           /\ flushq'[l] = IF l = a THEN 0 ELSE flushq[l]
                           /\ cache'[l] = cache[l] /\ wcb'[l] = wcb[l]
      BY <1>4 DEF FinishFlush, MemoryType, MemoryTypeNext
    <2>2. MemoryTypeNext(n)
      BY <1>1, <1>4 DEF FinishFlush, MemoryType, MemoryTypeNext
    <2>3. ASSUME NEW l \in Lines PROVE Keeps(l)
      BY <1>1, <1>4, <2>1 DEF Keeps, InOrder, FinishFlush
    <2> QED
      BY <2>1, <2>2, <2>3
  <1> QED
    BY <1>2, <1>3, <1>4
-------------------------------------------------------------------------------
(***************************************************************************)
(* The thread.                                                             *)
(***************************************************************************)

ThreadType ==
  /\ mode \in Modes /\ pc \in PCs
  /\ stamp \in Nat /\ ops \in 0 .. MAX_OPS
  /\ base \in Nat /\ dest \in Nat /\ ptr \in Nat
  /\ pc \in {"stream", "tail", "memcpy", "flush"} => dest \in base .. End
  /\ pc \in {"tail", "flush"} => ptr < End + LINE

LEMMA TypeParts ==
  TypeOK <=> ThreadType /\ MemoryType(stamp) /\ acked \in [Lines -> 0 .. stamp]
  BY DEF TypeOK, ThreadType, MemoryType, MemoryTypeNext

\* The block of the operation under way.
LEMMA BlockFacts ==
  ASSUME PersistInv, pc # "idle"
  PROVE  /\ base \in Targets /\ mode \in Modes /\ base \in Nat
         /\ mode.block_size \in Nat \ {0} /\ mode.sync \in BOOLEAN
         /\ End = base + mode.block_size /\ End \in Nat /\ base < End
         /\ \A a \in Nat, n \in Nat \ {0} :
              (base <= a /\ a + n <= End) => LinesOf(a, n) \subseteq Lines
  <1>1. base \in Targets /\ mode \in Modes
    BY DEF PersistInv, Reached, TypeOK
  <1>2. /\ base \in Nat /\ mode.block_size \in Nat \ {0} /\ mode.sync \in BOOLEAN
        /\ LinesOf(base, mode.block_size) \subseteq Lines
    BY <1>1, BlockLines
  <1>3. End = base + mode.block_size /\ End \in Nat /\ base < End
    BY <1>2 DEF End
  <1>4. ASSUME NEW a \in Nat, NEW n \in Nat \ {0}, base <= a, a + n <= End
        PROVE  LinesOf(a, n) \subseteq Lines
    <2>1. LineOf(base) <= LineOf(a) /\ LineOf(a + n - 1) <= LineOf(End - 1)
      BY <1>2, <1>3, <1>4, LineMono
    <2>2. /\ LineOf(base) \in Int /\ LineOf(a) \in Int
          /\ LineOf(a + n - 1) \in Int /\ LineOf(End - 1) \in Int
      BY <1>2, <1>3, <1>4 DEF LineOf, LINE
    <2>3. LinesOf(a, n) \subseteq LinesOf(base, mode.block_size)
      BY <1>2, <1>3, <2>1, <2>2 DEF LinesOf
    <2> QED
      BY <1>2, <2>3
  <1> QED
    BY <1>1, <1>2, <1>3, <1>4

\* The memory at rest.
LEMMA MemoryStays ==
  ASSUME PersistInv, UNCHANGED memoryVars
  PROVE  /\ MemoryTypeNext(stamp)
         /\ \A l \in Lines : Keeps(l)
         /\ \A l \in Lines : cache'[l] = cache[l]
  <1>1. UNCHANGED <<media, cache, wcb, flushq>>
    BY DEF memoryVars
  <1>2. \A l \in Lines : media[l] \in 0 .. stamp
    BY DEF PersistInv, TypeOK
  <1>3. \A l \in Lines : Keeps(l)
    BY <1>1, <1>2 DEF Keeps, InOrder, PersistInv
  <1>4. MemoryTypeNext(stamp)
    BY <1>1 DEF PersistInv, TypeOK, MemoryType, MemoryTypeNext
  <1> QED
    BY <1>1, <1>3, <1>4

\* A step that lets no line go back and promises nothing new.
LEMMA StepKeeps ==
  ASSUME PersistInv, ThreadType', MemoryTypeNext(stamp'), stamp <= stamp',
         \A l \in Lines : Keeps(l), acked' = acked, Reached'
  PROVE  PersistInv'
  <1>1. stamp \in Nat /\ stamp' \in Nat
    BY DEF PersistInv, TypeOK, ThreadType
  <1>2. acked' \in [Lines -> 0 .. stamp']
    BY <1>1 DEF PersistInv, TypeOK
  <1>3. TypeOK'
    BY <1>2 DEF TypeOK, ThreadType, MemoryTypeNext
  <1>4. ASSUME NEW l \in Lines PROVE media'[l] >= acked'[l]
    <2>1. media[l] \in Nat /\ acked[l] \in Nat /\ media'[l] \in Nat
      BY <1>1, <1>3 DEF PersistInv, TypeOK
    <2>2. media'[l] >= media[l] /\ media[l] >= acked[l]
      BY DEF Keeps, PersistInv, Durable
    <2> QED
      BY <2>1, <2>2
  <1>5. \A l \in Lines : InOrder(l)'
    BY DEF Keeps
  <1> QED
    BY <1>3, <1>4, <1>5 DEF PersistInv, Durable

LEMMA PersistInvInit ==
  ASSUME Init
  PROVE  PersistInv
  <1>1. /\ media = Nothing /\ cache = Nothing /\ wcb = Nothing /\ flushq = Nothing
        /\ acked = Nothing /\ pc = "idle" /\ stamp = 0
    BY DEF Init, MemoryInit
  <1>2. Nothing \in [Lines -> 0 .. 0] /\ \A l \in Lines : Nothing[l] = 0
    BY DEF Nothing
  <1>3. TypeOK
    BY <1>1, <1>2, PersistWriteAssumption DEF Init, TypeOK, PCs
  <1>4. (\A l \in Lines : InOrder(l)) /\ Durable
    BY <1>1, <1>2 DEF InOrder, Durable
  <1> QED
    BY <1>1, <1>3, <1>4 DEF PersistInv, Reached

LEMMA BeginStep ==
  ASSUME PersistInv, NEW a \in Targets, Begin(a)
  PROVE  PersistInv'
  <1>1. /\ pc = "idle" /\ ops < MAX_OPS
        /\ base' = a /\ dest' = a /\ ops' = ops + 1
        /\ pc' \in {"stream", "memcpy"}
        /\ UNCHANGED memoryVars /\ UNCHANGED <<mode, ptr, stamp, acked>>
    BY DEF Begin
  <1>2. MemoryTypeNext(stamp') /\ \A l \in Lines : Keeps(l)
    BY <1>1, MemoryStays
  <1>3. mode' \in Modes /\ a \in Nat /\ mode'.block_size \in Nat \ {0}
    BY <1>1, BlockLines DEF PersistInv, TypeOK
  <1>4. ThreadType'
    BY <1>1, <1>3, PersistWriteAssumption DEF PersistInv, TypeOK, ThreadType, PCs, End
  <1>5. Reached'
    BY <1>1, <1>3 DEF Reached
  <1>6. stamp <= stamp' /\ acked' = acked
    BY <1>1 DEF PersistInv, TypeOK
  <1> QED
    BY <1>2, <1>4, <1>5, <1>6, StepKeeps

LEMMA StreamPieceStep ==
  ASSUME PersistInv, StreamPiece
  PROVE  PersistInv'
  <1> DEFINE n == PieceSize(End - dest)
  <1>1. /\ pc = "stream" /\ dest < End
        /\ NtStore(LinesOf(dest, n), stamp + 1)
        /\ stamp' = stamp + 1 /\ dest' = dest + n
        /\ UNCHANGED <<mode, pc, base, ptr, ops, acked>>
    BY DEF StreamPiece
  <1>2. /\ base \in Nat /\ End \in Nat /\ base <= dest /\ dest \in Nat
        /\ \A x \in Nat, m \in Nat \ {0} : (base <= x /\ x + m <= End) => LinesOf(x, m) \subseteq Lines
    BY <1>1, BlockFacts DEF PersistInv, TypeOK
  <1>3. n \in 1 .. End - dest
    BY <1>1, <1>2, PieceFacts
  <1>4. LinesOf(dest, n) \in SUBSET Lines
    BY <1>2, <1>3
  <1>5. stamp \in Nat /\ MemoryType(stamp) /\ \A l \in Lines : InOrder(l)
    BY DEF PersistInv, TypeOK, MemoryType, MemoryTypeNext
  <1> HIDE DEF n
  <1>6. /\ MemoryTypeNext(stamp + 1)
        /\ \A l \in Lines : Keeps(l)
        /\ \A l \in Lines : cache'[l] = IF l \in LinesOf(dest, n) THEN 0 ELSE cache[l]
    BY <1>1, <1>4, <1>5, NtStoreKeeps
  <1>7. End' = End
    BY <1>1 DEF End
  <1>8. ThreadType'
    BY <1>1, <1>2, <1>3, <1>5, <1>7 DEF PersistInv, TypeOK, ThreadType, PCs
  <1>9. ASSUME NEW l \in LineOf(base) .. LineOf(dest + n - 1) PROVE cache'[l] = 0
    <2>1. LineOf(base) \in Nat /\ LineOf(dest) \in Nat /\ LineOf(dest + n - 1) \in Nat
      BY <1>2, <1>3, LineFacts
    <2>2. l \in Lines
      <3>1. l \in LinesOf(base, dest + n - base)
        BY <1>2, <1>3, <2>1 DEF LinesOf
      <3> QED
        BY <3>1, <1>2, <1>3
    <2>3. CASE l >= LineOf(dest)
      BY <1>6, <2>1, <2>2, <2>3 DEF LinesOf
    <2>4. CASE l < LineOf(dest)
      <3>1. base < dest
        BY <1>2, <2>1, <2>4
      <3>2. LineOf(dest) <= LineOf(dest - 1) + 1 /\ LineOf(dest - 1) \in Nat
        BY <1>2, <3>1, LineMono
      <3>3. cache[l] = 0
        BY <1>1, <2>1, <2>4, <3>1, <3>2 DEF PersistInv, Reached
      <3> QED
        BY <1>6, <2>2, <3>3
    <2> QED
      BY <2>1, <2>3, <2>4
  <1>10. Reached'
    <2>1. base' \in Targets /\ pc' = "stream"
      BY <1>1 DEF PersistInv, Reached
    <2>2. \A l \in LineOf(base') .. LineOf(dest' - 1) : cache'[l] = 0
      <3>1. LineOf(base') = LineOf(base) /\ LineOf(dest' - 1) = LineOf(dest + n - 1)
        BY <1>1, <1>2, <1>3
      <3> QED
        BY <1>9, <3>1
    <2> QED
      BY <2>1, <2>2 DEF Reached
  <1>11. stamp <= stamp' /\ acked' = acked /\ MemoryTypeNext(stamp')
    BY <1>1, <1>5, <1>6
  <1> QED
    BY <1>6, <1>8, <1>10, <1>11, StepKeeps

LEMMA StreamTrapStep ==
  ASSUME PersistInv, StreamTrap
  PROVE  PersistInv'
  <1>1. /\ pc = "stream" /\ pc' = "trap"
        /\ UNCHANGED memoryVars /\ UNCHANGED <<mode, base, dest, ptr, stamp, ops, acked>>
    BY DEF StreamTrap
  <1>2. MemoryTypeNext(stamp') /\ \A l \in Lines : Keeps(l)
    BY <1>1, MemoryStays
  <1>3. ThreadType' /\ stamp <= stamp'
    BY <1>1 DEF PersistInv, TypeOK, ThreadType, PCs
  <1>4. Reached'
    BY <1>1 DEF PersistInv, Reached
  <1> QED
    BY <1>1, <1>2, <1>3, <1>4, StepKeeps

LEMMA SmallTailStep ==
  ASSUME PersistInv, SmallTail
  PROVE  PersistInv'
  <1> DEFINE n == PieceSize(End - dest)
  <1>1. /\ pc = "stream" /\ dest < End
        /\ CachedStore(LinesOf(dest, n), stamp + 1)
        /\ stamp' = stamp + 1 /\ ptr' = LineStart(dest) /\ pc' = "tail"
        /\ UNCHANGED <<mode, base, dest, ops, acked>>
    BY DEF SmallTail
  <1>2. /\ base \in Nat /\ End \in Nat /\ base <= dest /\ dest \in Nat
        /\ \A x \in Nat, m \in Nat \ {0} : (base <= x /\ x + m <= End) => LinesOf(x, m) \subseteq Lines
    BY <1>1, BlockFacts DEF PersistInv, TypeOK
  <1>3. n \in 1 .. End - dest
    BY <1>1, <1>2, PieceFacts
  <1>4. LinesOf(dest, n) \in SUBSET Lines
    BY <1>2, <1>3
  <1>5. stamp \in Nat /\ MemoryType(stamp) /\ \A l \in Lines : InOrder(l)
    BY DEF PersistInv, TypeOK, MemoryType
  <1> HIDE DEF n
  <1>6. /\ MemoryTypeNext(stamp + 1)
        /\ \A l \in Lines : Keeps(l)
        /\ \A l \in Lines : l \notin LinesOf(dest, n) => cache'[l] = cache[l]
    BY <1>1, <1>4, <1>5, CachedStoreKeeps
  <1>7. End' = End
    BY <1>1 DEF End
  <1>8. /\ ptr' \in Nat /\ ptr' % LINE = 0 /\ ptr' <= dest
        /\ LineOf(ptr') = LineOf(dest) /\ LineOf(dest) \in Nat /\ LineOf(base) \in Nat
    BY <1>1, <1>2, LineFacts
  <1>9. ptr' < End + LINE
    BY <1>1, <1>2, <1>8 DEF LINE
  <1>10. ThreadType'
    BY <1>1, <1>5, <1>7, <1>8, <1>9 DEF PersistInv, TypeOK, ThreadType, PCs
  <1>11. ASSUME NEW l \in LineOf(base) .. LineOf(dest) - 1 PROVE cache'[l] = 0
    <2>1. base < dest
      BY <1>2, <1>8, <1>11
    <2>2. LineOf(dest) <= LineOf(dest - 1) + 1 /\ LineOf(dest - 1) \in Nat
      BY <1>2, <2>1, LineMono
    <2>3. cache[l] = 0
      BY <1>1, <1>8, <2>1, <2>2 DEF PersistInv, Reached
    <2>4. l \in LinesOf(base, dest - base)
      BY <1>2, <1>8, <2>1, <2>2 DEF LinesOf
    <2>5. l \in Lines
      BY <1>1, <1>2, <2>1, <2>4
    <2>6. l \notin LinesOf(dest, n)
      BY <1>8 DEF LinesOf
    <2> QED
      BY <1>6, <2>3, <2>5, <2>6
  <1>12. Reached'
    <2>1. base' \in Targets
      BY <1>1 DEF PersistInv, Reached
    <2>2. \A l \in LineOf(base') .. LineOf(ptr') - 1 : cache'[l] = 0
      <3>1. LineOf(base') = LineOf(base)
        BY <1>1, <1>2
      <3> QED
        BY <1>8, <1>11, <3>1
    <2> QED
      BY <1>1, <1>8, <2>1, <2>2 DEF Reached
  <1>13. stamp <= stamp' /\ acked' = acked /\ MemoryTypeNext(stamp')
    BY <1>1, <1>5, <1>6
  <1> QED
    BY <1>6, <1>10, <1>12, <1>13, StepKeeps

\* One turn of either flush loop.
LEMMA FlushLoopStep ==
  ASSUME PersistInv, pc \in {"tail", "flush"}, ptr < End,
         StartFlush(LineOf(ptr)) \/ Flush(LineOf(ptr)), ptr' = ptr + LINE,
         UNCHANGED <<mode, pc, base, dest, stamp, ops, acked>>
  PROVE  PersistInv'
  <1>1. base \in Nat /\ End \in Nat /\ ptr \in Nat /\ stamp \in Nat
    BY BlockFacts DEF PersistInv, TypeOK
  <1>2. MemoryType(stamp) /\ \A l \in Lines : InOrder(l)
    BY DEF PersistInv, TypeOK, MemoryType
  <1>3. /\ MemoryTypeNext(stamp)
        /\ \A l \in Lines : Keeps(l)
        /\ \A l \in Lines : cache'[l] = IF l = LineOf(ptr) THEN 0 ELSE cache[l]
    BY <1>1, <1>2, FlushKeeps
  <1>4. End' = End
    BY DEF End
  <1>5. ThreadType'
    BY <1>1, <1>4 DEF PersistInv, TypeOK, ThreadType, LINE
  <1>6. /\ ptr' % LINE = 0 /\ LineOf(ptr') = LineOf(ptr) + 1
        /\ LineOf(ptr) \in Nat /\ LineOf(base) \in Nat
    <2>1. ptr % LINE = 0
      BY DEF PersistInv, Reached
    <2> QED
      <3>1. ptr' % LINE = 0
        BY <1>1, <2>1 DEF LINE
      <3> QED
        BY <1>1, <3>1, LineFacts
  <1>7. ASSUME NEW l \in LineOf(base) .. LineOf(ptr) PROVE cache'[l] = 0
    <2>1. LineOf(ptr) <= LineOf(End - 1) /\ LineOf(End - 1) \in Nat
      BY <1>1, LineMono
    <2>2. l \in LinesOf(base, End - base)
      BY <1>1, <1>6, <2>1 DEF LinesOf
    <2>3. l \in Lines
      BY <1>1, <2>2, BlockFacts
    <2>4. l # LineOf(ptr) => cache[l] = 0
      BY <1>6 DEF PersistInv, Reached
    <2> QED
      BY <1>3, <2>3, <2>4
  <1>8. Reached'
    <2>1. base' \in Targets
      BY DEF PersistInv, Reached
    <2>2. \A l \in LineOf(base') .. LineOf(ptr') - 1 : cache'[l] = 0
      <3>1. LineOf(base') = LineOf(base)
        BY <1>1
      <3> QED
        BY <1>6, <1>7, <3>1
    <2> QED
      BY <1>6, <2>1, <2>2 DEF Reached
  <1>9. stamp <= stamp' /\ acked' = acked /\ MemoryTypeNext(stamp')
    BY <1>1, <1>3
  <1> QED
    BY <1>3, <1>5, <1>8, <1>9, StepKeeps

\* A loop that is done has flushed the last line of the block.
LEMMA LoopDone ==
  ASSUME PersistInv, pc \in {"tail", "flush"}, ptr >= End
  PROVE  \A l \in LineOf(base) .. LineOf(End - 1) : cache[l] = 0
  <1>1. base \in Nat /\ End \in Nat \ {0} /\ ptr \in Nat
    BY BlockFacts DEF PersistInv, TypeOK
  <1>2. ptr % LINE = 0
    BY DEF PersistInv, Reached
  <1>3. LineOf(End - 1) < LineOf(ptr)
    BY <1>1, <1>2, LineMono
  <1>4. LineOf(End - 1) \in Nat /\ LineOf(ptr) \in Nat /\ LineOf(base) \in Nat
    BY <1>1, LineFacts
  <1>5. \A l \in LineOf(base) .. LineOf(ptr) - 1 : cache[l] = 0
    BY DEF PersistInv, Reached
  <1> QED
    BY <1>3, <1>4, <1>5

\* All stores and flushes issued.
LEMMA ToFence ==
  ASSUME PersistInv, pc # "idle",
         \A l \in LineOf(base) .. LineOf(End - 1) : cache[l] = 0,
         pc' = "fence", UNCHANGED memoryVars,
         UNCHANGED <<mode, base, dest, ptr, stamp, ops, acked>>
  PROVE  PersistInv'
  <1>1. MemoryTypeNext(stamp') /\ (\A l \in Lines : Keeps(l)) /\ cache' = cache
    BY MemoryStays DEF memoryVars
  <1>2. ThreadType' /\ stamp <= stamp'
    BY DEF PersistInv, TypeOK, ThreadType, PCs
  <1>3. base \in Nat /\ End \in Nat /\ base \in Targets /\ End' = End
    BY BlockFacts DEF End
  <1>4. LineOf(base') = LineOf(base) /\ LineOf(End' - 1) = LineOf(End - 1)
    BY <1>3
  <1>5. \A l \in LineOf(base') .. LineOf(End' - 1) : cache'[l] = 0
    BY <1>1, <1>4
  <1>6. Reached'
    BY <1>3, <1>5 DEF Reached
  <1> QED
    BY <1>1, <1>2, <1>6, StepKeeps

LEMMA StreamedStep ==
  ASSUME PersistInv, Streamed
  PROVE  PersistInv'
  <1>1. /\ pc' = "fence" /\ UNCHANGED memoryVars
        /\ UNCHANGED <<mode, base, dest, ptr, stamp, ops, acked>>
    BY DEF Streamed
  <1>2. CASE pc = "stream" /\ dest = End
    <2>1. base < End /\ base \in Nat /\ End \in Nat
      BY <1>2, BlockFacts
    <2>2. \A l \in LineOf(base) .. LineOf(End - 1) : cache[l] = 0
      BY <1>2, <2>1 DEF PersistInv, Reached
    <2> QED
      BY <1>1, <1>2, <2>2, ToFence
  <1>3. CASE pc = "tail" /\ ptr >= End
    <2>1. \A l \in LineOf(base) .. LineOf(End - 1) : cache[l] = 0
      BY <1>3, LoopDone
    <2> QED
      BY <1>1, <1>3, <2>1, ToFence
  <1> QED
    BY <1>2, <1>3 DEF Streamed

LEMMA PersistedStep ==
  ASSUME PersistInv, Persisted
  PROVE  PersistInv'
  <1>1. /\ pc = "flush" /\ ptr >= End /\ pc' = "fence" /\ UNCHANGED memoryVars
        /\ UNCHANGED <<mode, base, dest, ptr, stamp, ops, acked>>
    BY DEF Persisted
  <1>2. \A l \in LineOf(base) .. LineOf(End - 1) : cache[l] = 0
    BY <1>1, LoopDone
  <1> QED
    BY <1>1, <1>2, ToFence

LEMMA MemcpyStep ==
  ASSUME PersistInv, Memcpy
  PROVE  PersistInv'
  <1> DEFINE L == LinesOf(base, mode.block_size)
  <1>1. /\ pc = "memcpy" /\ CachedStore(L, stamp + 1)
        /\ stamp' = stamp + 1 /\ ptr' = LineStart(base)
        /\ pc' = IF mode.sync THEN "flush" ELSE "fence"
        /\ UNCHANGED <<mode, base, dest, ops, acked>>
    BY DEF Memcpy
  <1>2. base \in Targets /\ base \in Nat /\ End \in Nat /\ base < End /\ mode.sync \in BOOLEAN
    BY <1>1, BlockFacts
  <1>3. L \in SUBSET Lines
    BY <1>1, <1>2, BlockLines, BlockFacts
  <1>4. stamp \in Nat /\ MemoryType(stamp) /\ \A l \in Lines : InOrder(l)
    BY DEF PersistInv, TypeOK, MemoryType
  <1> HIDE DEF L
  <1>5. MemoryTypeNext(stamp + 1) /\ \A l \in Lines : Keeps(l)
    BY <1>1, <1>3, <1>4, CachedStoreKeeps
  <1>6. End' = End
    BY <1>1 DEF End
  <1>7. /\ ptr' \in Nat /\ ptr' % LINE = 0 /\ ptr' <= base
        /\ LineOf(ptr') = LineOf(base) /\ LineOf(base) \in Nat
    BY <1>1, <1>2, LineFacts
  <1>8. ptr' < End + LINE
    BY <1>2, <1>7 DEF LINE
  <1>9. ThreadType'
    BY <1>1, <1>4, <1>6, <1>7, <1>8 DEF PersistInv, TypeOK, ThreadType, PCs
  <1>10. \A l \in LineOf(base') .. LineOf(ptr') - 1 : cache'[l] = 0
    <2>1. LineOf(base') = LineOf(base)
      BY <1>1, <1>2
    <2> QED
      BY <1>7, <2>1
  <1>11. Reached'
    BY <1>1, <1>2, <1>7, <1>10 DEF Reached
  <1>12. stamp <= stamp' /\ acked' = acked /\ MemoryTypeNext(stamp')
    BY <1>1, <1>4, <1>5
  <1> QED
    BY <1>5, <1>9, <1>11, <1>12, StepKeeps

LEMMA PersistLineStep ==
  ASSUME PersistInv, PersistLine
  PROVE  PersistInv'
  BY FlushLoopStep DEF PersistLine

LEMMA FlushTailStep ==
  ASSUME PersistInv, FlushTail
  PROVE  PersistInv'
  BY FlushLoopStep DEF FlushTail

\* What a returning write vouches for is on the media of every line.
LEMMA ReturnVouches ==
  ASSUME PersistInv, Return
  PROVE  \A l \in Lines : acked'[l] \in acked[l] .. media[l]
  <1>1. /\ pc = "fence" /\ (mode.sync => Fenced)
        /\ acked' = IF mode.sync
                    THEN [l \in Lines |-> IF l \in LinesOf(base, mode.block_size)
                                          THEN Visible(l) ELSE acked[l]]
                    ELSE acked
    BY DEF Return
  <1>2. /\ base \in Nat /\ mode.block_size \in Nat \ {0}
        /\ End = base + mode.block_size /\ mode.sync \in BOOLEAN
    BY <1>1, BlockFacts
  <1> SUFFICES ASSUME NEW l \in Lines PROVE acked'[l] \in acked[l] .. media[l]
    OBVIOUS
  <1>3. acked[l] \in Nat /\ media[l] \in Nat /\ media[l] >= acked[l]
    BY DEF PersistInv, TypeOK, Durable
  <1>4. CASE mode.sync /\ l \in LinesOf(base, mode.block_size)
    <2>1. cache[l] = 0
      <3>1. l \in LineOf(base) .. LineOf(End - 1)
        BY <1>2, <1>4 DEF LinesOf
      <3> QED
        BY <1>1, <1>4, <3>1 DEF PersistInv, Reached
    <2>2. wcb[l] = 0 /\ flushq[l] = 0
      BY <1>1, <1>4 DEF Fenced, Nothing
    <2>3. Visible(l) = media[l]
      BY <1>3, <2>1, <2>2 DEF Visible, Newest
    <2>4. acked'[l] = media[l]
      BY <1>1, <1>4, <2>3
    <2> QED
      BY <1>3, <2>4
  <1>5. CASE ~ (mode.sync /\ l \in LinesOf(base, mode.block_size))
    <2>1. acked'[l] = acked[l]
      BY <1>1, <1>2, <1>5
    <2> QED
      BY <1>3, <2>1
  <1> QED
    BY <1>4, <1>5

LEMMA ReturnStep ==
  ASSUME PersistInv, Return
  PROVE  PersistInv'
  <1>1. /\ pc' = "idle" /\ UNCHANGED <<media, cache, wcb, flushq>>
        /\ UNCHANGED <<mode, base, dest, ptr, stamp, ops>>
    BY DEF Return, memoryVars
  <1>2. \A l \in Lines : acked'[l] \in acked[l] .. media[l]
    BY ReturnVouches
  <1>3. \A l \in Lines : media[l] \in 0 .. stamp /\ acked[l] \in 0 .. stamp
    BY DEF PersistInv, TypeOK
  <1>4. stamp \in Nat
    BY DEF PersistInv, TypeOK
  <1>5. acked' \in [Lines -> 0 .. stamp]
    <2>1. \A l \in Lines : acked'[l] \in 0 .. stamp
      BY <1>2, <1>3, <1>4
    <2> QED
      BY <2>1 DEF Return, PersistInv, TypeOK
  <1>6. TypeOK'
    BY <1>1, <1>5 DEF PersistInv, TypeOK, PCs
  <1>7. Durable'
    BY <1>1, <1>2, <1>3, <1>4 DEF Durable
  <1>8. \A l \in Lines : InOrder(l)'
    BY <1>1 DEF PersistInv, InOrder
  <1>9. Reached'
    BY <1>1 DEF Reached
  <1> QED
    BY <1>6, <1>7, <1>8, <1>9 DEF PersistInv

LEMMA HardwareStep ==
  ASSUME PersistInv, NEW a \in Lines, Hardware(a)
  PROVE  PersistInv'
  <1>1. /\ Evict(a) \/ Drain(a) \/ FinishFlush(a)
        /\ UNCHANGED <<mode, pc, base, dest, ptr, stamp, ops, acked>>
    BY DEF Hardware, threadVars
  <1>2. stamp \in Nat /\ MemoryType(stamp) /\ \A l \in Lines : InOrder(l)
    BY DEF PersistInv, TypeOK, MemoryType
  <1>3. /\ MemoryTypeNext(stamp) /\ \A l \in Lines : Keeps(l)
        /\ \A l \in Lines : cache[l] = 0 => cache'[l] = 0
    BY <1>1, <1>2, HardwareKeeps
  <1>4. ThreadType' /\ stamp <= stamp' /\ End' = End
    BY <1>1 DEF PersistInv, TypeOK, ThreadType, End
  <1>5. CASE pc = "idle"
    <2>1. Reached'
      BY <1>1, <1>5 DEF Reached
    <2> QED
      BY <1>1, <1>3, <1>4, <2>1, StepKeeps
  <1>6. CASE pc # "idle"
    <2>1. base \in Nat /\ End \in Nat /\ base < End /\ base \in Targets
      BY <1>6, BlockFacts
    <2>2. /\ LineOf(base) \in Nat /\ LineOf(End - 1) \in Nat
          /\ LineOf(base) .. LineOf(End - 1) \subseteq Lines
      <3>1. LinesOf(base, End - base) \subseteq Lines
        BY <1>6, <2>1, BlockFacts
      <3> QED
        BY <2>1, <3>1, LineFacts DEF LinesOf
    <2>3. (pc = "stream" /\ dest > base) => \A l \in LineOf(base) .. LineOf(dest - 1) : cache'[l] = 0
      <3> SUFFICES ASSUME pc = "stream", dest > base,
                          NEW l \in LineOf(base) .. LineOf(dest - 1)
                   PROVE  cache'[l] = 0
        OBVIOUS
      <3>1. dest \in Nat /\ dest <= End
        BY <2>1 DEF PersistInv, TypeOK
      <3>2. LineOf(dest - 1) <= LineOf(End - 1) /\ LineOf(dest - 1) \in Nat
        BY <2>1, <3>1, LineMono, LineFacts
      <3>3. l \in Lines
        BY <2>2, <3>2
      <3> QED
        BY <1>3, <3>3 DEF PersistInv, Reached
    <2>4. pc \in {"tail", "flush"} => \A l \in LineOf(base) .. LineOf(ptr) - 1 : cache'[l] = 0
      <3> SUFFICES ASSUME pc \in {"tail", "flush"},
                          NEW l \in LineOf(base) .. LineOf(ptr) - 1
                   PROVE  cache'[l] = 0
        OBVIOUS
      <3>1. ptr \in Nat /\ ptr < End + LINE /\ ptr % LINE = 0
        BY DEF PersistInv, TypeOK, Reached
      <3>2. LineOf(ptr) <= LineOf(End - 1) + 1 /\ LineOf(ptr) \in Nat
        <4>1. /\ ptr <= End - 1 + LINE /\ End - 1 + LINE \in Nat
              /\ End - 1 \in Nat /\ ptr \in Nat
          BY <2>1, <3>1 DEF LINE
        <4>2. LineOf(ptr) <= LineOf(End - 1 + LINE)
          BY <4>1, LineMono
        <4>3. LineOf(End - 1 + LINE) = LineOf(End - 1) + 1 /\ LineOf(ptr) \in Nat
          BY <4>1, LineFacts
        <4> QED
          BY <4>2, <4>3
      <3>3. l \in Lines
        BY <2>2, <3>2
      <3> QED
        BY <1>3, <3>3 DEF PersistInv, Reached
    <2>5. (pc = "fence" /\ mode.sync) => \A l \in LineOf(base) .. LineOf(End - 1) : cache'[l] = 0
      BY <1>3, <2>2 DEF PersistInv, Reached
    <2>6. Reached'
      <3>1. LineOf(base') = LineOf(base) /\ LineOf(End' - 1) = LineOf(End - 1)
        BY <1>1, <1>4, <2>1
      <3>2. LineOf(dest' - 1) = LineOf(dest - 1) /\ LineOf(ptr') = LineOf(ptr)
        BY <1>1 DEF PersistInv, TypeOK
      <3>3. pc' = pc /\ mode' = mode /\ base' = base /\ dest' = dest /\ ptr' = ptr
        BY <1>1
      <3>4. (pc' = "stream" /\ dest' > base') =>
              \A l \in LineOf(base') .. LineOf(dest' - 1) : cache'[l] = 0
        BY <2>3, <3>1, <3>2, <3>3
      <3>5. pc' \in {"tail", "flush"} =>
              ptr' % LINE = 0 /\ \A l \in LineOf(base') .. LineOf(ptr') - 1 : cache'[l] = 0
        BY <2>4, <3>1, <3>2, <3>3 DEF PersistInv, Reached
      <3>6. (pc' = "fence" /\ mode'.sync) =>
              \A l \in LineOf(base') .. LineOf(End' - 1) : cache'[l] = 0
        BY <2>5, <3>1, <3>3
      <3> QED
        BY <2>1, <3>3, <3>4, <3>5, <3>6 DEF Reached
    <2> QED
      BY <1>1, <1>3, <1>4, <2>6, StepKeeps
  <1> QED
    BY <1>5, <1>6

LEMMA PersistInvStays ==
  ASSUME PersistInv, UNCHANGED vars
  PROVE  PersistInv'
  <1>1. UNCHANGED <<media, cache, wcb, flushq>>
        /\ UNCHANGED <<mode, pc, base, dest, ptr, stamp, ops, acked>>
    BY DEF vars, memoryVars, threadVars
  <1>2. TypeOK' /\ Durable'
    BY <1>1 DEF PersistInv, TypeOK, Durable, End
  <1>3. \A l \in Lines : InOrder(l)'
    BY <1>1 DEF PersistInv, InOrder
  <1>4. Reached'
    BY <1>1 DEF PersistInv, Reached, End, LineOf
  <1> QED
    BY <1>2, <1>3, <1>4 DEF PersistInv

LEMMA PersistInvNext ==
  ASSUME PersistInv, [Next]_vars
  PROVE  PersistInv'
  <1>1. ASSUME NEW a \in Targets, Begin(a) PROVE PersistInv'
    BY <1>1, BeginStep
  <1>2. CASE StreamPiece \/ StreamTrap \/ SmallTail \/ FlushTail \/ Streamed
    BY <1>2, StreamPieceStep, StreamTrapStep, SmallTailStep, FlushTailStep, StreamedStep
  <1>3. CASE Memcpy \/ PersistLine \/ Persisted \/ Return
    BY <1>3, MemcpyStep, PersistLineStep, PersistedStep, ReturnStep
  <1>4. ASSUME NEW l \in Lines, Hardware(l) PROVE PersistInv'
    BY <1>4, HardwareStep
  <1>5. CASE Stopped \/ UNCHANGED vars
    BY <1>5, PersistInvStays DEF Stopped
  <1> QED
    BY <1>1, <1>2, <1>3, <1>4, <1>5 DEF Next, ThreadStep

LEMMA PersistInvariant == Spec => []PersistInv
  BY PersistInvInit, PersistInvNext, PTL DEF Spec
-------------------------------------------------------------------------------
\* Every location of the memory and every pointer stays in its range: the
\* piece loop of nvmem_memcpy stops exactly at the end of the block, a flush
\* loop less than a line past it.
THEOREM PersistTypeCorrect == Spec => []TypeOK
  BY PersistInvariant, PTL DEF PersistInv

\* Nothing that a synchronous write which has returned wrote is lost by a
\* power failure: not the streamed lines, not the tail that went through the
\* cache, not the partial lines at both ends of the block.
THEOREM SyncedWritesSurvive == Spec => []Durable
  BY PersistInvariant, PTL DEF PersistInv

\* No step takes a line of the media back.
LEMMA MediaForward ==
  ASSUME PersistInv, Next
  PROVE  \A l \in Lines : media'[l] >= media[l]
  <1>1. stamp \in Nat /\ MemoryType(stamp) /\ \A l \in Lines : InOrder(l)
    BY DEF PersistInv, TypeOK, MemoryType
  <1>2. CASE UNCHANGED memoryVars
    BY <1>2, MemoryStays DEF Keeps
  <1>3. ASSUME NEW a \in Nat, NEW k \in Nat \ {0}, pc # "idle", base <= a, a + k <= End,
               NtStore(LinesOf(a, k), stamp + 1) \/ CachedStore(LinesOf(a, k), stamp + 1)
        PROVE  \A l \in Lines : media'[l] >= media[l]
    <2>1. LinesOf(a, k) \in SUBSET Lines
      BY <1>3, BlockFacts
    <2> QED
      BY <1>1, <1>3, <2>1, NtStoreKeeps, CachedStoreKeeps DEF Keeps
  <1>4. CASE StreamPiece \/ SmallTail
    <2>1. base \in Nat /\ End \in Nat /\ dest \in Nat /\ base <= dest /\ dest < End /\ pc # "idle"
      BY <1>4, BlockFacts DEF PersistInv, TypeOK, StreamPiece, SmallTail
    <2>2. PieceSize(End - dest) \in 1 .. End - dest
      BY <2>1, PieceFacts
    <2> QED
      BY <1>3, <1>4, <2>1, <2>2 DEF StreamPiece, SmallTail
  <1>5. CASE Memcpy
    <2>1. base \in Nat /\ mode.block_size \in Nat \ {0} /\ End = base + mode.block_size /\ pc # "idle"
      BY <1>5, BlockFacts DEF Memcpy
    <2> QED
      BY <1>3, <1>5, <2>1 DEF Memcpy
  <1>6. CASE FlushTail \/ PersistLine
    <2>1. StartFlush(LineOf(ptr)) \/ Flush(LineOf(ptr))
      BY <1>6 DEF FlushTail, PersistLine
    <2> QED
      BY <1>1, <2>1, FlushKeeps DEF Keeps
  <1>7. ASSUME NEW a \in Lines, Hardware(a) PROVE \A l \in Lines : media'[l] >= media[l]
    BY <1>1, <1>7, HardwareKeeps DEF Hardware, Keeps
  <1>8. (\E a \in Targets : Begin(a)) \/ StreamTrap \/ Streamed \/ Persisted \/ Return \/ Stopped
          => UNCHANGED memoryVars
    BY DEF Begin, StreamTrap, Streamed, Persisted, Return, Stopped, vars
  <1> QED
    BY <1>2, <1>4, <1>5, <1>6, <1>7, <1>8 DEF Next, ThreadStep

\* A step of the thread or the memory under it, as a step of the promise.
LEMMA StepPromise ==
  ASSUME PersistInv, PersistInv', Next
  PROVE  [Promise!Next]_Promise!vars
  <1>1. media' \in [Lines -> Nat]
    BY DEF PersistInv, TypeOK
  <1>2. ASSUME acked' = acked, \A l \in Lines : media'[l] >= media[l] PROVE Promise!Persist
    BY <1>1, <1>2 DEF Promise!Persist
  <1>3. CASE Return
    <2>1. acked' \in [Lines -> Nat] /\ UNCHANGED media
      BY <1>3 DEF PersistInv, TypeOK, Return, memoryVars
    <2>2. Promise!Return
      BY <1>3, <2>1, ReturnVouches DEF Promise!Return
    <2> QED
      BY <2>2 DEF Promise!Next
  <1>4. CASE ~ Return
    <2>1. acked' = acked
      BY <1>4 DEF Next, ThreadStep, Begin, StreamPiece, StreamTrap, SmallTail, FlushTail,
                  Streamed, Memcpy, PersistLine, Persisted, Hardware, Stopped, vars, threadVars
    <2>2. \A l \in Lines : media'[l] >= media[l]
      BY <1>4, MediaForward
    <2> QED
      BY <1>2, <2>1, <2>2 DEF Promise!Next
  <1> QED
    BY <1>3, <1>4

\* The detailed thread with the memory under it implements DurableStore: lines
\* reach the media one by one, never to be replaced by older contents, and a
\* write returns only when everything it promises is there.
THEOREM WritesAreDurableStore == Spec => ImplementsDurableStore
  <1>1. Init => Promise!Init
    BY DEF Init, MemoryInit, Nothing, Promise!Init
  <1>2. PersistInv /\ PersistInv' /\ [Next]_vars => [Promise!Next]_Promise!vars
    <2>1. ASSUME UNCHANGED vars PROVE UNCHANGED Promise!vars
      BY <2>1 DEF vars, memoryVars, threadVars, Promise!vars
    <2> QED
      BY <2>1, StepPromise
  <1> QED
    BY <1>1, <1>2, PersistInvariant, PTL DEF Spec, ImplementsDurableStore, Promise!Spec
=============================================================================
