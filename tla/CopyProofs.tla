------------------------------ MODULE CopyProofs ------------------------------
(***************************************************************************)
(* nvmem_memcpy is memmove for every pair of ranges of the address space:  *)
(* every overlap of target and source, every length and every alignment.   *)
(***************************************************************************)
EXTENDS NtMemcpy, TLAPS

\* What the choice of direction has established about the arguments: a forward
\* copy starts below its source or past its end, a backward one inside it.
Apart == call.dest < call.src \/ call.dest - call.src >= call.len
Inside == call.src <= call.dest /\ call.dest - call.src < call.len

\* Where a forward copy is: what is behind dest is written, nothing else, and
\* only the last piece is not a whole number of lines.
Forward ==
  /\ Apart
  /\ call.len > 0 => (call.dest - call.src) % ADDR_SPACE >= call.len
  /\ dest = call.dest + (call.len - len) /\ src = call.src + (call.len - len)
  /\ written = call.dest .. dest - 1
  /\ len > 0 => (dest - call.dest) % LINE = 0

Backward ==
  /\ Inside
  /\ (call.dest - call.src) % ADDR_SPACE < call.len
  /\ dest = call.dest + len /\ src = call.src + len
  /\ written = dest .. call.dest + call.len - 1
  /\ len > 0 => (call.dest + call.len - dest) % LINE = 0

CopyInv ==
  /\ TypeOK
  /\ len <= call.len
  /\ stale = {}
  /\ at = "entry" => /\ dest = call.dest /\ src = call.src /\ len = call.len
                     /\ written = {}
  /\ at = "fw" => Forward
  /\ at = "bw" => Backward
  /\ at = "done" => written = Target
  /\ AlignedNeverTraps
-------------------------------------------------------------------------------
(***************************************************************************)
(* Pieces.                                                                 *)
(***************************************************************************)

\* A piece fits, and it is a streaming store of whole lines or the rest.
LEMMA PieceFacts ==
  ASSUME NEW n \in Nat \ {0}
  PROVE  /\ PieceSize(n) \in 1 .. n
         /\ PieceSize(n) = n \/ PieceSize(n) % LINE = 0
         /\ IsStream(PieceSize(n)) \/ PieceSize(n) < LINE
         /\ NeedsAlignment(PieceSize(n)) => PieceSize(n) % 16 = 0
  BY DEF PieceSize, IsStream, NeedsAlignment, LINE

\* The stores of a small tail cover it and nothing else, in spite of their
\* overlaps.
LEMMA SmallStoresCover ==
  ASSUME NEW d \in Int, NEW k \in 1 .. LINE - 1
  PROVE  UNION {d + s[1] .. d + s[1] + s[2] - 1 : s \in SmallStores(k)} = d .. d + k - 1
  <1> DEFINE U == UNION {d + s[1] .. d + s[1] + s[2] - 1 : s \in SmallStores(k)}
  <1>1. k \in 1 .. 63
    BY DEF LINE
  <1>2. CASE k > 48
    <2>1. SmallStores(k) = {<<0, 16>>, <<16, 16>>, <<32, 16>>, <<k - 16, 16>>}
      BY <1>2 DEF SmallStores
    <2>2. U = (d + 0 .. d + 0 + 16 - 1) \cup (d + 16 .. d + 16 + 16 - 1)
              \cup (d + 32 .. d + 32 + 16 - 1) \cup (d + (k - 16) .. d + (k - 16) + 16 - 1)
      BY <2>1
    <2> QED
      BY <1>1, <1>2, <2>2
  <1>3. CASE k > 32 /\ k <= 48
    <2>1. SmallStores(k) = {<<0, 16>>, <<16, 16>>, <<k - 16, 16>>}
      BY <1>3 DEF SmallStores
    <2>2. U = (d + 0 .. d + 0 + 16 - 1) \cup (d + 16 .. d + 16 + 16 - 1)
              \cup (d + (k - 16) .. d + (k - 16) + 16 - 1)
      BY <2>1
    <2> QED
      BY <1>1, <1>3, <2>2
  <1>4. ASSUME NEW w \in {16, 8, 4, 2}, k > w, k <= 2 * w,
               SmallStores(k) = {<<0, w>>, <<k - w, w>>}
        PROVE  U = d .. d + k - 1
    <2>1. U = (d + 0 .. d + 0 + w - 1) \cup (d + (k - w) .. d + (k - w) + w - 1)
      BY <1>4
    <2> QED
      BY <1>1, <1>4, <2>1
  <1>5. CASE k > 16 /\ k <= 32
    BY <1>1, <1>4, <1>5 DEF SmallStores
  <1>6. CASE k > 8 /\ k <= 16
    BY <1>1, <1>4, <1>6 DEF SmallStores
  <1>7. CASE k > 4 /\ k <= 8
    BY <1>1, <1>4, <1>7 DEF SmallStores
  <1>8. CASE k > 2 /\ k <= 4
    BY <1>1, <1>4, <1>8 DEF SmallStores
  <1>9. CASE k <= 2
    <2>1. SmallStores(k) = {<<0, k>>}
      BY <1>1, <1>9 DEF SmallStores
    <2>2. U = (d + 0 .. d + 0 + k - 1)
      BY <2>1
    <2> QED
      BY <1>1, <2>2
  <1> QED
    BY <1>1, <1>2, <1>3, <1>5, <1>6, <1>7, <1>8, <1>9

\* Every piece writes its own bytes, all of them.
LEMMA PieceCovers ==
  ASSUME NEW n \in Nat \ {0}, NEW d \in Int
  PROVE  Stored(d, PieceSize(n)) = d .. d + PieceSize(n) - 1
  <1>1. PieceSize(n) \in 1 .. n /\ (IsStream(PieceSize(n)) \/ PieceSize(n) < LINE)
    BY PieceFacts
  <1>2. CASE IsStream(PieceSize(n))
    BY <1>2 DEF Stored
  <1>3. CASE ~ IsStream(PieceSize(n))
    <2>1. PieceSize(n) \in 1 .. LINE - 1
      BY <1>1, <1>3 DEF LINE
    <2> QED
      BY <1>3, <2>1, SmallStoresCover DEF Stored
  <1> QED
    BY <1>2, <1>3
-------------------------------------------------------------------------------
(***************************************************************************)
(* The direction.                                                          *)
(***************************************************************************)

\* A difference of two addresses wraps around once at most.
LEMMA Wraps ==
  ASSUME NEW A \in Nat \ {0}, NEW x \in Int, - A < x, x < A
  PROVE  x % A = IF x >= 0 THEN x ELSE x + A
  <1>1. CASE x >= 0
    BY <1>1
  <1>2. CASE x < 0
    BY <1>2
  <1> QED
    BY <1>1, <1>2

LEMMA ArgumentFacts ==
  ASSUME NEW c \in Calls
  PROVE  /\ c.dest \in Nat /\ c.src \in Nat /\ c.len \in Nat /\ ADDR_SPACE \in Nat \ {0}
         /\ c.dest + c.len <= ADDR_SPACE /\ c.src + c.len <= ADDR_SPACE
  BY NtMemcpyAssumption DEF NtArguments

\* The unsigned comparison tells apart what it has to.
LEMMA Direction ==
  ASSUME NEW c \in Calls
  PROVE  /\ (c.dest - c.src) % ADDR_SPACE >= c.len =>
              c.dest < c.src \/ c.dest - c.src >= c.len
         /\ ~ ((c.dest - c.src) % ADDR_SPACE >= c.len) =>
              /\ c.src <= c.dest /\ c.dest - c.src < c.len
              /\ (c.dest - c.src) % ADDR_SPACE < c.len
  <1>1. /\ c.dest \in Nat /\ c.src \in Nat /\ c.len \in Nat /\ ADDR_SPACE \in Nat \ {0}
        /\ c.dest + c.len <= ADDR_SPACE /\ c.src + c.len <= ADDR_SPACE
    BY ArgumentFacts
  <1> DEFINE x == c.dest - c.src
  <1>2. x \in Int /\ x % ADDR_SPACE \in Nat
    BY <1>1
  <1>3. CASE c.len = 0
    BY <1>1, <1>2, <1>3
  <1>4. CASE c.len > 0
    <2>1. - ADDR_SPACE < x /\ x < ADDR_SPACE
      BY <1>1, <1>4
    <2>2. x % ADDR_SPACE = IF x >= 0 THEN x ELSE x + ADDR_SPACE
      BY <1>1, <1>2, <2>1, Wraps
    <2> QED
      BY <1>1, <1>2, <1>4, <2>2
  <1> QED
    BY <1>1, <1>3, <1>4
-------------------------------------------------------------------------------
(***************************************************************************)
(* The copy.                                                               *)
(***************************************************************************)

\* The arguments and the bounds of every state.
LEMMA StateFacts ==
  ASSUME CopyInv
  PROVE  /\ call \in Calls /\ call.dest \in Nat /\ call.src \in Nat /\ call.len \in Nat
         /\ dest \in Int /\ src \in Int /\ len \in Nat /\ len <= call.len
         /\ (call.dest - call.src) % ADDR_SPACE \in Int
         /\ ADDR_SPACE \in Nat \ {0}
  <1>1. call \in Calls /\ dest \in Int /\ src \in Int /\ len \in Nat /\ len <= call.len
    BY DEF CopyInv, TypeOK
  <1>2. /\ call.dest \in Nat /\ call.src \in Nat /\ call.len \in Nat
        /\ ADDR_SPACE \in Nat \ {0}
    BY <1>1, ArgumentFacts
  <1> QED
    BY <1>1, <1>2

LEMMA CopyInvInit ==
  ASSUME Init
  PROVE  CopyInv
  <1>1. call.dest \in Nat /\ call.src \in Nat /\ call.len \in Nat
    BY ArgumentFacts DEF Init
  <1> QED
    BY <1>1 DEF Init, CopyInv, TypeOK, AlignedNeverTraps

LEMMA EnterForwardStep ==
  ASSUME CopyInv, EnterForward
  PROVE  CopyInv'
  <1>1. /\ at = "entry" /\ at' = "fw" /\ GoesForward
        /\ UNCHANGED <<call, dest, src, len, written, stale>>
    BY DEF EnterForward
  <1>2. dest = call.dest /\ src = call.src /\ len = call.len /\ written = {}
    BY <1>1 DEF CopyInv
  <1>3. /\ call.dest \in Nat /\ call.src \in Nat /\ call.len \in Nat /\ call \in Calls
    BY StateFacts
  <1>4. (call.dest - call.src) % ADDR_SPACE >= call.len
    BY <1>1, <1>2 DEF GoesForward
  <1>5. Apart
    BY <1>3, <1>4, Direction DEF Apart
  <1>6. (dest - call.dest) % LINE = 0 /\ dest = call.dest + (call.len - len)
        /\ src = call.src + (call.len - len) /\ written = call.dest .. dest - 1
    BY <1>2, <1>3 DEF LINE
  <1>7. Forward
    BY <1>4, <1>5, <1>6 DEF Forward
  <1>8. Forward'
    BY <1>1, <1>7 DEF Forward, Apart
  <1> QED
    BY <1>1, <1>8 DEF CopyInv, TypeOK, AlignedNeverTraps, Target

LEMMA EnterBackwardStep ==
  ASSUME CopyInv, EnterBackward
  PROVE  CopyInv'
  <1>1. /\ at = "entry" /\ at' = "bw" /\ ~ GoesForward
        /\ dest' = dest + len /\ src' = src + len
        /\ UNCHANGED <<call, len, written, stale>>
    BY DEF EnterBackward
  <1>2. dest = call.dest /\ src = call.src /\ len = call.len /\ written = {}
    BY <1>1 DEF CopyInv
  <1>3. /\ call.dest \in Nat /\ call.src \in Nat /\ call.len \in Nat /\ call \in Calls
    BY StateFacts
  <1>4. ~ ((call.dest - call.src) % ADDR_SPACE >= call.len)
    BY <1>1, <1>2 DEF GoesForward
  <1>5. Inside /\ (call.dest - call.src) % ADDR_SPACE < call.len
    BY <1>3, <1>4, Direction DEF Inside
  <1>6. /\ dest' = call.dest + len /\ src' = call.src + len
        /\ written = dest' .. call.dest + call.len - 1
        /\ (call.dest + call.len - dest') % LINE = 0
        /\ dest' \in Int /\ src' \in Int
    BY <1>1, <1>2, <1>3 DEF LINE
  <1>7. Backward'
    BY <1>1, <1>5, <1>6 DEF Backward, Inside
  <1> QED
    BY <1>1, <1>6, <1>7 DEF CopyInv, TypeOK, AlignedNeverTraps, Target

LEMMA ForwardStep ==
  ASSUME CopyInv, ForwardPiece
  PROVE  CopyInv'
  <1> DEFINE k == PieceSize(len)
  <1>1. /\ at = "fw" /\ len > 0 /\ Move(dest, src, k)
        /\ dest' = dest + k /\ src' = src + k
    BY DEF ForwardPiece
  <1>2. /\ call \in Calls /\ call.dest \in Nat /\ call.src \in Nat /\ call.len \in Nat
        /\ dest \in Int /\ src \in Int /\ len \in Nat \ {0} /\ len <= call.len
    BY <1>1, StateFacts
  <1>3. k \in 1 .. len
    BY <1>2, PieceFacts
  <1>4. Stored(dest, k) = dest .. dest + k - 1
    BY <1>2, PieceCovers
  <1>5. k = len \/ k % LINE = 0
    BY <1>2, PieceFacts
  <1>6. Forward /\ stale = {}
    BY <1>1 DEF CopyInv
  <1>7. /\ call.dest < call.src \/ call.dest - call.src >= call.len
        /\ dest = call.dest + (call.len - len) /\ src = call.src + (call.len - len)
    BY <1>6 DEF Forward, Apart
  <1>8. (dest - call.dest) % LINE = 0
    BY <1>1, <1>6 DEF Forward
  <1> HIDE DEF k
  <1>9. CASE ~ Traps(dest, k)
    <2>1. /\ stale' = stale \cup (written \cap src .. src + k - 1)
          /\ written' = written \cup Stored(dest, k)
          /\ len' = len - k /\ call' = call /\ at' = at
      BY <1>1, <1>9 DEF Move
    <2>2. len' = len - k /\ dest' = dest + k /\ src' = src + k
      BY <1>1, <2>1
    <2>3. stale' = {}
      <3>1. written = call.dest .. dest - 1
        BY <1>6 DEF Forward
      <3>2. \A b \in src .. src + k - 1 : b \notin call.dest .. dest - 1
        BY ONLY <1>2, <1>3, <1>7
      <3> QED
        BY <1>6, <2>1, <3>1, <3>2
    <2>4. len' \in Nat /\ len' <= call.len /\ dest' \in Int /\ src' \in Int
      BY ONLY <1>2, <1>3, <2>2
    <2>5. dest' = call.dest + (call.len - len') /\ src' = call.src + (call.len - len')
      BY ONLY <1>2, <1>3, <1>7, <2>2
    <2>6. len' > 0 => (dest' - call.dest) % LINE = 0
      BY ONLY <1>2, <1>3, <1>8, <1>5, <2>2 DEF LINE
    <2>7. written' = call.dest .. dest' - 1
      <3>1. written' = (call.dest .. dest - 1) \cup (dest .. dest + k - 1)
        BY <1>6, <1>4, <2>1 DEF Forward
      <3>2. call.dest <= dest
        BY ONLY <1>2, <1>7
      <3> QED
        BY ONLY <1>2, <1>3, <2>2, <3>1, <3>2
    <2>8. Forward'
      BY <1>6, <2>1, <2>5, <2>6, <2>7 DEF Forward, Apart
    <2>9. written' \subseteq Target'
      <3>1. Target' = call.dest .. call.dest + call.len - 1
        BY <2>1 DEF Target
      <3>2. dest' <= call.dest + call.len
        BY ONLY <1>2, <2>4, <2>5
      <3> QED
        BY ONLY <1>2, <2>4, <2>7, <3>1, <3>2
    <2> QED
      BY <1>1, <1>2, <2>1, <2>3, <2>4, <2>8, <2>9 DEF CopyInv, TypeOK, AlignedNeverTraps
  <1>10. CASE Traps(dest, k)
    <2>1. at' = "trap" /\ UNCHANGED <<call, len, written, stale>>
      BY <1>1, <1>10 DEF Move
    <2>2. dest % 16 # 0
      BY <1>10 DEF Traps
    <2>3. (dest - call.dest) % LINE = 0
      BY <1>1, <1>6 DEF Forward
    <2>4. call.dest % 16 # 0
      BY <1>2, <2>2, <2>3 DEF LINE
    <2>5. (call.dest - call.src) % ADDR_SPACE >= call.len
      BY <1>2, <1>6 DEF Forward
    <2>6. dest' \in Int /\ src' \in Int
      BY <1>1, <1>2, <1>3
    <2>7. AlignedNeverTraps'
      BY <2>1, <2>4, <2>5 DEF AlignedNeverTraps
    <2> QED
      BY <2>1, <2>6, <2>7 DEF CopyInv, TypeOK, Target
  <1> QED
    BY <1>9, <1>10

LEMMA BackwardStep ==
  ASSUME CopyInv, BackwardPiece
  PROVE  CopyInv'
  <1> DEFINE k == PieceSize(len)
  <1>1. /\ at = "bw" /\ len > 0 /\ Move(dest - k, src - k, k)
        /\ dest' = dest - k /\ src' = src - k
    BY DEF BackwardPiece
  <1>2. /\ call \in Calls /\ call.dest \in Nat /\ call.src \in Nat /\ call.len \in Nat
        /\ dest \in Int /\ src \in Int /\ len \in Nat \ {0} /\ len <= call.len
    BY <1>1, StateFacts
  <1>3. k \in 1 .. len /\ (NeedsAlignment(k) => k % 16 = 0)
    BY <1>2, PieceFacts
  <1>4. k = len \/ k % LINE = 0
    BY <1>2, PieceFacts
  <1>5. Backward /\ stale = {}
    BY <1>1 DEF CopyInv
  <1>6. /\ call.src <= call.dest /\ call.dest - call.src < call.len
        /\ dest = call.dest + len /\ src = call.src + len
    BY <1>5 DEF Backward, Inside
  <1>7. (call.dest + call.len - dest) % LINE = 0
    BY <1>1, <1>5 DEF Backward
  <1>8. Stored(dest - k, k) = dest - k .. dest - 1
    <2>1. dest - k \in Int /\ (dest - k) + k - 1 = dest - 1
      BY <1>2, <1>3
    <2>2. Stored(dest - k, k) = dest - k .. (dest - k) + k - 1
      BY <1>2, <2>1, PieceCovers
    <2> QED
      BY <2>1, <2>2
  <1> HIDE DEF k
  <1>9. CASE ~ Traps(dest - k, k)
    <2>1. /\ stale' = stale \cup (written \cap (src - k) .. (src - k) + k - 1)
          /\ written' = written \cup Stored(dest - k, k)
          /\ len' = len - k /\ call' = call /\ at' = at
      BY <1>1, <1>9 DEF Move
    <2>2. len' = len - k /\ dest' = dest - k /\ src' = src - k
      BY <1>1, <2>1
    <2>3. stale' = {}
      <3>1. written = dest .. call.dest + call.len - 1
        BY <1>5 DEF Backward
      <3>2. \A b \in (src - k) .. (src - k) + k - 1 : b \notin dest .. call.dest + call.len - 1
        BY ONLY <1>2, <1>3, <1>6
      <3> QED
        BY <1>5, <2>1, <3>1, <3>2
    <2>4. len' \in Nat /\ len' <= call.len /\ dest' \in Int /\ src' \in Int
      BY ONLY <1>2, <1>3, <2>2
    <2>5. dest' = call.dest + len' /\ src' = call.src + len'
      BY ONLY <1>2, <1>3, <1>6, <2>2
    <2>6. len' > 0 => (call.dest + call.len - dest') % LINE = 0
      BY ONLY <1>2, <1>3, <1>7, <1>4, <2>2 DEF LINE
    <2>7. written' = dest' .. call.dest + call.len - 1
      <3>1. written' = (dest .. call.dest + call.len - 1) \cup (dest - k .. dest - 1)
        BY <1>5, <1>8, <2>1 DEF Backward
      <3>2. dest <= call.dest + call.len
        BY ONLY <1>2, <1>6
      <3> QED
        BY ONLY <1>2, <1>3, <2>2, <3>1, <3>2
    <2>8. Backward'
      BY <1>5, <2>1, <2>5, <2>6, <2>7 DEF Backward, Inside
    <2>9. written' \subseteq Target'
      <3>1. Target' = call.dest .. call.dest + call.len - 1
        BY <2>1 DEF Target
      <3> QED
        BY ONLY <1>2, <2>4, <2>5, <2>7, <3>1
    <2> QED
      BY <1>1, <1>2, <2>1, <2>3, <2>4, <2>8, <2>9 DEF CopyInv, TypeOK, AlignedNeverTraps
  <1>10. CASE Traps(dest - k, k)
    <2>1. at' = "trap" /\ UNCHANGED <<call, len, written, stale>>
      BY <1>1, <1>10 DEF Move
    <2>2. (dest - k) % 16 # 0 /\ k % 16 = 0
      BY <1>3, <1>10 DEF Traps
    <2>3. (call.dest + call.len - dest) % LINE = 0
      BY <1>1, <1>5 DEF Backward
    <2>4. (call.dest + call.len) % 16 # 0
      BY <1>2, <1>3, <2>2, <2>3 DEF LINE
    <2>5. ~ ((call.dest - call.src) % ADDR_SPACE >= call.len)
      BY <1>2, <1>5, StateFacts DEF Backward
    <2>6. dest' \in Int /\ src' \in Int
      BY <1>1, <1>2, <1>3
    <2>7. AlignedNeverTraps'
      BY <2>1, <2>4, <2>5 DEF AlignedNeverTraps
    <2> QED
      BY <2>1, <2>6, <2>7 DEF CopyInv, TypeOK, Target
  <1> QED
    BY <1>9, <1>10

LEMMA ReturnStep ==
  ASSUME CopyInv, Return
  PROVE  CopyInv'
  <1>1. /\ at \in {"fw", "bw"} /\ len = 0 /\ at' = "done"
        /\ UNCHANGED <<call, dest, src, len, written, stale>>
    BY DEF Return
  <1>2. call.dest \in Nat /\ call.len \in Nat
    BY StateFacts
  <1>3. written = Target
    BY <1>1, <1>2 DEF CopyInv, Forward, Backward, Target
  <1> QED
    BY <1>1, <1>3 DEF CopyInv, TypeOK, AlignedNeverTraps, Target

LEMMA CopyInvNext ==
  ASSUME CopyInv, [Next]_vars
  PROVE  CopyInv'
  <1>1. ASSUME UNCHANGED vars PROVE CopyInv'
    BY <1>1 DEF vars, CopyInv, TypeOK, Forward, Backward, Apart, Inside, Target,
                AlignedNeverTraps
  <1> QED
    BY <1>1, EnterForwardStep, EnterBackwardStep, ForwardStep, BackwardStep, ReturnStep
       DEF Next, Returned

LEMMA CopyInvariant == Spec => []CopyInv
  BY CopyInvInit, CopyInvNext, PTL DEF Spec
-------------------------------------------------------------------------------
\* Every pointer keeps its type, for every call.
THEOREM CopyTypeCorrect == Spec => []TypeOK
  BY CopyInvariant, PTL DEF CopyInv

\* No byte outside the target is stored to, no source byte is read after it was
\* overwritten, and on return the target is written completely, whichever way
\* the unsigned comparison chose.
THEOREM CopyIsMemmove == Spec => []MovesLikeMemmove
  <1>1. CopyInv => MovesLikeMemmove
    BY DEF CopyInv, TypeOK, MovesLikeMemmove
  <1> QED
    BY <1>1, CopyInvariant, PTL

\* A forward copy to a 16-byte aligned target and a backward copy that ends at
\* one never fault.
THEOREM AlignedCopyReturns == Spec => []AlignedNeverTraps
  BY CopyInvariant, PTL DEF CopyInv
=============================================================================
