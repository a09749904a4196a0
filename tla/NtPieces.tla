------------------------------- MODULE NtPieces -------------------------------
(***************************************************************************)
(* How memmove_movnt_sse_fw and memmove_movnt_sse_bw of pflush.c cut a     *)
(* copy into pieces, and which stores memmove_small_sse2 uses for a tail   *)
(* that no streaming store fits.                                           *)
(***************************************************************************)
EXTENDS Integers

\* FLUSH_ALIGN, the size of a cache line.
LINE == 64

\* Mutated: the odd bytes first, as if to align what follows.
PieceSizeTailFirst(n) ==
  IF n % LINE # 0 THEN n % LINE
  ELSE IF n >= 4 * LINE THEN 4 * LINE
  ELSE IF n >= 2 * LINE THEN 2 * LINE
  ELSE n

\* Mutated: tails are rounded down to what movnti can store.
PieceSizeWords(n) ==
  IF n >= 4 * LINE THEN 4 * LINE
  ELSE IF n >= 2 * LINE THEN 2 * LINE
  ELSE IF n >= LINE THEN LINE
  ELSE n - (n % 4)

\* The next piece of a copy of n > 0 bytes: the loop on 4 lines, then one test
\* for 2 lines and one for 1, which is the largest that fits; then the tail.
PieceSize(n) ==
  IF n >= 4 * LINE THEN 4 * LINE
  ELSE IF n >= 2 * LINE THEN 2 * LINE
  ELSE IF n >= LINE THEN LINE
  ELSE n

\* Pieces stored by movntdq, which wants a 16-byte aligned target, or by
\* movnti, which does not.  The other tails go through the cache.
NeedsAlignment(k) == k \in {4 * LINE, 2 * LINE, LINE, 32, 16}

IsStream(k) == NeedsAlignment(k) \/ k \in {8, 4}

Traps(dest, k) == NeedsAlignment(k) /\ dest % 16 # 0

\* The stores of memmove_small_sse2_noflush for k bytes, as <<offset, width>>.
\* They overlap where k is not a power of two.
SmallStores(k) ==
  IF k > 48 THEN {<<0, 16>>, <<16, 16>>, <<32, 16>>, <<k - 16, 16>>}
  ELSE IF k > 32 THEN {<<0, 16>>, <<16, 16>>, <<k - 16, 16>>}
  ELSE IF k > 16 THEN {<<0, 16>>, <<k - 16, 16>>}
  ELSE IF k > 8 THEN {<<0, 8>>, <<k - 8, 8>>}
  ELSE IF k > 4 THEN {<<0, 4>>, <<k - 4, 4>>}
  ELSE IF k > 2 THEN {<<0, 2>>, <<k - 2, 2>>}
  ELSE {<<0, k>>}

\* The bytes a piece of k bytes writes at dest.
Stored(dest, k) ==
  IF IsStream(k) THEN dest .. dest + k - 1
  ELSE UNION {dest + s[1] .. dest + s[1] + s[2] - 1 : s \in SmallStores(k)}
=============================================================================
