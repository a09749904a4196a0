------------------------------ MODULE MCBasicRun ------------------------------
(***************************************************************************)
(* Small instances of BasicRun.  Sizes are scaled: RANDOM_SKIP is 2 bytes, *)
(* a block 1 to 3 bytes, a partition a few blocks.                         *)
(***************************************************************************)
EXTENDS BasicRun

Options(types, verifies, aligns, threads, blocks, amounts, sizes, starts) ==
  { [type |-> ty, verify |-> v, align_size |-> al, num_thread |-> n,
     read_thread |-> 0, write_thread |-> 0, block_size |-> b,
     write_block_size |-> 0, read_block_size |-> 0, data_amount |-> d,
     pmem_size |-> s, pmem_start_address |-> st] :
    ty \in types, v \in verifies, al \in aligns, n \in threads, b \in blocks,
    d \in amounts, s \in sizes, st \in starts }

\* Every kernel, sane and insane geometries: unaligned pools, blocks that do
\* not divide the amount or exceed it, too small a pool, no thread, a thread
\* too many, zero block and alignment.
GeometryOptions ==
  Options(KernelTypes, BOOLEAN, {1, 2, 3}, {2}, {1, 2, 3}, {5, 6}, {11, 13}, {6})
  \cup Options({R_WRITE, S_READ}, BOOLEAN, {0, 2}, {0, 1, 3}, {0, 2, 4}, {3, 4}, {4}, {8})

\* Three threads, for the interleavings of the creation and join loops.
TeamOptions ==
  Options({S_WRITE, R_READ}, {FALSE}, {2}, {3}, {2}, {4}, {12, 14}, {4})

\* Nothing scaled: --benchmark=rw --block_size=4096 --data_amount=2 on one
\* thread, with the default alignment and a pool of just that size.
FullSizeOptions ==
  Options({R_WRITE}, {FALSE}, {256}, {1}, {4096}, {2097152}, {2097152}, {4096})

GeometryDurations == {7}
TeamDurations == {3, 8}
FullSizeDurations == {100000}

\* Every thread is created, or a creation may fail and leave this behind.
NoFailure == {}
Leftover == {[time |-> 3, latency |-> 1, throughput |-> 2, count |-> 3]}
=============================================================================
