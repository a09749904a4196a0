------------------------------ MODULE MCMixedRun ------------------------------
(***************************************************************************)
(* Small instances of MixedRun, scaled as in MCBasicRun.                   *)
(***************************************************************************)
EXTENDS MixedRun

Options(types, verifies, aligns, threads, readers, writers, rblocks, wblocks,
        amounts, sizes) ==
  { [type |-> ty, verify |-> v, align_size |-> al, num_thread |-> n,
     read_thread |-> nr, write_thread |-> nw, block_size |-> 2,
     write_block_size |-> wb, read_block_size |-> rb, data_amount |-> d,
     pmem_size |-> s, pmem_start_address |-> 4] :
    ty \in types, v \in verifies, al \in aligns, n \in threads, nr \in readers,
    nw \in writers, rb \in rblocks, wb \in wblocks, d \in amounts, s \in sizes }

Mixed == {S_MIXED, R_MIXED}

\* Two threads at most, all kinds of teams and of geometries; num_thread is
\* what the command line said, and has nothing to do with the team.
ClockOptions ==
  Options(Mixed, {FALSE, TRUE}, {2}, {1, 2}, {0, 1}, {0, 1, 2}, {1, 2}, {1, 4},
          {4}, {3, 4, 8})

\* Two readers and a writer with different block sizes.
TeamOptions == Options(Mixed, {FALSE}, {2}, {1}, {2}, {1}, {1}, {2}, {4}, {12})

\* aep_test/run_mixed.sh: neither --num_thread nor --rb nor --wb, so that
\* num_thread is the default 1 and the block sizes are never assigned.
ScriptOptions == Options({S_MIXED}, {FALSE}, {2}, {1}, {1}, {1}, {0, 2, 9}, {2, 3}, {4}, {8})

\* The same call on a pool that passes the check but is too small for two.
SmallPoolOptions == Options({S_MIXED}, {FALSE}, {2}, {1}, {1}, {1}, {2}, {2}, {4}, {6})

ClockDurations == {4, 9}
TeamDurations == {8}

\* Every thread is created, or a creation may fail and leave this behind.
NoFailure == {}
Leftover == {[time |-> 3, latency |-> 1, throughput |-> 2, count |-> 3]}
=============================================================================
