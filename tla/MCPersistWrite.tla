---------------------------- MODULE MCPersistWrite ----------------------------
(***************************************************************************)
(* Blocks of one to six lines, with and without partial lines at both ends,*)
(* written at overlapping, adjacent and disjoint targets.  The line and    *)
(* piece sizes are the real ones.                                          *)
(***************************************************************************)
EXTENDS PersistWrite

MCLines == 0 .. 6

MCModes ==
  [ntstore_used : {TRUE}, sync : BOOLEAN, flush : {CLFLUSHOPT_USED},
   block_size : {3, 16, 60, 64, 100, 199, 330}]
  \cup
  [ntstore_used : {FALSE}, sync : {TRUE},
   flush : {CLFLUSHOPT_USED, CLFLUSH_USED, CLWB_USED}, block_size : {1, 60, 130}]
  \cup
  [ntstore_used : {FALSE}, sync : {FALSE}, flush : {CLWB_USED}, block_size : {60}]

MCTargets == {0, 48, 72, 112}
=============================================================================
