------------------------------- MODULE MCSsdRun -------------------------------
(***************************************************************************)
(* Small instances of SsdRun.  A megabyte is two units, a page two, a      *)
(* batch two requests.                                                     *)
(***************************************************************************)
EXTENDS SsdRun

Calls(accesses, ios, threads, blocks, totals) ==
  {<<a, io, n, b, s>> : a \in accesses, io \in ios, n \in threads, b \in blocks, s \in totals}

\* One thread on every engine, access and geometry: blocks that fill the file
\* and that do not, empty files, no engine, no block, too few arguments.
EngineArgs ==
  Calls({TYPE_RW, TYPE_SW}, Engines, {1}, {1, 2, 4}, {0, 2, 3, 5})
  \cup Calls({0, TYPE_RW}, {0, IO_DIRECT_ACCESS, IO_MMAP}, {0, 1, 3}, {0, 2, 3}, {1, 3})
  \cup {<<TYPE_SW, IO_MMAP, 1, 2>>}

\* Two threads, for the interleavings of main, workers and device.
TeamArgs == Calls({TYPE_RW}, Engines, {2}, {1}, {1})

Calling == EngineArgs \cup TeamArgs

\* No time at all and some.
TwoDurations == {0, 3}
=============================================================================
