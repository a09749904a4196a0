------------------------------- MODULE SsdEngine -------------------------------
(***************************************************************************)
(* The worker threads of ssd_test.cc: run_benchmark and the four engines   *)
(* it dispatches to, each on a file of its own.  Files, sizes and blocks   *)
(* are counted in units of one logical sector.                             *)
(*                                                                         *)
(* No engine looks at the result of a write, a flush, open or fallocate,   *)
(* so a call that fails or is cut short changes what the file holds and    *)
(* nothing else; "lost" remembers that it happened.                        *)
(***************************************************************************)
EXTENDS Integers, Sequences

CONSTANTS
  MAX_THREAD,  \* options[32] and thread_id[32] of main
  QUEUE,       \* queue_size of io_libaio, 8
  PAGE,        \* units of one page: what msync works on
  MAX_UNIT,    \* bound of the model: no file is longer
  Durations    \* elapsed times a timer may report

ASSUME SsdEngineAssumption ==
  /\ MAX_THREAD \in Nat \ {0}
  /\ QUEUE \in Nat \ {0}
  /\ PAGE \in Nat \ {0}
  /\ MAX_UNIT \in Nat
  /\ Durations \subseteq Nat

VARIABLES
  eopt,      \* struct thread_options options[32], without iops
  iops,      \* the field iops: << >> until written
  epc,       \* where each thread is
  handle,    \* whether the calls on its file, mapping or aio context can succeed
  size,      \* the length of its file
  ei,        \* the local "i" of the engine
  offset,    \* file position, "offset", ptr - dest or block_size * current_count
  inflight,  \* offsets of the aio requests submitted and not completed
  writes,    \* how often each unit of the file has been written
  dirty,     \* the units that are only in the page cache
  good,      \* blocks written in full
  lost,      \* some call for this thread failed or was cut short
  fault      \* the signal that killed the process, or "none"

engineVars == <<eopt, iops, epc, handle, size, ei, offset, inflight, writes,
                dirty, good, lost, fault>>

Threads == 0 .. MAX_THREAD - 1
Unit    == 0 .. MAX_UNIT - 1

TYPE_RW == 1
TYPE_SW == 2

IO_READ_WRITE    == 1
IO_DIRECT_ACCESS == 2
IO_MMAP          == 3
IO_LIBAIO        == 4
Engines == {IO_READ_WRITE, IO_DIRECT_ACCESS, IO_MMAP, IO_LIBAIO}

thread_options == [access_type : Nat, io_type : Nat, block_size : Nat, total_size : Nat]

Unset == [unset |-> TRUE]    \* an element of options not yet written

\* "failed": pthread_create did not create it.  "setup": file open, timer
\* started.  "loop": at the loop test.  "sync": written, before fsync or msync.
\* "wait": in io_getevents.
EnginePCs == {"none", "failed", "created", "setup", "loop", "sync", "wait", "done"}

Faults == {"none", "SIGFPE", "SIGSEGV", "SIGBUS", "SIGABRT"}

Rate == [ops : Nat, ns : Nat]   \* iops, as the quotient it is

EngineTypeOK ==
  /\ eopt \in [Threads -> thread_options \cup {Unset}]
  /\ iops \in [Threads -> Seq(Rate)]
  /\ epc \in [Threads -> EnginePCs]
  /\ handle \in [Threads -> {"none", "good", "bad"}]
  /\ size \in [Threads -> Nat]
  /\ ei \in [Threads -> Nat]
  /\ offset \in [Threads -> Nat]
  /\ inflight \in [Threads -> SUBSET Nat]
  /\ writes \in [Threads -> [Unit -> Nat]]
  /\ dirty \in [Threads -> SUBSET Unit]
  /\ good \in [Threads -> Nat]
  /\ lost \in [Threads -> BOOLEAN]
  /\ fault \in Faults
  /\ \A t \in Threads :
       epc[t] \notin {"none", "failed"} => eopt[t] \in thread_options

EngineInit ==
  /\ eopt = [t \in Threads |-> Unset]
  /\ iops = [t \in Threads |-> << >>]
  /\ epc = [t \in Threads |-> "none"]
  /\ handle = [t \in Threads |-> "none"]
  /\ size = [t \in Threads |-> 0]
  /\ ei = [t \in Threads |-> 0]
  /\ offset = [t \in Threads |-> 0]
  /\ inflight = [t \in Threads |-> {}]
  /\ writes = [t \in Threads |-> [u \in Unit |-> 0]]
  /\ dirty = [t \in Threads |-> {}]
  /\ good = [t \in Threads |-> 0]
  /\ lost = [t \in Threads |-> FALSE]
  /\ fault = "none"

Alive == fault = "none"

\* The process dies; lostBy is the thread whose call was refused, or nobody.
Die(s, lostBy) ==
  /\ fault' = s
  /\ lost' = [t \in Threads |-> lost[t] \/ t \in lostBy]
  /\ UNCHANGED <<eopt, iops, epc, handle, size, ei, offset, inflight, writes,
                 dirty, good>>

Goto(t, pc) == epc' = [epc EXCEPT ![t] = pc]
-------------------------------------------------------------------------------
\* Pure parts of the engines.
IsPowerOfTwo(n) == \E k \in 0 .. n : 2 ^ k = n

\* The number of turns of the engine's loop; a turn of io_libaio is a batch.
Count(o) ==
  o.total_size \div (IF o.io_type = IO_LIBAIO THEN o.block_size * QUEUE ELSE o.block_size)

\* Mutated: the wrap test lets the end of the file through.
NextOffsetLate(o, a) ==
  LET b == CASE o.access_type = TYPE_RW -> a + 2 * o.block_size
             [] o.access_type = TYPE_SW -> a + o.block_size
             [] OTHER -> a
  IN  IF b > o.total_size THEN 0 ELSE b

\* io_direct_access: every other block or every block, from 0 again at the end.
NextOffset(o, a) ==
  LET b == CASE o.access_type = TYPE_RW -> a + 2 * o.block_size
             [] o.access_type = TYPE_SW -> a + o.block_size
             [] OTHER -> a
  IN  IF b >= o.total_size THEN 0 ELSE b

Span(a, n) == a .. a + n - 1

\* The units that msync(ptr, n) with ptr at a, on a page boundary, flushes.
PagesOf(a, n) == a .. ((a + n + PAGE - 1) \div PAGE) * PAGE - 1

\* What a write of a block may transfer: all of it unless the call fails.
Transfers(t) == IF handle[t] = "good" THEN 0 .. eopt[t].block_size ELSE {0}

\* n units of a block of thread t reach the file at a.
Transfer(t, a, n) ==
  /\ writes' = [writes EXCEPT ![t] =
                  [u \in Unit |-> @[u] + (IF u \in Span(a, n) THEN 1 ELSE 0)]]
  /\ good' = [good EXCEPT ![t] = IF n = eopt[t].block_size THEN @ + 1 ELSE @]
  /\ lost' = [lost EXCEPT ![t] = @ \/ n < eopt[t].block_size]

Looping(t, engine) ==
  /\ Alive /\ epc[t] = "loop"
  /\ eopt[t].io_type = engine
  /\ ei[t] < Count(eopt[t])
-------------------------------------------------------------------------------
\* open() under the engine's flags, and timer.Start().
Open(t) ==
  /\ Alive /\ epc[t] = "created"
  /\ \E ok \in BOOLEAN :
       /\ handle' = [handle EXCEPT ![t] = IF ok THEN "good" ELSE "bad"]
       /\ lost' = [lost EXCEPT ![t] = @ \/ ~ ok]
  /\ Goto(t, "setup")
  /\ UNCHANGED <<eopt, iops, size, ei, offset, inflight, writes, dirty, good, fault>>

\* The engine up to its loop: mmap or io_setup, the division by the block size,
\* and posix_memalign, which wants a power of two and otherwise leaves buff
\* unset.  An io_type without an engine falls through the switch.
Setup(t) ==
  LET o == eopt[t] IN
  /\ Alive /\ epc[t] = "setup"
  /\ \/ /\ o.io_type \in Engines /\ o.block_size = 0
        /\ Die("SIGFPE", {})
     \/ /\ o.io_type \in Engines /\ o.block_size # 0 /\ ~ IsPowerOfTwo(o.block_size)
        /\ Die("SIGSEGV", {})
     \/ /\ o.io_type \in Engines => o.block_size # 0
        /\ \/ UNCHANGED <<handle, lost>>
           \/ /\ o.io_type \in {IO_MMAP, IO_LIBAIO}
              /\ handle' = [handle EXCEPT ![t] = "bad"]
              /\ lost' = [lost EXCEPT ![t] = TRUE]
        /\ Goto(t, "loop")
        /\ UNCHANGED <<eopt, iops, size, ei, offset, inflight, writes, dirty, good, fault>>

\* io_read_write: write(fd, buff, block_size) at the file position.
Write(t) ==
  /\ Looping(t, IO_READ_WRITE)
  /\ \E n \in Transfers(t) :
       /\ Transfer(t, offset[t], n)
       /\ offset' = [offset EXCEPT ![t] = @ + n]
       /\ dirty' = [dirty EXCEPT ![t] = @ \cup (Unit \cap Span(offset[t], n))]
  /\ Goto(t, "sync")
  /\ UNCHANGED <<eopt, iops, handle, size, ei, inflight, fault>>

\* io_direct_access: pwrite at offset, past the page cache.
Pwrite(t) ==
  /\ Looping(t, IO_DIRECT_ACCESS)
  /\ \E n \in Transfers(t) : Transfer(t, offset[t], n)
  /\ offset' = [offset EXCEPT ![t] = NextOffset(eopt[t], @)]
  /\ ei' = [ei EXCEPT ![t] = @ + 1]
  /\ UNCHANGED <<eopt, iops, epc, handle, size, inflight, dirty, fault>>

\* io_mmap: memcpy to ptr.  Without a mapping ptr is MAP_FAILED; past the end
\* of the file there is no page.
Store(t) ==
  LET span == Span(offset[t], eopt[t].block_size) IN
  /\ Looping(t, IO_MMAP)
  /\ \/ /\ handle[t] = "bad"
        /\ Die("SIGSEGV", {})
     \/ /\ handle[t] = "good" /\ ~ (span \subseteq 0 .. size[t] - 1)
        /\ Die("SIGBUS", {})
     \/ /\ handle[t] = "good" /\ span \subseteq 0 .. size[t] - 1
        /\ Transfer(t, offset[t], eopt[t].block_size)
        /\ dirty' = [dirty EXCEPT ![t] = @ \cup span]
        /\ Goto(t, "sync")
        /\ UNCHANGED <<eopt, iops, handle, size, ei, offset, inflight, fault>>

\* Mutated: the loop variable is not advanced.
SyncForever(t) ==
  /\ Alive /\ epc[t] = "sync"
  /\ dirty' = [dirty EXCEPT ![t] = {}]
  /\ Goto(t, "loop")
  /\ UNCHANGED <<eopt, iops, handle, size, ei, offset, inflight, writes, good, lost, fault>>

\* fsync(fd), or msync of the block just written, and the end of the turn.
\* msync refuses an address inside a page, which nobody notices.
Sync(t) ==
  LET o == eopt[t] IN
  /\ Alive /\ epc[t] = "sync"
  /\ \/ /\ dirty' = [dirty EXCEPT ![t] =
              IF o.io_type = IO_READ_WRITE THEN {}
              ELSE IF offset[t] % PAGE = 0 THEN @ \ PagesOf(offset[t], o.block_size)
              ELSE @]
        /\ UNCHANGED lost
     \/ /\ lost' = [lost EXCEPT ![t] = TRUE]
        /\ UNCHANGED dirty
  /\ offset' = [offset EXCEPT ![t] =
                  IF o.io_type = IO_MMAP THEN @ + o.block_size ELSE @]
  /\ ei' = [ei EXCEPT ![t] = @ + 1]
  /\ Goto(t, "loop")
  /\ UNCHANGED <<eopt, iops, handle, size, inflight, writes, good, fault>>

Batch(t) == {offset[t] + j * eopt[t].block_size : j \in 0 .. QUEUE - 1}

\* io_libaio: a batch is filled in and submitted.  The assertion ends the
\* process unless all of it is accepted.  aio_flags and aio_resfd of the iocbs
\* are never set, so that io_submit may refuse a batch of its own accord.
Submit(t) ==
  /\ Looping(t, IO_LIBAIO)
  /\ \/ /\ handle[t] = "good"
        /\ inflight' = [inflight EXCEPT ![t] = Batch(t)]
        /\ offset' = [offset EXCEPT ![t] = @ + QUEUE * eopt[t].block_size]
        /\ Goto(t, "wait")
        /\ UNCHANGED <<eopt, iops, handle, size, ei, writes, dirty, good, lost, fault>>
     \/ Die("SIGABRT", {t})

\* The device completes the request at a, in any order.  Its result is in an
\* io_event that nobody reads.
Complete(t, a) ==
  /\ Alive /\ a \in inflight[t]
  /\ \E n \in 0 .. eopt[t].block_size : Transfer(t, a, n)
  /\ inflight' = [inflight EXCEPT ![t] = @ \ {a}]
  /\ UNCHANGED <<eopt, iops, epc, handle, size, ei, offset, dirty, fault>>

\* Mutated: min_nr is 0.
ReapAny(t) ==
  /\ Alive /\ epc[t] = "wait"
  /\ ei' = [ei EXCEPT ![t] = @ + 1]
  /\ Goto(t, "loop")
  /\ UNCHANGED <<eopt, iops, handle, size, offset, inflight, writes, dirty, good, lost, fault>>

\* io_getevents(ioctx, ret, ret, ...): all of the batch, or an interruption
\* that the assertion turns into an abort.
Reap(t) ==
  /\ Alive /\ epc[t] = "wait"
  /\ \/ /\ inflight[t] = {}
        /\ ei' = [ei EXCEPT ![t] = @ + 1]
        /\ Goto(t, "loop")
        /\ UNCHANGED <<eopt, iops, handle, size, offset, inflight, writes, dirty,
                       good, lost, fault>>
     \/ /\ inflight[t] # {}
        /\ Die("SIGABRT", {t})

\* The engine returns, the timer stops, and the rate is taken from
\* total_size / block_size.
Finish(t) ==
  LET o == eopt[t] IN
  /\ Alive /\ epc[t] = "loop"
  /\ o.io_type \in Engines => ei[t] >= Count(o)
  /\ \/ /\ o.block_size = 0
        /\ Die("SIGFPE", {})
     \/ /\ o.block_size # 0
        /\ \E ns \in Durations :
             iops' = [iops EXCEPT ![t] = <<[ops |-> o.total_size \div o.block_size, ns |-> ns]>>]
        /\ Goto(t, "done")
        /\ UNCHANGED <<eopt, handle, size, ei, offset, inflight, writes, dirty,
                       good, lost, fault>>

EngineStep(t) ==
  \/ Open(t) \/ Setup(t) \/ Finish(t)
  \/ Write(t) \/ Pwrite(t) \/ Store(t) \/ Sync(t)
  \/ Submit(t) \/ Reap(t)

DeviceStep(t) == \E a \in inflight[t] : Complete(t, a)
=============================================================================
