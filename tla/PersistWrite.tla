----------------------------- MODULE PersistWrite -----------------------------
(***************************************************************************)
(* What one iteration of a write kernel does to memory: nvmem_memcpy under *)
(* --ntstore=1, else memcpy and persist_data.  The target buffer of        *)
(* nvmem_memcpy never overlaps its malloc'ed source here, so only the      *)
(* forward copy is reached (NtMemcpy has both).                            *)
(*                                                                         *)
(* Every store instruction group gets a stamp of its own, so that a line   *)
(* whose streamed part is on the media and whose cached tail is not is     *)
(* told apart from a persistent one.                                       *)
(***************************************************************************)
EXTENDS MemoryHierarchy, NtPieces

CONSTANTS
  Modes,      \* records of the options ntstore_used, sync, flush, block_size
  Targets,    \* the addresses a kernel may write at
  MAX_OPS     \* bound of the model: iterations

CLFLUSHOPT_USED == 0
CLFLUSH_USED == 1
CLWB_USED == 2

ASSUME PersistWriteAssumption ==
  /\ Modes \subseteq [ntstore_used : BOOLEAN, sync : BOOLEAN,
                      flush : {CLFLUSHOPT_USED, CLFLUSH_USED, CLWB_USED},
                      block_size : Nat \ {0}]
  /\ Targets \subseteq Nat
  /\ MAX_OPS \in Nat
  /\ \A m \in Modes, a \in Targets : a \div LINE .. (a + m.block_size - 1) \div LINE \subseteq Lines

VARIABLES
  mode,      \* the options of this run
  pc,        \* where the thread is
  base,      \* the address of the current operation
  dest,      \* nvmem_memcpy's advancing target; the end of the block after it
  ptr,       \* the flush loops' pointer
  stamp,     \* stores so far
  ops,       \* operations so far
  acked      \* per line, the stamp that returned synchronous writes vouch for

threadVars == <<mode, pc, base, dest, ptr, stamp, ops, acked>>
vars == <<memoryVars, threadVars>>

\* "idle": in the kernel, between two operations.  "stream": in the piece
\* loop.  "tail": in flushopt() of memmove_small_sse2.  "memcpy", "flush": the
\* two steps of a cached write.  "fence": all stores and flushes issued.
\* "trap": a streaming store found an unaligned target.
PCs == {"idle", "stream", "tail", "memcpy", "flush", "fence", "trap"}

Init ==
  /\ MemoryInit
  /\ mode \in Modes
  /\ pc = "idle"
  /\ base = 0 /\ dest = 0 /\ ptr = 0
  /\ stamp = 0 /\ ops = 0
  /\ acked = Nothing

End == base + mode.block_size

LineOf(a) == a \div LINE

\* The lines that hold the n bytes from a, for n > 0.
LinesOf(a, n) == LineOf(a) .. LineOf(a + n - 1)

\* Mutated: the loop starts at the address itself.
LineStartUnaligned(a) == a

\* addr & ~(FLUSH_ALIGN - 1)
LineStart(a) == LineOf(a) * LINE

Begin(a) ==
  /\ pc = "idle" /\ ops < MAX_OPS
  /\ base' = a /\ dest' = a
  /\ ops' = ops + 1
  /\ pc' = IF mode.ntstore_used THEN "stream" ELSE "memcpy"
  /\ UNCHANGED <<memoryVars, mode, ptr, stamp, acked>>

\* A piece that streaming stores fit, see NtPieces.
StreamPiece ==
  LET k == PieceSize(End - dest) IN
  /\ pc = "stream" /\ dest < End
  /\ IsStream(k) /\ ~ Traps(dest, k)
  /\ NtStore(LinesOf(dest, k), stamp + 1)
  /\ stamp' = stamp + 1
  /\ dest' = dest + k
  /\ UNCHANGED <<mode, pc, base, ptr, ops, acked>>

StreamTrap ==
  /\ pc = "stream" /\ dest < End
  /\ Traps(dest, PieceSize(End - dest))
  /\ pc' = "trap"
  /\ UNCHANGED <<memoryVars, mode, base, dest, ptr, stamp, ops, acked>>

\* The other tails: memmove_small_sse2 stores through the cache, then flushes
\* the lines from LineStart(dest) on.
SmallTail ==
  LET k == PieceSize(End - dest) IN
  /\ pc = "stream" /\ dest < End /\ ~ IsStream(k)
  /\ CachedStore(LinesOf(dest, k), stamp + 1)
  /\ stamp' = stamp + 1
  /\ ptr' = LineStart(dest)
  /\ pc' = "tail"
  /\ UNCHANGED <<mode, base, dest, ops, acked>>

\* One turn of the loop of flushopt().
FlushTail ==
  /\ pc = "tail" /\ ptr < End
  /\ StartFlush(LineOf(ptr))
  /\ ptr' = ptr + LINE
  /\ UNCHANGED <<mode, pc, base, dest, stamp, ops, acked>>

Streamed ==
  /\ \/ pc = "stream" /\ dest = End
     \/ pc = "tail" /\ ptr >= End
  /\ pc' = "fence"
  /\ UNCHANGED <<memoryVars, mode, base, dest, ptr, stamp, ops, acked>>

\* memcpy, then persist_data, which looks at nothing unless sync is set.
Memcpy ==
  /\ pc = "memcpy"
  /\ CachedStore(LinesOf(base, mode.block_size), stamp + 1)
  /\ stamp' = stamp + 1
  /\ ptr' = LineStart(base)
  /\ pc' = IF mode.sync THEN "flush" ELSE "fence"
  /\ UNCHANGED <<mode, base, dest, ops, acked>>

\* Mutated: the pointer is not advanced.
PersistLineForever ==
  /\ pc = "flush" /\ ptr < End
  /\ IF mode.flush = CLFLUSH_USED THEN Flush(LineOf(ptr)) ELSE StartFlush(LineOf(ptr))
  /\ UNCHANGED <<mode, pc, base, dest, ptr, stamp, ops, acked>>

\* One turn of the loop of persist_data.
PersistLine ==
  /\ pc = "flush" /\ ptr < End
  /\ IF mode.flush = CLFLUSH_USED THEN Flush(LineOf(ptr)) ELSE StartFlush(LineOf(ptr))
  /\ ptr' = ptr + LINE
  /\ UNCHANGED <<mode, pc, base, dest, stamp, ops, acked>>

Persisted ==
  /\ pc = "flush" /\ ptr >= End
  /\ pc' = "fence"
  /\ UNCHANGED <<memoryVars, mode, base, dest, ptr, stamp, ops, acked>>

\* Mutated: no sfence.
ReturnUnfenced ==
  /\ pc = "fence"
  /\ acked' = IF mode.sync
              THEN [l \in Lines |-> IF l \in LinesOf(base, mode.block_size)
                                    THEN Visible(l) ELSE acked[l]]
              ELSE acked
  /\ pc' = "idle"
  /\ UNCHANGED <<memoryVars, mode, base, dest, ptr, stamp, ops>>

\* sfence if sync, and back to the kernel.  From then on a synchronous write
\* vouches for what a load of its lines returns.
Return ==
  /\ pc = "fence"
  /\ mode.sync => Fenced
  /\ acked' = IF mode.sync
              THEN [l \in Lines |-> IF l \in LinesOf(base, mode.block_size)
                                    THEN Visible(l) ELSE acked[l]]
              ELSE acked
  /\ pc' = "idle"
  /\ UNCHANGED <<memoryVars, mode, base, dest, ptr, stamp, ops>>

ThreadStep ==
  \/ \E a \in Targets : Begin(a)
  \/ StreamPiece \/ StreamTrap \/ SmallTail \/ FlushTail \/ Streamed
  \/ Memcpy \/ PersistLine \/ Persisted \/ Return

Hardware(l) == (Evict(l) \/ Drain(l) \/ FinishFlush(l)) /\ UNCHANGED threadVars

Stopped ==
  /\ pc = "trap" \/ (pc = "idle" /\ ops = MAX_OPS)
  /\ UNCHANGED vars

Next == ThreadStep \/ (\E l \in Lines : Hardware(l)) \/ Stopped

Spec == Init /\ [][Next]_vars

\* Write-combining buffers drain and flushes finish, and the thread runs on.
Fairness ==
  /\ WF_vars(ThreadStep)
  /\ \A l \in Lines : WF_vars((Drain(l) \/ FinishFlush(l)) /\ UNCHANGED threadVars)

FairSpec == Spec /\ Fairness
-------------------------------------------------------------------------------
\* Types, and the bounds of the two advancing pointers: the piece loop stops
\* exactly at the end of the block, a flush loop less than a line past it.
TypeOK ==
  /\ mode \in Modes /\ pc \in PCs
  /\ stamp \in Nat /\ ops \in 0 .. MAX_OPS
  /\ media \in [Lines -> 0 .. stamp] /\ cache \in [Lines -> 0 .. stamp]
  /\ wcb \in [Lines -> 0 .. stamp] /\ flushq \in [Lines -> 0 .. stamp]
  /\ acked \in [Lines -> 0 .. stamp]
  /\ base \in Nat /\ dest \in Nat /\ ptr \in Nat
  /\ pc \in {"stream", "tail", "memcpy", "flush"} => dest \in base .. End
  /\ pc \in {"tail", "flush"} => ptr < End + LINE

\* A power failure at any instant loses nothing that a synchronous write that
\* has returned wrote: not the streamed lines, not the tail that went through
\* the cache, not the partial lines at both ends of the block.
Durable == \A l \in Lines : media[l] >= acked[l]

\* The whole thread, with the memory under it, implements DurableStore: above
\* all, mixing streaming and cached stores on one line, within an operation or
\* by two neighbouring ones, never lets older contents replace newer ones.
Promise == INSTANCE DurableStore WITH safe <- media, promised <- acked

ImplementsDurableStore == Promise!Spec

\* Every write returns, or traps on an unaligned target: the fence does not
\* wait for something no one will write back.
WriteReturns == pc # "idle" ~> pc \in {"idle", "trap"}
=============================================================================
