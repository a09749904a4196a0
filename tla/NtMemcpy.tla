------------------------------- MODULE NtMemcpy -------------------------------
(***************************************************************************)
(* One call of nvmem_memcpy (pflush.c) seen byte by byte: it is a memmove, *)
(* whatever the overlap of its arguments.  Every piece is loaded entirely  *)
(* into registers before it is stored, so a piece is one step.  Instead of *)
(* the bytes' values the model keeps which target bytes were written and   *)
(* which source bytes were loaded after they had been overwritten.         *)
(***************************************************************************)
EXTENDS NtPieces

CONSTANTS
  ADDR_SPACE,    \* 2^64: uintptr_t subtraction wraps around
  Calls          \* the argument records checked

\* Both ranges lie in the address space.
NtArguments == {c \in [dest : Nat, src : Nat, len : Nat] :
                  c.dest + c.len <= ADDR_SPACE /\ c.src + c.len <= ADDR_SPACE}

ASSUME NtMemcpyAssumption ==
  /\ ADDR_SPACE \in Nat \ {0}
  /\ Calls \subseteq NtArguments

VARIABLES
  call,          \* the arguments
  at,            \* "entry", "fw", "bw", "done", or "trap" after a #GP
  dest, src,     \* the pointers as the copy advances
  len,           \* bytes still to copy
  written,       \* bytes stored to
  stale          \* bytes loaded after having been stored to

vars == <<call, at, dest, src, len, written, stale>>

Init ==
  /\ call \in Calls
  /\ at = "entry"
  /\ dest = call.dest /\ src = call.src /\ len = call.len
  /\ written = {} /\ stale = {}

\* Mutated: the pointers are subtracted as signed numbers.
GoesForwardSigned == dest - src >= len

\* if ((uintptr_t)dest - (uintptr_t)src >= len): forward when dest is below
\* src (the difference wraps) or past its end.
GoesForward == (dest - src) % ADDR_SPACE >= len

EnterForward ==
  /\ at = "entry" /\ GoesForward
  /\ at' = "fw"
  /\ UNCHANGED <<call, dest, src, len, written, stale>>

EnterBackward ==
  /\ at = "entry" /\ ~ GoesForward
  /\ at' = "bw"
  /\ dest' = dest + len
  /\ src' = src + len
  /\ UNCHANGED <<call, len, written, stale>>

\* Load k bytes at s, store them at d.
Move(d, s, k) ==
  \/ /\ ~ Traps(d, k)
     /\ stale' = stale \cup (written \cap s .. s + k - 1)
     /\ written' = written \cup Stored(d, k)
     /\ len' = len - k
     /\ UNCHANGED <<call, at>>
  \/ /\ Traps(d, k)
     /\ at' = "trap"
     /\ UNCHANGED <<call, len, written, stale>>

ForwardPiece ==
  LET k == PieceSize(len) IN
  /\ at = "fw" /\ len > 0
  /\ Move(dest, src, k)
  /\ dest' = dest + k
  /\ src' = src + k

BackwardPiece ==
  LET k == PieceSize(len) IN
  /\ at = "bw" /\ len > 0
  /\ Move(dest - k, src - k, k)
  /\ dest' = dest - k
  /\ src' = src - k

Return ==
  /\ at \in {"fw", "bw"} /\ len = 0
  /\ at' = "done"
  /\ UNCHANGED <<call, dest, src, len, written, stale>>

Returned == at \in {"done", "trap"} /\ UNCHANGED vars

Next ==
  EnterForward \/ EnterBackward \/ ForwardPiece \/ BackwardPiece \/ Return \/ Returned

Spec == Init /\ [][Next]_vars /\ WF_vars(Next)
-------------------------------------------------------------------------------
Target == call.dest .. call.dest + call.len - 1

\* Types of all variables, and of the history.
TypeOK ==
  /\ call \in Calls
  /\ at \in {"entry", "fw", "bw", "done", "trap"}
  /\ dest \in Int /\ src \in Int /\ len \in Nat
  /\ written \subseteq Target
  /\ stale \subseteq written

\* nvmem_memcpy is memmove: no byte outside the target is stored to, no source
\* byte is read after it was overwritten, and on return the target is written
\* completely.
MovesLikeMemmove ==
  written \subseteq Target /\ stale = {} /\ (at = "done" => written = Target)

\* The alignment that a caller owes: a forward copy to a 16-byte aligned
\* target, or a backward copy that ends at one, never traps, whatever the
\* length and its tail.
AlignedNeverTraps ==
  at = "trap" =>
    IF (call.dest - call.src) % ADDR_SPACE >= call.len
    THEN call.dest % 16 # 0
    ELSE (call.dest + call.len) % 16 # 0

\* The piecewise loops terminate.
CopyEnds == <>(at \in {"done", "trap"})
=============================================================================
