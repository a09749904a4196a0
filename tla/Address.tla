------------------------------- MODULE Address -------------------------------
(***************************************************************************)
(* The address arithmetic shared by the four access kernels of main.cc     *)
(* (randomwrite, seqwrite, randomread, seqread): where a kernel starts,    *)
(* how far one operation moves, when it wraps and how many operations it   *)
(* performs.  An options record o is the source's struct thread_options,   *)
(* cut down to the fields that control flow depends on.                    *)
(***************************************************************************)
EXTENDS Integers

CONSTANTS
  RANDOM_SKIP,     \* #define RANDOM_SKIP (1024)
  MAX_OPT_LIMIT    \* #define MAX_OPT_LIMIT (10000000)

ASSUME AddressAssumption ==
  /\ RANDOM_SKIP \in Nat \ {0}
  /\ MAX_OPT_LIMIT \in Nat \ {0}

R_WRITE == "R_WRITE"
S_WRITE == "S_WRITE"
R_READ  == "R_READ"
S_READ  == "S_READ"
S_MIXED == "S_MIXED"
R_MIXED == "R_MIXED"

KernelTypes == {R_WRITE, S_WRITE, R_READ, S_READ}

thread_options ==
  [type : KernelTypes, verify : BOOLEAN, align_size : Nat, clock_used : BOOLEAN,
   start_addr : Nat, end_addr : Nat, write_amount : Nat, read_amount : Nat,
   block_size : Nat]

IsRandom(o) == o.type \in {R_WRITE, R_READ}
IsWrite(o)  == o.type \in {R_WRITE, S_WRITE}

\* The "address % align_size != 0" block: the next multiple of al, a itself
\* when it already is one.
AlignUp(a, al) == IF a % al # 0 THEN ((a + al) \div al) * al ELSE a

\* skip_step of the random kernels, block_size in the sequential ones.
Step(o) ==
  IF IsRandom(o)
  THEN IF o.block_size < RANDOM_SKIP THEN RANDOM_SKIP ELSE o.block_size + RANDOM_SKIP
  ELSE o.block_size

\* total_count: the amount the kernel reads or writes, in blocks, capped.
TotalCount(o) ==
  LET n == (IF IsWrite(o) THEN o.write_amount ELSE o.read_amount) \div o.block_size
  IN  IF n > MAX_OPT_LIMIT THEN MAX_OPT_LIMIT ELSE n

FirstAddress(o) == AlignUp(o.start_addr, o.align_size)

\* Mutated: the wrap forgets to align the start address again.
NextAddressUnaligned(o, a) ==
  IF a + Step(o) >= o.end_addr THEN o.start_addr ELSE a + Step(o)

\* Mutated: ">" for ">=" in the wrap test.
NextAddressLate(o, a) ==
  IF a + Step(o) > o.end_addr THEN FirstAddress(o) ELSE a + Step(o)

\* address += step, back to the first address once end_addr is reached.  The
\* test looks at the first byte of the next block only.
NextAddress(o, a) ==
  IF a + Step(o) >= o.end_addr THEN FirstAddress(o) ELSE a + Step(o)
=============================================================================
