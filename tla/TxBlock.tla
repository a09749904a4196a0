-------------------------------- MODULE TxBlock --------------------------------
(***************************************************************************)
(* The transaction block that libpmemobj/tx.h makes of TX_BEGIN,           *)
(* TX_ONABORT, TX_ONCOMMIT, TX_FINALLY and TX_END: a setjmp, a loop over   *)
(* the stage that the library reports, a switch with one case per section, *)
(* and the end.  The stages and their transitions are the library's, known *)
(* from tx_base.h: they change in its functions only, and every way into   *)
(* the ONABORT stage out of the WORK stage is a longjmp to the setjmp.     *)
(* One block, not nested.  The WORK section changes fields with TX_SET,    *)
(* TX_MEMCPY or TX_MEMSET; it may abort, and the machine may crash.        *)
(***************************************************************************)
EXTENDS Integers, Sequences

CONSTANTS
  Fields,              \* of persistent objects
  Programs,            \* the fields that a WORK section may set, in order
  Errors,              \* error numbers
  Noise,               \* an errno left behind by the code of a section
  Garbage,             \* a local whose value the longjmp made indeterminate
  Builds               \* whether POBJ_TX_CRASH_ON_NO_ONABORT is defined

ASSUME TxBlockAssumption ==
  /\ Programs \subseteq Seq(Fields)
  /\ Errors \subseteq Nat \ {0} /\ Noise \in Nat
  /\ Garbage \notin Nat
  /\ Builds \subseteq BOOLEAN

TX_STAGE_NONE     == "NONE"
TX_STAGE_WORK     == "WORK"
TX_STAGE_ONCOMMIT == "ONCOMMIT"
TX_STAGE_ONABORT  == "ONABORT"
TX_STAGE_FINALLY  == "FINALLY"

pobj_tx_stage == {TX_STAGE_NONE, TX_STAGE_WORK, TX_STAGE_ONCOMMIT,
                  TX_STAGE_ONABORT, TX_STAGE_FINALLY}

Optional == {TX_STAGE_ONCOMMIT, TX_STAGE_ONABORT, TX_STAGE_FINALLY}

VARIABLES
  POBJ_TX_CRASH_ON_NO_ONABORT,   \* of this build
  sections,     \* the optional sections that are written down
  work,         \* what the WORK section sets
  tx_pc,           \* "begin", "jumped", "loop", "section", "default", "end",
                \* "done", "killed" or "recovered"
  _stage,       \* the locals of the block
  _pobj_errno,
  errno,
  stage,        \* of the library: the stage, the last error, the undo log
  error,
  undo,
  data,         \* the fields, 0 before and 1 after
  k,            \* the WORK section has reached field work[k] and
  snapped,      \* has added it to the transaction
  ran           \* history: the sections run, in order

code   == <<POBJ_TX_CRASH_ON_NO_ONABORT, sections, work>>
locals == <<_stage, _pobj_errno>>
tx     == <<stage, error, undo>>
body   == <<data, k, snapped>>
txVars   == <<code, tx_pc, locals, errno, tx, body, ran>>

Zero == [f \in Fields |-> 0]

TxInit ==
  /\ POBJ_TX_CRASH_ON_NO_ONABORT \in Builds
  /\ sections \in SUBSET Optional
  /\ work \in Programs
  /\ tx_pc = "begin"
  /\ _stage = Garbage /\ _pobj_errno = Garbage
  /\ errno = 0
  /\ stage = TX_STAGE_NONE /\ error = 0 /\ undo = << >>
  /\ data = Zero /\ k = 1 /\ snapped = FALSE
  /\ ran = << >>

\* What a crash now, or an abort, would leave of the fields.
RolledBack == [f \in Fields |-> IF f \in DOMAIN undo THEN undo[f] ELSE data[f]]

\* The library gives the transaction up with error e.
Abort(e) ==
  /\ stage' = TX_STAGE_ONABORT
  /\ error' = e
  /\ data' = RolledBack
  /\ undo' = << >>

\* setjmp returns 0 and pmemobj_tx_begin starts the transaction or fails.
Begin ==
  /\ tx_pc = "begin"
  /\ \/ /\ stage' = TX_STAGE_WORK
        /\ _pobj_errno' = 0
        /\ UNCHANGED <<errno, error, undo, data>>
     \/ \E e \in Errors :
          /\ Abort(e)
          /\ _pobj_errno' = e
          /\ errno' = e
  /\ tx_pc' = "loop"
  /\ UNCHANGED <<code, _stage, k, snapped, ran>>

\* setjmp returns again.
Jumped ==
  /\ tx_pc = "jumped"
  /\ errno' = error
  /\ tx_pc' = "loop"
  /\ UNCHANGED <<code, locals, tx, body, ran>>

\* while ((_stage = pmemobj_tx_stage()) != TX_STAGE_NONE) switch (_stage)
Loop ==
  /\ tx_pc = "loop"
  /\ _stage' = stage
  /\ \/ stage = TX_STAGE_NONE /\ tx_pc' = "end" /\ UNCHANGED ran
     \/ /\ stage \in {TX_STAGE_WORK} \cup sections
        /\ tx_pc' = "section" /\ ran' = Append(ran, stage)
     \/ /\ stage \in Optional \ sections
        /\ tx_pc' = "default" /\ UNCHANGED ran
  /\ UNCHANGED <<code, _pobj_errno, errno, tx, body>>

Working == tx_pc = "section" /\ _stage = TX_STAGE_WORK

\* longjmp out of the WORK section.
Longjmp == tx_pc' = "jumped" /\ _stage' = Garbage /\ _pobj_errno' = Garbage

\* The code of the WORK section calls pmemobj_tx_abort.
UserAbort ==
  /\ Working
  /\ \E e \in Errors : Abort(e)
  /\ Longjmp
  /\ UNCHANGED <<code, errno, k, snapped, ran>>

\* Mutated: a range that could not be added does not end the section.
AddIgnored ==
  LET f == work[k] IN
  /\ Working /\ k <= Len(work) /\ ~ snapped
  /\ \/ undo' = IF f \in DOMAIN undo THEN undo
                ELSE [g \in DOMAIN undo \cup {f} |-> IF g = f THEN data[f] ELSE undo[g]]
     \/ UNCHANGED undo
  /\ snapped' = TRUE
  /\ UNCHANGED <<code, tx_pc, locals, errno, stage, error, data, k, ran>>

\* TX_ADD, as TX_SET, TX_MEMCPY and TX_MEMSET do first: the old value goes to
\* the undo log, or the transaction is aborted.
Add ==
  LET f == work[k] IN
  /\ Working /\ k <= Len(work) /\ ~ snapped
  /\ \/ /\ undo' = IF f \in DOMAIN undo THEN undo
                   ELSE [g \in DOMAIN undo \cup {f} |-> IF g = f THEN data[f] ELSE undo[g]]
        /\ snapped' = TRUE
        /\ UNCHANGED <<tx_pc, locals, stage, error, data>>
     \/ /\ \E e \in Errors : Abort(e)
        /\ Longjmp
        /\ UNCHANGED snapped
  /\ UNCHANGED <<code, errno, k, ran>>

\* The assignment, memcpy or memset.
Store ==
  /\ Working /\ k <= Len(work) /\ snapped
  /\ data' = [data EXCEPT ![work[k]] = 1]
  /\ k' = k + 1
  /\ snapped' = FALSE
  /\ UNCHANGED <<code, tx_pc, locals, errno, tx, ran>>

\* pmemobj_tx_process: a commit in the WORK stage, and on to the next stage.
Process ==
  /\ stage' = CASE stage = TX_STAGE_WORK -> TX_STAGE_ONCOMMIT
                [] stage \in {TX_STAGE_ONCOMMIT, TX_STAGE_ONABORT} -> TX_STAGE_FINALLY
                [] OTHER -> TX_STAGE_NONE
  /\ undo' = IF stage = TX_STAGE_WORK THEN << >> ELSE undo
  /\ UNCHANGED error

\* The end of a section, where the next one begins.  The code of the section
\* may have left its own errno.
EndSection ==
  /\ tx_pc = "section"
  /\ _stage = TX_STAGE_WORK => k > Len(work)
  /\ Process
  /\ tx_pc' = "loop"
  /\ errno' \in {errno, Noise}
  /\ UNCHANGED <<code, locals, body, ran>>

\* The section of this stage is not written down.
Default ==
  /\ tx_pc = "default"
  /\ \/ /\ POBJ_TX_CRASH_ON_NO_ONABORT /\ _stage = TX_STAGE_ONABORT
        /\ tx_pc' = "killed"
        /\ UNCHANGED tx
     \/ /\ ~ (POBJ_TX_CRASH_ON_NO_ONABORT /\ _stage = TX_STAGE_ONABORT)
        /\ Process
        /\ tx_pc' = "loop"
  /\ UNCHANGED <<code, locals, errno, body, ran>>

\* Mutated: what pmemobj_tx_end returns is dropped.
EndDropsError ==
  /\ tx_pc = "end"
  /\ _pobj_errno' = error
  /\ tx_pc' = "done"
  /\ UNCHANGED <<code, _stage, errno, tx, body, ran>>

\* pmemobj_tx_end: a failed transaction's error comes back once more.
End ==
  /\ tx_pc = "end"
  /\ _pobj_errno' = error
  /\ errno' = IF error # 0 THEN error ELSE errno
  /\ tx_pc' = "done"
  /\ UNCHANGED <<code, _stage, tx, body, ran>>

Over == {"done", "killed", "recovered"}

\* The machine crashes; when the pool is opened again the undo log is applied.
Crash ==
  /\ tx_pc \notin Over
  /\ data' = RolledBack
  /\ undo' = << >>
  /\ tx_pc' = "recovered"
  /\ UNCHANGED <<code, locals, errno, stage, error, k, snapped, ran>>

BlockStep == \/ Begin \/ Jumped \/ Loop \/ UserAbort \/ Add \/ Store
             \/ EndSection \/ Default \/ End

TxNext == BlockStep \/ Crash \/ (tx_pc \in Over /\ UNCHANGED txVars)

TxSpec == TxInit /\ [][TxNext]_txVars

\* The thread runs, and so do the sections.
TxFairness == WF_txVars(BlockStep)

TxFairSpec == TxSpec /\ TxFairness
-------------------------------------------------------------------------------
\* Types; no value that the longjmp made indeterminate is used: neither the
\* stage that the switch looks at nor what becomes errno.
TxTypeOK ==
  /\ tx_pc \in {"begin", "jumped", "loop", "section", "default", "end"} \cup Over
  /\ _stage \in pobj_tx_stage \cup {Garbage}
  /\ _pobj_errno \in Errors \cup {0, Garbage}
  /\ errno \in Errors \cup {0, Noise}
  /\ stage \in pobj_tx_stage /\ error \in Errors \cup {0}
  /\ data \in [Fields -> {0, 1}] /\ k \in 1 .. Len(work) + 1 /\ snapped \in BOOLEAN
  /\ tx_pc \in {"section", "default"} => _stage = stage
  /\ tx_pc = "done" => _pobj_errno = error

\* The fields as the WORK section is to leave them.
Asked == [f \in Fields |-> IF \E i \in DOMAIN work : work[i] = f THEN 1 ELSE 0]

\* The stages that come before a stage.
Before(s) ==
  CASE s \in {TX_STAGE_ONCOMMIT, TX_STAGE_ONABORT} -> {TX_STAGE_WORK}
    [] s = TX_STAGE_FINALLY -> {TX_STAGE_WORK, TX_STAGE_ONCOMMIT, TX_STAGE_ONABORT}
    [] s = TX_STAGE_NONE    -> pobj_tx_stage \ {TX_STAGE_NONE}
    [] OTHER -> {}

\* The stages of a transaction: ONCOMMIT after a commit, ONABORT after an abort,
\* FINALLY after both, and no WORK if it could not begin.
Path(began) ==
  (IF began THEN {TX_STAGE_WORK} ELSE {})
    \cup {IF error = 0 THEN TX_STAGE_ONCOMMIT ELSE TX_STAGE_ONABORT, TX_STAGE_FINALLY}

Written == {TX_STAGE_WORK} \cup sections

Visited == {ran[i] : i \in DOMAIN ran}

\* At the end of a block every section of its stages that is written down, and
\* no other, has run; always in the order of the stages, and none twice.
SectionsInOrder ==
  /\ \A i, j \in DOMAIN ran : i < j => ran[i] \in Before(ran[j])
  /\ tx_pc = "done" => \E began \in BOOLEAN :
       (error = 0 => began) /\ Visited = Path(began) \cap Written

\* After the block errno is the error of a transaction that failed, whatever
\* the sections that ran since have done to it, and the fields are as before
\* exactly if it failed.
ErrnoTellsFailure ==
  tx_pc = "done" =>
    /\ error # 0 => errno = error /\ data = Zero
    /\ error = 0 => data = Asked

\* A block runs the sections that are written down in the order of the stages,
\* reads no local that the longjmp made indeterminate, and tells its failure.
BlockInv ==
  /\ TxTypeOK
  /\ SectionsInOrder
  /\ ErrnoTellsFailure

\* All the fields change or none does, as seen after a crash at any moment.
Promise == INSTANCE AtomicUpdate WITH
  before   <- Zero,
  after    <- Asked,
  contents <- RolledBack

AllOrNothing == Promise!Spec

\* The block is left, by its end or by a crash, whatever sections it lacks.
BlockEnds == <>(tx_pc \in Over)
=============================================================================
