------------------------------- MODULE Affinity -------------------------------
(***************************************************************************)
(* Where the threads run: under THREAD_BIND_CPU a benchmark thread of      *)
(* main.cc binds itself to numa_bind[numa][id] before its kernel starts,   *)
(* the main thread of a mixed run binds itself to numa_bind[0][0] once all *)
(* threads are created, and a thread of ssd_test.cc binds itself to the    *)
(* processor that has its number.  What the threads then do is left out.   *)
(***************************************************************************)
EXTENDS Integers, Sequences

CONSTANTS
  Programs,      \* "basic", "mixed", "ssd": the programs to start
  numa_bind,     \* the table, a sequence of rows of equal length
  MAX_THREAD,    \* 32
  SSD_THREADS,   \* the most threads ssd_test is started with
  Online,        \* processors of the machine
  CPU_SETSIZE,   \* 1024, the processors a cpu_set_t has bits for
  Beyond         \* what the ints behind the table may hold

ROW == Len(numa_bind[1])     \* 20

\* The number of entries, and entry k counted from the start of the table.
TABLE == ROW * Len(numa_bind)
Entry(k) == numa_bind[1 + (k \div ROW)][1 + (k % ROW)]

ASSUME AffinityAssumption ==
  /\ Programs \subseteq {"basic", "mixed", "ssd"}
  /\ numa_bind \in Seq(Seq(Nat)) /\ numa_bind # << >> /\ ROW > 0
  /\ \A r \in DOMAIN numa_bind : Len(numa_bind[r]) = ROW
  /\ MAX_THREAD \in Nat \ {0} /\ SSD_THREADS \in Nat \ {0}
  /\ CPU_SETSIZE \in Nat \ {0}
  /\ Online \subseteq 0 .. CPU_SETSIZE - 1 /\ Online # {}
  /\ Beyond \subseteq Int

\* No processor is in the table twice.
ASSUME TableIsInjective ==
  \A k, l \in 0 .. TABLE - 1 : Entry(k) = Entry(l) => k = l

Main == -1

VARIABLES
  program,
  numa,      \* the option, 0 or 1
  team,      \* the number of threads of the run
  created,   \* how many of them exist
  mask,      \* mask[t]: the processors thread t may run on
  tried,     \* the threads that have called pthread_setaffinity_np
  bound,     \* those for which it returned 0
  warned     \* those that printed "set thread affinity failed"

affinityVars == <<program, numa, team, created, mask, tried, bound, warned>>

Ids == 0 .. team - 1

\* The entry id of row r, as the compiler computes it from the start of the
\* table: past the end of a row lies the next one, past the table something.
Entries(r, id) ==
  IF r * ROW + id < TABLE THEN {Entry(r * ROW + id)} ELSE Beyond

\* Mutated: all threads look into the first row.
CoresFirstRow(t) ==
  IF t = Main THEN Entries(0, 0)
  ELSE IF program = "ssd" THEN {t} ELSE Entries(0, t)

\* The processor thread t asks for.
Cores(t) ==
  IF t = Main THEN Entries(0, 0)
  ELSE IF program = "ssd" THEN {t} ELSE Entries(numa, t)

AffinityInit ==
  /\ program \in Programs
  /\ numa \in {0, 1}
  /\ team \in 1 .. (IF program = "ssd" THEN SSD_THREADS ELSE MAX_THREAD)
  /\ created = 0
  /\ mask = [t \in {Main} \cup Ids |-> Online]
  /\ tried = {} /\ bound = {} /\ warned = {}

\* A new thread inherits the mask of the main thread.
Create ==
  /\ created < team
  /\ created' = created + 1
  /\ mask' = [mask EXCEPT ![created] = mask[Main]]
  /\ UNCHANGED <<program, numa, team, tried, bound, warned>>

\* pthread_setaffinity_np with a mask of one bit.  CPU_SET drops a bit that the
\* mask has no room for; a mask without a processor of the machine is refused
\* with EINVAL.  The call returns the error, it never returns less than 0, so
\* that the branch that prints is dead.
SetAffinity(t, c) ==
  LET wanted == {c} \cap 0 .. CPU_SETSIZE - 1 \cap Online
  IN  /\ tried' = tried \cup {t}
      /\ \/ /\ wanted # {}
            /\ mask' = [mask EXCEPT ![t] = wanted]
            /\ bound' = bound \cup {t}
         \/ /\ wanted = {}
            /\ UNCHANGED <<mask, bound>>
      /\ UNCHANGED warned

BindWorker(t) ==
  /\ t < created /\ t \notin tried
  /\ \E c \in Cores(t) : SetAffinity(t, c)
  /\ UNCHANGED <<program, numa, team, created>>

BindMain ==
  /\ program = "mixed" /\ created = team /\ Main \notin tried
  /\ \E c \in Cores(Main) : SetAffinity(Main, c)
  /\ UNCHANGED <<program, numa, team, created>>

Measuring ==
  /\ created = team /\ Ids \subseteq tried /\ (program = "mixed" => Main \in tried)
  /\ UNCHANGED affinityVars

AffinityNext == Create \/ (\E t \in Ids : BindWorker(t)) \/ BindMain \/ Measuring

AffinitySpec == AffinityInit /\ [][AffinityNext]_affinityVars
-------------------------------------------------------------------------------
\* Types; only threads that exist have done anything, and every mask is one
\* the machine can obey.
AffinityTypeOK ==
  /\ created \in 0 .. team
  /\ tried \subseteq {Main} \cup 0 .. created - 1 /\ bound \subseteq tried
  /\ \A t \in DOMAIN mask : mask[t] # {} /\ mask[t] \subseteq Online

\* The row of the table that the machine's package k consists of.
Node(k) == {numa_bind[k + 1][j] : j \in 1 .. ROW}

\* The entries a thread of this run can read lie in the table.
InTable(t) == program # "ssd" => numa * ROW + t < TABLE

\* Two threads of a run are never bound to the same processor, as long as
\* they read entries of the table, of either row.
WorkersApart ==
  \A t, u \in bound \ {Main} :
    (t # u /\ InTable(t) /\ InTable(u)) => mask[t] \cap mask[u] = {}

\* The first ROW threads of a run are bound to the package of the option, and
\* the others, of package 0, to the other one.
OnNode ==
  \A t \in bound \ {Main} :
    (program # "ssd" /\ InTable(t)) => mask[t] \subseteq Node(numa + (t \div ROW))

\* The clock of a mixed run keeps a processor busy.  It is one that no thread
\* is bound to when the run uses package 1, and that of thread 0 otherwise.
ClockDisturbsThreadZeroOnly ==
  (Main \in bound) =>
    \A t \in bound \ {Main} :
      (InTable(t) /\ mask[t] \cap mask[Main] # {}) => numa = 0 /\ t = 0

\* A thread that could not be bound is still one the machine runs anywhere,
\* not on the processor the clock of the run is bound to.
UnboundRunAnywhere == \A t \in Ids \cap tried : t \notin bound => mask[t] = Online

\* Workers that are bound run on processors of their own and of their node, the
\* clock of a mixed run shares that of thread 0 only, and a thread that could not
\* be bound may run wherever its creator might.
BindingInv ==
  /\ AffinityTypeOK
  /\ WorkersApart
  /\ OnNode
  /\ ClockDisturbsThreadZeroOnly
  /\ UnboundRunAnywhere
=============================================================================
