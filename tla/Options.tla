-------------------------------- MODULE Options --------------------------------
(***************************************************************************)
(* main() of main.cc before a run function takes over, and pm_init: the    *)
(* options are assigned one argument at a time, the pool is mapped and its *)
(* real size replaces the option, the size is checked, and the first two   *)
(* letters of the benchmark's name choose the run.                         *)
(*                                                                         *)
(* An argument is what the sscanf and strncmp calls make of it: a key and  *)
(* the number or name after the "=".  Anything else (an unknown key, a     *)
(* number with a tail) has the key "junk".  Every number is read as a      *)
(* 64-bit unsigned one, then narrowed to the field.                        *)
(*                                                                         *)
(* Premise: a name has at most 127 characters.  The program copies it into *)
(* 128 bytes without looking; what a longer one overwrites is left out.    *)
(***************************************************************************)
EXTENDS Integers, Sequences

CONSTANTS
  CommandLines,   \* the argument lists the program may be started with
  Builds,         \* the variants of pm_init that its #ifdefs may have left
  Mappings,       \* how long the file of the pool is, or 0 if the pool cannot
                  \* be opened, mapped or allocated
  Addresses,      \* where it may put the pool
  INT_MOD,        \* 2^32
  SIZE_T_MOD,     \* 2^64
  MB,             \* 1024 * 1024
  BLOCK_SIZE, DATA_AMOUNT, PMEM_SIZE, ALIGN_SIZE,   \* the defaults
  Unset           \* in a field of the struct that is never assigned

R_WRITE == "R_WRITE"
S_WRITE == "S_WRITE"
R_READ  == "R_READ"
S_READ  == "S_READ"
S_MIXED == "S_MIXED"
R_MIXED == "R_MIXED"

IntKeys  == {"num_thread", "align_size", "read_thread", "write_thread"}
SizeKeys == {"block_size", "rb", "wb", "count"}
FlagKeys == {"verify", "sync", "numa", "ntstore"}
NumberKeys == IntKeys \cup SizeKeys \cup FlagKeys \cup {"data_amount"}
NameKeys == {"benchmark", "flush", "pmem_file_path"}

Arguments ==
  [key : NumberKeys, n : 0 .. SIZE_T_MOD - 1] \cup [key : NameKeys, name : STRING]
    \cup [key : {"junk"}]

ASSUME OptionsAssumption ==
  /\ CommandLines \subseteq Seq(Arguments)
  /\ Builds \subseteq {"pmdk", "mmap", "dram"}
  /\ Mappings \subseteq 0 .. SIZE_T_MOD - 1
  /\ Addresses \subseteq Nat \ {0}
  /\ INT_MOD \in Nat \ {0} /\ SIZE_T_MOD \in Nat \ {0} /\ MB \in Nat \ {0}
  /\ ALIGN_SIZE \in Int /\ DATA_AMOUNT \in 0 .. SIZE_T_MOD - 1

VARIABLES
  build,      \* the variant of pm_init that was compiled
  argv,       \* the command line; argv[1] is the program's name
  arg,        \* the arguments before arg have been dealt with
  options,    \* struct benchmark_options
  names,      \* test_benchmark, flush_type and pmem_file_path
  opt_pc,     \* "parse", "flush", "map", "check", "dispatch" or "exit"
  pool,       \* the pool: << >> before pm_init, then its address and length
  fault,      \* the signal that killed the process, or "none"
  runs        \* history: the types of the runs started, in order

optionsVars == <<build, argv, arg, options, names, opt_pc, pool, fault, runs>>

Defaults ==
  [type |-> Unset, block_size |-> BLOCK_SIZE, rb |-> Unset, wb |-> Unset, count |-> Unset,
   num_thread |-> 1, read_thread |-> Unset, write_thread |-> Unset,
   align_size |-> ALIGN_SIZE, verify |-> 0, sync |-> 1, numa |-> 0, ntstore |-> 1,
   data_amount |-> DATA_AMOUNT, pmem_size |-> PMEM_SIZE, flush |-> "clflushopt"]

DefaultNames ==
  [benchmark |-> "sw", flush |-> "clflushopt", pmem_file_path |-> "/home/pmem0/pm"]

\* A 64-bit number assigned to an int keeps its low 32 bits.
Int32(n) ==
  LET low == n % INT_MOD IN IF 2 * low < INT_MOD THEN low ELSE low - INT_MOD

\* What is assigned to the field named like the key.
Converted(a) ==
  IF a.key \in IntKeys THEN Int32(a.n)
  ELSE IF a.key \in FlagKeys THEN (IF a.n = 0 THEN 0 ELSE 1)
  ELSE IF a.key = "data_amount" THEN (a.n * MB) % SIZE_T_MOD
  ELSE a.n

OptionsInit ==
  /\ build \in Builds
  /\ argv \in CommandLines
  /\ arg = 1
  /\ options = Defaults
  /\ names = DefaultNames
  /\ opt_pc = "parse"
  /\ pool = << >>
  /\ fault = "none"
  /\ runs = << >>

Alive == fault = "none"

\* Mutated: the first assignment of a field is kept.
ParseFirstWins ==
  /\ Alive /\ opt_pc = "parse" /\ arg <= Len(argv)
  /\ LET a == argv[arg] IN
     \/ /\ a.key \in NumberKeys
        /\ options' = IF options[a.key] = Defaults[a.key]
                      THEN [options EXCEPT ![a.key] = Converted(a)] ELSE options
        /\ UNCHANGED <<names, opt_pc>>
     \/ /\ a.key \in NameKeys
        /\ names' = [names EXCEPT ![a.key] = a.name]
        /\ UNCHANGED <<options, opt_pc>>
     \/ /\ a.key = "junk"
        /\ opt_pc' = IF arg > 1 THEN "exit" ELSE opt_pc
        /\ UNCHANGED <<options, names>>
  /\ arg' = arg + 1
  /\ UNCHANGED <<build, argv, pool, fault, runs>>

\* One turn of the loop over argv.  The program's own name is parsed too, and
\* is the only thing that may match nothing.
Parse ==
  /\ Alive /\ opt_pc = "parse" /\ arg <= Len(argv)
  /\ LET a == argv[arg] IN
     \/ /\ a.key \in NumberKeys
        /\ options' = [options EXCEPT ![a.key] = Converted(a)]
        /\ UNCHANGED <<names, opt_pc>>
     \/ /\ a.key \in NameKeys
        /\ names' = [names EXCEPT ![a.key] = a.name]
        /\ UNCHANGED <<options, opt_pc>>
     \/ /\ a.key = "junk"
        /\ opt_pc' = IF arg > 1 THEN "exit" ELSE opt_pc
        /\ UNCHANGED <<options, names>>
  /\ arg' = arg + 1
  /\ UNCHANGED <<build, argv, pool, fault, runs>>

EndParse ==
  /\ Alive /\ opt_pc = "parse" /\ arg > Len(argv)
  /\ opt_pc' = "flush"
  /\ UNCHANGED <<build, argv, arg, options, names, pool, fault, runs>>

\* The three strcmp of the flush type; another name leaves the default.
ChooseFlush ==
  /\ Alive /\ opt_pc = "flush"
  /\ options' = IF names.flush \in {"clflush", "clwb", "clflushopt"}
                THEN [options EXCEPT !.flush = names.flush] ELSE options
  /\ opt_pc' = "map"
  /\ UNCHANGED <<build, argv, arg, names, pool, fault, runs>>

MAP_FAILED == SIZE_T_MOD - 1    \* (void*)-1, which is not NULL

\* What pm_init makes of a file of len bytes at address a: where it says the
\* pool is, the size it settles on, and how many bytes are really there.  An
\* mmap is as long as it is told, but only the file's own bytes can be touched.
Mapped(len, a) ==
  CASE build = "pmdk" -> [address |-> IF len = 0 THEN 0 ELSE a, size |-> len, length |-> len]
    [] build = "mmap" -> [address |-> IF len = 0 THEN MAP_FAILED ELSE a,
                          size |-> options.pmem_size,
                          length |-> IF len < options.pmem_size THEN len ELSE options.pmem_size]
    [] build = "dram" -> [address |-> IF len = 0 THEN 0 ELSE a,
                          size |-> options.pmem_size, length |-> options.pmem_size]

\* pm_init: the pool is mapped, assert(dest != NULL), and pmem_size, passed by
\* reference, becomes the length of the file (pmdk) or stays (mmap, dram).
MapPool ==
  /\ Alive /\ opt_pc = "map"
  /\ \E len \in Mappings, a \in Addresses :
       LET m == Mapped(len, a) IN
       \/ /\ m.address # 0
          /\ pool' = <<[address |-> m.address, length |-> m.length]>>
          /\ options' = [options EXCEPT !.pmem_size = m.size]
          /\ opt_pc' = "check"
          /\ UNCHANGED fault
       \/ /\ m.address = 0
          /\ fault' = "SIGABRT"
          /\ UNCHANGED <<pool, options, opt_pc>>
  /\ UNCHANGED <<build, argv, arg, names, runs>>

\* assert(pmem_size >= (size_t)num_thread * data_amount), a 64-bit product.
CheckSize ==
  /\ Alive /\ opt_pc = "check"
  /\ \/ /\ options.pmem_size >= (options.num_thread * options.data_amount) % SIZE_T_MOD
        /\ opt_pc' = "dispatch"
        /\ UNCHANGED fault
     \/ /\ options.pmem_size < (options.num_thread * options.data_amount) % SIZE_T_MOD
        /\ fault' = "SIGABRT"
        /\ UNCHANGED opt_pc
  /\ UNCHANGED <<build, argv, arg, options, names, pool, runs>>

\* The type of the run whose letters the benchmark's name starts with.  A name
\* is represented by its first two letters.
RunTypes == [rw |-> R_WRITE, rr |-> R_READ, sr |-> S_READ, sw |-> S_WRITE,
             sm |-> S_MIXED, rm |-> R_MIXED]

\* The six independent ifs, of which at most one holds, and return 0.
Dispatch ==
  /\ Alive /\ opt_pc = "dispatch"
  /\ \/ /\ names.benchmark \in DOMAIN RunTypes
        /\ options' = [options EXCEPT !.type = RunTypes[names.benchmark]]
        /\ runs' = Append(runs, RunTypes[names.benchmark])
     \/ /\ names.benchmark \notin DOMAIN RunTypes
        /\ UNCHANGED <<options, runs>>
  /\ opt_pc' = "exit"
  /\ UNCHANGED <<build, argv, arg, names, pool, fault>>

Ended == (opt_pc = "exit" \/ ~ Alive) /\ UNCHANGED optionsVars

OptionsNext == Parse \/ EndParse \/ ChooseFlush \/ MapPool \/ CheckSize \/ Dispatch \/ Ended

OptionsSpec == OptionsInit /\ [][OptionsNext]_optionsVars
-------------------------------------------------------------------------------
\* The last argument with key k, the program's name among them, or 0.
LastOf(k) ==
  LET at == {j \in 1 .. Len(argv) : argv[j].key = k}
  IN  IF at = {} THEN 0 ELSE CHOOSE j \in at : \A l \in at : l <= j

Asked(k) == LastOf(k) # 0

\* Types; what is not yet decided is not yet changed.
OptionsTypeOK ==
  /\ arg \in 1 .. Len(argv) + 1
  /\ opt_pc \in {"parse", "flush", "map", "check", "dispatch", "exit"}
  /\ DOMAIN options = DOMAIN Defaults
  /\ \A k \in IntKeys : options[k] = Unset \/ options[k] \in Int
  /\ \A k \in FlagKeys : options[k] \in {0, 1}
  /\ options.data_amount \in 0 .. SIZE_T_MOD - 1
  /\ fault \in {"none", "SIGABRT"}
  /\ Len(runs) <= 1

\* A run gets what was asked for: of every option the last value on the command
\* line, narrowed as the field demands, or else its default, whatever the
\* order and the number of the other arguments.
RunsAsAsked ==
  runs # << >> =>
    /\ \A k \in NumberKeys :
         options[k] = IF Asked(k) THEN Converted(argv[LastOf(k)]) ELSE Defaults[k]
    /\ options.flush = IF Asked("flush") /\ argv[LastOf("flush")].name = "clwb" THEN "clwb"
                       ELSE IF Asked("flush") /\ argv[LastOf("flush")].name = "clflush"
                       THEN "clflush" ELSE "clflushopt"
    /\ Asked("benchmark") => runs[1] = RunTypes[argv[LastOf("benchmark")].name]

\* A command line with anything that is no option touches nothing: no pool is
\* mapped, no run started, and the process ends as if nothing were wrong.
RejectedTouchesNothing ==
  (\E j \in 2 .. Len(argv) : argv[j].key = "junk") => pool = << >> /\ Alive /\ runs = << >>

\* Premise of PoolHoldsData: the arguments are small enough for their fields
\* and the product of the pool check for 64 bits.
InRange ==
  /\ \A k \in IntKeys : Asked(k) => 2 * argv[LastOf(k)].n < INT_MOD
  /\ Asked("data_amount") => argv[LastOf("data_amount")].n * MB < SIZE_T_MOD
  /\ options.num_thread * options.data_amount < SIZE_T_MOD

\* Premise of PoolHoldsData: an mmap succeeded, on a file as long as the option
\* says.  Neither that variant nor main() looks: the size it returns is the one
\* it was given.  The others return the length of what they got.
Backed == build = "mmap" => pool[1].length = options.pmem_size

\* A run never starts on less pool than the threads of the option use, in any
\* build and however long the file is, if InRange and Backed.
PoolHoldsData ==
  (runs # << >> /\ InRange /\ Backed) =>
    options.num_thread * options.data_amount <= pool[1].length

\* main() starts the run it is asked for with the options it is given, a command
\* line that is rejected touches nothing, and a pool that passes the check holds
\* the data of its threads if no number is too large and, where the pool is an
\* mmap, the mapping succeeded and the file is as long as the option says.
OptionsInv ==
  /\ OptionsTypeOK
  /\ RunsAsAsked
  /\ RejectedTouchesNothing
  /\ PoolHoldsData
=============================================================================
