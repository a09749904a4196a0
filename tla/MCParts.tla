-------------------------------- MODULE MCParts --------------------------------
(***************************************************************************)
(* The parts of the repository around the benchmark runs, none of which    *)
(* touches the state of another: the options and the pool, the binding to  *)
(* processors, the timer, the clock of the mixed run, the latency          *)
(* emulation and the two scripts.  A behaviour chooses one part and stays  *)
(* with it; the others rest in one of their initial states, so that the    *)
(* states are the sum of those of the parts and not their product, and an  *)
(* invariant of a part holds of it at rest as well.                        *)
(***************************************************************************)
EXTENDS GlobalClock, Latency, Options, Affinity, Sheets, SequencesExt

CONSTANTS
  p1, p2, p3,          \* processors
  B8, B64, t1, t2      \* directories and result files

VARIABLE part

partsVars == <<part, clockVars, vars, optionsVars, affinityVars, sheetVars, mixedVars>>

-------------------------------------------------------------------------------
\* Options: the three builds, command lines of up to three arguments, ints of 4
\* and sizes of 8 bits, a megabyte of 16; the file is missing, shorter than the
\* option says or longer.
AllBuilds == {"pmdk", "mmap", "dram"}
Number(k, n) == [key |-> k, n |-> n]
Name(k, s) == [key |-> k, name |-> s]
Junk == [key |-> "junk"]

Words ==
  {Number("num_thread", n) : n \in {0, 2, 9, 17}} \cup
  {Number("data_amount", n) : n \in {0, 1, 4, 17}} \cup
  {Number("wb", 7), Number("verify", 5),
   Name("benchmark", "rr"), Name("benchmark", "sm"), Name("benchmark", "xx"),
   Name("flush", "clwb"), Name("flush", "none"), Junk}

Shell == {<<Junk>> \o s : s \in BoundedSeq(Words, 3)}

Lengths == {0, 24, 48, 130}
OneAddress == {100}

\* Affinity: a table of two rows of two and teams of up to five on a machine of
\* four processors, as main.cc's rows of twenty and 32 threads on forty.
AllPrograms == {"basic", "mixed", "ssd"}
Table == <<<<0, 2>>, <<1, 3>>>>
FourProcessors == 0 .. 3
Behind == {-5, 0, 3, 99}

\* HandleData: two directories with up to two files, whose texts have no, one
\* or two [SUM] lines.
Old == <<1, 1>>
New == <<2, 3>>

MCSizes == {B8, B64}
MCNames == {t1, t2}
MCPairs == {Old, New}
MCSumTexts == {<<Other>>, <<Other, New>>, <<Old, Other, New, Other>>}

\* HandleMixedData: up to three files with counts from 0 to 2; a text has the
\* lines of both kinds in either order, twice, or not at all.
Read_(v) == [tag |-> "READ", value |-> v]
Write_(v) == [tag |-> "WRITE", value |-> v]
Old_ == [latency |-> 1, throughput |-> 1]
New_ == [latency |-> 2, throughput |-> 3]

MCCounts == {0, 1, 2}
MCValues == {Old_, New_}
MCLines == [tag : {"READ", "WRITE", "SUM"}, value : MCValues]
MCMixedTexts ==
  {<< >>, <<Read_(Old_), Write_(New_)>>,
   <<Write_(Old_), Read_(Old_), Write_(New_), [tag |-> "SUM", value |-> Old_], Read_(New_)>>}

\* Timer and GlobalClock: seconds of three nanoseconds, run_seconds of one
\* second and a third; the clock shows a second boundary early or late.
Garbage == {[tv_sec |-> 0, tv_nsec |-> 0], [tv_sec |-> 90, tv_nsec |-> -7]}
Booted == 0 .. 3
TIMER_CLOCK == 6      \* the Timer by itself is followed less far

\* Latency: a counter of 128 values, 11 cycles in 5 nanoseconds (2200 MHz),
\* and three processors of which the third is in another package.
Requests == {-1, 0, 1, 4}
Packages == {p1, p2, p3}
Synced == [p \in Packages |-> IF p = p3 THEN 120 ELSE 125]

-------------------------------------------------------------------------------
\* The parts at rest.
ClockRests == clock = 0 /\ start = [tv_sec |-> 0, tv_nsec |-> 0] /\ end = start /\ now = start
LatencyRests == cycle = 0 /\ cpu = p1 /\ ns = 0
OptionsRest == argv = <<Junk>> /\ build = "pmdk"
AffinityRests == program = "ssd" /\ numa = 0 /\ team = 1
SheetRests ==
  /\ files = [s \in {B8, B64} |-> << >>] /\ listing = files /\ l_size = <<B8, B64>>
  /\ column = 1 /\ row = 0 /\ table = << >>
MixedRests ==
  mixed_files = << >> /\ l_thread = << >> /\ next = 1 /\ tables = [k \in X!Kinds |-> << >>]

PartsInit ==
  /\ part \in {"timer", "clock", "latency", "options", "affinity", "sheet", "mixed"}
  /\ part \notin {"timer", "clock"} => ClockRests
  /\ ClockInit
  /\ part # "latency" => LatencyRests
  /\ Init
  /\ part # "options" => OptionsRest
  /\ OptionsInit
  /\ part # "affinity" => AffinityRests
  /\ AffinityInit
  /\ IF part = "sheet" THEN H!Init ELSE SheetRests
  /\ IF part = "mixed" THEN X!Init ELSE MixedRests

TimerPart ==
  /\ part = "timer" /\ TimerNext /\ clock' <= TIMER_CLOCK
  /\ UNCHANGED <<main_pc, time_is_over, begin>>

ClockPart == part = "clock" /\ ClockNext

LatencyPart == part = "latency" /\ Next

OptionsPart == part = "options" /\ OptionsNext

AffinityPart == part = "affinity" /\ AffinityNext

SheetPart == part = "sheet" /\ H!Next

MixedPart == part = "mixed" /\ X!Next

PartsNext ==
  /\ UNCHANGED part
  /\ \/ (TimerPart \/ ClockPart)
        /\ UNCHANGED <<vars, optionsVars, affinityVars, sheetVars, mixedVars>>
     \/ LatencyPart
        /\ UNCHANGED <<clockVars, optionsVars, affinityVars, sheetVars, mixedVars>>
     \/ OptionsPart
        /\ UNCHANGED <<clockVars, vars, affinityVars, sheetVars, mixedVars>>
     \/ AffinityPart
        /\ UNCHANGED <<clockVars, vars, optionsVars, sheetVars, mixedVars>>
     \/ SheetPart
        /\ UNCHANGED <<clockVars, vars, optionsVars, affinityVars, mixedVars>>
     \/ MixedPart
        /\ UNCHANGED <<clockVars, vars, optionsVars, affinityVars, sheetVars>>

\* The part that was chosen is as fair as it is alone.
PartsSpec ==
  /\ PartsInit /\ [][PartsNext]_partsVars
  /\ part = "clock" => ClockFairness
  /\ part = "latency" => Fairness
-------------------------------------------------------------------------------
\* The properties of the parts, each of which holds of its part at rest as well.

\* Both waiting loops end: the clock of a mixed run with the first look that
\* shows the deadline passed, the latency emulation when it is time.
WaitsEnd ==
  /\ NoLookWasted
  /\ part = "clock" => DeadlineComes
  /\ part = "latency" => Returns
=============================================================================
