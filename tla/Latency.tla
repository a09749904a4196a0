-------------------------------- MODULE Latency --------------------------------
(***************************************************************************)
(* The latency emulation of pflush.c: emulate_latency_ns spins until the   *)
(* time stamp counter of the processor it happens to run on has advanced   *)
(* by the cycles of the wanted delay, and cycles_to_ns converts what a     *)
(* caller of asm_rdtsc measured.  The counter is a 64-bit register that    *)
(* wraps, every processor has its own, and the kernel may move the thread  *)
(* between two reads.  No other file of the repository calls these         *)
(* functions; pflush.h offers them to whoever includes it.                 *)
(***************************************************************************)
EXTENDS Integers

CONSTANTS
  WORD,        \* 2^64, the number of values of a uint64_t
  MHZ,         \* global_cpu_speed_mhz
  KILO,        \* 1000, the cycles per nanosecond being MHZ / 1000
  Delays,      \* the arguments of emulate_latency_ns
  Processors,
  Skew,        \* Skew[p]: what counter p shows when the model's clock is 0
  MAX_START,   \* bounds of the model: the call comes before MAX_START, and the
  MAX_CYCLES   \* machine is followed until MAX_CYCLES

\* A delay is an int: 2^31 ns at 2200 MHz fit in 64 bits.
ASSUME LatencyAssumption ==
  /\ WORD \in Nat \ {0}
  /\ MHZ \in Nat \ {0}
  /\ KILO \in Nat \ {0}
  /\ Delays \subseteq Int /\ \A n \in Delays : n * MHZ < WORD
  /\ Skew \in [Processors -> Nat]
  /\ MAX_START \in Nat /\ MAX_CYCLES \in Nat

VARIABLES
  cycle,     \* cycles since the machine was switched on, the same everywhere
  cpu,       \* the processor that runs the thread
  ns,        \* the argument
  start_tsc, \* the locals "start", "cycles" and "stop"
  cycles,
  stop,
  pc,        \* "call", "convert", "read", "test" or "return"
  entered,   \* history: the cycle in which start was read, the processor
  home,      \* that read it, and the one that read stop
  seen

locals == <<start_tsc, cycles, stop>>
history == <<entered, home, seen>>
vars == <<cycle, cpu, ns, locals, pc, history>>

\* asm_rdtsc: the low and the high half of the counter, put together.
asm_rdtsc(p) == (Skew[p] + cycle) % WORD

\* cycles * 1000 / cpu_speed_mhz, in 64 bits.
cycles_to_ns(mhz, c) == ((c * KILO) % WORD) \div mhz

\* ns * cpu_speed_mhz / 1000, in 64 bits.
ns_to_cycles(mhz, n) == ((n * mhz) % WORD) \div KILO

\* The difference of two uint64_t.
Minus(a, b) == (a - b) % WORD

Init ==
  /\ cycle \in 0 .. MAX_START
  /\ cpu \in Processors /\ home = cpu /\ seen = cpu
  /\ ns \in Delays
  /\ start_tsc = 0 /\ cycles = 0 /\ stop = 0
  /\ pc = "call"
  /\ entered = 0

\* ns <= 0 returns at once.
Call ==
  /\ pc = "call"
  /\ \/ /\ ns <= 0
        /\ pc' = "return"
        /\ UNCHANGED <<start_tsc, entered, home>>
     \/ /\ ns > 0
        /\ start_tsc' = asm_rdtsc(cpu)
        /\ entered' = cycle
        /\ home' = cpu
        /\ pc' = "convert"
  /\ UNCHANGED <<cycle, cpu, ns, cycles, stop, seen>>

\* The counter is read before the conversion, which so counts as delay.
Convert ==
  /\ pc = "convert"
  /\ cycles' = ns_to_cycles(MHZ, ns)
  /\ pc' = "read"
  /\ UNCHANGED <<cycle, cpu, ns, start_tsc, stop, history>>

Read ==
  /\ pc = "read"
  /\ stop' = asm_rdtsc(cpu)
  /\ seen' = cpu
  /\ pc' = "test"
  /\ UNCHANGED <<cycle, cpu, ns, start_tsc, cycles, entered, home>>

\* Mutated: the reading is compared with the reading to wait for.
TestReadings ==
  /\ pc = "test"
  /\ pc' = IF stop < (start_tsc + cycles) % WORD THEN "read" ELSE "return"
  /\ UNCHANGED <<cycle, cpu, ns, locals, history>>

\* while (stop - start < cycles)
Test ==
  /\ pc = "test"
  /\ pc' = IF Minus(stop, start_tsc) < cycles THEN "read" ELSE "return"
  /\ UNCHANGED <<cycle, cpu, ns, locals, history>>

\* Cycles pass, all counters advance.
Pass ==
  /\ cycle < IF pc = "call" THEN MAX_START ELSE MAX_CYCLES
  /\ cycle' = cycle + 1
  /\ UNCHANGED <<cpu, ns, locals, pc, history>>

\* The kernel moves the thread; the emulation does not bind it.
Migrate ==
  /\ pc # "return"
  /\ cpu' \in Processors \ {cpu}
  /\ UNCHANGED <<cycle, ns, locals, pc, history>>

Done == pc = "return" /\ UNCHANGED vars

Next == Call \/ Convert \/ Read \/ Test \/ Pass \/ Migrate \/ Done

Spec == Init /\ [][Next]_vars

\* The thread is scheduled, and time passes.
Fairness == WF_vars(Call \/ Convert \/ Read \/ Test) /\ WF_vars(Pass)

FairSpec == Spec /\ Fairness
-------------------------------------------------------------------------------
uint64_t == 0 .. WORD - 1

\* Types; the emulation was entered in the past.
TypeOK ==
  /\ cycle \in Nat /\ cpu \in Processors /\ ns \in Int
  /\ start_tsc \in uint64_t /\ cycles \in uint64_t /\ stop \in uint64_t
  /\ pc \in {"call", "convert", "read", "test", "return"}
  /\ entered \in 0 .. cycle /\ home \in Processors /\ seen \in Processors

\* The emulation is never short by a whole cycle, wherever the counter wraps
\* and whatever processors the thread visits, as long as the two counters
\* that were compared agree.
NeverShort ==
  (pc = "return" /\ ns > 0 /\ Skew[home] = Skew[seen])
  => (cycle - entered) * KILO > ns * MHZ - KILO

\* A distance of two readings that spans no more than the register, divided
\* by 1000, converts back to at most the delay it was computed from, and to
\* less by no more than the rounding of one cycle.
RoundTrip ==
  (pc \in {"read", "test"} /\ cycles * KILO < WORD) =>
    /\ cycles_to_ns(MHZ, cycles) <= ns
    /\ (ns - cycles_to_ns(MHZ, cycles)) * MHZ < MHZ + KILO

\* The emulation comes to its end.
Returns == <>(pc = "return")
=============================================================================
