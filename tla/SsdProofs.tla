------------------------------- MODULE SsdProofs -------------------------------
(***************************************************************************)
(* What ssd_test does to its files and what it claims of it, for every     *)
(* argument, file size, block size, number of threads, page size and queue *)
(* length.                                                                 *)
(***************************************************************************)
EXTENDS SsdRun, FiniteSetTheorems, TLAPS

\* What a turn of the loop writes, and how many turns have been started.
StepSize(o) == IF o.io_type = IO_LIBAIO THEN o.block_size * QUEUE ELSE o.block_size
Turns(t) == IF epc[t] \in {"sync", "wait"} THEN ei[t] + 1 ELSE ei[t]
Reach(t) == Turns(t) * StepSize(eopt[t])

\* The requests of the batch that starts at s.
Requests(s, b) == {s + j * b : j \in 0 .. QUEUE - 1}

\* What main has done for thread t.
Prepared(t) ==
  /\ epc[t] # "none" =>
       /\ Len(argv) >= 5 /\ t < num_thread /\ eopt[t] = Options
       /\ mpc \in {"spawn", "join", "stuck", "exit"}
       /\ mpc = "spawn" => t < mi
  /\ epc[t] = "failed" => lost[t]
  /\ size[t] <= MAX_UNIT
  /\ (/\ mpc # "args" /\ t < num_thread
      /\ mpc = "prealloc" => t < mi) => size[t] = Options.total_size \/ lost[t]

\* Before its loop an engine has done nothing.
Fresh(t) ==
  /\ ei[t] = 0 /\ offset[t] = 0 /\ inflight[t] = {} /\ dirty[t] = {} /\ good[t] = 0
  /\ \A u \in Unit : writes[t][u] = 0

\* Which engine is where, and how often it turns.
Phase(t) ==
  /\ epc[t] = "sync" => eopt[t].io_type \in {IO_READ_WRITE, IO_MMAP}
  /\ epc[t] = "wait" => eopt[t].io_type = IO_LIBAIO
  /\ inflight[t] # {} => epc[t] = "wait"
  /\ eopt[t].io_type \in Engines =>
       /\ eopt[t].block_size > 0 /\ Turns(t) <= Count(eopt[t])
       /\ epc[t] = "done" => ei[t] = Count(eopt[t])
  /\ eopt[t].io_type \notin Engines => \A u \in Unit : writes[t][u] = 0
  /\ handle[t] # "good" => lost[t]
  /\ epc[t] = "done" => /\ eopt[t].block_size > 0 /\ Len(iops[t]) = 1
                        /\ iops[t][1].ops = Blocks(eopt[t])

\* Where the next write goes.
Position(t) ==
  LET o == eopt[t]
      b == eopt[t].block_size
  IN
  /\ o.io_type = IO_READ_WRITE =>
       offset[t] <= Reach(t) /\ (~ lost[t] => offset[t] = Reach(t))
  /\ o.io_type = IO_MMAP => offset[t] = ei[t] * b
  /\ o.io_type = IO_LIBAIO =>
       /\ offset[t] = Reach(t)
       /\ inflight[t] \subseteq Requests(ei[t] * (b * QUEUE), b)
  /\ o.io_type = IO_DIRECT_ACCESS =>
       /\ (o.access_type = TYPE_SW /\ ei[t] < Count(o)) => offset[t] = ei[t] * b
       /\ o.access_type = TYPE_RW => /\ \E m \in Nat : offset[t] = (2 * m) * b
                                     /\ offset[t] < o.total_size \/ offset[t] = 0
       /\ o.access_type \notin {TYPE_SW, TYPE_RW} => offset[t] = 0

\* What a sequential engine has written: the turns it has started, except for
\* the requests that are still under way.
Prefix(t) ==
  Sequential(eopt[t]) =>
    /\ \A u \in Unit : writes[t][u] > 0 => u < Reach(t)
    /\ ~ lost[t] => \A u \in Unit :
         writes[t][u] = IF /\ u < Reach(t)
                           /\ \A a \in inflight[t] : u \notin Span(a, eopt[t].block_size)
                        THEN 1 ELSE 0

\* The unit u belongs to a block that a random pass goes over.
InPass(o, u) ==
  (u \div o.block_size) % 2 = 0 /\ (u \div o.block_size) * o.block_size < o.total_size

\* p passes are over, and the next one has reached a.
PassOf(o, w, a, p) ==
  \A u \in Unit :
    w[u] = IF ~ InPass(o, u) THEN 0
           ELSE IF (u \div o.block_size) * o.block_size < a THEN p + 1 ELSE p

\* What io_direct_access has written: whole passes, and the blocks in front of
\* the offset once more; of what lies past the end no more than a block.
Passes(t) ==
  (eopt[t].io_type = IO_DIRECT_ACCESS /\ ~ (eopt[t].access_type = TYPE_SW)) =>
    /\ \A u \in Unit : writes[t][u] > 0 => u < eopt[t].total_size + eopt[t].block_size
    /\ Roomy(eopt[t]) => \A u \in Unit : writes[t][u] > 0 => u < eopt[t].total_size
    /\ (eopt[t].access_type = TYPE_RW /\ ~ lost[t]) =>
         \E p \in Nat : PassOf(eopt[t], writes[t], offset[t], p)

\* The blocks written in full are those of the turns.
Counted(t) ==
  (eopt[t].io_type \in Engines /\ ~ lost[t]) =>
    IF eopt[t].io_type = IO_LIBAIO
    THEN IsFiniteSet(inflight[t]) /\ good[t] + Cardinality(inflight[t]) = Turns(t) * QUEUE
    ELSE good[t] = Turns(t)

\* What the page cache holds.
Clean(t) ==
  (~ lost[t] /\ (eopt[t].io_type = IO_MMAP => eopt[t].block_size % PAGE = 0)) =>
    IF epc[t] # "sync" THEN dirty[t] = {}
    ELSE eopt[t].io_type = IO_MMAP => dirty[t] \subseteq Span(offset[t], eopt[t].block_size)

EngineInv(t) ==
  /\ ~ Running(t) => Fresh(t)
  /\ (epc[t] = "setup" /\ handle[t] # "good") => lost[t]
  /\ Running(t) => Phase(t) /\ Position(t) /\ Prefix(t) /\ Passes(t) /\ Counted(t) /\ Clean(t)

ThreadInv(t) == Prepared(t) /\ EngineInv(t)

MainInv ==
  /\ mpc # "args" => Len(argv) >= 5
  /\ mpc \in {"prealloc", "spawn", "join"} => mi <= num_thread
  /\ mpc = "args" => mi = 0

SsdInv ==
  /\ TypeOK
  /\ MainInv
  /\ \A t \in Threads : ThreadInv(t)
  /\ SaneRunsDoNotFault
-------------------------------------------------------------------------------
(***************************************************************************)
(* Blocks, turns and batches.                                              *)
(***************************************************************************)

\* Division with remainder, and what determines a quotient.
LEMMA DivFacts ==
  ASSUME NEW a \in Nat, NEW b \in Nat \ {0}
  PROVE  /\ a \div b \in Nat
         /\ (a \div b) * b <= a /\ a < (a \div b) * b + b
  <1>1. /\ a \div b \in Nat /\ a % b \in 0 .. b - 1
        /\ a = b * (a \div b) + (a % b)
    OBVIOUS
  <1> QED
    BY <1>1

LEMMA DivUnique ==
  ASSUME NEW a \in Nat, NEW b \in Nat \ {0}, NEW q \in Nat, q * b <= a, a < q * b + b
  PROVE  a \div b = q
  <1> DEFINE d == a \div b
  <1>1. d \in Nat /\ d * b <= a /\ a < d * b + b
    BY DivFacts
  <1> HIDE DEF d
  <1>2. ~ (d < q)
    <2>1. SUFFICES ASSUME d + 1 <= q PROVE FALSE
      BY <1>1
    <2>2. (d + 1) * b <= q * b
      BY <1>1, <2>1
    <2> QED
      BY <1>1, <2>2
  <1>3. ~ (q < d)
    <2>1. SUFFICES ASSUME q + 1 <= d PROVE FALSE
      BY <1>1
    <2>2. (q + 1) * b <= d * b
      BY <1>1, <2>1
    <2> QED
      BY <1>1, <2>2
  <1> QED
    BY <1>1, <1>2, <1>3 DEF d

LEMMA MulMono ==
  ASSUME NEW a \in Nat, NEW b \in Nat, NEW p \in Nat, a <= b
  PROVE  a * p <= b * p
  OBVIOUS

\* Comparing multiples of b is comparing the factors.
LEMMA MulOrder ==
  ASSUME NEW a \in Nat, NEW c \in Nat, NEW b \in Nat \ {0}
  PROVE  /\ a * b \in Nat
         /\ a < c => a * b + b <= c * b
         /\ a * b < c * b => a < c
         /\ a * b = c * b => a = c
  <1>1. a < c => a * b + b <= c * b
    <2> SUFFICES ASSUME a + 1 <= c PROVE a * b + b <= c * b
      OBVIOUS
    <2>1. (a + 1) * b <= c * b
      BY MulMono
    <2> QED
      BY <2>1
  <1>2. a * b < c * b => a < c
    <2> SUFFICES ASSUME c <= a PROVE c * b <= a * b
      OBVIOUS
    <2> QED
      BY MulMono
  <1>3. c < a => c * b + b <= a * b
    <2> SUFFICES ASSUME c + 1 <= a PROVE c * b + b <= a * b
      OBVIOUS
    <2>1. (c + 1) * b <= a * b
      BY MulMono
    <2> QED
      BY <2>1
  <1>4. a * b \in Nat /\ c * b \in Nat
    OBVIOUS
  <1>5. a * b = c * b => a = c
    <2> SUFFICES ASSUME a * b = c * b PROVE a = c
      OBVIOUS
    <2>1. ~ (a < c) /\ ~ (c < a)
      BY <1>1, <1>3, <1>4
    <2> QED
      BY <2>1
  <1> QED
    BY <1>1, <1>2, <1>4, <1>5

\* The turns of an engine fit the file.
LEMMA TurnsFit ==
  ASSUME NEW o \in thread_options, o.block_size > 0, NEW n \in Nat
  PROVE  /\ StepSize(o) \in Nat \ {0} /\ Count(o) \in Nat /\ StepSize(o) >= o.block_size
         /\ Count(o) = o.total_size \div StepSize(o)
         /\ n <= Count(o) => n * StepSize(o) <= o.total_size
         /\ n * StepSize(o) \in Nat
  <1>1. o.block_size \in Nat \ {0} /\ o.total_size \in Nat /\ QUEUE \in Nat \ {0}
    BY SsdEngineAssumption DEF thread_options
  <1>2. o.block_size * QUEUE \in Nat \ {0} /\ o.block_size * QUEUE >= o.block_size
    BY <1>1
  <1>3. StepSize(o) \in Nat \ {0} /\ StepSize(o) >= o.block_size
    BY <1>1, <1>2 DEF StepSize
  <1>4. Count(o) = o.total_size \div StepSize(o)
    BY DEF Count, StepSize
  <1>5. Count(o) \in Nat /\ Count(o) * StepSize(o) <= o.total_size
    BY <1>1, <1>3, <1>4, DivFacts
  <1>6. n * StepSize(o) \in Nat
    BY <1>3
  <1>7. ASSUME n <= Count(o) PROVE n * StepSize(o) <= o.total_size
    <2>1. n * StepSize(o) <= Count(o) * StepSize(o)
      BY <1>3, <1>5, <1>7, MulMono
    <2> QED
      BY <1>1, <1>3, <1>5, <1>6, <2>1
  <1> QED
    BY <1>3, <1>4, <1>5, <1>6, <1>7

\* If the blocks of a file fill whole batches, they are counted by batches.
LEMMA WholeBatches ==
  ASSUME NEW n \in Nat, NEW b \in Nat \ {0}, NEW q \in Nat \ {0}, (n \div b) % q = 0
  PROVE  n \div b = (n \div (b * q)) * q
  <1> DEFINE k == n \div b
             m == k \div q
  <1>1. k \in Nat /\ k * b <= n /\ n < k * b + b
    BY DivFacts
  <1>2. m \in Nat /\ k = m * q
    <2>1. m \in Nat /\ k % q = 0 /\ k = q * m + (k % q)
      BY <1>1
    <2> HIDE DEF m, k
    <2> QED
      BY <2>1
  <1> HIDE DEF m, k
  <1>3. b * q \in Nat \ {0} /\ m * (b * q) = k * b
    BY <1>2
  <1>4. b <= b * q
    OBVIOUS
  <1>5. n \div (b * q) = m
    <2>1. m * (b * q) <= n /\ n < m * (b * q) + b * q
      BY <1>1, <1>3, <1>4
    <2> QED
      BY <1>2, <1>3, <2>1, DivUnique
  <1> QED
    BY <1>2, <1>5 DEF k

\* msync of a block on a page boundary reaches the end of the block.
LEMMA PagesCover ==
  ASSUME NEW a \in Nat, NEW n \in Nat
  PROVE  Span(a, n) \subseteq PagesOf(a, n)
  <1>1. PAGE \in Nat \ {0}
    BY SsdEngineAssumption
  <1> DEFINE p == (a + n + PAGE - 1) \div PAGE
  <1>2. a + n + PAGE - 1 \in Nat
    BY <1>1
  <1>3. p \in Nat /\ a + n + PAGE - 1 < p * PAGE + PAGE
    BY <1>1, <1>2, DivFacts
  <1> HIDE DEF p
  <1>4. p * PAGE \in Nat
    BY <1>1, <1>3
  <1>5. a + n <= p * PAGE
    BY <1>1, <1>3, <1>4
  <1>6. a .. a + n - 1 \subseteq a .. p * PAGE - 1
    BY <1>4, <1>5
  <1> QED
    BY <1>6 DEF Span, PagesOf, p

LEMMA MultipleMod ==
  ASSUME NEW q \in Nat, NEW b \in Nat \ {0}
  PROVE  (q * b) % b = 0
  OBVIOUS

LEMMA MultipleOfPage ==
  ASSUME NEW b \in Nat, NEW i \in Nat, b % PAGE = 0
  PROVE  (i * b) % PAGE = 0
  <1>1. PAGE \in Nat \ {0}
    BY SsdEngineAssumption
  <1> DEFINE v == b \div PAGE
  <1>2. v \in Nat /\ b = v * PAGE
    BY <1>1
  <1> HIDE DEF v
  <1>3. i * b = (i * v) * PAGE /\ i * v \in Nat
    BY <1>1, <1>2
  <1>4. ((i * v) * PAGE) % PAGE = 0
    BY <1>1, <1>3, MultipleMod
  <1> QED
    BY <1>3, <1>4

\* A batch holds QUEUE requests, whose blocks fill it without overlap.
LEMMA BatchCount ==
  ASSUME NEW s \in Nat, NEW b \in Nat \ {0}
  PROVE  IsFiniteSet(Requests(s, b)) /\ Cardinality(Requests(s, b)) = QUEUE
  <1>1. QUEUE \in Nat \ {0}
    BY SsdEngineAssumption
  <1> DEFINE f == [j \in 0 .. QUEUE - 1 |-> s + j * b]
  <1>2. f \in [0 .. QUEUE - 1 -> Requests(s, b)]
    BY DEF Requests
  <1>3. ASSUME NEW x \in 0 .. QUEUE - 1, NEW y \in 0 .. QUEUE - 1, f[x] = f[y] PROVE x = y
    <2>1. s + x * b = s + y * b /\ x * b \in Nat /\ y * b \in Nat
      BY <1>1, <1>3
    <2>2. x * b = y * b
      BY <2>1
    <2> QED
      BY <1>1, <2>2, MulOrder
  <1>4. f \in Bijection(0 .. QUEUE - 1, Requests(s, b))
    <2>1. \A r \in Requests(s, b) : \E j \in 0 .. QUEUE - 1 : f[j] = r
      BY DEF Requests
    <2> QED
      BY <1>2, <1>3, <2>1 DEF Bijection, Injection, Surjection, IsInjective
  <1>5. ExistsBijection(0 .. QUEUE - 1, Requests(s, b))
    BY <1>4 DEF ExistsBijection
  <1>6. IsFiniteSet(0 .. QUEUE - 1) /\ Cardinality(0 .. QUEUE - 1) = QUEUE
    BY <1>1, FS_Interval
  <1> QED
    BY <1>5, <1>6, FS_Bijection

LEMMA BatchFills ==
  ASSUME NEW s \in Nat, NEW b \in Nat \ {0}, NEW u \in Nat
  PROVE  (\E a \in Requests(s, b) : u \in Span(a, b)) <=> (s <= u /\ u < s + b * QUEUE)
  <1>1. QUEUE \in Nat \ {0}
    BY SsdEngineAssumption
  <1>2. ASSUME NEW j \in 0 .. QUEUE - 1, u \in Span(s + j * b, b)
        PROVE  s <= u /\ u < s + b * QUEUE
    <2>1. j * b + b <= QUEUE * b /\ j * b \in Nat /\ QUEUE * b = b * QUEUE
      BY <1>1, MulOrder
    <2>2. s + j * b <= u /\ u <= s + j * b + b - 1
      BY <1>2, <2>1 DEF Span
    <2>3. j * b + b <= b * QUEUE /\ b * QUEUE \in Nat
      BY <1>1, <2>1
    <2> QED
      BY <2>1, <2>2, <2>3
  <1>3. ASSUME s <= u, u < s + b * QUEUE
        PROVE  \E j \in 0 .. QUEUE - 1 : u \in Span(s + j * b, b)
    <2> DEFINE j == (u - s) \div b
    <2>1. u - s \in Nat
      BY <1>3
    <2>2. j \in Nat /\ j * b <= u - s /\ u - s < j * b + b
      BY <2>1, DivFacts
    <2> HIDE DEF j
    <2>3. j < QUEUE
      <3>1. j * b < QUEUE * b
        BY <1>1, <1>3, <2>1, <2>2
      <3> QED
        BY <1>1, <2>2, <3>1, MulOrder
    <2>4. u \in Span(s + j * b, b)
      BY <2>1, <2>2 DEF Span
    <2>5. j \in 0 .. QUEUE - 1
      BY <1>1, <2>2, <2>3
    <2> QED
      BY <2>4, <2>5
  <1> QED
    BY <1>2, <1>3 DEF Requests

LEMMA RequestsApart ==
  ASSUME NEW s \in Nat, NEW b \in Nat \ {0}, NEW u \in Nat,
         NEW a \in Requests(s, b), NEW c \in Requests(s, b),
         u \in Span(a, b), u \in Span(c, b)
  PROVE  a = c
  <1>1. QUEUE \in Nat \ {0}
    BY SsdEngineAssumption
  <1>2. PICK j \in 0 .. QUEUE - 1 : a = s + j * b
    BY DEF Requests
  <1>3. PICK k \in 0 .. QUEUE - 1 : c = s + k * b
    BY DEF Requests
  <1>4. j \in Nat /\ k \in Nat /\ j * b \in Nat /\ k * b \in Nat
    BY <1>1
  <1>5. /\ s + j * b <= u /\ u < s + j * b + b
        /\ s + k * b <= u /\ u < s + k * b + b
    BY <1>2, <1>3, <1>4 DEF Span
  <1>6. ~ (j < k) /\ ~ (k < j)
    BY <1>4, <1>5, MulOrder
  <1> QED
    BY <1>2, <1>3, <1>4, <1>6

\* A unit against the block at an even multiple of the block size.
LEMMA PassFacts ==
  ASSUME NEW o \in thread_options, o.block_size > 0, NEW m \in Nat, NEW u \in Nat
  PROVE  LET b == o.block_size
             k == u \div b
             a == (2 * m) * b
         IN  /\ a \in Nat /\ k \in Nat /\ k * b \in Nat
             /\ u \in Span(a, b) <=> k * b = a
             /\ k % 2 = 0 => (k * b < a + 2 * b <=> k * b <= a)
             /\ (u \in Span(a, b) /\ a < o.total_size) => InPass(o, u)
             /\ (2 * (m + 1)) * b = a + 2 * b
  <1> DEFINE b == o.block_size
             k == u \div b
             a == (2 * m) * b
  <1>1. b \in Nat \ {0} /\ o.total_size \in Nat
    BY DEF thread_options
  <1>2. k \in Nat /\ k * b <= u /\ u < k * b + b
    BY <1>1, DivFacts
  <1>3. 2 * m \in Nat /\ 2 * (m + 1) \in Nat /\ a \in Nat /\ k * b \in Nat
    BY <1>1, <1>2
  <1>4. (2 * (m + 1)) * b = a + 2 * b
    BY <1>1
  <1>5. u \in Span(a, b) => k = 2 * m
    <2> SUFFICES ASSUME u \in Span(a, b) PROVE k = 2 * m
      OBVIOUS
    <2>1. a <= u /\ u < a + b
      BY <1>1, <1>3 DEF Span
    <2> QED
      BY <1>1, <1>3, <2>1, DivUnique
  <1>6. k * b = a => u \in Span(a, b)
    BY <1>1, <1>2, <1>3 DEF Span
  <1>7. k % 2 = 0 => (k * b < a + 2 * b <=> k * b <= a)
    <2> SUFFICES ASSUME k % 2 = 0 PROVE k * b < a + 2 * b <=> k * b <= a
      OBVIOUS
    <2>1. k * b < (2 * (m + 1)) * b => k < 2 * (m + 1)
      BY <1>1, <1>2, <1>3, MulOrder
    <2>2. k < 2 * (m + 1) => k <= 2 * m
      BY <1>2
    <2>3. k <= 2 * m => k * b <= a
      BY <1>1, <1>2, <1>3, MulMono
    <2> HIDE DEF k, a, b
    <2> QED
      BY <1>1, <1>3, <1>4, <2>1, <2>2, <2>3
  <1>8. k = 2 * m => k % 2 = 0 /\ k * b = a
    BY <1>2
  <1>9. (u \in Span(a, b) /\ a < o.total_size) => InPass(o, u)
    BY <1>5, <1>8 DEF InPass
  <1> QED
    BY <1>2, <1>3, <1>4, <1>5, <1>6, <1>7, <1>8, <1>9

\* One block of the random pass, with the wrap at the end of the file.
LEMMA PassTurn ==
  ASSUME NEW o \in thread_options, o.block_size > 0, o.access_type = TYPE_RW,
         NEW m \in Nat, NEW a, a = (2 * m) * o.block_size, a < o.total_size,
         NEW p \in Nat, NEW w, PassOf(o, w, a, p),
         NEW v, \A u \in Unit : v[u] = w[u] + (IF u \in Span(a, o.block_size) THEN 1 ELSE 0)
  PROVE  \E q \in Nat : PassOf(o, v, NextOffset(o, a), q)
  <1> DEFINE b == o.block_size
             k(u) == u \div b
  <1>1. /\ b \in Nat \ {0} /\ o.total_size \in Nat /\ a \in Nat
        /\ Unit \subseteq Nat
    BY DEF thread_options, Unit
  <1>2. NextOffset(o, a) = IF a + 2 * b >= o.total_size THEN 0 ELSE a + 2 * b
    BY <1>1 DEF NextOffset, TYPE_RW, TYPE_SW
  <1>3. ASSUME NEW u \in Unit
        PROVE  /\ k(u) * b \in Nat
               /\ u \in Span(a, b) <=> k(u) * b = a
               /\ InPass(o, u) => (k(u) * b < a + 2 * b <=> k(u) * b <= a)
               /\ u \in Span(a, b) => InPass(o, u)
               /\ InPass(o, u) => k(u) * b < o.total_size
    BY <1>1, PassFacts DEF InPass
  <1>4. ASSUME NEW u \in Unit
        PROVE  v[u] = IF ~ InPass(o, u) THEN 0 ELSE IF k(u) * b <= a THEN p + 1 ELSE p
    <2>1. w[u] = IF ~ InPass(o, u) THEN 0 ELSE IF k(u) * b < a THEN p + 1 ELSE p
      BY DEF PassOf
    <2>2. v[u] = w[u] + (IF u \in Span(a, b) THEN 1 ELSE 0)
      OBVIOUS
    <2>3. /\ k(u) * b \in Nat /\ (u \in Span(a, b) <=> k(u) * b = a)
          /\ (u \in Span(a, b) => InPass(o, u))
      BY <1>3
    <2> HIDE DEF k, b
    <2> QED
      BY <1>1, <2>1, <2>2, <2>3
  <1>5. CASE a + 2 * b >= o.total_size
    <2>1. ASSUME NEW u \in Unit, InPass(o, u) PROVE k(u) * b <= a /\ ~ (k(u) * b < 0)
      <3>1. /\ k(u) * b \in Nat /\ (k(u) * b < a + 2 * b <=> k(u) * b <= a)
            /\ k(u) * b < o.total_size
        BY <1>3, <2>1
      <3> HIDE DEF k, b
      <3> QED
        BY <1>1, <1>5, <3>1
    <2>2. PassOf(o, v, 0, p + 1)
      BY <1>4, <2>1 DEF PassOf
    <2> QED
      BY <1>2, <1>5, <2>2
  <1>6. CASE ~ (a + 2 * b >= o.total_size)
    <2>1. ASSUME NEW u \in Unit, InPass(o, u) PROVE k(u) * b <= a <=> k(u) * b < a + 2 * b
      BY <1>3, <2>1
    <2>2. PassOf(o, v, a + 2 * b, p)
      BY <1>4, <2>1 DEF PassOf
    <2> QED
      BY <1>2, <1>6, <2>2
  <1> QED
    BY <1>5, <1>6

\* A block of the pass that starts inside a roomy file ends inside it.
LEMMA RoomyFits ==
  ASSUME NEW o \in thread_options, o.block_size > 0, o.io_type = IO_DIRECT_ACCESS,
         o.access_type = TYPE_RW, Roomy(o), NEW m \in Nat, (2 * m) * o.block_size < o.total_size
  PROVE  (2 * m) * o.block_size + o.block_size <= o.total_size
  <1> DEFINE b == o.block_size
             n == o.total_size \div b
  <1>1. b \in Nat \ {0} /\ o.total_size \in Nat /\ 2 * m \in Nat
    BY DEF thread_options
  <1>2. n \in Nat /\ n * b <= o.total_size /\ o.total_size < n * b + b
    BY <1>1, DivFacts
  <1>3. o.total_size % b = 0 => n * b = o.total_size
    BY <1>1
  <1>4. n % 2 = 1 \/ o.total_size % b = 0
    BY DEF Roomy, Blocks
  <1> HIDE DEF n, b
  <1>5. 2 * m < n
    <2>1. CASE o.total_size % b = 0
      <3>1. (2 * m) * b < n * b
        BY <1>3, <2>1 DEF b
      <3> QED
        BY <1>1, <1>2, <3>1, MulOrder
    <2>2. CASE n % 2 = 1
      <3>1. (2 * m) * b < (n + 1) * b
        <4>1. (n + 1) * b = n * b + b /\ n * b \in Nat /\ (2 * m) * b \in Nat
          BY <1>1, <1>2
        <4>2. (2 * m) * b < o.total_size
          BY DEF b
        <4> QED
          BY <1>1, <1>2, <4>1, <4>2
      <3>2. 2 * m < n + 1
        BY <1>1, <1>2, <3>1, MulOrder
      <3> QED
        BY <1>2, <2>2, <3>2
    <2> QED
      BY <1>4, <2>1, <2>2
  <1>6. (2 * m) * b + b <= n * b /\ (2 * m) * b \in Nat /\ n * b \in Nat
    BY <1>1, <1>2, <1>5, MulOrder
  <1>7. (2 * m) * b + b <= o.total_size
    BY <1>1, <1>2, <1>6
  <1> QED
    BY <1>7 DEF b
-------------------------------------------------------------------------------
(***************************************************************************)
(* One thread.                                                             *)
(***************************************************************************)

\* A step that leaves thread t where it is; at most a call for it failed.
Same(t) ==
  /\ eopt'[t] = eopt[t] /\ iops'[t] = iops[t] /\ epc'[t] = epc[t]
  /\ handle'[t] = handle[t] /\ ei'[t] = ei[t] /\ offset'[t] = offset[t]
  /\ inflight'[t] = inflight[t] /\ writes'[t] = writes[t]
  /\ dirty'[t] = dirty[t] /\ good'[t] = good[t]
  /\ lost[t] => lost'[t]

LEMMA ThreadFrame ==
  ASSUME NEW t \in Threads, EngineInv(t), Same(t)
  PROVE  EngineInv(t)'
  <1>1. (Running(t)' <=> Running(t)) /\ Turns(t)' = Turns(t) /\ Reach(t)' = Reach(t)
    BY DEF Same, Running, Turns, Reach
  <1>2. Fresh(t) => Fresh(t)'
    BY DEF Same, Fresh
  <1>3. Phase(t) => Phase(t)'
    BY <1>1 DEF Same, Phase
  <1>4. Position(t) => Position(t)'
    BY <1>1 DEF Same, Position
  <1>5. Prefix(t) => Prefix(t)'
    BY <1>1 DEF Same, Prefix
  <1>6. Passes(t) => Passes(t)'
    BY <1>1 DEF Same, Passes
  <1>7. Counted(t) => Counted(t)'
    BY <1>1 DEF Same, Counted
  <1>8. Clean(t) => Clean(t)'
    BY <1>1 DEF Same, Clean
  <1>9. (epc[t] = "setup" /\ handle[t] # "good" => lost[t])
        => (epc'[t] = "setup" /\ handle'[t] # "good" => lost'[t])
    BY DEF Same
  <1> QED
    BY <1>1, <1>2, <1>3, <1>4, <1>5, <1>6, <1>7, <1>8, <1>9 DEF EngineInv

\* The arguments, once main has read them.
LEMMA OptionFacts ==
  ASSUME TypeOK, Len(argv) >= 5
  PROVE  /\ Options \in thread_options /\ num_thread \in Nat
         /\ Options.total_size <= MAX_UNIT /\ Options.block_size = argv[4]
         /\ Options.total_size \in Nat
  <1>1. argv \in Seq(Nat) /\ argv \in Args /\ MB \in Nat \ {0}
    BY SsdRunAssumption DEF TypeOK
  <1>2. \A k \in 1 .. 5 : argv[k] \in Nat
    BY <1>1
  <1>3. argv[5] * MB \in Nat /\ argv[5] * MB <= MAX_UNIT
    <2>1. argv[5] \in Nat
      BY <1>2
    <2>2. argv[5] * MB \in Nat
      BY <1>1, <2>1
    <2>3. argv[5] * MB <= MAX_UNIT
      BY <1>1, SsdRunAssumption
    <2> QED
      BY <2>2, <2>3
  <1> QED
    BY <1>2, <1>3 DEF Options, thread_options, num_thread

\* The types of one thread.
LEMMA ThreadTypes ==
  ASSUME TypeOK, NEW t \in Threads
  PROVE  /\ ei[t] \in Nat /\ offset[t] \in Nat /\ size[t] \in Nat /\ good[t] \in Nat
         /\ inflight[t] \subseteq Nat /\ dirty[t] \subseteq Unit
         /\ writes[t] \in [Unit -> Nat] /\ lost[t] \in BOOLEAN
         /\ epc[t] \in EnginePCs /\ handle[t] \in {"none", "good", "bad"}
         /\ epc[t] \notin {"none", "failed"} => eopt[t] \in thread_options
  BY DEF TypeOK, EngineTypeOK

\* A step of one thread, seen by main and by the others.
LEMMA OneThread ==
  ASSUME SsdInv, NEW t \in Threads, TypeOK',
         UNCHANGED <<eopt, size, fault>>, UNCHANGED mainVars,
         \A s \in Threads \ {t} : Same(s),
         epc[t] \notin {"none", "failed"}, epc'[t] \notin {"none", "failed"},
         lost[t] => lost'[t], EngineInv(t)'
  PROVE  SsdInv'
  <1>1. UNCHANGED <<argv, mpc, mi, summary>>
    BY DEF mainVars
  <1>2. MainInv'
    BY <1>1 DEF SsdInv, MainInv, num_thread
  <1>3. \A s \in Threads : lost[s] => lost'[s]
    BY DEF Same
  <1>4. SaneRunsDoNotFault'
    BY <1>1, <1>3 DEF SsdInv, SaneRunsDoNotFault, Sane, num_thread
  <1>5. ASSUME NEW s \in Threads PROVE ThreadInv(s)'
    <2>1. ThreadInv(s)
      BY DEF SsdInv
    <2>2. Options' = Options /\ num_thread' = num_thread
      BY <1>1 DEF Options, num_thread
    <2>3. Prepared(s)'
      <3>1. /\ epc'[s] # "none" => epc[s] # "none"
            /\ epc'[s] = "failed" => epc[s] = "failed"
        BY DEF Same
      <3> QED
        BY <1>1, <1>3, <2>1, <2>2, <3>1 DEF ThreadInv, Prepared
    <2>4. CASE s = t
      BY <2>3, <2>4 DEF ThreadInv
    <2>5. CASE s # t
      BY <2>1, <2>3, <2>5, ThreadFrame DEF ThreadInv
    <2> QED
      BY <2>4, <2>5
  <1> QED
    BY <1>2, <1>4, <1>5 DEF SsdInv

\* The process dies: of arguments it should have checked, or with a call that
\* failed.
LEMMA DieStep ==
  ASSUME SsdInv, NEW s \in Faults, NEW L, Die(s, L), UNCHANGED mainVars,
         Sane => \E t \in Threads : lost'[t]
  PROVE  SsdInv'
  <1>1. /\ UNCHANGED <<argv, mpc, mi, summary>>
        /\ UNCHANGED <<eopt, iops, epc, handle, size, ei, offset, inflight, writes, dirty, good>>
        /\ fault' = s
        /\ lost' = [t \in Threads |-> lost[t] \/ t \in L]
    BY DEF Die, mainVars
  <1>2. TypeOK'
    BY <1>1 DEF SsdInv, TypeOK, EngineTypeOK
  <1>3. MainInv'
    BY <1>1 DEF SsdInv, MainInv, num_thread
  <1>4. SaneRunsDoNotFault'
    BY <1>1 DEF SaneRunsDoNotFault, Sane, num_thread
  <1>5. ASSUME NEW t \in Threads PROVE ThreadInv(t)'
    <2>1. Prepared(t) /\ EngineInv(t)
      BY DEF SsdInv, ThreadInv
    <2>2. Same(t)
      BY <1>1 DEF Same
    <2>3. Options' = Options /\ num_thread' = num_thread
      BY <1>1 DEF Options, num_thread
    <2>4. Prepared(t)'
      BY <1>1, <2>1, <2>2, <2>3 DEF Prepared, Same
    <2> QED
      BY <2>1, <2>2, <2>4, ThreadFrame DEF ThreadInv
  <1> QED
    BY <1>2, <1>3, <1>4, <1>5 DEF SsdInv

\* What is known of a thread that takes a step.
LEMMA StepFacts ==
  ASSUME SsdInv, NEW t \in Threads, epc[t] \notin {"none", "failed"}
  PROVE  /\ eopt[t] \in thread_options /\ eopt[t] = Options
         /\ eopt[t].block_size \in Nat /\ eopt[t].total_size \in Nat
         /\ eopt[t].total_size <= MAX_UNIT
         /\ EngineInv(t)
         /\ Sane => eopt[t].block_size > 0 /\ IsPowerOfTwo(eopt[t].block_size)
         /\ size[t] = eopt[t].total_size \/ lost[t]
         /\ size[t] <= MAX_UNIT
  <1>1. Prepared(t) /\ EngineInv(t) /\ TypeOK
    BY DEF SsdInv, ThreadInv
  <1>2. Len(argv) >= 5 /\ eopt[t] = Options /\ t < num_thread /\ mpc \in {"spawn", "join", "stuck", "exit"}
    BY <1>1 DEF Prepared
  <1>3. /\ Options \in thread_options /\ Options.total_size <= MAX_UNIT
        /\ Options.block_size = argv[4] /\ Options.total_size \in Nat
    BY <1>1, <1>2, OptionFacts
  <1>4. Options.block_size \in Nat
    BY <1>3 DEF thread_options
  <1>5. size[t] = Options.total_size \/ lost[t]
    BY <1>1, <1>2 DEF Prepared
  <1>6. size[t] <= MAX_UNIT
    BY <1>1 DEF Prepared
  <1> QED
    BY <1>1, <1>2, <1>3, <1>4, <1>5, <1>6 DEF Sane
-------------------------------------------------------------------------------
(***************************************************************************)
(* The steps of an engine.                                                 *)
(***************************************************************************)

LEMMA OpenStep ==
  ASSUME SsdInv, NEW t \in Threads, Open(t), UNCHANGED mainVars
  PROVE  SsdInv'
  <1>1. /\ epc[t] = "created" /\ epc' = [epc EXCEPT ![t] = "setup"]
        /\ UNCHANGED <<eopt, iops, size, ei, offset, inflight, writes, dirty, good, fault>>
    BY DEF Open, Goto
  <1>2. PICK ok \in BOOLEAN : /\ handle' = [handle EXCEPT ![t] = IF ok THEN "good" ELSE "bad"]
                              /\ lost' = [lost EXCEPT ![t] = @ \/ ~ ok]
    BY DEF Open
  <1>3. TypeOK'
    BY <1>1, <1>2 DEF SsdInv, TypeOK, EngineTypeOK, EnginePCs, mainVars
  <1>4. \A s \in Threads \ {t} : Same(s)
    BY <1>1, <1>2 DEF SsdInv, TypeOK, EngineTypeOK, Same
  <1>5. epc'[t] = "setup" /\ lost'[t] = (lost[t] \/ ~ ok)
        /\ handle'[t] = (IF ok THEN "good" ELSE "bad")
    BY <1>1, <1>2 DEF SsdInv, TypeOK, EngineTypeOK
  <1>6. Fresh(t)'
    BY <1>1 DEF SsdInv, ThreadInv, EngineInv, Fresh, Running
  <1>7. EngineInv(t)'
    BY <1>5, <1>6 DEF EngineInv, Running
  <1> QED
    BY <1>1, <1>3, <1>4, <1>5, <1>7, OneThread

\* A fresh thread at the head of its loop.
LEMMA LoopEntered ==
  ASSUME TypeOK', NEW t \in Threads, Fresh(t)', epc'[t] = "loop",
         eopt'[t].io_type \in Engines => eopt'[t].block_size # 0,
         handle'[t] # "good" => lost'[t]
  PROVE  EngineInv(t)'
  <1> DEFINE o == eopt'[t]
  <1>1. o \in thread_options /\ o.block_size \in Nat /\ QUEUE \in Nat /\ Unit \subseteq Nat
    <2>1. o \in thread_options
      BY DEF TypeOK, EngineTypeOK
    <2> QED
      BY <2>1, SsdEngineAssumption DEF thread_options, Unit
  <1>2. /\ ei'[t] = 0 /\ offset'[t] = 0 /\ inflight'[t] = {} /\ dirty'[t] = {}
        /\ good'[t] = 0 /\ \A u \in Unit : writes'[t][u] = 0
    BY DEF Fresh
  <1>3. Turns(t)' = 0
    BY <1>2 DEF Turns
  <1>4. Reach(t)' = 0
    <2>1. StepSize(eopt'[t]) \in Nat
      BY <1>1 DEF StepSize
    <2> QED
      BY <1>3, <2>1 DEF Reach
  <1>5. Phase(t)'
    <2>1. o.io_type \in Engines => o.block_size > 0 /\ 0 <= Count(o)
      BY <1>1, TurnsFit
    <2> QED
      BY <1>2, <1>3, <2>1 DEF Phase
  <1>6. Position(t)'
    BY <1>1, <1>2, <1>4 DEF Position
  <1>7. Prefix(t)'
    <2>1. \A u \in Unit : ~ (u < 0)
      BY <1>1
    <2> QED
      BY <1>2, <1>4, <2>1 DEF Prefix
  <1>8. Passes(t)'
    <2>1. ASSUME o.io_type = IO_DIRECT_ACCESS PROVE PassOf(o, writes'[t], offset'[t], 0)
      <3>1. o.block_size \in Nat \ {0}
        BY <1>1, <2>1 DEF Engines
      <3>2. ASSUME NEW u \in Unit PROVE ~ ((u \div o.block_size) * o.block_size < 0)
        <4>1. u \div o.block_size \in Nat
          BY <1>1, <3>1, DivFacts
        <4> QED
          BY <3>1, <4>1
      <3> QED
        BY <1>2, <3>2 DEF PassOf
    <2> QED
      BY <1>2, <2>1 DEF Passes
  <1>9. Counted(t)'
    BY <1>1, <1>2, <1>3, FS_EmptySet DEF Counted
  <1>10. Clean(t)'
    BY <1>2 DEF Clean
  <1> QED
    BY <1>5, <1>6, <1>7, <1>8, <1>9, <1>10 DEF EngineInv, Running

LEMMA SetupStep ==
  ASSUME SsdInv, NEW t \in Threads, Setup(t), UNCHANGED mainVars
  PROVE  SsdInv'
  <1>1. epc[t] = "setup"
    BY DEF Setup
  <1>2. /\ eopt[t] \in thread_options /\ EngineInv(t)
        /\ Sane => eopt[t].block_size > 0 /\ IsPowerOfTwo(eopt[t].block_size)
    BY <1>1, StepFacts
  <1>3. CASE Die("SIGFPE", {}) /\ eopt[t].block_size = 0
    BY <1>2, <1>3, DieStep DEF Faults
  <1>4. CASE Die("SIGSEGV", {}) /\ ~ IsPowerOfTwo(eopt[t].block_size)
    BY <1>2, <1>4, DieStep DEF Faults
  <1>5. ASSUME eopt[t].io_type \in Engines => eopt[t].block_size # 0,
               \/ UNCHANGED <<handle, lost>>
               \/ handle' = [handle EXCEPT ![t] = "bad"] /\ lost' = [lost EXCEPT ![t] = TRUE],
               Goto(t, "loop"),
               UNCHANGED <<eopt, iops, size, ei, offset, inflight, writes, dirty, good, fault>>
        PROVE  SsdInv'
    <2>1. epc' = [epc EXCEPT ![t] = "loop"]
      BY <1>5 DEF Goto
    <2>2. TypeOK'
      BY <1>1, <1>5, <2>1 DEF SsdInv, TypeOK, EngineTypeOK, EnginePCs, mainVars
    <2>3. \A s \in Threads \ {t} : Same(s)
      BY <1>5, <2>1 DEF SsdInv, TypeOK, EngineTypeOK, Same
    <2>4. epc'[t] = "loop" /\ (lost[t] => lost'[t])
      BY <1>5, <2>1 DEF SsdInv, TypeOK, EngineTypeOK
    <2>5. handle'[t] # "good" => lost'[t]
      BY <1>1, <1>2, <1>5 DEF EngineInv, SsdInv, TypeOK, EngineTypeOK
    <2>6. Fresh(t)'
      BY <1>1, <1>2, <1>5 DEF EngineInv, Running, Fresh
    <2>7. EngineInv(t)'
      BY <1>5, <2>1, <2>2, <2>4, <2>5, <2>6, LoopEntered DEF SsdInv, TypeOK, EngineTypeOK
    <2> QED
      BY <1>1, <1>5, <2>2, <2>3, <2>4, <2>7, OneThread
  <1> QED
    BY <1>3, <1>4, <1>5 DEF Setup

\* A thread at the head of its loop, with a turn to make.
LEMMA LoopFacts ==
  ASSUME SsdInv, NEW t \in Threads, NEW e \in Engines, Looping(t, e)
  PROVE  LET o == eopt[t]
             b == eopt[t].block_size
         IN
         /\ epc[t] = "loop" /\ o.io_type = e
         /\ o \in thread_options /\ b \in Nat \ {0} /\ o.total_size \in Nat
         /\ StepSize(o) \in Nat \ {0} /\ StepSize(o) >= b /\ Count(o) \in Nat
         /\ ei[t] + 1 <= Count(o) /\ Turns(t) = ei[t]
         /\ Reach(t) = ei[t] * StepSize(o) /\ ei[t] * StepSize(o) \in Nat
         /\ (ei[t] + 1) * StepSize(o) = ei[t] * StepSize(o) + StepSize(o)
         /\ ei[t] * StepSize(o) + StepSize(o) <= o.total_size
         /\ inflight[t] = {}
         /\ Phase(t) /\ Position(t) /\ Prefix(t) /\ Passes(t) /\ Counted(t) /\ Clean(t)
  <1> DEFINE o == eopt[t]
  <1>1. /\ epc[t] = "loop" /\ o.io_type = e /\ ei[t] < Count(o)
        /\ o \in thread_options /\ EngineInv(t) /\ o.block_size \in Nat /\ o.total_size \in Nat
    BY StepFacts DEF Looping
  <1>2. /\ Phase(t) /\ Position(t) /\ Prefix(t) /\ Passes(t) /\ Counted(t) /\ Clean(t)
    BY <1>1 DEF EngineInv, Running
  <1>3. o.block_size > 0 /\ inflight[t] = {}
    BY <1>1, <1>2 DEF Phase
  <1>4. ei[t] \in Nat
    BY ThreadTypes DEF SsdInv
  <1> HIDE DEF o
  <1>5. /\ StepSize(o) \in Nat \ {0} /\ StepSize(o) >= o.block_size /\ Count(o) \in Nat
        /\ ei[t] * StepSize(o) \in Nat
    BY <1>1, <1>3, <1>4, TurnsFit
  <1>6. ei[t] + 1 <= Count(o) /\ ei[t] + 1 \in Nat
    BY <1>1, <1>4, <1>5
  <1>7. (ei[t] + 1) * StepSize(o) <= o.total_size
    BY <1>1, <1>3, <1>6, TurnsFit
  <1>8. (ei[t] + 1) * StepSize(o) = ei[t] * StepSize(o) + StepSize(o)
    BY <1>4, <1>5
  <1>9. Turns(t) = ei[t] /\ Reach(t) = ei[t] * StepSize(o)
    BY <1>1 DEF Turns, Reach, o
  <1> QED
    BY <1>1, <1>2, <1>3, <1>5, <1>6, <1>7, <1>8, <1>9 DEF o

\* The lines of Transfer, for the thread it is about.
LEMMA TransferFacts ==
  ASSUME TypeOK, NEW t \in Threads, NEW a \in Nat, NEW n \in Nat, Transfer(t, a, n)
  PROVE  /\ \A u \in Unit : writes'[t][u] = writes[t][u] + (IF u \in Span(a, n) THEN 1 ELSE 0)
         /\ good'[t] = IF n = eopt[t].block_size THEN good[t] + 1 ELSE good[t]
         /\ lost[t] => lost'[t]
         /\ ~ lost'[t] => ~ (n < eopt[t].block_size)
         /\ writes' \in [Threads -> [Unit -> Nat]]
         /\ good' \in [Threads -> Nat]
         /\ lost' \in [Threads -> BOOLEAN]
         /\ \A s \in Threads \ {t} :
              writes'[s] = writes[s] /\ good'[s] = good[s] /\ lost'[s] = lost[s]
  <1>1. writes \in [Threads -> [Unit -> Nat]] /\ good \in [Threads -> Nat]
        /\ lost \in [Threads -> BOOLEAN]
    BY DEF TypeOK, EngineTypeOK
  <1>2. [u \in Unit |-> writes[t][u] + (IF u \in Span(a, n) THEN 1 ELSE 0)] \in [Unit -> Nat]
    BY <1>1
  <1>3. writes' = [writes EXCEPT ![t] =
                     [u \in Unit |-> writes[t][u] + (IF u \in Span(a, n) THEN 1 ELSE 0)]]
    BY DEF Transfer
  <1>4. /\ good' = [good EXCEPT ![t] = IF n = eopt[t].block_size THEN good[t] + 1 ELSE good[t]]
        /\ lost' = [lost EXCEPT ![t] = lost[t] \/ n < eopt[t].block_size]
    BY DEF Transfer
  <1>5. /\ writes' \in [Threads -> [Unit -> Nat]]
        /\ \A s \in Threads \ {t} : writes'[s] = writes[s]
        /\ \A u \in Unit : writes'[t][u] = writes[t][u] + (IF u \in Span(a, n) THEN 1 ELSE 0)
    BY <1>1, <1>2, <1>3
  <1>6. /\ good' \in [Threads -> Nat]
        /\ good'[t] = IF n = eopt[t].block_size THEN good[t] + 1 ELSE good[t]
        /\ \A s \in Threads \ {t} : good'[s] = good[s]
    BY <1>1, <1>4
  <1>7. /\ lost' \in [Threads -> BOOLEAN]
        /\ lost[t] => lost'[t]
        /\ ~ lost'[t] => ~ (n < eopt[t].block_size)
        /\ \A s \in Threads \ {t} : lost'[s] = lost[s]
    BY <1>1, <1>4
  <1> QED
    BY <1>5, <1>6, <1>7

LEMMA WriteStep ==
  ASSUME SsdInv, NEW t \in Threads, Write(t), UNCHANGED mainVars
  PROVE  SsdInv'
  <1> DEFINE o == eopt[t]
             b == eopt[t].block_size
  <1>1. Looping(t, IO_READ_WRITE) /\ IO_READ_WRITE \in Engines
    BY DEF Write, Engines
  <1>2. /\ epc[t] = "loop" /\ o.io_type = IO_READ_WRITE
        /\ o \in thread_options /\ b \in Nat \ {0} /\ o.total_size \in Nat
        /\ Count(o) \in Nat /\ ei[t] + 1 <= Count(o) /\ Turns(t) = ei[t]
        /\ inflight[t] = {}
        /\ Phase(t) /\ Position(t) /\ Prefix(t) /\ Passes(t) /\ Counted(t) /\ Clean(t)
    BY <1>1, LoopFacts
  <1>3. StepSize(o) = b
    BY <1>2 DEF StepSize, IO_READ_WRITE, IO_LIBAIO
  <1>4. /\ Reach(t) = ei[t] * b /\ ei[t] * b \in Nat
        /\ (ei[t] + 1) * b = ei[t] * b + b /\ ei[t] * b + b <= o.total_size
    BY <1>1, <1>3, LoopFacts
  <1>5. PICK n \in 0 .. b :
          /\ Transfer(t, offset[t], n)
          /\ offset' = [offset EXCEPT ![t] = @ + n]
          /\ dirty' = [dirty EXCEPT ![t] = @ \cup (Unit \cap Span(offset[t], n))]
    <2>1. Transfers(t) \subseteq 0 .. b
      BY <1>2 DEF Transfers
    <2> QED
      BY <2>1 DEF Write
  <1>6. epc' = [epc EXCEPT ![t] = "sync"]
        /\ UNCHANGED <<eopt, iops, handle, size, ei, inflight, fault>>
    BY DEF Write, Goto
  <1>7. TypeOK /\ offset[t] \in Nat /\ n \in Nat /\ ei[t] \in Nat /\ Unit \subseteq Nat
        /\ lost[t] \in BOOLEAN /\ good[t] \in Nat
    BY <1>2, ThreadTypes DEF SsdInv, Unit
  <1>8. /\ \A u \in Unit : writes'[t][u] = writes[t][u] + (IF u \in Span(offset[t], n) THEN 1 ELSE 0)
        /\ good'[t] = IF n = b THEN good[t] + 1 ELSE good[t]
        /\ lost[t] => lost'[t]
        /\ ~ lost'[t] => ~ (n < b)
        /\ writes' \in [Threads -> [Unit -> Nat]] /\ good' \in [Threads -> Nat]
        /\ lost' \in [Threads -> BOOLEAN]
        /\ \A s \in Threads \ {t} :
             writes'[s] = writes[s] /\ good'[s] = good[s] /\ lost'[s] = lost[s]
    BY <1>5, <1>7, TransferFacts
  <1>9. ~ lost'[t] => ~ lost[t] /\ n = b
    <2>1. ~ (n < b) => n = b
      BY <1>2
    <2> QED
      BY <1>8, <2>1
  <1>10. TypeOK'
    <2>1. offset' \in [Threads -> Nat] /\ dirty' \in [Threads -> SUBSET Unit]
      BY <1>5, <1>7 DEF TypeOK, EngineTypeOK
    <2> QED
      BY <1>2, <1>6, <1>7, <1>8, <2>1 DEF TypeOK, EngineTypeOK, EnginePCs, mainVars
  <1>11. \A s \in Threads \ {t} : Same(s)
    BY <1>5, <1>6, <1>7, <1>8 DEF TypeOK, EngineTypeOK, Same
  <1>12. /\ epc'[t] = "sync" /\ offset'[t] = offset[t] + n /\ eopt'[t] = o
         /\ ei'[t] = ei[t] /\ inflight'[t] = {} /\ handle'[t] = handle[t]
    BY <1>2, <1>5, <1>6, <1>7 DEF TypeOK, EngineTypeOK
  <1>13. Turns(t)' = ei[t] + 1 /\ Reach(t)' = ei[t] * b + b
    BY <1>3, <1>4, <1>12 DEF Turns, Reach
  <1>14. Phase(t)'
    <2>1. handle'[t] # "good" => lost'[t]
      BY <1>2, <1>8, <1>12 DEF Phase
    <2> QED
      BY <1>1, <1>2, <1>12, <1>13, <2>1 DEF Phase
  <1>15. /\ offset[t] <= ei[t] * b
         /\ ~ lost[t] => offset[t] = ei[t] * b
    BY <1>2, <1>4 DEF Position
  <1>16. Position(t)'
    <2>1. offset'[t] <= Reach(t)'
      BY <1>2, <1>4, <1>7, <1>12, <1>13, <1>15
    <2>2. ~ lost'[t] => offset'[t] = Reach(t)'
      BY <1>9, <1>12, <1>13, <1>15
    <2> QED
      BY <1>2, <1>12, <2>1, <2>2 DEF Position, IO_READ_WRITE, IO_MMAP, IO_LIBAIO, IO_DIRECT_ACCESS
  <1>17. Prefix(t)'
    <2>1. ASSUME NEW u \in Unit, writes'[t][u] > 0 PROVE u < Reach(t)'
      <3>1. writes[t][u] > 0 => u < ei[t] * b
        BY <1>2, <1>4 DEF Prefix, Sequential
      <3>2. u \in Span(offset[t], n) => u < offset[t] + n
        BY <1>7 DEF Span
      <3>3. writes[t][u] \in Nat
        BY <1>7, ThreadTypes
      <3> QED
        BY <1>2, <1>4, <1>7, <1>8, <1>13, <1>15, <2>1, <3>1, <3>2, <3>3
    <2>2. ASSUME ~ lost'[t], NEW u \in Unit
          PROVE  writes'[t][u] = IF u < Reach(t)' THEN 1 ELSE 0
      <3>1. writes[t][u] = IF u < ei[t] * b THEN 1 ELSE 0
        BY <1>2, <1>4, <1>8, <2>2 DEF Prefix, Sequential
      <3>2. n = b /\ offset[t] = ei[t] * b
        BY <1>15, <1>9, <2>2
      <3>3. u \in Span(offset[t], n) <=> (ei[t] * b <= u /\ u < ei[t] * b + b)
        BY <1>2, <1>4, <1>7, <3>2 DEF Span
      <3> QED
        BY <1>2, <1>4, <1>7, <1>8, <1>13, <3>1, <3>3
    <2> QED
      BY <1>12, <2>1, <2>2 DEF Prefix
  <1>18. Passes(t)'
    BY <1>2, <1>12 DEF Passes, IO_READ_WRITE, IO_DIRECT_ACCESS
  <1>19. Counted(t)'
    <2>1. ~ lost[t] => good[t] = ei[t]
      BY <1>1, <1>2 DEF Counted, IO_READ_WRITE, IO_LIBAIO
    <2>2. ~ lost'[t] => good'[t] = ei[t] + 1
      BY <1>8, <1>9, <2>1
    <2> QED
      BY <1>2, <1>12, <1>13, <2>2 DEF Counted, IO_READ_WRITE, IO_LIBAIO
  <1>20. Clean(t)'
    BY <1>2, <1>12 DEF Clean, IO_READ_WRITE, IO_MMAP
  <1>21. EngineInv(t)'
    BY <1>12, <1>14, <1>16, <1>17, <1>18, <1>19, <1>20 DEF EngineInv, Running
  <1> QED
    BY <1>2, <1>6, <1>8, <1>10, <1>11, <1>12, <1>21, OneThread

\* The offset of the next turn of io_direct_access.
LEMMA NextOffsetFacts ==
  ASSUME NEW o \in thread_options, o.block_size > 0, NEW a \in Nat
  PROVE  /\ NextOffset(o, a) \in Nat
         /\ o.access_type = TYPE_SW =>
              NextOffset(o, a) = IF a + o.block_size >= o.total_size THEN 0 ELSE a + o.block_size
         /\ o.access_type = TYPE_RW =>
              NextOffset(o, a) = IF a + 2 * o.block_size >= o.total_size THEN 0
                                 ELSE a + 2 * o.block_size
         /\ (o.access_type \notin {TYPE_SW, TYPE_RW} /\ a = 0) => NextOffset(o, a) = 0
  <1>1. o.block_size \in Nat \ {0} /\ o.total_size \in Nat
    BY DEF thread_options
  <1>2. CASE o.access_type = TYPE_SW
    BY <1>1, <1>2 DEF NextOffset, TYPE_RW, TYPE_SW
  <1>3. CASE o.access_type = TYPE_RW
    BY <1>1, <1>3 DEF NextOffset, TYPE_RW, TYPE_SW
  <1>4. CASE o.access_type \notin {TYPE_SW, TYPE_RW}
    <2>1. NextOffset(o, a) = IF a >= o.total_size THEN 0 ELSE a
      BY <1>4 DEF NextOffset
    <2> QED
      BY <1>1, <1>4, <2>1
  <1> QED
    BY <1>2, <1>3, <1>4

LEMMA PwriteStep ==
  ASSUME SsdInv, NEW t \in Threads, Pwrite(t), UNCHANGED mainVars
  PROVE  SsdInv'
  <1> DEFINE o == eopt[t]
             b == eopt[t].block_size
  <1>1. Looping(t, IO_DIRECT_ACCESS) /\ IO_DIRECT_ACCESS \in Engines
    BY DEF Pwrite, Engines
  <1>2. /\ epc[t] = "loop" /\ o.io_type = IO_DIRECT_ACCESS
        /\ o \in thread_options /\ b \in Nat \ {0} /\ o.total_size \in Nat
        /\ Count(o) \in Nat /\ ei[t] + 1 <= Count(o) /\ Turns(t) = ei[t]
        /\ inflight[t] = {}
        /\ Phase(t) /\ Position(t) /\ Prefix(t) /\ Passes(t) /\ Counted(t) /\ Clean(t)
    BY <1>1, LoopFacts
  <1>3. StepSize(o) = b
    BY <1>2 DEF StepSize, IO_DIRECT_ACCESS, IO_LIBAIO
  <1>4. /\ Reach(t) = ei[t] * b /\ ei[t] * b \in Nat
        /\ (ei[t] + 1) * b = ei[t] * b + b /\ ei[t] * b + b <= o.total_size
    BY <1>1, <1>3, LoopFacts
  <1>5. PICK n \in 0 .. b : Transfer(t, offset[t], n)
    <2>1. Transfers(t) \subseteq 0 .. b
      BY <1>2 DEF Transfers
    <2> QED
      BY <2>1 DEF Pwrite
  <1>6. /\ offset' = [offset EXCEPT ![t] = NextOffset(o, offset[t])]
        /\ ei' = [ei EXCEPT ![t] = @ + 1]
        /\ UNCHANGED <<eopt, iops, epc, handle, size, inflight, dirty, fault>>
    BY DEF Pwrite
  <1>7. TypeOK /\ offset[t] \in Nat /\ n \in Nat /\ ei[t] \in Nat /\ Unit \subseteq Nat
        /\ lost[t] \in BOOLEAN /\ good[t] \in Nat
    BY <1>2, ThreadTypes DEF SsdInv, Unit
  <1>8. /\ \A u \in Unit : writes'[t][u] = writes[t][u] + (IF u \in Span(offset[t], n) THEN 1 ELSE 0)
        /\ good'[t] = IF n = b THEN good[t] + 1 ELSE good[t]
        /\ lost[t] => lost'[t]
        /\ ~ lost'[t] => ~ (n < b)
        /\ writes' \in [Threads -> [Unit -> Nat]] /\ good' \in [Threads -> Nat]
        /\ lost' \in [Threads -> BOOLEAN]
        /\ \A s \in Threads \ {t} :
             writes'[s] = writes[s] /\ good'[s] = good[s] /\ lost'[s] = lost[s]
    BY <1>5, <1>7, TransferFacts
  <1>9. ~ lost'[t] => ~ lost[t] /\ n = b
    <2>1. ~ (n < b) => n = b
      BY <1>2
    <2> QED
      BY <1>8, <2>1
  <1>10. NextOffset(o, offset[t]) \in Nat
    BY <1>2, <1>7, NextOffsetFacts
  <1>11. TypeOK'
    <2>1. offset' \in [Threads -> Nat] /\ ei' \in [Threads -> Nat]
      BY <1>6, <1>7, <1>10 DEF TypeOK, EngineTypeOK
    <2> QED
      BY <1>2, <1>6, <1>7, <1>8, <2>1 DEF TypeOK, EngineTypeOK, EnginePCs, mainVars
  <1>12. \A s \in Threads \ {t} : Same(s)
    BY <1>6, <1>7, <1>8 DEF TypeOK, EngineTypeOK, Same
  <1>13. /\ epc'[t] = "loop" /\ offset'[t] = NextOffset(o, offset[t]) /\ eopt'[t] = o
         /\ ei'[t] = ei[t] + 1 /\ inflight'[t] = {} /\ handle'[t] = handle[t]
         /\ dirty'[t] = dirty[t]
    BY <1>2, <1>6, <1>7 DEF TypeOK, EngineTypeOK
  <1>14. Turns(t)' = ei[t] + 1 /\ Reach(t)' = ei[t] * b + b
    BY <1>3, <1>4, <1>13 DEF Turns, Reach
  <1>15. Phase(t)'
    <2>1. handle'[t] # "good" => lost'[t]
      BY <1>2, <1>8, <1>13 DEF Phase
    <2> QED
      BY <1>1, <1>2, <1>13, <1>14, <2>1 DEF Phase
  <1>16. ASSUME o.access_type = TYPE_SW PROVE Position(t)' /\ Prefix(t)' /\ Passes(t)'
    <2>1. offset[t] = ei[t] * b
      <3>1. ei[t] < Count(o)
        BY <1>2, <1>7
      <3> QED
        BY <1>2, <1>16, <3>1 DEF Position
    <2>2. Position(t)'
      <3>1. ei'[t] < Count(o) => offset'[t] = ei'[t] * b
        <4> SUFFICES ASSUME ei[t] + 1 < Count(o) PROVE offset'[t] = (ei[t] + 1) * b
          BY <1>13
        <4>1. (ei[t] + 2) * b <= o.total_size
          BY <1>2, <1>3, <1>7, TurnsFit
        <4>2. (ei[t] + 2) * b = ei[t] * b + b + b
          BY <1>2, <1>7
        <4>3. NextOffset(o, offset[t]) = offset[t] + b
          BY <1>2, <1>4, <1>7, <1>16, <2>1, <4>1, <4>2, NextOffsetFacts
        <4> QED
          BY <1>4, <1>13, <2>1, <4>3
      <3> QED
        BY <1>2, <1>13, <1>16, <3>1
           DEF Position, IO_READ_WRITE, IO_MMAP, IO_LIBAIO, IO_DIRECT_ACCESS, TYPE_SW, TYPE_RW
    <2>3. Prefix(t)'
      <3>1. ASSUME NEW u \in Unit, writes'[t][u] > 0 PROVE u < Reach(t)'
        <4>1. writes[t][u] > 0 => u < ei[t] * b
          BY <1>2, <1>4, <1>16 DEF Prefix, Sequential
        <4>2. u \in Span(offset[t], n) => u < offset[t] + n
          BY <1>7 DEF Span
        <4>3. writes[t][u] \in Nat
          BY <1>7, ThreadTypes
        <4> QED
          BY <1>2, <1>4, <1>7, <1>8, <1>14, <2>1, <3>1, <4>1, <4>2, <4>3
      <3>2. ASSUME ~ lost'[t], NEW u \in Unit
            PROVE  writes'[t][u] = IF u < Reach(t)' THEN 1 ELSE 0
        <4>1. writes[t][u] = IF u < ei[t] * b THEN 1 ELSE 0
          BY <1>2, <1>4, <1>8, <1>16, <3>2 DEF Prefix, Sequential
        <4>2. u \in Span(offset[t], n) <=> (ei[t] * b <= u /\ u < ei[t] * b + b)
          BY <1>2, <1>4, <1>7, <1>9, <2>1, <3>2 DEF Span
        <4> QED
          BY <1>2, <1>4, <1>7, <1>8, <1>14, <4>1, <4>2
      <3> QED
        BY <1>13, <3>1, <3>2 DEF Prefix
    <2>4. Passes(t)'
      BY <1>13, <1>16 DEF Passes
    <2> QED
      BY <2>2, <2>3, <2>4
  <1>17. ASSUME o.access_type = TYPE_RW PROVE Position(t)' /\ Prefix(t)' /\ Passes(t)'
    <2>1. PICK m \in Nat : offset[t] = (2 * m) * b
      BY <1>2, <1>17 DEF Position
    <2>2. offset[t] < o.total_size
      <3>1. offset[t] < o.total_size \/ offset[t] = 0
        BY <1>2, <1>17 DEF Position
      <3> QED
        BY <1>2, <1>4, <1>7, <3>1
    <2>3. NextOffset(o, offset[t]) = IF offset[t] + 2 * b >= o.total_size THEN 0
                                     ELSE offset[t] + 2 * b
      BY <1>2, <1>7, <1>17, NextOffsetFacts
    <2>4. Position(t)'
      <3>1. (2 * (m + 1)) * b = offset[t] + 2 * b /\ (2 * 0) * b = 0
        BY <1>2, <2>1
      <3>2. \E k \in Nat : offset'[t] = (2 * k) * b
        <4>1. CASE offset'[t] = 0
          <5>1. 0 \in Nat /\ offset'[t] = (2 * 0) * b
            BY <3>1, <4>1
          <5> QED
            BY <5>1
        <4>2. CASE offset'[t] = offset[t] + 2 * b
          <5>1. m + 1 \in Nat /\ offset'[t] = (2 * (m + 1)) * b
            BY <3>1, <4>2
          <5> QED
            BY <5>1
        <4> QED
          BY <1>13, <2>3, <4>1, <4>2
      <3>3. offset'[t] < o.total_size \/ offset'[t] = 0
        BY <1>2, <1>7, <1>13, <2>3
      <3> QED
        BY <1>2, <1>13, <1>17, <3>2, <3>3
           DEF Position, IO_READ_WRITE, IO_MMAP, IO_LIBAIO, IO_DIRECT_ACCESS, TYPE_SW, TYPE_RW
    <2>5. Prefix(t)'
      BY <1>2, <1>13, <1>17
         DEF Prefix, Sequential, IO_READ_WRITE, IO_MMAP, IO_LIBAIO, IO_DIRECT_ACCESS, TYPE_SW, TYPE_RW
    <2>6. ASSUME Roomy(o), NEW u \in Unit, writes'[t][u] > 0 PROVE u < o.total_size
      <3>1. offset[t] + b <= o.total_size
        BY <1>2, <1>17, <2>1, <2>2, <2>6, RoomyFits
      <3>2. writes[t][u] > 0 => u < o.total_size
        BY <1>2, <1>17, <2>6 DEF Passes, TYPE_SW, TYPE_RW
      <3>3. u \in Span(offset[t], n) => u < offset[t] + n
        BY <1>7 DEF Span
      <3>4. writes[t][u] \in Nat
        BY <1>7, ThreadTypes
      <3> QED
        BY <1>2, <1>7, <1>8, <2>6, <3>1, <3>2, <3>3, <3>4
    <2>7. ASSUME ~ lost'[t] PROVE \E q \in Nat : PassOf(o, writes'[t], offset'[t], q)
      <3>1. PICK p \in Nat : PassOf(o, writes[t], offset[t], p)
        BY <1>2, <1>9, <1>17, <2>7 DEF Passes, TYPE_SW, TYPE_RW
      <3>2. \A u \in Unit : writes'[t][u] = writes[t][u] + (IF u \in Span(offset[t], b) THEN 1 ELSE 0)
        BY <1>8, <1>9, <2>7
      <3>3. \E q \in Nat : PassOf(o, writes'[t], NextOffset(o, offset[t]), q)
        <4>1. o.block_size > 0 /\ offset[t] = (2 * m) * o.block_size
          BY <1>2, <2>1
        <4> HIDE DEF o, b
        <4> QED
          BY <1>2, <1>17, <2>2, <3>1, <3>2, <4>1, PassTurn DEF b, o
      <3> QED
        BY <1>13, <3>3
    <2>8. ASSUME NEW u \in Unit, writes'[t][u] > 0 PROVE u < o.total_size + b
      <3>1. writes[t][u] > 0 => u < o.total_size + b
        BY <1>2, <1>17 DEF Passes, TYPE_SW, TYPE_RW
      <3>2. u \in Span(offset[t], n) => u < offset[t] + n
        BY <1>7 DEF Span
      <3>3. writes[t][u] \in Nat
        BY <1>7, ThreadTypes
      <3> QED
        BY <1>2, <1>7, <1>8, <2>2, <2>8, <3>1, <3>2, <3>3
    <2>9. Passes(t)'
      BY <1>13, <2>6, <2>7, <2>8 DEF Passes
    <2> QED
      BY <2>4, <2>5, <2>9
  <1>18. ASSUME o.access_type \notin {TYPE_SW, TYPE_RW} PROVE Position(t)' /\ Prefix(t)' /\ Passes(t)'
    <2>1. offset[t] = 0 /\ offset'[t] = 0
      BY <1>2, <1>7, <1>13, <1>18, NextOffsetFacts DEF Position
    <2>2. Position(t)'
      BY <1>2, <1>13, <1>18, <2>1
         DEF Position, IO_READ_WRITE, IO_MMAP, IO_LIBAIO, IO_DIRECT_ACCESS
    <2>3. Prefix(t)'
      BY <1>2, <1>13, <1>18
         DEF Prefix, Sequential, IO_READ_WRITE, IO_MMAP, IO_LIBAIO, IO_DIRECT_ACCESS
    <2>4. ASSUME Roomy(o), NEW u \in Unit, writes'[t][u] > 0 PROVE u < o.total_size
      <3>1. writes[t][u] > 0 => u < o.total_size
        BY <1>2, <1>18, <2>4 DEF Passes
      <3>2. u \in Span(offset[t], n) => u < n
        BY <1>7, <2>1 DEF Span
      <3>3. writes[t][u] \in Nat
        BY <1>7, ThreadTypes
      <3> QED
        BY <1>2, <1>4, <1>7, <1>8, <2>4, <3>1, <3>2, <3>3
    <2>5. ASSUME NEW u \in Unit, writes'[t][u] > 0 PROVE u < o.total_size + b
      <3>1. writes[t][u] > 0 => u < o.total_size + b
        BY <1>2, <1>18 DEF Passes
      <3>2. u \in Span(offset[t], n) => u < n
        BY <1>7, <2>1 DEF Span
      <3>3. writes[t][u] \in Nat
        BY <1>7, ThreadTypes
      <3> QED
        BY <1>2, <1>4, <1>7, <1>8, <2>5, <3>1, <3>2, <3>3
    <2>6. Passes(t)'
      BY <1>13, <1>18, <2>4, <2>5 DEF Passes
    <2> QED
      BY <2>2, <2>3, <2>6
  <1>19. Position(t)' /\ Prefix(t)' /\ Passes(t)'
    BY <1>16, <1>17, <1>18
  <1>20. Counted(t)'
    <2>1. ~ lost[t] => good[t] = ei[t]
      BY <1>1, <1>2 DEF Counted, IO_DIRECT_ACCESS, IO_LIBAIO
    <2>2. ~ lost'[t] => good'[t] = ei[t] + 1
      BY <1>8, <1>9, <2>1
    <2> QED
      BY <1>2, <1>13, <1>14, <2>2 DEF Counted, IO_DIRECT_ACCESS, IO_LIBAIO
  <1>21. Clean(t)'
    BY <1>2, <1>8, <1>13 DEF Clean
  <1>22. EngineInv(t)'
    BY <1>13, <1>15, <1>19, <1>20, <1>21 DEF EngineInv, Running
  <1> QED
    BY <1>2, <1>6, <1>8, <1>11, <1>12, <1>13, <1>22, OneThread

LEMMA StoreStep ==
  ASSUME SsdInv, NEW t \in Threads, Store(t), UNCHANGED mainVars
  PROVE  SsdInv'
  <1> DEFINE o == eopt[t]
             b == eopt[t].block_size
             span == Span(offset[t], b)
  <1>1. Looping(t, IO_MMAP) /\ IO_MMAP \in Engines
    BY DEF Store, Engines
  <1>2. /\ epc[t] = "loop" /\ o.io_type = IO_MMAP
        /\ o \in thread_options /\ b \in Nat \ {0} /\ o.total_size \in Nat
        /\ Count(o) \in Nat /\ ei[t] + 1 <= Count(o) /\ Turns(t) = ei[t]
        /\ inflight[t] = {}
        /\ Phase(t) /\ Position(t) /\ Prefix(t) /\ Passes(t) /\ Counted(t) /\ Clean(t)
    BY <1>1, LoopFacts
  <1>3. StepSize(o) = b
    BY <1>2 DEF StepSize, IO_MMAP, IO_LIBAIO
  <1>4. /\ Reach(t) = ei[t] * b /\ ei[t] * b \in Nat
        /\ (ei[t] + 1) * b = ei[t] * b + b /\ ei[t] * b + b <= o.total_size
    BY <1>1, <1>3, LoopFacts
  <1>5. TypeOK /\ offset[t] \in Nat /\ ei[t] \in Nat /\ size[t] \in Nat /\ Unit \subseteq Nat
        /\ lost[t] \in BOOLEAN /\ good[t] \in Nat /\ dirty[t] \subseteq Unit
    BY <1>2, ThreadTypes DEF SsdInv, Unit
  <1>6. offset[t] = ei[t] * b
    BY <1>2 DEF Position
  <1>7. size[t] = o.total_size \/ lost[t]
    BY <1>2, StepFacts
  <1>8. CASE handle[t] = "bad" /\ Die("SIGSEGV", {})
    <2>1. lost[t]
      BY <1>2, <1>8 DEF Phase
    <2>2. lost'[t]
      BY <1>8, <2>1 DEF Die
    <2> QED
      BY <1>8, <2>2, DieStep DEF Faults
  <1>9. CASE ~ (span \subseteq 0 .. size[t] - 1) /\ Die("SIGBUS", {})
    <2>1. size[t] = o.total_size => span \subseteq 0 .. size[t] - 1
      BY <1>2, <1>4, <1>5, <1>6 DEF Span
    <2>2. lost[t]
      BY <1>7, <1>9, <2>1
    <2>3. lost'[t]
      BY <1>9, <2>2 DEF Die
    <2> QED
      BY <1>9, <2>3, DieStep DEF Faults
  <1>10. ASSUME span \subseteq 0 .. size[t] - 1, Transfer(t, offset[t], b),
                dirty' = [dirty EXCEPT ![t] = @ \cup span], Goto(t, "sync"),
                UNCHANGED <<eopt, iops, handle, size, ei, offset, inflight, fault>>
         PROVE  SsdInv'
    <2>1. epc' = [epc EXCEPT ![t] = "sync"]
      BY <1>10 DEF Goto
    <2>2. /\ \A u \in Unit : writes'[t][u] = writes[t][u] + (IF u \in span THEN 1 ELSE 0)
          /\ good'[t] = good[t] + 1
          /\ lost[t] => lost'[t]
          /\ writes' \in [Threads -> [Unit -> Nat]] /\ good' \in [Threads -> Nat]
          /\ lost' \in [Threads -> BOOLEAN]
          /\ \A s \in Threads \ {t} :
               writes'[s] = writes[s] /\ good'[s] = good[s] /\ lost'[s] = lost[s]
      BY <1>2, <1>5, <1>10, TransferFacts
    <2>3. TypeOK'
      <3>1. size[t] <= MAX_UNIT /\ MAX_UNIT \in Nat
        BY <1>2, StepFacts, SsdEngineAssumption
      <3>2. 0 .. size[t] - 1 \subseteq Unit
        BY <1>5, <3>1 DEF Unit
      <3>3. dirty' \in [Threads -> SUBSET Unit]
        BY <1>5, <1>10, <3>2 DEF TypeOK, EngineTypeOK
      <3> QED
        BY <1>2, <1>5, <1>10, <2>1, <2>2, <3>3 DEF TypeOK, EngineTypeOK, EnginePCs, mainVars
    <2>4. \A s \in Threads \ {t} : Same(s)
      BY <1>5, <1>10, <2>1, <2>2 DEF TypeOK, EngineTypeOK, Same
    <2>5. /\ epc'[t] = "sync" /\ offset'[t] = offset[t] /\ eopt'[t] = o
          /\ ei'[t] = ei[t] /\ inflight'[t] = {} /\ handle'[t] = handle[t]
          /\ dirty'[t] = dirty[t] \cup span
      BY <1>2, <1>5, <1>10, <2>1 DEF TypeOK, EngineTypeOK
    <2>6. Turns(t)' = ei[t] + 1 /\ Reach(t)' = ei[t] * b + b
      BY <1>3, <1>4, <2>5 DEF Turns, Reach
    <2>7. Phase(t)'
      <3>1. handle'[t] # "good" => lost'[t]
        BY <1>2, <2>2, <2>5 DEF Phase
      <3> QED
        BY <1>1, <1>2, <2>5, <2>6, <3>1 DEF Phase
    <2>8. Position(t)'
      BY <1>2, <1>6, <2>5 DEF Position, IO_READ_WRITE, IO_MMAP, IO_LIBAIO, IO_DIRECT_ACCESS
    <2>9. Prefix(t)'
      <3>1. ASSUME NEW u \in Unit
            PROVE  u \in span <=> (ei[t] * b <= u /\ u < ei[t] * b + b)
        BY <1>2, <1>4, <1>5, <1>6 DEF Span
      <3>2. ASSUME NEW u \in Unit, writes'[t][u] > 0 PROVE u < Reach(t)'
        <4>1. writes[t][u] > 0 => u < ei[t] * b
          BY <1>2, <1>4 DEF Prefix, Sequential
        <4>2. writes[t][u] \in Nat
          BY <1>5, ThreadTypes
        <4>3. writes'[t][u] = writes[t][u] + (IF u \in span THEN 1 ELSE 0)
          BY <2>2
        <4> HIDE DEF span, b, o
        <4> QED
          BY <1>2, <1>4, <1>5, <2>6, <3>1, <3>2, <4>1, <4>2, <4>3
      <3>3. ASSUME ~ lost'[t], NEW u \in Unit
            PROVE  writes'[t][u] = IF u < Reach(t)' THEN 1 ELSE 0
        <4>1. writes[t][u] = IF u < ei[t] * b THEN 1 ELSE 0
          BY <1>2, <1>4, <2>2, <3>3 DEF Prefix, Sequential
        <4>2. writes'[t][u] = writes[t][u] + (IF u \in span THEN 1 ELSE 0)
          BY <2>2
        <4> HIDE DEF span, b, o
        <4> QED
          BY <1>2, <1>4, <1>5, <2>6, <3>1, <4>1, <4>2
      <3> QED
        BY <2>5, <3>2, <3>3 DEF Prefix
    <2>10. Passes(t)'
      BY <1>2, <2>5 DEF Passes, IO_MMAP, IO_DIRECT_ACCESS
    <2>11. Counted(t)'
      <3>1. ~ lost[t] => good[t] = ei[t]
        BY <1>1, <1>2 DEF Counted, IO_MMAP, IO_LIBAIO
      <3>2. ~ lost'[t] => good'[t] = ei[t] + 1
        BY <2>2, <3>1
      <3> QED
        BY <1>2, <2>5, <2>6, <3>2 DEF Counted, IO_MMAP, IO_LIBAIO
    <2>12. Clean(t)'
      BY <1>2, <2>2, <2>5 DEF Clean
    <2>13. EngineInv(t)'
      BY <2>5, <2>7, <2>8, <2>9, <2>10, <2>11, <2>12 DEF EngineInv, Running
    <2> QED
      BY <1>2, <1>10, <2>2, <2>3, <2>4, <2>5, <2>13, OneThread
  <1> QED
    BY <1>8, <1>9, <1>10 DEF Store

LEMMA SyncStep ==
  ASSUME SsdInv, NEW t \in Threads, Sync(t), UNCHANGED mainVars
  PROVE  SsdInv'
  <1> DEFINE o == eopt[t]
             b == eopt[t].block_size
  <1>1. /\ epc[t] = "sync" /\ epc' = [epc EXCEPT ![t] = "loop"]
        /\ offset' = [offset EXCEPT ![t] = IF o.io_type = IO_MMAP THEN @ + b ELSE @]
        /\ ei' = [ei EXCEPT ![t] = @ + 1]
        /\ UNCHANGED <<eopt, iops, handle, size, inflight, writes, good, fault>>
    BY DEF Sync, Goto
  <1>2. \/ /\ UNCHANGED lost
           /\ dirty' = [dirty EXCEPT ![t] =
                IF o.io_type = IO_READ_WRITE THEN {}
                ELSE IF offset[t] % PAGE = 0 THEN @ \ PagesOf(offset[t], b) ELSE @]
        \/ lost' = [lost EXCEPT ![t] = TRUE] /\ UNCHANGED dirty
    BY DEF Sync
  <1>3. /\ o \in thread_options /\ b \in Nat /\ EngineInv(t)
    BY <1>1, StepFacts
  <1>4. /\ Phase(t) /\ Position(t) /\ Prefix(t) /\ Passes(t) /\ Counted(t) /\ Clean(t)
    BY <1>1, <1>3 DEF EngineInv, Running
  <1>5. TypeOK /\ offset[t] \in Nat /\ ei[t] \in Nat /\ lost[t] \in BOOLEAN
        /\ dirty[t] \subseteq Unit
    BY ThreadTypes DEF SsdInv
  <1>6. /\ o.io_type \in {IO_READ_WRITE, IO_MMAP} /\ o.io_type \in Engines
        /\ inflight[t] = {}
    BY <1>1, <1>4 DEF Phase, Engines
  <1>7. TypeOK'
    <2>1. offset' \in [Threads -> Nat] /\ ei' \in [Threads -> Nat]
      BY <1>1, <1>3, <1>5 DEF TypeOK, EngineTypeOK
    <2>2. dirty' \in [Threads -> SUBSET Unit] /\ lost' \in [Threads -> BOOLEAN]
      <3>1. dirty \in [Threads -> SUBSET Unit] /\ lost \in [Threads -> BOOLEAN]
        BY <1>5 DEF TypeOK, EngineTypeOK
      <3>2. dirty[t] \ PagesOf(offset[t], b) \subseteq Unit
        BY <1>5
      <3> QED
        BY <1>2, <1>5, <3>1, <3>2
    <2> QED
      BY <1>1, <1>5, <2>1, <2>2 DEF TypeOK, EngineTypeOK, EnginePCs, mainVars
  <1>8. \A s \in Threads \ {t} : Same(s)
    BY <1>1, <1>2, <1>5 DEF TypeOK, EngineTypeOK, Same
  <1>9. /\ epc'[t] = "loop" /\ eopt'[t] = o /\ ei'[t] = ei[t] + 1 /\ inflight'[t] = {}
        /\ handle'[t] = handle[t] /\ writes'[t] = writes[t] /\ good'[t] = good[t]
        /\ offset'[t] = (IF o.io_type = IO_MMAP THEN offset[t] + b ELSE offset[t])
    BY <1>1, <1>5, <1>6 DEF TypeOK, EngineTypeOK
  <1>10. lost[t] => lost'[t]
    BY <1>2, <1>5 DEF TypeOK, EngineTypeOK
  <1>11. ~ lost'[t] => /\ ~ lost[t]
                       /\ dirty'[t] = IF o.io_type = IO_READ_WRITE THEN {}
                                      ELSE IF offset[t] % PAGE = 0
                                      THEN dirty[t] \ PagesOf(offset[t], b) ELSE dirty[t]
    BY <1>2, <1>5 DEF TypeOK, EngineTypeOK
  <1>12. Turns(t)' = ei[t] + 1 /\ Turns(t) = ei[t] + 1 /\ Reach(t)' = Reach(t)
    BY <1>1, <1>9 DEF Turns, Reach
  <1>13. Phase(t)'
    BY <1>4, <1>6, <1>9, <1>10, <1>12 DEF Phase
  <1>14. Position(t)'
    <2>1. CASE o.io_type = IO_READ_WRITE
      BY <1>4, <1>9, <1>10, <1>12, <2>1
         DEF Position, IO_READ_WRITE, IO_MMAP, IO_LIBAIO, IO_DIRECT_ACCESS
    <2>2. CASE o.io_type = IO_MMAP
      <3>1. offset[t] = ei[t] * b /\ (ei[t] + 1) * b = ei[t] * b + b
        BY <1>3, <1>4, <1>5, <2>2 DEF Position
      <3>2. offset'[t] = ei'[t] * b
        BY <1>9, <2>2, <3>1
      <3> QED
        BY <1>9, <2>2, <3>2 DEF Position, IO_READ_WRITE, IO_MMAP, IO_LIBAIO, IO_DIRECT_ACCESS
    <2> QED
      BY <1>6, <2>1, <2>2
  <1>15. Prefix(t)'
    BY <1>4, <1>6, <1>9, <1>10, <1>12 DEF Prefix
  <1>16. Passes(t)'
    BY <1>6, <1>9 DEF Passes, IO_READ_WRITE, IO_MMAP, IO_DIRECT_ACCESS
  <1>17. Counted(t)'
    BY <1>4, <1>6, <1>9, <1>10, <1>12 DEF Counted, IO_READ_WRITE, IO_MMAP, IO_LIBAIO
  <1>18. Clean(t)'
    <2> SUFFICES ASSUME ~ lost'[t], o.io_type = IO_MMAP => b % PAGE = 0
                 PROVE  dirty'[t] = {}
      BY <1>9 DEF Clean
    <2>1. CASE o.io_type = IO_READ_WRITE
      BY <1>11, <2>1
    <2>2. CASE o.io_type = IO_MMAP
      <3>1. dirty[t] \subseteq Span(offset[t], b)
        BY <1>1, <1>4, <1>11, <2>2 DEF Clean
      <3>2. offset[t] = ei[t] * b
        BY <1>4, <2>2 DEF Position
      <3>3. offset[t] % PAGE = 0
        BY <1>3, <1>5, <2>2, <3>2, MultipleOfPage
      <3>4. Span(offset[t], b) \subseteq PagesOf(offset[t], b)
        BY <1>3, <1>5, PagesCover
      <3>5. o.io_type # IO_READ_WRITE
        BY <2>2 DEF IO_READ_WRITE, IO_MMAP
      <3> QED
        BY <1>11, <3>1, <3>3, <3>4, <3>5
    <2> QED
      BY <1>6, <2>1, <2>2
  <1>19. EngineInv(t)'
    BY <1>9, <1>13, <1>14, <1>15, <1>16, <1>17, <1>18 DEF EngineInv, Running
  <1> QED
    BY <1>1, <1>7, <1>8, <1>9, <1>10, <1>19, OneThread

LEMMA SubmitStep ==
  ASSUME SsdInv, NEW t \in Threads, Submit(t), UNCHANGED mainVars
  PROVE  SsdInv'
  <1> DEFINE o == eopt[t]
             b == eopt[t].block_size
  <1>1. Looping(t, IO_LIBAIO) /\ IO_LIBAIO \in Engines
    BY DEF Submit, Engines
  <1>2. /\ epc[t] = "loop" /\ o.io_type = IO_LIBAIO
        /\ o \in thread_options /\ b \in Nat \ {0} /\ o.total_size \in Nat
        /\ Count(o) \in Nat /\ ei[t] + 1 <= Count(o) /\ Turns(t) = ei[t]
        /\ inflight[t] = {}
        /\ Phase(t) /\ Position(t) /\ Prefix(t) /\ Passes(t) /\ Counted(t) /\ Clean(t)
    BY <1>1, LoopFacts
  <1>3. StepSize(o) = b * QUEUE /\ QUEUE \in Nat \ {0}
    BY <1>2, SsdEngineAssumption DEF StepSize
  <1>4. /\ Reach(t) = ei[t] * (b * QUEUE) /\ ei[t] * (b * QUEUE) \in Nat
        /\ (ei[t] + 1) * (b * QUEUE) = ei[t] * (b * QUEUE) + b * QUEUE
    BY <1>1, <1>3, LoopFacts
  <1>5. TypeOK /\ offset[t] \in Nat /\ ei[t] \in Nat /\ Unit \subseteq Nat
        /\ lost[t] \in BOOLEAN /\ good[t] \in Nat
    BY <1>2, ThreadTypes DEF SsdInv, Unit
  <1>6. offset[t] = ei[t] * (b * QUEUE)
    BY <1>2, <1>4 DEF Position
  <1>7. CASE Die("SIGABRT", {t})
    <2>1. lost'[t]
      BY <1>7 DEF Die
    <2> QED
      BY <1>7, <2>1, DieStep DEF Faults
  <1>8. ASSUME inflight' = [inflight EXCEPT ![t] = Batch(t)],
               offset' = [offset EXCEPT ![t] = @ + QUEUE * eopt[t].block_size],
               Goto(t, "wait"),
               UNCHANGED <<eopt, iops, handle, size, ei, writes, dirty, good, lost, fault>>
        PROVE  SsdInv'
    <2>1. epc' = [epc EXCEPT ![t] = "wait"]
      BY <1>8 DEF Goto
    <2>2. Batch(t) = Requests(offset[t], b)
      BY DEF Batch, Requests
    <2>3. Batch(t) \subseteq Nat
      BY <1>2, <1>3, <1>5 DEF Batch
    <2>4. QUEUE * b = b * QUEUE /\ b * QUEUE \in Nat
      BY <1>2, <1>3
    <2>5. TypeOK'
      <3>1. offset' \in [Threads -> Nat] /\ inflight' \in [Threads -> SUBSET Nat]
        BY <1>5, <1>8, <2>3, <2>4 DEF TypeOK, EngineTypeOK
      <3> QED
        BY <1>2, <1>5, <1>8, <2>1, <3>1 DEF TypeOK, EngineTypeOK, EnginePCs, mainVars
    <2>6. \A s \in Threads \ {t} : Same(s)
      BY <1>5, <1>8, <2>1 DEF TypeOK, EngineTypeOK, Same
    <2>7. /\ epc'[t] = "wait" /\ eopt'[t] = o /\ ei'[t] = ei[t] /\ handle'[t] = handle[t]
          /\ inflight'[t] = Requests(offset[t], b) /\ offset'[t] = offset[t] + b * QUEUE
          /\ writes'[t] = writes[t] /\ good'[t] = good[t] /\ dirty'[t] = dirty[t]
          /\ lost'[t] = lost[t]
      BY <1>2, <1>5, <1>8, <2>1, <2>2, <2>4 DEF TypeOK, EngineTypeOK
    <2>8. Turns(t)' = ei[t] + 1 /\ Reach(t)' = ei[t] * (b * QUEUE) + b * QUEUE
      BY <1>3, <1>4, <2>7 DEF Turns, Reach
    <2>9. Phase(t)'
      BY <1>1, <1>2, <2>7, <2>8 DEF Phase
    <2>10. Position(t)'
      BY <1>2, <1>6, <2>7, <2>8 DEF Position, IO_READ_WRITE, IO_MMAP, IO_LIBAIO, IO_DIRECT_ACCESS
    <2>11. Prefix(t)'
      <3>1. ASSUME NEW u \in Unit, writes[t][u] > 0 PROVE u < Reach(t)'
        <4>1. u < ei[t] * (b * QUEUE)
          BY <1>2, <1>4, <3>1 DEF Prefix, Sequential
        <4> QED
          BY <1>4, <1>5, <2>4, <2>8, <4>1
      <3>2. ASSUME ~ lost[t], NEW u \in Unit
            PROVE  writes[t][u] = IF /\ u < Reach(t)'
                                     /\ \A a \in Requests(offset[t], b) : u \notin Span(a, b)
                                  THEN 1 ELSE 0
        <4>1. writes[t][u] = IF u < ei[t] * (b * QUEUE) THEN 1 ELSE 0
          BY <1>2, <1>4, <3>2 DEF Prefix, Sequential
        <4>2. (\E a \in Requests(offset[t], b) : u \in Span(a, b))
              <=> (offset[t] <= u /\ u < offset[t] + b * QUEUE)
          BY <1>2, <1>5, BatchFills
        <4> HIDE DEF o, b
        <4> QED
          BY <1>4, <1>5, <1>6, <2>4, <2>8, <4>1, <4>2
      <3> QED
        BY <2>7, <3>1, <3>2 DEF Prefix
    <2>12. Passes(t)'
      BY <1>2, <2>7 DEF Passes, IO_LIBAIO, IO_DIRECT_ACCESS
    <2>13. Counted(t)'
      <3>1. ~ lost[t] => good[t] = ei[t] * QUEUE
        <4>1. ~ lost[t] => good[t] + Cardinality({}) = ei[t] * QUEUE
          BY <1>1, <1>2 DEF Counted
        <4> QED
          BY <1>5, <4>1, FS_EmptySet
      <3>2. IsFiniteSet(inflight'[t]) /\ Cardinality(inflight'[t]) = QUEUE
        BY <1>2, <1>5, <2>7, BatchCount
      <3>3. (ei[t] + 1) * QUEUE = ei[t] * QUEUE + QUEUE
        BY <1>3, <1>5
      <3> QED
        BY <1>2, <2>7, <2>8, <3>1, <3>2, <3>3 DEF Counted
    <2>14. Clean(t)'
      BY <1>2, <2>7 DEF Clean
    <2>15. EngineInv(t)'
      BY <2>7, <2>9, <2>10, <2>11, <2>12, <2>13, <2>14 DEF EngineInv, Running
    <2> QED
      BY <1>2, <1>8, <2>5, <2>6, <2>7, <2>15, OneThread
  <1> QED
    BY <1>7, <1>8 DEF Submit

LEMMA CompleteStep ==
  ASSUME SsdInv, NEW t \in Threads, NEW a, Complete(t, a), UNCHANGED mainVars
  PROVE  SsdInv'
  <1> DEFINE o == eopt[t]
             b == eopt[t].block_size
             s == ei[t] * (b * QUEUE)
  <1>1. /\ a \in inflight[t] /\ inflight' = [inflight EXCEPT ![t] = @ \ {a}]
        /\ UNCHANGED <<eopt, iops, epc, handle, size, ei, offset, dirty, fault>>
    BY DEF Complete
  <1>2. TypeOK /\ offset[t] \in Nat /\ ei[t] \in Nat /\ Unit \subseteq Nat
        /\ lost[t] \in BOOLEAN /\ good[t] \in Nat /\ a \in Nat /\ inflight[t] \subseteq Nat
    BY <1>1, ThreadTypes DEF SsdInv, Unit
  <1>3. EngineInv(t)
    BY DEF SsdInv, ThreadInv
  <1>4. Running(t)
    BY <1>1, <1>3 DEF EngineInv, Fresh
  <1>5. /\ Phase(t) /\ Position(t) /\ Prefix(t) /\ Passes(t) /\ Counted(t) /\ Clean(t)
    BY <1>3, <1>4 DEF EngineInv
  <1>6. epc[t] = "wait" /\ o.io_type = IO_LIBAIO /\ IO_LIBAIO \in Engines /\ b > 0
    BY <1>1, <1>5 DEF Phase, Engines
  <1>7. o \in thread_options /\ b \in Nat \ {0}
    BY <1>6, StepFacts
  <1>8. StepSize(o) = b * QUEUE /\ QUEUE \in Nat \ {0}
    BY <1>6, SsdEngineAssumption DEF StepSize
  <1>9. /\ b * QUEUE \in Nat /\ s \in Nat
        /\ (ei[t] + 1) * (b * QUEUE) = s + b * QUEUE
    BY <1>2, <1>7, <1>8
  <1>10. Turns(t) = ei[t] + 1 /\ Reach(t) = s + b * QUEUE
    BY <1>6, <1>8, <1>9 DEF Turns, Reach
  <1>11. PICK n \in 0 .. b : Transfer(t, a, n)
    BY DEF Complete
  <1>12. n \in Nat /\ n <= b
    BY <1>7
  <1>13. /\ \A u \in Unit : writes'[t][u] = writes[t][u] + (IF u \in Span(a, n) THEN 1 ELSE 0)
         /\ good'[t] = IF n = b THEN good[t] + 1 ELSE good[t]
         /\ lost[t] => lost'[t]
         /\ ~ lost'[t] => ~ (n < b)
         /\ writes' \in [Threads -> [Unit -> Nat]] /\ good' \in [Threads -> Nat]
         /\ lost' \in [Threads -> BOOLEAN]
         /\ \A r \in Threads \ {t} :
              writes'[r] = writes[r] /\ good'[r] = good[r] /\ lost'[r] = lost[r]
    BY <1>2, <1>11, <1>12, TransferFacts
  <1>14. ~ lost'[t] => ~ lost[t] /\ n = b
    <2>1. ~ (n < b) => n = b
      BY <1>7
    <2> QED
      BY <1>13, <2>1
  <1>15. TypeOK'
    <2>1. inflight' \in [Threads -> SUBSET Nat]
      BY <1>1, <1>2 DEF TypeOK, EngineTypeOK
    <2> QED
      BY <1>1, <1>2, <1>13, <2>1 DEF TypeOK, EngineTypeOK, mainVars
  <1>16. \A r \in Threads \ {t} : Same(r)
    BY <1>1, <1>2, <1>13 DEF TypeOK, EngineTypeOK, Same
  <1>17. /\ epc'[t] = "wait" /\ eopt'[t] = o /\ ei'[t] = ei[t] /\ handle'[t] = handle[t]
         /\ inflight'[t] = inflight[t] \ {a} /\ offset'[t] = offset[t] /\ dirty'[t] = dirty[t]
    BY <1>1, <1>2, <1>6 DEF TypeOK, EngineTypeOK
  <1>18. Turns(t)' = ei[t] + 1 /\ Reach(t)' = s + b * QUEUE
    BY <1>8, <1>9, <1>17 DEF Turns, Reach
  <1>19. Phase(t)'
    BY <1>5, <1>6, <1>10, <1>13, <1>17, <1>18 DEF Phase
  <1>20. inflight[t] \subseteq Requests(s, b) /\ offset[t] = s + b * QUEUE
    BY <1>5, <1>6, <1>10 DEF Position
  <1>21. Position(t)'
    BY <1>6, <1>17, <1>18, <1>20 DEF Position, IO_READ_WRITE, IO_MMAP, IO_LIBAIO, IO_DIRECT_ACCESS
  <1>22. ASSUME NEW u \in Unit, u \in Span(a, b)
         PROVE  u < Reach(t) /\ \A c \in inflight[t] \ {a} : u \notin Span(c, b)
    <2>1. u \in Nat /\ a \in Requests(s, b)
      BY <1>1, <1>2, <1>20
    <2>2. u < s + b * QUEUE
      BY <1>7, <1>9, <1>22, <2>1, BatchFills
    <2>3. ASSUME NEW c \in inflight[t] \ {a}, u \in Span(c, b) PROVE FALSE
      <3>1. c \in Requests(s, b)
        BY <1>20
      <3>2. a = c
        BY <1>7, <1>9, <1>22, <2>1, <2>3, <3>1, RequestsApart
      <3> QED
        BY <3>2
    <2> QED
      BY <1>10, <2>2, <2>3
  <1>23. Prefix(t)'
    <2>1. ASSUME NEW u \in Unit, writes'[t][u] > 0 PROVE u < Reach(t)'
      <3>1. writes[t][u] > 0 => u < Reach(t)
        BY <1>5, <1>6 DEF Prefix, Sequential
      <3>2. u \in Span(a, n) => u \in Span(a, b)
        BY <1>2, <1>7, <1>12 DEF Span
      <3>3. u \in Span(a, n) => u < Reach(t)
        BY <1>22, <3>2
      <3>4. writes[t][u] \in Nat
        BY <1>2, ThreadTypes
      <3>5. writes'[t][u] = writes[t][u] + (IF u \in Span(a, n) THEN 1 ELSE 0)
        BY <1>13
      <3> QED
        BY <1>10, <1>18, <2>1, <3>1, <3>3, <3>4, <3>5
    <2>2. ASSUME ~ lost'[t], NEW u \in Unit
          PROVE  writes'[t][u] = IF /\ u < Reach(t)'
                                    /\ \A c \in inflight[t] \ {a} : u \notin Span(c, b)
                                 THEN 1 ELSE 0
      <3>1. writes[t][u] = IF u < Reach(t) /\ \A c \in inflight[t] : u \notin Span(c, b)
                           THEN 1 ELSE 0
        BY <1>5, <1>6, <1>14, <2>2 DEF Prefix, Sequential
      <3>2. writes'[t][u] = writes[t][u] + (IF u \in Span(a, b) THEN 1 ELSE 0)
        BY <1>13, <1>14, <2>2
      <3>3. Reach(t)' = Reach(t)
        BY <1>10, <1>18
      <3>4. CASE u \in Span(a, b)
        <4>1. writes[t][u] = 0
          BY <1>1, <3>1, <3>4
        <4>2. u < Reach(t) /\ \A c \in inflight[t] \ {a} : u \notin Span(c, b)
          BY <1>22, <3>4
        <4> QED
          BY <3>2, <3>3, <3>4, <4>1, <4>2
      <3>5. CASE u \notin Span(a, b)
        <4>1. (\A c \in inflight[t] : u \notin Span(c, b))
              <=> (\A c \in inflight[t] \ {a} : u \notin Span(c, b))
          BY <3>5
        <4>2. writes[t][u] \in Nat
          BY <1>2, ThreadTypes
        <4>3. writes'[t][u] = writes[t][u]
          BY <3>2, <3>5, <4>2
        <4> QED
          BY <3>1, <3>3, <4>1, <4>3
      <3> QED
        BY <3>4, <3>5
    <2> QED
      BY <1>17, <2>1, <2>2 DEF Prefix
  <1>24. Passes(t)'
    BY <1>6, <1>17 DEF Passes, IO_LIBAIO, IO_DIRECT_ACCESS
  <1>25. Counted(t)'
    <2>1. ~ lost[t] => /\ IsFiniteSet(inflight[t])
                       /\ good[t] + Cardinality(inflight[t]) = (ei[t] + 1) * QUEUE
      BY <1>5, <1>6, <1>10 DEF Counted
    <2>2. IsFiniteSet(inflight[t]) =>
            /\ IsFiniteSet(inflight[t] \ {a})
            /\ Cardinality(inflight[t] \ {a}) = Cardinality(inflight[t]) - 1
            /\ Cardinality(inflight[t]) \in Nat
      BY <1>1, FS_RemoveElement, FS_CardinalityType
    <2>3. ASSUME ~ lost'[t]
          PROVE  /\ IsFiniteSet(inflight[t] \ {a})
                 /\ good'[t] + Cardinality(inflight[t] \ {a}) = (ei[t] + 1) * QUEUE
      <3>1. ~ lost[t] /\ good'[t] = good[t] + 1
        BY <1>13, <1>14, <2>3
      <3>2. /\ IsFiniteSet(inflight[t])
            /\ good[t] + Cardinality(inflight[t]) = (ei[t] + 1) * QUEUE
        BY <2>1, <3>1
      <3> DEFINE m == (ei[t] + 1) * QUEUE
      <3> HIDE DEF m
      <3>3. good[t] + Cardinality(inflight[t]) = m
        BY <3>2 DEF m
      <3>4. good'[t] + Cardinality(inflight[t] \ {a}) = m
        BY <1>2, <2>2, <3>1, <3>2, <3>3
      <3> QED
        BY <2>2, <3>2, <3>4 DEF m
    <2> QED
      BY <1>6, <1>17, <1>18, <2>3 DEF Counted
  <1>26. Clean(t)'
    BY <1>5, <1>6, <1>13, <1>17 DEF Clean
  <1>27. EngineInv(t)'
    BY <1>17, <1>19, <1>21, <1>23, <1>24, <1>25, <1>26 DEF EngineInv, Running
  <1> QED
    BY <1>1, <1>6, <1>13, <1>15, <1>16, <1>17, <1>27, OneThread

LEMMA ReapStep ==
  ASSUME SsdInv, NEW t \in Threads, Reap(t), UNCHANGED mainVars
  PROVE  SsdInv'
  <1> DEFINE o == eopt[t]
             b == eopt[t].block_size
  <1>1. epc[t] = "wait"
    BY DEF Reap
  <1>2. o \in thread_options /\ EngineInv(t)
    BY <1>1, StepFacts
  <1>3. /\ Phase(t) /\ Position(t) /\ Prefix(t) /\ Passes(t) /\ Counted(t) /\ Clean(t)
    BY <1>1, <1>2 DEF EngineInv, Running
  <1>4. TypeOK /\ ei[t] \in Nat
    BY ThreadTypes DEF SsdInv
  <1>5. o.io_type = IO_LIBAIO /\ IO_LIBAIO \in Engines
    BY <1>1, <1>3 DEF Phase, Engines
  <1>6. CASE Die("SIGABRT", {t})
    <2>1. lost'[t]
      BY <1>6 DEF Die
    <2> QED
      BY <1>6, <2>1, DieStep DEF Faults
  <1>7. ASSUME inflight[t] = {}, ei' = [ei EXCEPT ![t] = @ + 1], Goto(t, "loop"),
               UNCHANGED <<eopt, iops, handle, size, offset, inflight, writes, dirty,
                           good, lost, fault>>
        PROVE  SsdInv'
    <2>1. epc' = [epc EXCEPT ![t] = "loop"]
      BY <1>7 DEF Goto
    <2>2. TypeOK'
      BY <1>1, <1>4, <1>7, <2>1 DEF TypeOK, EngineTypeOK, EnginePCs, mainVars
    <2>3. \A r \in Threads \ {t} : Same(r)
      BY <1>4, <1>7, <2>1 DEF TypeOK, EngineTypeOK, Same
    <2>4. epc'[t] = "loop" /\ ei'[t] = ei[t] + 1
      BY <1>4, <1>7, <2>1 DEF TypeOK, EngineTypeOK
    <2>5. Turns(t)' = ei[t] + 1 /\ Turns(t) = ei[t] + 1 /\ Reach(t)' = Reach(t)
      BY <1>1, <1>7, <2>4 DEF Turns, Reach
    <2>6. Phase(t)'
      BY <1>3, <1>5, <1>7, <2>4, <2>5 DEF Phase
    <2>7. Position(t)'
      BY <1>3, <1>5, <1>7, <2>5 DEF Position, IO_READ_WRITE, IO_MMAP, IO_LIBAIO, IO_DIRECT_ACCESS
    <2>8. Prefix(t)'
      BY <1>3, <1>7, <2>5 DEF Prefix
    <2>9. Passes(t)'
      BY <1>3, <1>7 DEF Passes
    <2>10. Counted(t)'
      BY <1>3, <1>7, <2>5 DEF Counted
    <2>11. Clean(t)'
      BY <1>1, <1>3, <1>7, <2>4 DEF Clean
    <2>12. EngineInv(t)'
      BY <2>4, <2>6, <2>7, <2>8, <2>9, <2>10, <2>11 DEF EngineInv, Running
    <2> QED
      BY <1>1, <1>7, <2>2, <2>3, <2>4, <2>12, OneThread
  <1> QED
    BY <1>6, <1>7 DEF Reap

LEMMA FinishStep ==
  ASSUME SsdInv, NEW t \in Threads, Finish(t), UNCHANGED mainVars
  PROVE  SsdInv'
  <1> DEFINE o == eopt[t]
             b == eopt[t].block_size
  <1>1. epc[t] = "loop" /\ (o.io_type \in Engines => ei[t] >= Count(o))
    BY DEF Finish
  <1>2. /\ o \in thread_options /\ EngineInv(t) /\ b \in Nat /\ o.total_size \in Nat
        /\ Sane => b > 0
    BY <1>1, StepFacts
  <1>3. /\ Phase(t) /\ Position(t) /\ Prefix(t) /\ Passes(t) /\ Counted(t) /\ Clean(t)
    BY <1>1, <1>2 DEF EngineInv, Running
  <1>4. TypeOK /\ ei[t] \in Nat
    BY ThreadTypes DEF SsdInv
  <1>5. CASE b = 0 /\ Die("SIGFPE", {})
    BY <1>2, <1>5, DieStep DEF Faults
  <1>6. ASSUME b # 0, NEW ns \in Durations,
               iops' = [iops EXCEPT ![t] = <<[ops |-> o.total_size \div b, ns |-> ns]>>],
               Goto(t, "done"),
               UNCHANGED <<eopt, handle, size, ei, offset, inflight, writes, dirty,
                           good, lost, fault>>
        PROVE  SsdInv'
    <2>1. epc' = [epc EXCEPT ![t] = "done"]
      BY <1>6 DEF Goto
    <2>2. <<[ops |-> o.total_size \div b, ns |-> ns]>> \in Seq(Rate)
      <3>1. o.total_size \div b \in Nat /\ ns \in Nat
        BY <1>2, <1>6, SsdEngineAssumption, DivFacts
      <3> QED
        BY <3>1 DEF Rate
    <2>3. TypeOK'
      <3>1. iops' \in [Threads -> Seq(Rate)]
        BY <1>4, <1>6, <2>2 DEF TypeOK, EngineTypeOK
      <3> QED
        BY <1>1, <1>4, <1>6, <2>1, <3>1 DEF TypeOK, EngineTypeOK, EnginePCs, mainVars
    <2>4. \A r \in Threads \ {t} : Same(r)
      BY <1>4, <1>6, <2>1 DEF TypeOK, EngineTypeOK, Same
    <2>5. epc'[t] = "done" /\ iops'[t] = <<[ops |-> o.total_size \div b, ns |-> ns]>>
      BY <1>4, <1>6, <2>1 DEF TypeOK, EngineTypeOK
    <2>6. Len(iops'[t]) = 1 /\ iops'[t][1].ops = Blocks(o)
      BY <2>5 DEF Blocks
    <2>7. Turns(t)' = ei[t] /\ Turns(t) = ei[t] /\ Reach(t)' = Reach(t)
      BY <1>1, <1>6, <2>5 DEF Turns, Reach
    <2>8. Phase(t)'
      <3>1. o.io_type \in Engines => ei[t] = Count(o)
        <4> SUFFICES ASSUME o.io_type \in Engines PROVE ei[t] = Count(o)
          OBVIOUS
        <4>1. ei[t] <= Count(o) /\ ei[t] >= Count(o)
          BY <1>1, <1>3, <2>7 DEF Phase
        <4>2. Count(o) \in Nat
          BY <1>2, <1>4, <1>6, TurnsFit
        <4> QED
          BY <1>4, <4>1, <4>2
      <3>2. Blocks(o)' = Blocks(o) /\ b > 0 /\ inflight[t] = {}
        BY <1>1, <1>2, <1>3, <1>6 DEF Phase, Blocks
      <3> QED
        BY <1>3, <1>6, <2>5, <2>6, <2>7, <3>1, <3>2 DEF Phase
    <2>9. Position(t)'
      BY <1>3, <1>6, <2>7 DEF Position
    <2>10. Prefix(t)'
      BY <1>3, <1>6, <2>7 DEF Prefix
    <2>11. Passes(t)'
      BY <1>3, <1>6 DEF Passes
    <2>12. Counted(t)'
      BY <1>3, <1>6, <2>7 DEF Counted
    <2>13. Clean(t)'
      BY <1>1, <1>3, <1>6, <2>5 DEF Clean
    <2>14. EngineInv(t)'
      BY <2>5, <2>8, <2>9, <2>10, <2>11, <2>12, <2>13 DEF EngineInv, Running
    <2> QED
      BY <1>1, <1>6, <2>3, <2>4, <2>5, <2>14, OneThread
  <1> QED
    BY <1>5, <1>6 DEF Finish
-------------------------------------------------------------------------------
(***************************************************************************)
(* The steps of main.                                                      *)
(***************************************************************************)

\* A step of main that no thread notices.
LEMMA ThreadsIdle ==
  ASSUME SsdInv, UNCHANGED engineVars, UNCHANGED argv, TypeOK', MainInv',
         \A t \in Threads : Prepared(t)'
  PROVE  SsdInv'
  <1>1. UNCHANGED <<eopt, iops, epc, handle, size, ei, offset, inflight, writes, dirty, good,
                    lost, fault>>
    BY DEF engineVars
  <1>2. \A t \in Threads : EngineInv(t)'
    <2>1. \A t \in Threads : EngineInv(t) /\ Same(t)
      BY <1>1 DEF SsdInv, ThreadInv, Same
    <2> QED
      BY <2>1, ThreadFrame
  <1>3. SaneRunsDoNotFault'
    BY <1>1 DEF SsdInv, SaneRunsDoNotFault, Sane, num_thread
  <1> QED
    BY <1>2, <1>3 DEF SsdInv, ThreadInv

LEMMA ReadArgsStep ==
  ASSUME SsdInv, ReadArgs
  PROVE  SsdInv'
  <1>1. mpc = "args" /\ TypeOK /\ mi = 0
    BY DEF ReadArgs, SsdInv, MainInv
  <1>2. CASE Len(argv) < 5 /\ Die("SIGSEGV", {}) /\ UNCHANGED mainVars
    <2>1. ~ Sane
      <3>1. Len(argv) \in Nat
        BY <1>1, SsdRunAssumption DEF TypeOK
      <3> QED
        BY <1>2, <3>1 DEF Sane
    <2> QED
      BY <1>2, <2>1, DieStep DEF Faults
  <1>3. ASSUME Len(argv) >= 5, mpc' = "prealloc", UNCHANGED <<engineVars, argv, mi, summary>>
        PROVE  SsdInv'
    <2>1. UNCHANGED <<eopt, iops, epc, handle, size, ei, offset, inflight, writes, dirty, good,
                      lost, fault>>
      BY <1>3 DEF engineVars
    <2>2. TypeOK'
      BY <1>1, <1>3, <2>1 DEF TypeOK, EngineTypeOK, MainPCs
    <2>3. MainInv'
      <3>1. num_thread \in Nat
        BY <1>1, <1>3, OptionFacts
      <3> QED
        BY <1>1, <1>3, <3>1 DEF MainInv, num_thread
    <2>4. ASSUME NEW t \in Threads PROVE Prepared(t)'
      <3>1. Prepared(t)
        BY DEF SsdInv, ThreadInv
      <3>2. epc[t] = "none" /\ size[t] <= MAX_UNIT
        BY <1>1, <3>1 DEF Prepared
      <3>3. ~ (t < 0)
        BY SsdEngineAssumption DEF Threads
      <3> QED
        BY <1>1, <1>3, <2>1, <3>2, <3>3 DEF Prepared
    <2> QED
      BY <1>3, <2>2, <2>3, <2>4, ThreadsIdle
  <1> QED
    BY <1>2, <1>3 DEF ReadArgs

LEMMA PreallocStep ==
  ASSUME SsdInv, Prealloc
  PROVE  SsdInv'
  <1>1. /\ mpc = "prealloc" /\ TypeOK /\ mi \in Nat /\ Len(argv) >= 5 /\ mi <= num_thread
        /\ fault = "none"
    BY DEF Prealloc, SsdInv, MainInv, TypeOK, Alive
  <1>2. num_thread \in Nat /\ Options.total_size \in Nat /\ Options.total_size <= MAX_UNIT
    BY <1>1, OptionFacts
  <1>3. ASSUME NEW t \in Threads
        PROVE  /\ Prepared(t) /\ EngineInv(t) /\ epc[t] = "none" /\ size[t] <= MAX_UNIT
               /\ t \in Nat /\ lost[t] \in BOOLEAN
    <2>1. Prepared(t) /\ EngineInv(t) /\ lost[t] \in BOOLEAN
      BY <1>1, ThreadTypes DEF SsdInv, ThreadInv
    <2>2. t \in Nat
      BY SsdEngineAssumption DEF Threads
    <2> QED
      BY <1>1, <2>1, <2>2 DEF Prepared
  <1>4. ASSUME mi < num_thread, mi' = mi + 1, NEW ok \in BOOLEAN,
               size' = [t \in Threads |-> IF t = mi /\ ok THEN Options.total_size ELSE size[t]],
               lost' = [t \in Threads |-> lost[t] \/ (t = mi /\ ~ ok)],
               UNCHANGED <<argv, mpc, summary, eopt, iops, epc, handle, ei, offset,
                           inflight, writes, dirty, good, fault>>
        PROVE  SsdInv'
    <2>1. TypeOK'
      <3>1. size' \in [Threads -> Nat] /\ lost' \in [Threads -> BOOLEAN]
        BY <1>1, <1>2, <1>4 DEF TypeOK, EngineTypeOK
      <3>2. mi' \in Nat
        BY <1>1, <1>4
      <3> QED
        BY <1>1, <1>4, <3>1, <3>2 DEF TypeOK, EngineTypeOK
    <2>2. MainInv'
      BY <1>1, <1>2, <1>4 DEF SsdInv, MainInv, num_thread
    <2>3. SaneRunsDoNotFault'
      BY <1>1, <1>4 DEF SaneRunsDoNotFault
    <2>4. ASSUME NEW t \in Threads PROVE ThreadInv(t)'
      <3>1. lost[t] => lost'[t]
        BY <1>3, <1>4
      <3>2. EngineInv(t)'
        <4>1. Same(t)
          BY <1>4, <3>1 DEF Same
        <4> QED
          BY <1>3, <4>1, ThreadFrame
      <3>3. size'[t] <= MAX_UNIT
        BY <1>2, <1>3, <1>4
      <3>4. t < mi + 1 /\ t < num_thread => size'[t] = Options.total_size \/ lost'[t]
        <4>1. CASE t = mi
          <5>1. CASE ok
            BY <1>4, <4>1, <5>1
          <5>2. CASE ~ ok
            BY <1>4, <4>1, <5>2
          <5> QED
            BY <5>1, <5>2
        <4>2. CASE t # mi
          <5>1. t < mi + 1 => t < mi
            BY <1>1, <1>3, <4>2
          <5>2. t < mi /\ t < num_thread => size[t] = Options.total_size \/ lost[t]
            BY <1>1, <1>3 DEF Prepared
          <5>3. size'[t] = size[t]
            BY <1>4, <4>2
          <5> QED
            BY <3>1, <5>1, <5>2, <5>3
        <4> QED
          BY <4>1, <4>2
      <3>5. Options' = Options /\ num_thread' = num_thread
        BY <1>4 DEF Options, num_thread
      <3>6. Prepared(t)'
        BY <1>1, <1>3, <1>4, <3>3, <3>4, <3>5 DEF Prepared
      <3> QED
        BY <3>2, <3>6 DEF ThreadInv
    <2> QED
      BY <2>1, <2>2, <2>3, <2>4 DEF SsdInv
  <1>5. ASSUME mi = num_thread, mi' = 0, mpc' = "spawn", UNCHANGED <<engineVars, argv, summary>>
        PROVE  SsdInv'
    <2>1. UNCHANGED <<eopt, iops, epc, handle, size, ei, offset, inflight, writes, dirty, good,
                      lost, fault>>
      BY <1>5 DEF engineVars
    <2>2. TypeOK'
      BY <1>1, <1>5, <2>1 DEF TypeOK, EngineTypeOK, MainPCs
    <2>3. MainInv'
      BY <1>1, <1>2, <1>5 DEF MainInv, num_thread
    <2>4. ASSUME NEW t \in Threads PROVE Prepared(t)'
      <3>1. Options' = Options /\ num_thread' = num_thread
        BY <1>5 DEF Options, num_thread
      <3> QED
        BY <1>1, <1>3, <1>5, <2>1, <3>1 DEF Prepared
    <2> QED
      BY <1>5, <2>2, <2>3, <2>4, ThreadsIdle
  <1> QED
    BY <1>4, <1>5 DEF Prealloc

LEMMA SpawnStep ==
  ASSUME SsdInv, Spawn
  PROVE  SsdInv'
  <1>1. /\ mpc = "spawn" /\ TypeOK /\ mi \in Nat /\ Len(argv) >= 5 /\ fault = "none"
    BY DEF Spawn, SsdInv, MainInv, TypeOK, Alive
  <1>2. num_thread \in Nat /\ Options \in thread_options /\ MAX_THREAD \in Nat
    BY <1>1, OptionFacts, SsdEngineAssumption
  <1>3. CASE mi < num_thread /\ mi >= MAX_THREAD /\ Die("SIGSEGV", {}) /\ UNCHANGED mainVars
    <2>1. ~ Sane
      BY <1>1, <1>2, <1>3 DEF Sane
    <2> QED
      BY <1>3, <2>1, DieStep DEF Faults
  <1>4. ASSUME mi < num_thread, mi < MAX_THREAD, eopt' = [eopt EXCEPT ![mi] = Options],
               NEW pc \in {"created", "failed"}, epc' = [epc EXCEPT ![mi] = pc],
               lost' = [lost EXCEPT ![mi] = lost[mi] \/ pc = "failed"], mi' = mi + 1,
               UNCHANGED <<argv, mpc, summary, iops, handle, size, ei, offset,
                           inflight, writes, dirty, good, fault>>
        PROVE  SsdInv'
    <2>1. mi \in Threads
      BY <1>1, <1>2, <1>4 DEF Threads
    <2>2. TypeOK'
      <3>1. /\ eopt' \in [Threads -> thread_options \cup {Unset}]
            /\ epc' \in [Threads -> EnginePCs] /\ lost' \in [Threads -> BOOLEAN]
        BY <1>1, <1>2, <1>4, <2>1 DEF TypeOK, EngineTypeOK, EnginePCs
      <3>2. ASSUME NEW t \in Threads, epc'[t] \notin {"none", "failed"}
            PROVE  eopt'[t] \in thread_options
        BY <1>1, <1>2, <1>4, <2>1, <3>2 DEF TypeOK, EngineTypeOK
      <3>3. mi' \in Nat
        BY <1>1, <1>4
      <3> QED
        BY <1>1, <1>4, <3>1, <3>2, <3>3 DEF TypeOK, EngineTypeOK
    <2>3. MainInv'
      BY <1>1, <1>2, <1>4 DEF SsdInv, MainInv, num_thread
    <2>4. SaneRunsDoNotFault'
      BY <1>1, <1>4 DEF SaneRunsDoNotFault
    <2>5. Options' = Options /\ num_thread' = num_thread
      BY <1>4 DEF Options, num_thread
    <2>6. ASSUME NEW t \in Threads PROVE ThreadInv(t)'
      <3>1. Prepared(t) /\ EngineInv(t) /\ lost[t] \in BOOLEAN /\ t \in Nat
        BY <1>1, ThreadTypes, SsdEngineAssumption DEF SsdInv, ThreadInv, Threads
      <3>2. CASE t = mi
        <4>1. epc[t] = "none"
          BY <1>1, <3>1, <3>2 DEF Prepared
        <4>2. Fresh(t)
          BY <3>1, <4>1 DEF EngineInv, Running
        <4>3. epc'[t] = pc /\ eopt'[t] = Options /\ (pc = "failed" => lost'[t])
              /\ (lost[t] => lost'[t])
          BY <1>1, <1>4, <2>1, <3>2 DEF TypeOK, EngineTypeOK
        <4>4. EngineInv(t)'
          BY <1>4, <4>2, <4>3 DEF EngineInv, Running, Fresh
        <4>5. t < mi' /\ t < num_thread
          BY <1>1, <1>4, <3>2
        <4>6. size[t] = Options.total_size \/ lost[t]
          BY <1>1, <3>1, <4>5 DEF Prepared
        <4>7. Prepared(t)'
          BY <1>1, <1>4, <2>5, <3>1, <4>3, <4>5, <4>6 DEF Prepared
        <4> QED
          BY <4>4, <4>7 DEF ThreadInv
      <3>3. CASE t # mi
        <4>1. /\ epc'[t] = epc[t] /\ eopt'[t] = eopt[t] /\ lost'[t] = lost[t]
          BY <1>1, <1>4, <3>3 DEF TypeOK, EngineTypeOK
        <4>2. Same(t)
          BY <1>4, <4>1 DEF Same
        <4>3. t < mi => t < mi'
          BY <1>1, <1>4, <3>1
        <4>4. Prepared(t)'
          BY <1>1, <1>4, <2>5, <3>1, <4>1, <4>3 DEF Prepared
        <4> QED
          BY <3>1, <4>2, <4>4, ThreadFrame DEF ThreadInv
      <3> QED
        BY <3>2, <3>3
    <2> QED
      BY <2>2, <2>3, <2>4, <2>6 DEF SsdInv
  <1>5. ASSUME mi < num_thread, mi < MAX_THREAD, eopt' = [eopt EXCEPT ![mi] = Options],
               \/ Goto(mi, "created") /\ UNCHANGED lost
               \/ Goto(mi, "failed") /\ lost' = [lost EXCEPT ![mi] = TRUE],
               mi' = mi + 1,
               UNCHANGED <<argv, mpc, summary, iops, handle, size, ei, offset,
                           inflight, writes, dirty, good, fault>>
        PROVE  SsdInv'
    <2>1. lost \in [Threads -> BOOLEAN] /\ mi \in Threads
      BY <1>1, <1>2, <1>5 DEF TypeOK, EngineTypeOK, Threads
    <2>2. CASE Goto(mi, "created") /\ UNCHANGED lost
      <3> DEFINE pc == "created"
      <3>1. epc' = [epc EXCEPT ![mi] = pc] /\ pc \in {"created", "failed"}
        BY <2>2 DEF Goto
      <3>2. lost' = [lost EXCEPT ![mi] = lost[mi] \/ pc = "failed"]
        BY <2>1, <2>2
      <3> HIDE DEF pc
      <3> QED
        BY <1>4, <1>5, <3>1, <3>2
    <2>3. CASE Goto(mi, "failed") /\ lost' = [lost EXCEPT ![mi] = TRUE]
      <3> DEFINE pc == "failed"
      <3>1. epc' = [epc EXCEPT ![mi] = pc] /\ pc \in {"created", "failed"}
        BY <2>3 DEF Goto
      <3>2. lost' = [lost EXCEPT ![mi] = lost[mi] \/ pc = "failed"]
        BY <2>1, <2>3
      <3> HIDE DEF pc
      <3> QED
        BY <1>4, <1>5, <3>1, <3>2
    <2> QED
      BY <1>5, <2>2, <2>3
  <1> QED
    BY <1>3, <1>5 DEF Spawn

\* The steps of main once its threads have been created.
LEMMA CreatedStep ==
  ASSUME SsdInv, UNCHANGED engineVars, UNCHANGED argv,
         mpc \in {"spawn", "join"}, mpc' \in {"join", "stuck", "exit"},
         mpc = "spawn" => mi = num_thread,
         mi' \in Nat, mi' <= num_thread, summary' # << >> => mpc' = "exit"
  PROVE  SsdInv'
  <1>1. UNCHANGED <<eopt, iops, epc, handle, size, ei, offset, inflight, writes, dirty, good,
                    lost, fault>>
    BY DEF engineVars
  <1>2. Options' = Options /\ num_thread' = num_thread
    BY DEF Options, num_thread
  <1>3. TypeOK'
    BY <1>1 DEF SsdInv, TypeOK, EngineTypeOK, MainPCs
  <1>4. MainInv'
    BY <1>2 DEF SsdInv, MainInv
  <1>5. \A t \in Threads : Prepared(t)'
    BY <1>1, <1>2 DEF SsdInv, ThreadInv, Prepared
  <1> QED
    BY <1>3, <1>4, <1>5, ThreadsIdle

LEMMA MainStepKeeps ==
  ASSUME SsdInv, MainStep
  PROVE  SsdInv'
  <1>1. /\ TypeOK /\ mi \in Nat /\ (mpc = "join" => summary = << >>)
        /\ (mpc = "spawn" => summary = << >>)
        /\ mpc \in {"spawn", "join"} => Len(argv) >= 5 /\ mi <= num_thread
    BY DEF SsdInv, TypeOK, MainInv
  <1>2. Len(argv) >= 5 => num_thread \in Nat
    BY <1>1, OptionFacts
  <1>3. CASE ReadArgs
    BY <1>3, ReadArgsStep
  <1>4. CASE Prealloc
    BY <1>4, PreallocStep
  <1>5. CASE Spawn
    BY <1>5, SpawnStep
  <1>6. CASE EndSpawn
    <2>1. /\ mpc = "spawn" /\ mi = num_thread /\ mi' = 0 /\ mpc' = "join"
          /\ UNCHANGED <<engineVars, argv, summary>>
      BY <1>6 DEF EndSpawn
    <2>2. mi' \in Nat /\ mi' <= num_thread
      BY <1>1, <1>2, <2>1
    <2> QED
      BY <1>1, <2>1, <2>2, CreatedStep
  <1>7. CASE Join
    <2>1. mpc = "join" /\ mi < num_thread
      BY <1>7 DEF Join
    <2>2. mi + 1 \in Nat /\ mi + 1 <= num_thread /\ mi <= num_thread
      BY <1>1, <1>2, <2>1
    <2>3. CASE mi' = mi + 1 /\ UNCHANGED <<engineVars, argv, mpc, summary>>
      BY <1>1, <2>1, <2>2, <2>3, CreatedStep
    <2>4. CASE mpc' = "stuck" /\ UNCHANGED <<engineVars, argv, mi, summary>>
      BY <1>1, <2>1, <2>2, <2>4, CreatedStep
    <2>5. CASE epc[mi] = "failed" /\ Die("SIGSEGV", {}) /\ UNCHANGED mainVars
      <3>1. ASSUME Sane PROVE \E t \in Threads : lost'[t]
        <4>1. mi \in Threads
          <5>1. num_thread <= MAX_THREAD /\ num_thread \in Nat
            BY <1>2, <3>1 DEF Sane
          <5> QED
            BY <1>1, <2>1, <5>1, SsdEngineAssumption DEF Threads
        <4>2. lost[mi]
          BY <2>5, <4>1 DEF SsdInv, ThreadInv, Prepared
        <4>3. lost'[mi]
          BY <2>5, <4>1, <4>2 DEF Die
        <4> QED
          BY <4>1, <4>3
      <3> QED
        BY <2>5, <3>1, DieStep DEF Faults
    <2> QED
      BY <1>7, <2>3, <2>4, <2>5 DEF Join
  <1>8. CASE Sum
    <2>1. /\ mpc = "join" /\ mi = num_thread /\ mpc' = "exit" /\ UNCHANGED <<engineVars, argv, mi>>
      BY <1>8 DEF Sum
    <2> QED
      BY <1>1, <2>1, CreatedStep
  <1> QED
    BY <1>3, <1>4, <1>5, <1>6, <1>7, <1>8 DEF MainStep

LEMMA SsdInvInit ==
  ASSUME Init
  PROVE  SsdInv
  <1>1. TypeOK
    BY SsdRunAssumption DEF Init, EngineInit, TypeOK, EngineTypeOK, EnginePCs, Faults, MainPCs
  <1>2. MainInv
    BY DEF Init, MainInv
  <1>3. SaneRunsDoNotFault
    BY DEF Init, EngineInit, SaneRunsDoNotFault
  <1>4. ASSUME NEW t \in Threads PROVE ThreadInv(t)
    <2>1. /\ epc[t] = "none" /\ size[t] = 0 /\ ei[t] = 0 /\ offset[t] = 0 /\ inflight[t] = {}
          /\ dirty[t] = {} /\ good[t] = 0 /\ \A u \in Unit : writes[t][u] = 0
      BY DEF Init, EngineInit
    <2>2. 0 <= MAX_UNIT
      BY SsdEngineAssumption
    <2>3. Prepared(t)
      BY <2>1, <2>2 DEF Init, Prepared
    <2>4. EngineInv(t)
      BY <2>1 DEF EngineInv, Fresh, Running
    <2> QED
      BY <2>3, <2>4 DEF ThreadInv
  <1> QED
    BY <1>1, <1>2, <1>3, <1>4 DEF SsdInv

LEMMA SsdInvNext ==
  ASSUME SsdInv, [Next]_vars
  PROVE  SsdInv'
  <1>1. CASE MainStep
    BY <1>1, MainStepKeeps
  <1>2. ASSUME NEW t \in Threads, WorkerStep(t) PROVE SsdInv'
    <2>1. EngineStep(t) /\ UNCHANGED mainVars
      BY <1>2 DEF WorkerStep
    <2> QED
      BY <2>1, OpenStep, SetupStep, WriteStep, PwriteStep, StoreStep, SyncStep, SubmitStep,
         ReapStep, FinishStep DEF EngineStep
  <1>3. ASSUME NEW t \in Threads, DriveStep(t) PROVE SsdInv'
    BY <1>3, CompleteStep DEF DriveStep, DeviceStep
  <1>4. CASE UNCHANGED vars
    <2>1. /\ UNCHANGED engineVars /\ UNCHANGED argv /\ UNCHANGED <<argv, mpc, mi, summary>>
      BY <1>4 DEF vars, mainVars
    <2>2. UNCHANGED <<eopt, iops, epc, handle, size, ei, offset, inflight, writes, dirty, good,
                      lost, fault>>
      BY <2>1 DEF engineVars
    <2>3. TypeOK' /\ MainInv' /\ \A t \in Threads : Prepared(t)'
      BY <2>1, <2>2 DEF SsdInv, TypeOK, EngineTypeOK, MainInv, ThreadInv, Prepared, num_thread,
                        Options
    <2> QED
      BY <2>1, <2>3, ThreadsIdle
  <1> QED
    BY <1>1, <1>2, <1>3, <1>4 DEF Next, Terminating

THEOREM SsdInvariant == Spec => []SsdInv
  <1>1. Init => SsdInv
    BY SsdInvInit
  <1>2. SsdInv /\ [Next]_vars => SsdInv'
    BY SsdInvNext
  <1> QED
    BY <1>1, <1>2, PTL DEF Spec
-------------------------------------------------------------------------------
(***************************************************************************)
(* What the invariant says of the files and of the claims.                 *)
(***************************************************************************)

\* No engine writes past the end of a file whose random passes fit it, and none a
\* block past the end of any.
LEMMA InvStaysInFile ==
  ASSUME SsdInv
  PROVE  WritesStayInFile
  <1> SUFFICES ASSUME NEW t \in Threads, Running(t), eopt[t].block_size > 0,
                      NEW u \in Unit, writes[t][u] > 0
               PROVE  /\ u < eopt[t].total_size + eopt[t].block_size
                      /\ Roomy(eopt[t]) => u < eopt[t].total_size
    BY DEF WritesStayInFile
  <1> DEFINE o == eopt[t]
  <1>1. Phase(t) /\ Prefix(t) /\ Passes(t) /\ o \in thread_options /\ ei[t] \in Nat
    BY StepFacts, ThreadTypes DEF SsdInv, ThreadInv, EngineInv, Running
  <1>2. o.io_type \in Engines
    BY <1>1 DEF Phase
  <1>3. CASE Sequential(o)
    <2>1. u < Reach(t) /\ Turns(t) <= Count(o)
      BY <1>1, <1>2, <1>3 DEF Prefix, Phase
    <2>2. Turns(t) \in Nat
      BY <1>1 DEF Turns
    <2>3. Reach(t) <= o.total_size /\ Reach(t) \in Nat
      BY <1>1, <2>1, <2>2, TurnsFit DEF Reach
    <2>4. u \in Nat /\ o.total_size \in Nat /\ o.block_size \in Nat
      BY <1>1, SsdEngineAssumption DEF Unit, thread_options
    <2> QED
      BY <2>1, <2>3, <2>4
  <1>4. CASE ~ Sequential(o)
    BY <1>1, <1>2, <1>4 DEF Passes, Sequential, Engines
  <1> QED
    BY <1>3, <1>4

\* A random pass goes over the even blocks, and over all of them before any a
\* second time.
LEMMA InvPassIsEven ==
  ASSUME SsdInv
  PROVE  RandomPassIsEven
  <1> SUFFICES ASSUME NEW t \in Threads, Running(t), ~ lost[t],
                      eopt[t].io_type = IO_DIRECT_ACCESS, eopt[t].access_type = TYPE_RW
               PROVE  LET b    == eopt[t].block_size
                          Even == {k \in 0 .. Blocks(eopt[t]) :
                                     k % 2 = 0 /\ k * b < eopt[t].total_size}
                      IN  /\ \A j, k \in Even : writes[t][j * b] - writes[t][k * b] <= 1
                          /\ good[t] > 0 =>
                               \A u \in Unit : writes[t][u] > 0 => (u \div b) \in Even
    BY DEF RandomPassIsEven
  <1> DEFINE o == eopt[t]
             b == eopt[t].block_size
             Even == {k \in 0 .. Blocks(o) : k % 2 = 0 /\ k * b < o.total_size}
  <1>1. /\ Phase(t) /\ Passes(t) /\ o \in thread_options /\ o.total_size \in Nat
        /\ o.total_size <= MAX_UNIT /\ writes[t] \in [Unit -> Nat] /\ MAX_UNIT \in Nat
    BY StepFacts, ThreadTypes, SsdEngineAssumption DEF SsdInv, ThreadInv, EngineInv, Running
  <1>2. b \in Nat \ {0}
    BY <1>1 DEF Phase, Engines, thread_options
  <1>3. PICK p \in Nat : PassOf(o, writes[t], offset[t], p)
    BY <1>1 DEF Passes, TYPE_RW, TYPE_SW
  <1>4. ASSUME NEW k \in Even
        PROVE  writes[t][k * b] \in {p, p + 1}
    <2>1. k \in Nat /\ k * b < o.total_size /\ k % 2 = 0
      <3>1. Blocks(o) \in Nat
        BY <1>1, <1>2, DivFacts DEF Blocks
      <3> QED
        BY <3>1
    <2>2. k * b \in Nat
      BY <1>2, <2>1
    <2>3. k * b \in Unit
      BY <1>1, <2>1, <2>2 DEF Unit
    <2>4. (k * b) \div b = k
      BY <1>2, <2>1, <2>2, DivUnique
    <2>5. InPass(o, k * b)
      BY <2>1, <2>4 DEF InPass
    <2> QED
      BY <1>3, <2>3, <2>5 DEF PassOf
  <1>5. ASSUME NEW j \in Even, NEW k \in Even PROVE writes[t][j * b] - writes[t][k * b] <= 1
    <2>1. writes[t][j * b] \in {p, p + 1} /\ writes[t][k * b] \in {p, p + 1}
      BY <1>4
    <2> HIDE DEF b, Even
    <2> QED
      BY <2>1
  <1>6. ASSUME NEW u \in Unit, writes[t][u] > 0 PROVE (u \div b) \in Even
    <2>1. InPass(o, u)
      BY <1>3, <1>6 DEF PassOf
    <2> DEFINE k == u \div b
               n == o.total_size \div b
    <2>2. k \in Nat /\ k % 2 = 0 /\ k * b < o.total_size
      BY <1>1, <1>2, <2>1, DivFacts DEF InPass, Unit
    <2>3. n \in Nat /\ o.total_size < n * b + b
      BY <1>1, <1>2, DivFacts
    <2>4. k <= n
      <3> HIDE DEF k, n, b, o
      <3>1. (n + 1) * b = n * b + b /\ k * b \in Nat /\ n * b \in Nat
        BY <1>2, <2>2, <2>3
      <3>2. k * b < (n + 1) * b
        BY <1>1, <1>2, <2>2, <2>3, <3>1
      <3>3. k < n + 1
        BY <1>2, <2>2, <2>3, <3>2, MulOrder
      <3> QED
        BY <2>2, <2>3, <3>3
    <2> QED
      BY <2>2, <2>3, <2>4 DEF Blocks
  <1> QED
    BY <1>5, <1>6

\* At the head of its loop a sequential engine has written a prefix of the file.
LEMMA InvCoversPrefix ==
  ASSUME SsdInv
  PROVE  SequentialCoversPrefix
  <1> SUFFICES ASSUME NEW t \in Threads, epc[t] = "loop", ~ lost[t], Sequential(eopt[t]),
                      NEW u \in Unit
               PROVE  writes[t][u] = IF u < ei[t] * StepSize(eopt[t]) THEN 1 ELSE 0
    BY DEF SequentialCoversPrefix, StepSize
  <1>1. Phase(t) /\ Prefix(t)
    BY DEF SsdInv, ThreadInv, EngineInv, Running
  <1>2. inflight[t] = {} /\ Reach(t) = ei[t] * StepSize(eopt[t])
    BY <1>1 DEF Phase, Reach, Turns
  <1> QED
    BY <1>1, <1>2 DEF Prefix

LEMMA InvNothingPending ==
  ASSUME SsdInv
  PROVE  NothingPendingAtReturn
  <1> SUFFICES ASSUME NEW t \in Threads, epc[t] = "done"
               PROVE  /\ inflight[t] = {}
                      /\ (~ lost[t] /\ (eopt[t].io_type = IO_MMAP => eopt[t].block_size % PAGE = 0))
                         => dirty[t] = {}
    BY DEF NothingPendingAtReturn
  <1>1. Phase(t) /\ Clean(t)
    BY DEF SsdInv, ThreadInv, EngineInv, Running
  <1> QED
    BY <1>1 DEF Phase, Clean

\* The rate counts the blocks that were written.
LEMMA InvRateIsHonest ==
  ASSUME SsdInv
  PROVE  RateIsHonest
  <1> SUFFICES ASSUME NEW t \in Threads, epc[t] = "done", ~ lost[t], Whole(eopt[t])
               PROVE  iops[t][1].ops = good[t]
    BY DEF RateIsHonest
  <1> DEFINE o == eopt[t]
             b == eopt[t].block_size
  <1>1. Phase(t) /\ Counted(t) /\ o \in thread_options /\ ei[t] \in Nat /\ good[t] \in Nat
    BY StepFacts, ThreadTypes DEF SsdInv, ThreadInv, EngineInv, Running
  <1>2. /\ o.io_type \in Engines /\ b \in Nat \ {0} /\ o.total_size \in Nat /\ QUEUE \in Nat \ {0}
        /\ ei[t] = Count(o) /\ Turns(t) = ei[t] /\ inflight[t] = {} /\ iops[t][1].ops = Blocks(o)
    BY <1>1, SsdEngineAssumption DEF Whole, Phase, Turns, thread_options
  <1>3. CASE o.io_type = IO_LIBAIO
    <2>1. Blocks(o) = Count(o) * QUEUE
      BY <1>2, <1>3, WholeBatches DEF Whole, Blocks, Count
    <2>2. good[t] + Cardinality({}) = Count(o) * QUEUE
      BY <1>1, <1>2, <1>3 DEF Counted
    <2> QED
      BY <1>1, <1>2, <2>1, <2>2, FS_EmptySet
  <1>4. CASE o.io_type # IO_LIBAIO
    BY <1>1, <1>2, <1>4 DEF Counted, Blocks, Count
  <1> QED
    BY <1>3, <1>4

\* Every engine writes where it should: inside its file, over the even blocks in
\* a random pass, over the blocks from the first on in a sequential one.
THEOREM EnginesWriteInPlace == Spec => []WritesInPlace
  <1>1. SsdInv => WritesInPlace
    BY InvStaysInFile, InvPassIsEven, InvCoversPrefix DEF WritesInPlace, SsdInv
  <1> QED
    BY <1>1, SsdInvariant, PTL

\* A thread that returns has nothing under way or only in the page cache, and
\* claims the blocks it wrote.
THEOREM ReturnsAreHonest == Spec => []ReturnIsHonest
  <1>1. SsdInv => ReturnIsHonest
    BY InvNothingPending, InvRateIsHonest DEF ReturnIsHonest
  <1> QED
    BY <1>1, SsdInvariant, PTL

\* A signal needs arguments that main does not check, or a call that failed.
THEOREM SaneArgumentsRaiseNoSignal == Spec => []SaneRunsDoNotFault
  <1>1. SsdInv => SaneRunsDoNotFault
    BY DEF SsdInv
  <1> QED
    BY <1>1, SsdInvariant, PTL
-------------------------------------------------------------------------------
(***************************************************************************)
(* The printed sum: main and its threads implement ForkJoin.               *)
(***************************************************************************)

\* Who has returned by the time main is past a join.
JoinInv ==
  /\ mpc = "spawn" => mi <= MAX_THREAD
  /\ mpc \in {"join", "stuck", "exit"} => num_thread <= MAX_THREAD
  /\ mpc = "join" => \A t \in Threads : t < mi => epc[t] \in {"done", "failed"}
  /\ mpc = "exit" => \A t \in Threads : t < num_thread => epc[t] \in {"done", "failed"}

\* The variables of ForkJoin.
Team  == Threads \cap (IF Len(argv) >= 5 THEN 0 .. num_thread - 1 ELSE {})
Rates == [t \in {u \in Threads : epc[u] = "done"} |-> iops[t][1]]
Shown == IF AllCreated THEN summary ELSE << >>

\* What a step of thread t does to the rates: nothing, or it delivers one.
Moves(t) ==
  /\ epc[t] \notin {"none", "failed", "done"}
  /\ \/ \E pc \in {"created", "setup", "loop", "sync", "wait"} :
          epc' = [epc EXCEPT ![t] = pc] /\ UNCHANGED iops
     \/ \E r \in Rate : epc' = [epc EXCEPT ![t] = "done"] /\ iops' = [iops EXCEPT ![t] = <<r>>]

LEMMA EngineMoves ==
  ASSUME SsdInv, NEW t \in Threads, EngineStep(t)
  PROVE  Moves(t) \/ UNCHANGED <<epc, iops>>
  <1>1. ASSUME Open(t) \/ Setup(t) \/ Write(t) \/ Pwrite(t) \/ Store(t) \/ Sync(t) \/ Submit(t)
               \/ Reap(t)
        PROVE  Moves(t) \/ UNCHANGED <<epc, iops>>
    BY <1>1 DEF Open, Setup, Write, Pwrite, Store, Sync, Submit, Reap, Looping, Goto, Die, Moves
  <1>2. ASSUME Finish(t) PROVE Moves(t) \/ UNCHANGED <<epc, iops>>
    <2> DEFINE o == eopt[t]
    <2>1. CASE Die("SIGFPE", {})
      BY <2>1 DEF Die
    <2>2. ASSUME o.block_size # 0, NEW ns \in Durations, Goto(t, "done"),
                 iops' = [iops EXCEPT ![t] = <<[ops |-> o.total_size \div o.block_size, ns |-> ns]>>]
          PROVE  Moves(t)
      <3> DEFINE r == [ops |-> o.total_size \div o.block_size, ns |-> ns]
      <3>1. epc[t] = "loop"
        BY <1>2 DEF Finish
      <3>2. o.block_size \in Nat /\ o.total_size \in Nat
        BY <3>1, StepFacts
      <3>3. o.total_size \div o.block_size \in Nat /\ ns \in Nat
        BY <2>2, <3>2, SsdEngineAssumption, DivFacts
      <3>4. r \in Rate
        BY <3>3 DEF Rate
      <3>5. epc' = [epc EXCEPT ![t] = "done"] /\ iops' = [iops EXCEPT ![t] = <<r>>]
        BY <2>2 DEF Goto
      <3> HIDE DEF r
      <3> QED
        BY <3>1, <3>4, <3>5 DEF Moves
    <2> QED
      BY <1>2, <2>1, <2>2 DEF Finish
  <1> QED
    BY <1>1, <1>2 DEF EngineStep

\* A step that delivers no rate and prints nothing.
LEMMA NothingShown ==
  ASSUME UNCHANGED <<argv, summary, epc, iops>>
  PROVE  UNCHANGED Printed!vars
  <1>1. Team' = Team /\ Rates' = Rates /\ Shown' = Shown
    BY DEF Team, Rates, Shown, AllCreated, num_thread
  <1> QED
    BY <1>1 DEF Printed!vars, Team, Rates, Shown

LEMMA EngineDelivers ==
  ASSUME SsdInv, JoinInv, NEW t \in Threads, Moves(t), UNCHANGED mainVars
  PROVE  JoinInv' /\ [Printed!Next]_(Printed!vars)
  <1>1. UNCHANGED <<argv, mpc, mi, summary>> /\ TypeOK
    BY DEF mainVars, SsdInv
  <1>2. epc[t] \notin {"none", "failed", "done"}
    BY DEF Moves
  <1>3. /\ epc \in [Threads -> EnginePCs] /\ iops \in [Threads -> Seq(Rate)]
        /\ epc' = [epc EXCEPT ![t] = epc'[t]]
        /\ epc'[t] # "failed"
    BY <1>1 DEF TypeOK, EngineTypeOK, Moves
  <1>4. JoinInv'
    BY <1>1, <1>2, <1>3 DEF JoinInv, num_thread
  <1>5. AllCreated' = AllCreated
    BY <1>2, <1>3 DEF AllCreated
  <1>6. Team' = Team /\ Shown' = Shown
    BY <1>1, <1>5 DEF Team, Shown, num_thread
  <1>7. ASSUME NEW pc \in {"created", "setup", "loop", "sync", "wait"},
               epc' = [epc EXCEPT ![t] = pc], UNCHANGED iops
        PROVE  UNCHANGED Printed!vars
    <2>1. Rates' = Rates
      BY <1>2, <1>3, <1>7 DEF Rates
    <2> QED
      BY <1>6, <2>1 DEF Printed!vars, Team, Rates, Shown
  <1>8. ASSUME NEW r \in Rate, epc' = [epc EXCEPT ![t] = "done"], iops' = [iops EXCEPT ![t] = <<r>>]
        PROVE  Printed!Next
    <2>1. Len(argv) >= 5 /\ t < num_thread /\ num_thread \in Nat
      BY <1>1, <1>2, OptionFacts DEF SsdInv, ThreadInv, Prepared
    <2>2. t \in Team
      BY <2>1, SsdEngineAssumption DEF Team, Threads
    <2>3. summary = << >>
      BY <1>1, <1>2, <2>1 DEF TypeOK, JoinInv
    <2>4. Shown = << >>
      BY <2>3 DEF Shown
    <2>5. /\ DOMAIN Rates = {u \in Threads : epc[u] = "done"}
          /\ DOMAIN Rates' = {u \in Threads : epc'[u] = "done"}
      BY DEF Rates
    <2>6. t \notin DOMAIN Rates /\ DOMAIN Rates' = DOMAIN Rates \cup {t}
      BY <1>2, <1>3, <1>8, <2>5
    <2>7. Rates'[t] = r
      BY <1>3, <1>8, <2>5, <2>6 DEF Rates
    <2>8. \A x \in DOMAIN Rates : Rates'[x] = Rates[x]
      BY <1>3, <1>8, <2>5, <2>6 DEF Rates
    <2>9. Printed!Deliver(t)
      BY <1>6, <1>8, <2>2, <2>4, <2>6, <2>7, <2>8 DEF Printed!Deliver, Team, Rates, Shown
    <2> QED
      BY <2>9 DEF Printed!Next
  <1> QED
    BY <1>4, <1>7, <1>8 DEF Moves

LEMMA MainPublishes ==
  ASSUME SsdInv, JoinInv, MainStep
  PROVE  JoinInv' /\ [Printed!Next]_(Printed!vars)
  <1>1. /\ TypeOK /\ mi \in Nat /\ MAX_THREAD \in Nat
        /\ mpc # "exit" => summary = << >>
        /\ mpc # "args" => Len(argv) >= 5
        /\ mpc \in {"prealloc", "spawn", "join"} => mi <= num_thread
    BY SsdEngineAssumption DEF SsdInv, TypeOK, MainInv
  <1>2. Len(argv) >= 5 => num_thread \in Nat
    BY <1>1, OptionFacts
  <1>3. \A t \in Threads : t \in Nat /\ t < MAX_THREAD
    BY <1>1 DEF Threads
  <1>4. ASSUME NEW s \in Faults, mpc # "exit", Die(s, {}), UNCHANGED mainVars
        PROVE  JoinInv' /\ UNCHANGED Printed!vars
    <2>1. UNCHANGED <<argv, mpc, mi, summary, epc, iops>>
      BY <1>4 DEF Die, mainVars
    <2> QED
      BY <2>1, NothingShown DEF JoinInv, num_thread
  <1>5. CASE ReadArgs
    <2>1. CASE Die("SIGSEGV", {}) /\ UNCHANGED mainVars
      BY <1>4, <1>5, <2>1 DEF ReadArgs, Faults
    <2>2. CASE mpc' = "prealloc" /\ UNCHANGED <<engineVars, argv, mi, summary>>
      BY <2>2, NothingShown DEF JoinInv, engineVars
    <2> QED
      BY <1>5, <2>1, <2>2 DEF ReadArgs
  <1>6. CASE Prealloc
    <2>1. /\ mpc = "prealloc" /\ UNCHANGED <<argv, summary, epc, iops>>
          /\ mpc' \in {"prealloc", "spawn"} /\ (mpc' = "spawn" => mi' = 0)
      BY <1>6 DEF Prealloc, engineVars
    <2> QED
      BY <1>1, <2>1, NothingShown DEF JoinInv
  <1>7. CASE Spawn
    <2>1. CASE Die("SIGSEGV", {}) /\ UNCHANGED mainVars
      BY <1>4, <1>7, <2>1 DEF Spawn, Faults
    <2>2. ASSUME mi < MAX_THREAD, NEW pc \in {"created", "failed"},
                 epc' = [epc EXCEPT ![mi] = pc],
                 mi' = mi + 1, UNCHANGED <<argv, mpc, summary, iops>>
          PROVE  JoinInv' /\ UNCHANGED Printed!vars
      <3>1. mpc = "spawn" /\ mi \in Threads
        BY <1>1, <1>7, <2>2 DEF Spawn, Threads
      <3>2. JoinInv'
        BY <1>1, <2>2, <3>1 DEF JoinInv
      <3>3. epc[mi] = "none" /\ epc \in [Threads -> EnginePCs]
        BY <1>1, <3>1 DEF SsdInv, ThreadInv, Prepared, TypeOK, EngineTypeOK
      <3>4. Rates' = Rates
        BY <2>2, <3>1, <3>3 DEF Rates
      <3>5. Shown' = Shown
        BY <1>1, <2>2, <3>1 DEF Shown
      <3>6. Team' = Team
        BY <2>2 DEF Team, num_thread
      <3> QED
        BY <3>2, <3>4, <3>5, <3>6 DEF Printed!vars, Team, Rates, Shown
    <2> QED
      BY <1>7, <2>1, <2>2 DEF Spawn, Goto
  <1>8. CASE EndSpawn
    <2>1. /\ mpc = "spawn" /\ mi = num_thread /\ mi' = 0 /\ mpc' = "join"
          /\ UNCHANGED <<engineVars, argv, summary>>
      BY <1>8 DEF EndSpawn
    <2>2. UNCHANGED <<argv, summary, epc, iops>>
      BY <2>1 DEF engineVars
    <2>3. JoinInv'
      BY <1>3, <2>1 DEF JoinInv, num_thread
    <2> QED
      BY <2>2, <2>3, NothingShown
  <1>9. CASE Join
    <2>1. mpc = "join"
      BY <1>9 DEF Join
    <2>2. CASE Die("SIGSEGV", {}) /\ UNCHANGED mainVars
      BY <1>4, <2>1, <2>2 DEF Faults
    <2>3. CASE mpc' = "stuck" /\ UNCHANGED <<engineVars, argv, mi, summary>>
      BY <2>1, <2>3, NothingShown DEF JoinInv, engineVars, num_thread
    <2>4. CASE epc[mi] \in {"done", "failed"} /\ mi' = mi + 1
               /\ UNCHANGED <<engineVars, argv, mpc, summary>>
      <3>1. UNCHANGED <<argv, mpc, summary, epc, iops>>
        BY <2>4 DEF engineVars
      <3>2. \A t \in Threads : t < mi + 1 => t < mi \/ t = mi
        BY <1>1, <1>3
      <3>3. JoinInv'
        BY <2>1, <2>4, <3>1, <3>2 DEF JoinInv, num_thread
      <3> QED
        BY <3>1, <3>3, NothingShown
    <2> QED
      BY <1>9, <2>2, <2>3, <2>4 DEF Join
  <1>10. CASE Sum
    <2>1. /\ mpc = "join" /\ mi = num_thread /\ mpc' = "exit" /\ UNCHANGED <<engineVars, argv, mi>>
      BY <1>10 DEF Sum
    <2>2. UNCHANGED <<epc, iops>>
      BY <2>1 DEF engineVars
    <2>3. JoinInv'
      BY <2>1, <2>2 DEF JoinInv, num_thread
    <2>4. num_thread \in Nat /\ num_thread <= MAX_THREAD /\ Len(argv) >= 5
      BY <1>1, <1>2, <2>1 DEF JoinInv
    <2>5. Team' = Team /\ Rates' = Rates /\ (AllCreated' <=> AllCreated)
      BY <2>1, <2>2 DEF Team, Rates, AllCreated, num_thread
    <2>6. CASE ~ AllCreated
      <3>1. Shown' = Shown
        BY <2>5, <2>6 DEF Shown
      <3>2. UNCHANGED Printed!vars
        BY <2>5, <3>1 DEF Printed!vars, Team, Rates, Shown
      <3> QED
        BY <2>3, <3>2
    <2>7. CASE AllCreated
      <3>1. Team = 0 .. num_thread - 1 /\ Team \subseteq Threads
        BY <1>1, <2>4 DEF Team, Threads
      <3>2. ASSUME NEW t \in Threads PROVE epc[t] = "done" <=> t \in Team
        <4>1. t < num_thread => epc[t] = "done"
          BY <2>1, <2>7 DEF JoinInv, AllCreated
        <4>2. epc[t] = "done" => t < num_thread
          BY DEF SsdInv, ThreadInv, Prepared
        <4>3. t < num_thread <=> t \in Team
          BY <1>3, <2>4, <3>1
        <4> QED
          BY <4>1, <4>2, <4>3
      <3>3. {u \in Threads : epc[u] = "done"} = Team
        BY <3>1, <3>2
      <3>4. ASSUME NEW t \in Team PROVE iops[t] # << >>
        <4>1. epc[t] = "done" /\ t \in Threads
          BY <3>1, <3>2
        <4>2. Len(iops[t]) = 1
          BY <4>1 DEF SsdInv, ThreadInv, EngineInv, Running, Phase
        <4> QED
          BY <4>2
      <3>5. PICK garbage : summary' = <<Total([t \in 0 .. num_thread - 1 |->
                                         IF iops[t] = << >> THEN garbage ELSE iops[t][1]])>>
        BY <1>10 DEF Sum
      <3>6. [t \in 0 .. num_thread - 1 |-> IF iops[t] = << >> THEN garbage ELSE iops[t][1]] = Rates
        BY <3>1, <3>3, <3>4 DEF Rates
      <3>7. summary' = <<Total(Rates)>> /\ Shown' = summary' /\ Shown = << >>
        BY <1>1, <2>1, <2>5, <2>7, <3>5, <3>6 DEF Shown
      <3>8. DOMAIN Rates = Team
        BY <3>3 DEF Rates
      <3>9. Printed!Publish
        BY <2>5, <3>7, <3>8 DEF Printed!Publish, Team, Rates, Shown
      <3> QED
        BY <2>3, <3>9 DEF Printed!Next
    <2> QED
      BY <2>6, <2>7
  <1> QED
    BY <1>5, <1>6, <1>7, <1>8, <1>9, <1>10 DEF MainStep

\* The printed sum is that of the final rates of all threads, if all of them
\* could be created.
THEOREM SumIsForkJoin == Spec => SumAfterAllRates
  <1>1. Init => JoinInv /\ Printed!Init
    <2> SUFFICES ASSUME Init PROVE JoinInv /\ Printed!Init
      OBVIOUS
    <2>1. mpc = "args" /\ summary = << >> /\ \A t \in Threads : epc[t] = "none"
      BY DEF Init, EngineInit
    <2> QED
      BY <2>1 DEF JoinInv, Printed!Init
  <1>2. SsdInv /\ JoinInv /\ [Next]_vars => JoinInv' /\ [Printed!Next]_(Printed!vars)
    <2> SUFFICES ASSUME SsdInv, JoinInv, [Next]_vars
                 PROVE  JoinInv' /\ [Printed!Next]_(Printed!vars)
      OBVIOUS
    <2>1. ASSUME UNCHANGED <<epc, iops>>, UNCHANGED mainVars
          PROVE  JoinInv' /\ UNCHANGED Printed!vars
      BY <2>1, NothingShown DEF mainVars, JoinInv, num_thread
    <2>2. CASE MainStep
      BY <2>2, MainPublishes
    <2>3. ASSUME NEW t \in Threads, WorkerStep(t)
          PROVE  JoinInv' /\ [Printed!Next]_(Printed!vars)
      BY <2>1, <2>3, EngineMoves, EngineDelivers DEF WorkerStep
    <2>4. ASSUME NEW t \in Threads, DriveStep(t)
          PROVE  JoinInv' /\ [Printed!Next]_(Printed!vars)
      BY <2>1, <2>4 DEF DriveStep, DeviceStep, Complete
    <2>5. CASE UNCHANGED vars
      BY <2>1, <2>5 DEF vars, engineVars
    <2> QED
      BY <2>2, <2>3, <2>4, <2>5 DEF Next, Terminating
  <1> QED
    BY <1>1, <1>2, SsdInvariant, PTL DEF Spec, SumAfterAllRates, Printed!Spec
=============================================================================
