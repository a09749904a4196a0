# AEP_TEST: specifications and proofs

AEP_TEST measures the latency and bandwidth of persistent memory (Intel Optane
DIMMs, "AEP") and of SSDs. `main` maps a pool, gives each thread a partition of
it and lets the threads copy blocks, streaming or cached, flushed or not;
`ssd_test` does the same with files. A benchmark that copies outside its
region, counts what it did not do, or returns from a "synchronous" write before
the data is persistent reports wrong numbers without any visible sign. These
specifications say when its numbers can be trusted.

## 1. Inventory

| Part | Source | State | Operations | Interacts with |
|---|---|---|---|---|
| access kernels | `main.cc:125-399` | per thread: `address`, `i`, `finished_count`, its `test_result` | enter, copy a block and move on, count and test the flag, finish | options record from the main thread; `time_is_over` |
| basic run | `main.cc:401-456` | `opts[32]`, `res[32]`, `addr`, `i` | partition, create, join, total | creates and joins the kernels |
| mixed run | `main.cc:458-557` | the same, and `time_is_over` | the same, and the deadline | raises the flag the kernels poll |
| options and dispatch | `main.cc:559-655` | `benchmark_options` | defaults, parsing, pool check, dispatch | calls the runs |
| pool mapping | `main.cc:84-113` | pool address and size | `mmap`, `pmem_map_file` or `malloc` | used by the runs |
| CPU binding | `main.cc:115-123,368-375,511-517`, `ssd_test.cc:149-157` | the threads' processor masks | bind a worker, bind the clock | threads inherit the mask of their creator |
| streaming copy | `pflush.c:53-392,491-501` | pointers and length | forward and backward piece loops, tails | called by the write kernels |
| persisting | `pflush.c:39-51,473-489` | flush pointer | flush loops, fence | called by the write kernels |
| cycle counters, latency emulation | `pflush.c:394-437` | none | `rdtsc` loops | offered by `pflush.h`, not called |
| timer | `timer.h`, `ssd_test/timer.h` | three `timespec` and the total | start, stop, accumulate, get | read by kernels and by the mixed run |
| SSD engines | `ssd_test/ssd_test.cc:32-191` | offset, buffer, aio context | `write`+`fsync`, `pwrite`, `mmap`+`msync`, libaio batches | the kernel's file and aio interfaces |
| SSD driver | `ssd_test/ssd_test.cc:193-232` | options and rates of 32 threads | preallocate, create, join, total | creates and joins engines |
| result parsing | `py/*.py` | the sheets being filled | one directory or one file | reads what the programs printed |
| scripts | `*.sh` | none | parameter sweeps | call the programs |
| pmdk headers | `pmdk/include` | vendored: locals of the transaction block, thread-local pool cache, loop variables, list links | transaction sections, direct pointers, loops, list macros | `pm_init` calls `pmem_map_file`; the rest calls a library that is not in the repository |

What is hard here:

* *Geometry.* Whether a kernel stays inside its region depends on stride, block
  size, alignment, amount, start address and partition size together; the wrap
  test looks at one byte only (`main.cc:157`). Nothing but the pool check
  (`main.cc:626`) guards it.
* *Interleaving.* Threads run while the main thread is still carving the pool;
  the flag that stops a mixed run goes up while a thread is anywhere in its loop.
* *Stale or unset input.* The pool check uses `num_thread` before a mixed run
  replaces it; four option fields have no default; loop variables, cached pools
  and locals after a `longjmp` may be out of date when they are used.
* *Unchecked failures.* `pthread_create`, `pthread_setaffinity_np`, `open`,
  `pwrite`, `fsync` and the results of aio requests are not looked at.
* *Crashes.* A transaction may be cut off between any two of its stores.
* *Narrow numbers.* Options are read as 64-bit numbers into narrower fields,
  clocks and counters are subtracted across their wrap.
* *Persistence order.* Streaming stores, cached tails and flushes of one block
  reach the media in any order; a power failure may come at any instant.
* *Termination.* Joins without time-out, a polled plain `int`, a fence that waits
  for buffers to drain.

Per part, correct means: (kernels) each copies only inside its region, never two
the same byte, and reports the number of copies it made; (runs) the regions
partition the pool, the totals are those of the final results of the whole team,
mixed threads run together until the deadline, the run ends, and sane options
raise no signal; (streaming copy) a `memmove` for every length and overlap;
(persisting) what a returned synchronous write wrote survives power failure;
(SSD engines) a batch's requests have completed before its buffers are used
again, offsets stay in the file, and the reported rate is that of the work done;
(options, pool) a run has the options of the command line and its pool holds its
data, and a rejected command line touches nothing; (binding) workers are apart
and on their node; (timer, clock) the class is a stopwatch and the flag goes up
neither early nor a turn late; (latency) the delay is never short; (sheets) each
cell stands beside its labels and no file is lost; (pmdk) transactions are atomic
under crashes, cached pools are never stale, loops see each object once, lists
are the sequences their macros name. `PROJECT.json` lists the hazards by line.

## 2. Modules

    Address --> Kernel --> Driver --> BasicRun --> MCBasicRun
                                 \-> MixedRun --> MCMixedRun
    DriverProofs <-- BasicRunProofs, MixedRunProofs
    SsdEngine --> SsdRun --> MCSsdRun;   SsdRun --> SsdProofs
    ForkJoin (abstract)    <-- implemented by BasicRun, MixedRun and SsdRun
    NtPieces --> NtMemcpy --> MCNtMemcpy;   NtMemcpy --> CopyProofs
    MemoryHierarchy (external), NtPieces --> PersistWrite --> MCPersistWrite
    DurableStore (abstract) <-- implemented by PersistWrite --> PersistProofs
    Timer --> GlobalClock
    Stopwatch (abstract) <-- implemented by Timer
    HandleData, HandleMixedData --> Sheets
    GlobalClock, Latency, Options, Affinity, Sheets --> MCParts, PartsProofs
    AtomicUpdate (abstract) <-- implemented by TxBlock
    ObjSequences (abstract) <-- implemented by ObjList
    DirectCache, TxBlock, Layout, Iterate, ObjList --> MCPmdk, PmdkProofs

* **Address**: the pure arithmetic of the kernels: `AlignUp`, stride, number of
  operations, first and next address, as functions of a `thread_options` record.
* **Kernel**: `thread_task` and the four kernels. They are one control structure
  with different strides, so there is one set of actions with the thread's type
  as data. `Enter` is everything before the loop, `Operate` one block (copy,
  address step, wrap, `--verify` assertion), `Tally` the counting and the flag
  test, `Finish` the two divisions and the result. A signal is recorded in
  `fault` and stops every action.
* **Driver**: what the two run functions share: the pool check, the start of the
  partitioning, one turn of the creation loop, joining in order, the totals. It
  also states the geometry properties.
* **BasicRun**, **MixedRun**: `run_benchmark` and `run_mixed_benchmark`. The mixed
  run recomputes the team after the pool check, waits for the clock (`Deadline`)
  and splits the totals by role.
* **ForkJoin**: what the printed totals promise. Every worker of the team reports
  once, the total is published once, for all reports, and none changes later.
* **NtPieces**: how a copy is cut into 256-, 128- and 64-byte pieces and a tail,
  which pieces are streamed and which need alignment, and the overlapping stores
  of small tails. **NtMemcpy**: the loops in both directions, over the sets of
  bytes written and of source bytes read after being overwritten.
* **MemoryHierarchy**: external; the processor's caches, write-combining buffers
  and flush queue, with a line's contents as the stamp of its last store. Stores
  of one line keep their order; different lines go in any order.
* **PersistWrite**: one iteration of a write kernel on top of it: streaming
  (pieces, tail, tail flush) or `memcpy` and `persist_data`, then the fence.
* **DurableStore**: what `--sync=1` promises. Lines never fall back to older
  contents, and a write only returns what the media already holds.
* **SsdEngine**: `run_benchmark` of `ssd_test.cc` and its four engines on a file
  per thread, with the page cache, partial transfers, refused submissions and
  completions in any order. **SsdRun**: its `main`.
* **Options**: the loop over `argv`, in the order of the arguments, with 64-bit
  reads narrowed to the fields; `pm_init` in its three variants, of which a
  behaviour has the one in its variable `build`; the pool check with a product
  that wraps (`Driver` has the same check with the exact product, `CheckPool`);
  the dispatch by the first two letters.
* **Affinity**: who binds itself to which processor when, with the table indexed
  as the compiler does it (past the end of a row lies the next one).
* **Timer** and **Stopwatch**: the class, field by field in its widths, and the
  stopwatch it is to be. **GlobalClock**: the polling loop of the mixed run,
  which `MixedRun` has as one action, `Deadline`.
* **Latency**: `emulate_latency_ns` over one wrapping counter per processor,
  between which the kernel moves the thread.
* **HandleData**, **HandleMixedData**: one sheet of each script, with the
  listings in the order that `os.listdir` happens to use. **Sheets** has an
  instance of each, side by side.
* **TxBlock** and **AtomicUpdate**: `TX_BEGIN` to `TX_END` as `setjmp`, a loop over
  the library's stage and a switch, with `longjmp`, failing range additions,
  aborts and a crash at any step; and what a transaction promises.
* **Layout**: the typed objects of `types.h`. The layout macros give each type a
  number by `__COUNTER__` and `sizeof`, declaration by declaration; the program
  then makes, assigns, reallocates and frees objects of these types, and is built
  anew, with types appended, over the pool that an earlier build has filled.
* **DirectCache**: `pmemobj_direct` with its thread-local cache, read by read,
  while pools are closed and opened elsewhere.
* **Iterate**: the five loops over the objects of a pool, whose bodies free.
* **ObjList** and **ObjSequences**: the list macros over the links, with a loop
  whose body uses them; and the sequences that the names of the macros promise.
* **DriverProofs**, **BasicRunProofs**, **MixedRunProofs**, **CopyProofs**,
  **PersistProofs**, **SsdProofs**, **PartsProofs**, **PmdkProofs**: section 5.

Operators whose comment begins with "Mutated:" are altered forms of the
definition that follows them; no specification uses them. `PROJECT.json` pairs
each with the property that notices it.

### Correspondence of state

| Specification | Code |
|---|---|
| `opts`, `res` | `opts[32]`, `res[32]` of the run function; `Unset` before the main thread writes |
| `kpc[t]` | position of thread t: not created, created, at the loop test, before counting, broken out, returned |
| `address`, `iter`, `finished` | the locals `address`, `i`, `finished_count` |
| `opt`, `mi`, `next_addr`, `mpc` | `benchmark_options`, `i`, `addr` of the main thread, and its position |
| `summary` | the printed totals |
| `dest`, `src`, `len` | the arguments of `memmove_movnt_sse_fw/bw` as they advance |
| `ptr` | the pointer of `flushopt()` and of `persist_data`'s loop |
| `acked` | specification only: what returned synchronous writes vouch for |
| `eopt`, `iops`, `epc`, `ei`, `offset` | `options[32]` of `ssd_test.cc`, its field `iops`, a thread's position, and `i`, `offset`, `ptr - dest` or `block_size * current_count` of its engine |
| `inflight`, `dirty`, `writes`, `lost` | aio requests under way; the page cache; what reached the file; whether a call failed (specification only) |
| `build` of Options; `pool` | which of `PM_USED` and `PMDK_USED` are defined; where `pm_init` says the pool is, and how many bytes are there |
| `argv`, `arg`, `options`, `names` of Options | the arguments, the loop variable and `struct benchmark_options` with its strings |
| `mask`, `bound`, `warned` of Affinity | the kernel's masks, the successful bindings and the printed messages |
| `start`, `end`, `elapsed` of Timer; `main_pc`, `time_is_over` | the members of the class; the main thread at its clock, and the flag |
| `start_tsc`, `cycles`, `stop` | the locals of `emulate_latency_ns` |
| `table`, `tables` | the sheets |
| `_stage`, `_pobj_errno`; `stage`, `error`, `undo` | the locals of `_POBJ_TX_BEGIN`; the library's transaction |
| `counter`, `ref`, `cnt`, `num` | what `__COUNTER__` and `sizeof` of the layout's and the types' helper structures give |
| `stored`, `typed` | the type number in the header of each object; the offset in the typed variable of each type |
| `cache`, `_pobj_cache_invalidate` | `_pobj_cached_pool` of each thread and the counter of closings |
| `varoid`, `nvaroid`, `_pobj_ret`; `seen`, `untouched` | the loop variables of `iterator.h` and the local of its inner loops; specification only: what the body saw, what was left alone |
| `pe_first`, `pe_next`, `pe_prev` | the links of `lists_atomic.h` |

A variable whose comment says "history" is read by properties, or by the guards
that keep a caller within the documented use, and by no modelled code.

## 3. Runs

| Run | Question | Answer |
|---|---|---|
| `basic_geometry` | Are regions, blocks and counts right in every geometry, and do sane options never raise a signal? | yes |
| `basic_team` | Do the totals wait for the whole team, and does every run end? | yes |
| `mixed_clock` | Is a mixed run free of races and its counts right wherever the flag finds a thread, and do the threads run together until then? | yes |
| `mixed_team` | The same as the second, from the deadline on | yes |
| `nt_memcpy` | Is `nvmem_memcpy` a `memmove`, when can it trap, does it end? | yes |
| `persist_write` | Does a power failure lose nothing a synchronous write returned, and does every write return? | yes |
| `ssd` | Do the SSD engines stay in their files, complete what they started and report what they did, and does the sum wait for all? | yes, for `Roomy` passes, whole batches and calls that do not fail |
| `parts` | Are options, pool, binding, timer, clock, latency emulation and sheets right, each from all its inputs? | yes, under the premises below |
| `pmdk` | Are transactions atomic, cached pools fresh, types told apart, loops complete and lists the promised sequences? | yes |
| `basic_fullsize` | Do threads stay below `end_addr` in general? | no: 4096-byte random blocks on 2 MB |
| `mixed_pool` | Does the pool check protect a mixed run? | no: it uses the wrong number of threads |
| `mixed_script` | Does a mixed run use `--block_size`, as `run_mixed.sh` expects? | no: `--rb` and `--wb` only |

The parts of `parts` share no state, nor do those of `pmdk`. Each of the two runs
holds several: a behaviour chooses one in its initial state and stays with it,
the others rest in one fixed initial state, and the fairness of a part is assumed
only of behaviours that chose it. The states are the sum of those of the parts,
not the product; a part that is chosen has exactly the behaviours it has alone,
and a liveness property of a part has "it was chosen" as its premise. The named
properties of a part are the conjuncts of what the run checks:

| Checked | Conjuncts |
|---|---|
| `WritesInPlace`, `ReturnIsHonest` (`SsdRun`) | `TypeOK`, `WritesStayInFile`, `RandomPassIsEven`, `SequentialCoversPrefix`; `NothingPendingAtReturn`, `RateIsHonest` |
| `OptionsInv` (`Options`) | `OptionsTypeOK`, `RunsAsAsked`, `RejectedTouchesNothing`, `PoolHoldsData` |
| `BindingInv` (`Affinity`) | `AffinityTypeOK`, `WorkersApart`, `OnNode`, `ClockDisturbsThreadZeroOnly`, `UnboundRunAnywhere` |
| `SheetsInv` (`HandleData`, `HandleMixedData`) | `TypeOK`, `LastColumnTrue`, `LabelsTellTruth`, `NothingLost`; `TypeOK`, `CellIsItsFile`, `LabelsOwnCount` |
| `WaitsEnd` (`GlobalClock`, `Latency`) | `NoLookWasted`, `DeadlineComes`; `Returns` |
| `BlockInv` (`TxBlock`) | `TxTypeOK`, `SectionsInOrder`, `ErrnoTellsFailure` |
| `TypesAreTold` (`Layout`) | `NumberIsPlace`, `ValidTellsType` |
| `LoopsInv` (`Iterate`) | `IterateTypeOK`, `NeverMisused`, `EachOnce` |
| `ListsInv` (`ObjList`) | `ListTypeOK`, `Rings`, `ForeachSeesAll` |
| `LoopsEnd` (`TxBlock`, `Iterate`, `ObjList`) | `BlockEnds`; `LoopEnds`; `ForeachEnds` |

Where types are proved (section 5) and follow from nothing else that is checked,
no run repeats them: those of the mixed run, the copy, the writes, the timer, the
clock, the latency emulation and the cache. Nor do runs repeat that the spans of
a mixed run stay in their regions, or that the conversions of the emulation round
trip, which are proved too.

`Roomy`, `SaneThread` and `Sane` name the conditions `main()` does not check and
under which the positive answers hold: the distance from the first address to
`end_addr` leaves after the last full stride nothing or a whole block; block and
alignment are positive; the block is no larger than the amount; under `--verify`
the stride is a multiple of the alignment; there are 1 to 32 threads; and, in a
mixed run, the pool holds the data of the real team. `basic_geometry` and
`mixed_clock` contain sane and insane options, so these implications are
exercised on both sides: without the premise each of them fails.

The premises of the other runs, each stated in a definition of its own:

* SSD engines: `Roomy` (the random pass wraps before the end of the file; one that
  does not is only shown to stay within a block of it), `Whole` (the blocks fill
  whole batches), whole-page blocks for `msync`, no failed call, `Sane` arguments,
  and no file longer than the last unit that is read (`SsdRunAssumption`).
* Pool (`PoolHoldsData`): the arguments fit their fields and the product of the
  check does not wrap (`InRange`); and, in the `mmap` build only, the mapping
  succeeded on a file as long as the option says (`Backed`). That build returns
  the size it was given and never looks at the file, while the `pmdk` build, which
  the sources and the `use_pmdk` target of the `Makefile` select, returns the
  file's length, and `malloc` gives what it is asked for.
* The two run functions: `num_thread * data_amount` is below 2^64 (`CheckPool`).
* Binding: no processor stands in the table twice (`TableIsInjective`), which the
  table of `main.cc:23` satisfies.
* `NeverShort`: the counters agree.
* `LabelsTellTruth`: the directories are listed alike. `CellIsItsFile` and
  `LabelsOwnCount`: the counts in a file's name are above 0 (a count of 0 falls on
  the border, among the labels).
* `TypesAreTold`: a later build declares the types of the earlier one first and in
  their order (`Layout` begins a build no other way).
* `NeverStale`: the pools are closed fewer times than the counter has values.

Where a premise is not met the code is wrong, or at least unspecified. The hazard
list says so where the program can get there.

What these runs met beside their properties: the four-argument usage comment of
`ssd_test.cc:195` against the five that `main` reads (the fourth `atol` gets the
NULL after the last argument, `ReadArgs`); `mmap`'s failure passes the assertion
at `main.cc:102` in the `mmap` variant of `pm_init`, not compiled (`MAP_FAILED`, a
pool of no bytes at 2^64 - 1); the comments of `iterator_base.h:55` ("the first
object of the specified type number") and `iterator_base.h:60` ("the next object
of the same type") against the functions they describe, which take no type number
and whose results `iterator.h:52-67` has to scan for the type, while
`POBJ_FOREACH` visits every object (`iterator.h:77`): `Iterate` follows the
signatures and the scans (`pmemobj_first`, `pmemobj_next`); and
the message at `main.cc:373` cannot be printed, because `pthread_setaffinity_np`
returns no negative number (`SetAffinity`).

### Bounds

* `RANDOM_SKIP` is 2 bytes, a block 1 to 4, a region 4 to 6, a pool up to 14;
  `MAX_OPT_LIMIT` is 5, so that capping happens (amount 6 in blocks of 1). Only
  sums, quotients and remainders of these sizes matter, and the small ones give
  every case: aligned or not, dividing or not, wrapping several times, block
  larger than region. `basic_fullsize` uses the real constants.
* `MAX_THREAD` is 2 or 3 for 32; one option set has one thread too many.
* `MAX_FINISHED` bounds what a clocked thread does before the deadline; after it
  each thread does one more operation, as in the code.
* `Durations` are the elapsed times a timer may return. An operation takes at
  least a nanosecond, so a duration below the number of operations is excluded.
* `nt_memcpy` uses the real piece sizes and all lengths 0..72, then lengths
  around every piece boundary up to 600, with 12 distances of the two buffers.
  Only the width of an address is scaled (4096 for 2^64), and the wrap of the
  subtraction kept.
* `persist_write` uses 64-byte lines, blocks of 1 to 330 bytes at four targets,
  and `MAX_OPS` = 2 operations: two are needed for one to hit a line the other
  left in another buffer.

* `ssd`: a batch of 2 requests for 8, pages and megabytes of two sectors, files
  up to 14 sectors, blocks 1 to 4, three totals that fill blocks and batches or
  do not; one thread for every engine and geometry, two for the interleavings.
* `parts`: the three builds with a file that is missing, shorter than the option
  says or longer; command lines of up to three arguments, ints of 4 bits and sizes of 8,
  so that amounts and products wrap; a table of two rows of two and teams of up
  to five on four processors, as 20 columns and 32 threads on the machine; a
  second of three nanoseconds with the clock at every offset to its boundary; a
  counter of 128 values that wraps during the emulation, on processors that agree
  or not; two directories with two files each, and three files of counts 0 to 2.
* `pmdk`: work sections of up to three settings of two fields, one of them twice;
  one thread using the cache while three closings and any openings of two pools
  at two addresses go on (the counter, of 4 values, does not come round); three
  places for objects in loops and in two lists, enough for the object before, the
  current one and the one after; two types beside the root and two objects of
  them, with a build that begins to count at 0 or 1.

### Fairness

`FairSpec` of the two runs assumes weak fairness of the main thread and of each
worker: they are POSIX threads, preemptively scheduled, and none waits for
anything but a join. The deadline is part of the main thread's steps:
`CLOCK_MONOTONIC` advances. `SsdRun` is the same, and its device completes the
requests it accepted. `GlobalClock` and `Latency` assume that the thread runs and
that time passes: the clock is weakly fair, no more. `TxBlock`, `Iterate` and
`ObjList` assume that the thread inside the macro runs and that the user's body
ends; aborts, crashes, allocations and frees need never happen. `NtMemcpy` is one
sequential call. In `PersistWrite`
the write-combining buffers and flushes drain on their own, which the processor
guarantees; dirty cache lines need not ever be evicted, and no fairness is
assumed for that.

## 4. Abstractions

* The data copied is left out; reads only matter as addresses.
* A block outside the pool may or may not hit a mapped page: both outcomes.
* The polled flag is read afresh by every test. It is a plain `int` written and
  read without synchronisation; the Makefile's `-O0` makes this the only outcome.
* Within a piece the 16-byte stores are one step: its lines drain independently
  afterwards, which gives the same sets of persistent lines. A line whose store
  is half drained still counts as not persistent.
* `memcpy` is one step of cached stores.
* Writing past `opts[32]` gives the run up as crashed.
* A thread that `pthread_create` did not create may end the run or hang the join;
  what such a run prints is left open.
* A failed file call leaves any part of the block written; a signal ends the
  process, and files are not followed beyond that.
* An argument is what `sscanf` and `strncmp` make of it, a key and a number or a
  name; text that fits none is one value. A name has at most 127 characters:
  `strcpy` puts it into 128 bytes (`main.cc:606-610`), and what a longer one would
  overwrite is not modelled.
* A directory of mixed results holds files named `r_w.result` only, one for a pair
  of counts. Another name would end the script with an exception before it saves.
* The libpmemobj library itself is external: stages change in its functions only,
  ranges are added and rolled back as documented in the headers, the four list
  functions relink in one step, objects are kept in the order of offsets. The
  bodies of loops stay within the documented use: what a library leaves in an
  object that was removed or freed is not in the repository.
* One transaction block, not nested; one thread at a time uses a list.
* Widths: addresses are 64-bit and far from the end of the address space, where
  sizes in the code are `size_t`; only the pointer difference of `nvmem_memcpy`
  wraps by design, and it does in the model.

## 5. Proofs

For all values of the constants, under the assumptions declared in the modules:

| Module | Theorem | Statement |
|---|---|---|
| `BasicRunProofs` | `TypeCorrect` | `Spec => []TypeOK` |
| | `RegionsArePartition` | `Spec => []RegionsPartitionPool` |
| | `SpansStay` | `Spec => []SpansStayInRegion` |
| | `SaneRunsAreRaceFree` | `Spec => []RaceFree` |
| | `CountsAreHonest` | `Spec => []CountIsHonest` |
| | `SaneRunsAreSafe` | `Spec => []SaneRunsDoNotFault` |
| `MixedRunProofs` | `TypeCorrect`, `SpansStay`, `SaneRunsAreRaceFree`, `CountsAreHonest`, `SaneRunsAreSafe` | as above, of the mixed run |
| | `NobodyStopsEarly` | `Spec => []NoEarlyStop` |
| both | `TotalsAreForkJoin` | `Spec => SummaryAfterAllReports`: the run implements `ForkJoin` |
| `CopyProofs` | `CopyTypeCorrect` | `Spec => []TypeOK` |
| | `CopyIsMemmove` | `Spec => []MovesLikeMemmove` |
| | `AlignedCopyReturns` | `Spec => []AlignedNeverTraps` |
| `PersistProofs` | `PersistTypeCorrect` | `Spec => []TypeOK` |
| | `SyncedWritesSurvive` | `Spec => []Durable` |
| | `WritesAreDurableStore` | `Spec => ImplementsDurableStore`: the thread and its memory implement `DurableStore` |
| `SsdProofs` | `SsdInvariant` | `Spec => []SsdInv`, the inductive invariant |
| | `EnginesWriteInPlace` | `Spec => []WritesInPlace` |
| | `ReturnsAreHonest` | `Spec => []ReturnIsHonest` |
| | `SaneArgumentsRaiseNoSignal` | `Spec => []SaneRunsDoNotFault` |
| | `SumIsForkJoin` | `Spec => SumAfterAllRates`: the SSD driver implements `ForkJoin` |
| `PartsProofs` | `RunsGetTheirOptions` | `OptionsSpec => []OptionsInv` |
| | `WorkersRunApart` | `AffinitySpec => []BindingInv` |
| | `SheetsStandForFiles` | `SheetsSpec => []SheetsInv` |
| | `TimerIsStopwatch` | `TimerSpec => IsStopwatch`: the timer implements `Stopwatch` |
| | `DeadlineNeverEarly`, `ClockTypeCorrect` | `ClockSpec => []NeverEarly`, `ClockSpec => []ClockTypeOK` |
| | `EmulationNeverShort`, `LatencyTypeCorrect` | `Spec => []NeverShort`, `Spec => []TypeOK` |
| | `ConversionsRoundTrip` | `Spec => []RoundTrip` |
| `PmdkProofs` | `DirectNeverStale`, `CacheTypeCorrect` | `Spec => []NeverStale`, `Spec => []TypeOK` |
| | `TransactionIsAtomic` | `TxSpec => AllOrNothing`: the block implements `AtomicUpdate` |
| | `BlocksRunTheirSections` | `TxSpec => []BlockInv` |
| | `FailureIsTold`, `BlockTypeCorrect` | `TxSpec => []ErrnoTellsFailure`, `TxSpec => []TxTypeOK` |
| | `CheckedTypesAreRight` | `LayoutSpec => []TypesAreTold` |
| | `LoopsSeeEachOnce` | `IterateSpec => []LoopsInv` |
| | `ListsAreRings` | `ListSpec => []ListsInv` |
| | `MacrosKeepTheirNames` | `ListSpec => ImplementsSequences`: the links implement `ObjSequences` |

**The two runs.** None of the invariants is inductive alone. The proofs build four
that are, each relative to the ones before:

1. `TypeInv` adds to `TypeOK` that a thread past its first lines has a non-zero
   block size and alignment, and a spawning main thread a non-zero number of
   threads: without them a quotient need not be a number.
2. `Layout` (of the proof modules; no relation to the module of that name):
   `next_addr` is the start of the next partition, the threads not yet
   reached do not exist, and a created thread has exactly the options of its
   partition; in a mixed run, those of its role.
3. `Placed`: a thread whose first address lies below `end_addr` stands on its
   grid (first address plus whole strides) below `end_addr`. `BlockFitsOnGrid`
   turns `Roomy` into "the block fits".
4. `Counted`: `i` and `finished_count` agree with the operations performed, stay
   within the total of an uncapped thread, and a clocked thread has stopped only
   if the flag is up.

`RaceFree` combines 2 and 3; `SaneRunsDoNotFault` is inductive given all four,
with `GridAligned` for the `--verify` assertion and, for the latency, that the
duration is at least the count. What does not depend on how threads are stopped
or options are chosen (types under a thread's step and the creation loop, room in
a partition, where blocks lie) is in `DriverProofs`, after the arithmetic of
strides, quotients and alignment.

**Totals.** `Joined` adds to these what the main thread knows of its team: the
threads below `mi` of a joining main thread, and all of them at its end, have
returned or were not created. So the totals are printed when every result is
final. The refinement maps a thread's return to a report and the printing to
the summary; the sum of the results stays the same term on both sides, and the
proof never evaluates it. `JoinInv` is the same for the SSD driver.

**Streaming copy.** `CopyInv` says, while the loop goes `Forward`, that exactly
what lies behind `dest` is written, that both pointers have moved by the same
distance, and that every piece but the last was whole lines, so that `dest` is
aligned if it ever was; `Backward` is its mirror image. What direction was chosen
has established how the buffers overlap (`Apart`, `Inside`), through a
subtraction that wraps (`Wraps`), and from it `stale = {}` follows piece by
piece: no source byte is overwritten before it is read. `PieceCovers` and
`SmallStoresCover` show that the stores of a piece and of its tail, overlapping
as they do, are exactly the bytes of the piece.

**Persistence.** `InOrder` orders the four places where the contents of a line
may be: what is in a buffer is newer than what it will replace, and a streaming
store is alone on its way, because it evicts the line. `Reached` says that in
front of what a copying or flushing loop has reached no line of the block is only in
the cache; at the fence of a synchronous write that is the whole block, and the
fence waits for the rest. `Durable` is inductive given both, and `MediaForward`,
a step of the media never takes a line back, gives the refinement.

**SSD engines.** `SsdInv` has for each thread what `main` has prepared
(`Prepared`), which engine may be where (`Phase`), the position of the next
write (`Position`: the turns started times what a turn writes, or an even number of
blocks), what has been written (`Prefix`: each unit below the position once,
except in requests under way; `Passes`: whole passes over every other block and
a part of one, and less than a block past the end), how many blocks are complete (`Counted`) and what the page cache
holds (`Clean`). A batch's requests do not overlap (`RequestsApart`), and a thread
touches no variable of another (`ThreadFrame`). `lost` qualifies those parts
that a failed call breaks.

**Options.** `OptionsIInv` relates the record to the arguments before `arg`
(`ParsedSoFar`: each field is the last of its arguments, narrowed, or its
default), says how far a program got at each `opt_pc`, with what pool
(`Phases`), that `pmem_size` is the number of bytes in the pool unless that is an
`mmap`, and that a started run has passed the pool check (`SizeNoted`) and is
the one the name begins with (`RunStarted`).

**Binding.** `BoundToOne` says that a successfully bound thread has a mask of one
entry of the table and an unbound one the mask of the program. `TableIsInjective`,
and that an index within a row stays in the row (`EntryInNode`), turn that into
`WorkersApart` and `OnNode`. The main thread binds itself last (`MainIsLast`), or
its workers would inherit its mask.

**Timer and clock.** The refinement maps every call to a step of the stopwatch;
`IsStopwatch` needs that fields read since `Start` are those of the clock, and
that a signed difference taken modulo 2^64 is the time that passed. The deadline
needs in addition that `begin` is the timer's start.

**Latency.** The unsigned difference of two reads is the number of cycles between
them modulo the word, whatever wrapped; the delay's cycles fit in a word.
`LatencyInv` says what each local is, a reading of one counter at a time the
history names, and that the test which ended the loop had compared the two.

**Sheets.** `LastHit` and `Kept` are the loop over the lines of a file as a recursive
function and what it leaves, stated without recursion. That such a function exists
(`SearchEnds`) and that every one of them keeps the last hit (`SearchKeepsLast`, by
the smallest counterexample) gives what `get_latency_and_throughput` returns.
`SheetInv` says which cells are written (`Past`, `Headed`, and `NothingElse`), with
what (`CellIn`, `HeadIn`), and where the label of a row is that of the cell: in the
column at work, and everywhere if the directories are listed alike (`LabelIn`).
`NothingLost` counts: a listing is a bijection, so the rows with a value and the files
that report it are as many. `MixedInv` has what a directory's handled files have
left: their values inside, labels only on the border, each with its own count.

**Cache.** `CacheInv` is `TypeOK`, `NeverStale` and three parts: the counter is
the number of closings modulo its width (`CounterCounts`); a cache whose number is
the present one holds the address its pool has now (`CacheFresh`); and between the
reads of a call what it noted is at least as old as the call's other knowledge, so
that the address it will return is one of `valid` (`CallSound`). `NoWrap` is
used once: equal counters mean equal closings.

**Transactions.** `TxInv` adds two parts to `TypeOK`. While the library is in its
`WORK` stage `OpenInv` holds: a field differs from before exactly if the section
has set it, and then its old value is in the undo log; the field about to be set
is in the log too. In every other stage `ClosedInv` holds: the log is empty and
the fields are the old ones or the ones asked for, as the error says. So the
contents that a crash would leave are the old ones up to the step that commits.
`RanInv` adds the history of sections: those of the stages before the present one
have run, in the order of the stages and none twice, so that at `TX_END` what ran
is the path its outcome prescribes.

**Layout.** `LayoutInv` says that declaration `i` got number `i`, by `__COUNTER__`
being `ref` plus the number of declarations so far; that a build repeats the
one before it as far as both go; and that each object of the pool bears the
number of the type it was last made as, in the order of the earlier build until
the present one is complete.

**Loops.** `LoopInv` places the loop (`Stands`): a loop that looks ahead has seen
what lies before the object it noted and must see what lies from there on; the
others stand at the current object, which their bodies leave alone. That there
is a first object and a next one is the well-ordering of the natural
numbers (`LeastFacts`), in the set form of the library's theorem.

**Lists.** The sequence that links stand for is a recursive function over them;
the proof never unfolds it but once. `Ring` says without recursion that links form
the ring of a given sequence, and `ChainIsRing` shows that the function then
returns that sequence, for a sequence of distinct objects of a finite set is not
longer than the set. `Hold` is the invariant: each head has a ring, no two share an
object, and what stands in none has null links. `LinkedHold` and `UnlinkedHold`
show what an insertion or a removal makes of a ring, by index; a move is both.
`Touched` collects what an operation on one object leaves alone (`Alike`: who
stands where, and before whom), and `ForeachInv` rests on that: nothing that was
visited lies ahead of the variable, and what is untouched and unvisited does.

Only model-checked:

* Liveness: `RunEnds`, `DeadlineEndsRun`, `CopyEnds`, `WriteReturns`, `WaitsEnd`,
  `LoopsEnd`. Fairness is out of the prover's reach.
* What sums and folds compute. The theorems about totals take the sum as it is.

## 6. Not modelled, and plan

* The shell scripts and `Makefile` sweep over parameters and keep no state; the
  one for mixed runs is the input of run `mixed_script`.
* Of the vendored headers, the declarations of libpmem, libpmemblk, libpmemlog,
  libpmempool, control and pool interfaces have no code to translate.
  `pmem_map_file`, the one function that `main.cc` calls, is the external mapping
  of `Options`.
* `asm_rdtscp`, `read_tsc` and the commented-out variants of `pflush.c` read the
  same counter or are not compiled.
* Formatting of output, the wording of messages, and what the data bytes are.

What is left to do, in order: nested transactions; two threads in the cache at
once, which the proof covers and the run does not.
