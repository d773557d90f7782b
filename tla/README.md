# A TLA+ model of cblas

cblas is a small multi-threaded BLAS: level-1, level-2 and level-3 routines with
SIMD kernels, a pool of worker threads that runs the tasks a routine is split
into, packing buffers for GEMM, CPU detection, statistics and autotuning. This
directory holds a model of the parts in which several threads meet, of the way work is cut for
them and of the kernels that do it, the instances TLC checks and the theorems TLAPS proves.

## The system

| Component | Code | State | Operations | Correct when |
|---|---|---|---|---|
| Thread server (POSIX) | `server.c` | `work_queue`, `cblas_thread_ids[]`, `queue_lock`, `server_lock`, `execute_lock`, `kickoff_event` | worker loop, `cblas_execute` (+`_async`, `_async_join`), `cblas_init_server`, `cblas_set_num_threads`, `cblas_shutdown` | each task of a batch runs once before the call returns; workers, handles and count agree; nobody waits for ever |
| Initialisation, thread count | `util.c` | `cblas_max_threads`, `cblas_server_alive` | `cblas_init`, `cblas_get_num_threads` | the count is in 1..`MAX_THREADS` and is the number of running threads |
| Packing buffers | `util.c`, `gemm.c` | `gemm_buffer_pool[]`, its count, caller slots | init, ensure, cleanup, claim, release | two running kernels never share a slot; every slot in use exists and is large enough |
| Dispatchers | `util.c` | none of their own | `cblas_level1_exec`, `_result`, `cblas_level2_exec`, `_cols` | the chunks cover every element once |
| GEMM driver | `gemm.c` | per call: packed panels, tile list | pack and macro-kernel batches | a kernel reads only panels that are packed; each tile of C is updated once per depth block |
| GEMV, GER, level-1 drivers | `gemv.c`, `ger.c`, `dot.c`, ... | none | gate, choice of a kernel, dispatch, reduction | the reduction adds what the batch wrote; layout, strides and beta are honoured |
| SIMD kernels | `kernels/` | none | one function per routine and instruction set | unrolled loops and remainders cover the operands once and stay inside them; every accumulator reaches the sum |
| CPU detection | `cpuid_*.c` | kernel pointers | detection, selection | the selected kernels are supported |
| Statistics | `util.c` | table of entries, a flag, a mutex | look up, record, reset, print | calls are not lost and the table does not overflow |
| Autotuning | `util.c` | thresholds | benchmark, binary search | the search finds the least probe that pays; the thread count is restored |
| Block sizes | `util.c` | MC, KC, NC | compute, override | buffers hold a block |
| Thread server (Windows) | `server_win32.c` | the same with a manual-reset event | the same | the same |
| Tracing, printing, tests, benchmarks | | | | not modelled: output and clients |

**How they interact.** A BLAS routine called by an application thread tests a size
threshold and `cblas_get_num_threads() > 1`. If it goes multi-threaded it builds an
array of work items *on its own stack*, links them and calls `cblas_execute`. The
server serialises whole batches (`execute_lock`), hands all items but the first to
the worker threads through one list (`queue_lock`, `kickoff_event`), runs the first
on the calling thread, and spins on each item's `finished` flag. Kernels pick their
packing buffer by `args->thread_id`: the worker's number, or the highest slot for
the calling thread. `cblas_init`, `cblas_set_num_threads` and `cblas_shutdown` change
the thread count, create and join workers, and grow or free the buffers.

**What is hard.** The thread count is a plain variable that callers, workers and
configuration calls read and write under different locks or none; a worker reads
it twice per turn; the decision of `cblas_set_num_threads` is made before it takes
its lock; work items are pointers into another thread's stack; creation of threads
can fail in two places that treat the failure differently; the broadcast comes after
the unlock; a reduction reads the thread count again after its batch. On Windows an event that stays
set replaces the condition variable. The statistics keep a bare pointer between two critical
sections. And the arithmetic: a length is cut by thread, cache block, panel, unrolled loop and
vector, each with a remainder, in some two hundred kernels. `PROJECT.json`
lists these at their lines ("hazards").

## Modules

| Module | Content |
|---|---|
| `BatchExecution` | What `cblas_execute` promises: one batch at a time, each task once, return after all (`cblas.h:1062-1087`) |
| `ThreadServer` | `server.c` and the parts of `util.c` around it, with its properties |
| `MCThreadServer` | TLC instances: symmetry and the sets of rules |
| `ThreadServerProofs` | in three parts: `TypeOK`; the inductive invariant of a batch, and that `ThreadServer` implements `BatchExecution`; which workers exist when, and the properties that need the rules of use: workers, slots, reductions |
| `Partition` | the dispatchers of `util.c` and the band and chunk loops of `gemm.c`, iteration by iteration |
| `PartitionProofs` | its five properties, for every length and thread count |
| `PackBuffers` | caller slots, pool slots and the kernels' use of them, against `cblas_init` and `cblas_shutdown` |
| `MCPackBuffers` | TLC instances: block sizes, a GEMM, sets of rules |
| `PackBuffersProofs` | slots are exclusive and none leaks, whatever the application does; under the rules of use panels fit and a shutdown frees all |
| `CpuFeatures` | the feature word from processor and operating system, and what a file built with given flags may execute (`cpuid_*.c`, the makefiles) |
| `VectorKernels` | the level-1 kernels as data, one definition per C function, and their part of the kernel table |
| `Level1` | a level-1 call from end to end: driver, kernel, shares, reduction |
| `Level1Proofs` | that each of its kernels is in order, and the four properties of `Level1` for every length, stride, processor and number of threads |
| `MatrixKernels` | the GEMV and GER kernels as data |
| `Level2` | a GEMV or GER call: driver, shares, blocks, passes and column loops |
| `Level2Proofs` | that each GEMV and GER kernel covers its share and asks for its strides, and the four properties of `Level2` for all constants |
| `GemmKernels` | micro-kernels, packing functions, strips, GEMM kernels as data |
| `Gemm` | a GEMM call: driver, batches, tasks in any order, packing, failing allocations |
| `GemmProofs` | that the GEMM kernels are in order as data, and the four properties of `Gemm` for all constants |
| `WinServer` | `server_win32.c`, on top of `ThreadServer` |
| `WinServerProofs` | it implements `BatchExecution` too, and its event stays quiet |
| `Stats` | the statistics table and its callers |
| `Autotune` | the threshold search, together with `Stats` |
| `AutotuneProofs` | the statistics count every call, a search finds the least length that pays, and tuning gives the thread count back, for all constants |
| `MCLevel1`, `MCLevel2`, `MCGemm`, `MCWinServer`, `MCAutotune` | TLC instances of these |

`EXTENDS`/`INSTANCE`: `MCThreadServer`, `ThreadServerProofs` and `WinServer` extend
`ThreadServer`; `ThreadServer` instantiates `BatchExecution` under a refinement
mapping; `WinServerProofs` extends `ThreadServerProofs` together with `WinServer`. `PartitionProofs`
extends `Partition`; `MCPackBuffers` and `PackBuffersProofs` extend `PackBuffers`; `Level1Proofs`
extends `Level1`, `Level2Proofs` extends `Level2` and `GemmProofs` extends `Gemm`.
`Level1` extends `VectorKernels`, `Level2` `MatrixKernels`, `Gemm` `GemmKernels`, each of which extends
`CpuFeatures`; `Autotune` extends `Stats` and `AutotuneProofs` extends it.
The parts meet at these places: the number of tasks of `Partition` is the size of a
batch in `ThreadServer` (`TaskCounts`); that two running tasks have different pool
slots, a guard of `PackBuffers` (`BeginTask`), is `SlotsExclusive` of `ThreadServer`; that a batch has
ended before the next begins, which `Gemm` builds on, is `BatchExecution`; that the shares of a
vector are disjoint, which lets `Level1` and `Level2` run them one after the other, is `ExactCover` of
`Partition`; a benchmark of `Autotune` changes the table of `Stats`.

### ThreadServer and the code

State. Globals keep their names. `work_queue` is the linked list as a sequence of
items; the item `<<c, i>>` is `queue[i - 1]` in the stack frame of caller `c`. Its
flag `finished` is membership in a set; `args->thread_id` is `thread_id[x]`; `runs[x]`
counts completed kernel calls and exists only for the properties. A worker is a
`pthread_t` handle; `wpc` is where its loop is, `thread_num` the argument it was
started with. A caller has a program counter `pc` and its locals. `inited` is
history: `cblas_init` has returned and no shutdown was called since.

Steps. Every access to shared state another thread can interleave with is a step; a
critical section is one step only when it makes a single access or all others are
excluded by the same lock. So, for `cblas_worker_thread`: lock, test the wait
predicate, sleep (release and sleep are atomic), re-lock, decide (exit, pop, retry),
store `thread_id`, run the kernel, store `finished`. The caller: read the count and
build, take `execute_lock`, append, broadcast, store its slot, run, mark, join item
by item, unlock. The three configuration calls are followed lock by lock, including
both unlocked tests in `cblas_set_num_threads` and the unchecked `pthread_create` at
`server.c:102` (`GrowCreateFails`: the handle stays what it was or becomes `Junk`).
In the release build the `assert` before the flag is set is what `NoDanglingItem`
states (`x \notin finished`).

Environment. `Requests` are the counts an application asks for (0, above
`MAX_THREADS`, in between). The minimum with `CBLAS_THREADS` and the core count is
folded into the request for `cblas_init` and is `Cores` for `cblas_set_num_threads`.
`CreateFails` says where thread creation may fail, `SpuriousWakeups` whether the
condition wait may return unprompted. `Rules` are the rules of use of
`docs/THREADING.md:150-175` and `:394-401`, one switch each; the server enforces none of
them, so a run that relies on one names it, and so does a theorem: in its hypothesis
(`ASSUME ServerRules \subseteq Rules`), and those without such a hypothesis hold for every use of the library.

Abstractions. Data, kernels' numerical work, MT_DEBUG tracing, thread affinity and
priority are left out; the stores to `cblas_max_threads` and the flag are atomic
(an aligned `int`; the flag is a C11 atomic with release/acquire, so an item's
results are visible to its caller when the flag is).

### Partition and the code

One behaviour is one call after another. `Call` chooses a loop (`routine`), a length and the
thread count the call read; the `...Task` actions are one iteration each and append the task to
`tasks`, which stands for `queue[]`/`args[]`; `Dispatch` is `queue[count - 1].next = NULL` and
`cblas_execute`. A task is the range it covers: `args[i].n`/`m`/`ib`/`n` is its size, and the pointer
arithmetic (`x + partition_size * incx * byte_stride`, `a + row * a_row_stride`) its start,
so strides and element types fall away. Two schemes occur: `cblas_level1_exec`, `_result`
and the rows of `cblas_level2_exec` divide what is left by the threads that are left; the
columns of `cblas_level2_exec`, the bands of both GEMMs and the packing chunks of sgemm fix a
width rounded up to a granule (16 or 8 columns, 6 or 4 rows, 12 columns). `Capacity` is the
size of the array the loop writes. Indices are unbounded: `CBLAS_INDEX` is a `size_t`, and a
length near its limit could not be stored.

### PackBuffers and the code

State. `buf[i]` is `allocated` together with the block sizes the slot was allocated for, for pool
slots `0..MAX_THREADS-1` and caller slots above, numbered as `cblas_args_t.thread_id` numbers them.
`label` is `caller_slot_blocks[]`, `busy` `caller_slot_busy[]`, `count` `gemm_buffers_count`; the flag
`gemm_buffers_initialized` is `count > 0`. The three block-size globals change together in
`blocks`, since no documented use overlaps their computation with anything. `alive` is
`cblas_server_alive`. `packA` and `packB` are the slot whose memory a kernel has decided to pack into,
`None` standing for its own `malloc`. `inited` and `quiet` are history for a rule and a property.

Steps. `BeginGemm` to `EndGemm` is a GEMM on the calling thread: the scan of
`cblas_claim_gemm_buffer` slot by slot, size test and free, allocation (which may fail and roll back),
label, release on failure; then per kernel call `cblas_get_gemm_buffer`, the comparison of the panel
with the globals, packing, return; and the release. `BeginTask` starts a task of a
multi-threaded GEMM under a pool slot. `cblas_init` is two steps with anything its rules
allow in between; `cblas_shutdown` claims the caller slots one by one, frees them, then the pool.
The pool is freed in one step: no task may run then. A caller slot's memory is touched only by
its holder, which is what `SlotsHeldOnce` is about.

### Level1 and the code

A kernel is a list of instructions: loops (how many elements an iteration takes, as which vectors,
into which accumulators, under which condition), then for a reduction the addition of the accumulators,
of a register's halves, of its lanes, and the root. Each of the C functions of `kernels/` is one
definition of its name in `VectorKernels`; what the arithmetic does to an element is left out, which element it
is is not. `UnitKernels` is the table `init_blas_kernels` fills, overwritten from the base upwards; a
call takes the unit-stride kernel only when every stride it has is 1. `Level1` executes the chosen
list on each share, an instruction a step. An accumulator holds the *set* of elements added into it, so
that an element lost in an upper half, or added by two lanes, shows in the result. `Hosts`
are a processor's flags and an operating system's saved registers; `runs` the instruction sets that
do not fault there, against the flags the Makefile builds the kernel's file with (`KernelRuns`).

### Level2 and the code

`DotForm` is the driver's reduction of four cases (layout, transposition) to two kernels. The stored
matrix is walked in passes over rows and, in each, loops over columns of decreasing width; `Enter`
scales y and tests for the early return, `SweepColumns` is an iteration of a column loop, `StoreRows`
the end of a pass (the dot form adds its registers to y), `NextBlock` the cache blocks. A product that
reaches the result is recorded by the addresses of its three operands, computed with the stride the
kernel uses, which in some kernels is 1 whatever the caller said. GER's loops for a column-major A take no
stride at all (`Contiguous`) and step over A by m.

### Gemm and the code

`RowMajor` exchanges A and B for a column-major C. `plan` is the driver's choice: the loop of the
calling thread, bands of rows, tiles (dgemm, cut further when there are fewer than threads), or the
shared panels of the cooperative NEON kernels, whose packing and macro batches alternate for each depth
block. A batch is a set of tasks and any of them goes next: only the end of the set orders two
batches, as only the join does in the code. A kernel call packs the panels of B, packs a strip of A,
and reads both *through* the packed panels: a panel is a function from index to the address it
was filled from, so a wrong layout, a stale panel or a wrong leading dimension gives a term with the
wrong addresses. `sum` is the set of terms added to C, `count` the number of additions; together
they say each once. `KernelGivesUp` is the kernels' return when `malloc` fails.

### WinServer and the code

`kickoff_event` is the manual-reset event: `SetEvent` lets the sleepers through and stays set for who
comes, until `ResetEvent`. The worker tests for excess without a lock and takes an item under
`queue_lock`, in one step since nothing else happens inside. Creation that fails leaves a NULL handle and
the count as it was, in `cblas_init_server` and in the growth loop. Growing does not extend the
buffer pool. What the two files share is `ThreadServer`'s action with the event unchanged. The comment at
`server_win32.c:249` announces a reset of the event when the queue has run empty; the code there
has none, and the model follows the code.

### Stats and Autotune and the code

A record of a call is five steps: the unlocked test, `init_stats_table` (test, lock, test, clear, set
the flag), the entry found or made under the lock, the count under the lock again.
The thread between the last two holds an index, the code's pointer. `recorded` is history. Counters
wrap at `COUNT_MOD`. The mutex of the Windows build is itself created after an unguarded test
(`util.c:294`); the model has the statically initialised one of POSIX.

`Autotune` follows `find_mt_threshold`: probe, benchmark with one thread, benchmark with all, narrow. The
hardware is one number, `crossover`: a call that uses threads is faster enough from that length on.
Whether it uses them is `mt_used` of the routine, with the threshold still in force.

## What TLC checks

| Run | Instance | Checked |
|---|---|---|
| `server` | 2 callers, 2 handles, `MAX_THREADS` 3, batches up to 3, requests 0, 2, 5; all rules kept; creation may fail in `cblas_init`; fair, no symmetry. 100 thousand states | `TypeOK`, `SlotsExclusive`, `SlotsBacked`, `WorkersMatchCount`, `ReductionCoversBatch`, `ShutdownJoinsAll`, `BatchCompletes`, `ConfigCompletes` |
| `server_unruly` | 2 callers, 2 handles, `MAX_THREADS` 2, batches up to 3; applications compute and configure at once, before `cblas_init`, re-initialise, set the thread count from two threads at once; creation may fail everywhere; spurious wakeups; symmetry. 988 thousand states | `NoDanglingItem`, `NoTaskLost`, `ImplementsBatch` |
| `partition` | lengths up to 52, up to 5 threads, seven loops. 8 thousand states | `TypeOK`, `ExactCover`, `TasksFit`, `WholePanels`, `Balanced` |
| `pack_buffers` | 3 threads, 2 caller slots, 3 pool slots, two block sizes, the allocation of one pool slot and of either caller slot may fail, all rules kept; symmetry. 586 thousand states | `TypeOK`, `SlotsHeldOnce`, `BusyIffHeld`, `PanelsFit`, `CleanupFreesAll` |
| `level1` | 20 routines, 7 processors whose flags nest, 4 operating systems, lengths up to three rounds of the widest loop and 3, strides 1 and 2, 1 to 3 shares. 443 thousand states | `InBounds`, `EachElementOnce`, `SumsEverything`, `KernelRuns` |
| `level2` | GEMV and GER, both precisions, layouts, transpositions, 7 processors, 1, 7, 13 x 1, 7, 27, padded and tight `lda`, strides 1 and 2, 1 and 3 threads. 1.0 million states | `GemvExact`, `BetaOnce`, `BetaZeroClears`, `GerExact` |
| `gemm` | both precisions, layouts, transpositions, 5 processors, 13 x 33 x 7, 5 x 3 x 3, 9 x 8 x 5, and 8 x 13 x 7 for every alpha and beta and failing allocations; 1 and 3 threads. 25 thousand states | `ProductExact`, `NoStalePanel`, `BlocksWhole`, `TasksDisjoint` |
| `win_server` | as `server`, creation may fail in `cblas_init` and in growing. 212 thousand states | `EventQuiet`, `ImplementsBatch`, `BatchCompletesByWorkers`, `ConfigCompletes` |
| `services` | 2 callers, a table of 2 for 3 routines, counters that wrap at 2, shutdowns; lengths 3 to 20, 4 crossovers, three defaults, 1 to 3 threads on 2 cores, failing allocations. 1.0 million states | `StatsExact`, `ThresholdIsCrossover`, `ThreadsRestored` |
| `set_before_server` | one caller; violates | `BatchCompletes` |
| `norms` | the norms on vectors of two shares; violates | `NormIsRootOfSum` |
| `ger_documented` | 4 x 4 updates; violates | `GerAsDocumented` |

*Why these bounds.* Two callers are the least with which batches, or configuration
calls, can contend. Two workers are the least with which the pool can shrink and
keep a worker, grow by one and by two, and one worker can exit while another takes
an item. A batch of three items has two for the workers, so that one of two workers, or the only
one, takes both. Batches of four items, and three handles with `MAX_THREADS` 4 (2.5 million states),
find nothing more for the safety properties. In `server_unruly` one worker
at a time is enough for every path, since it is the failures and overlaps that
matter there; its second handle lets an exited, unjoined worker coexist with a new
one.

In `partition`, 52 is more than four of the widest granules, so that two threads get several
granules each and the last one a rest, and five threads divide it unevenly; lengths below the
thread count are included. In `pack_buffers` three threads are the least that can hold both
caller slots and find none, three pool slots the least with which a live server can grow, and the
GEMM (`n` 3, `k` 2) has a panel of B that fits the larger blocks and not the smaller, so a slot
of the wrong size is noticed and the kernel's own `malloc` is used too.

In `level1` the lengths reach, for each kernel, two full rounds of its widest loop and every remainder of
it and of the loops after it. In `level2` 13 rows and 27 columns make each kernel go through each of
its row passes and column loops, one iteration and several; `GEMV_T_BLOCK` and `GER_BLOCK_SIZE` are lowered
so that a second, partial block occurs. In `gemm` 13 x 33 gives each kernel a full strip, every one of its
smaller strips, two panels of B and columns left over; `cblas_gemm_mc`, `_kc`, `_nb` (9, 5, 18) are
lowered so that a second, partial block occurs in each direction, a depth of 5 or more runs the
unrolled depth loop and its remainder; `TILED_MIN` and `MIN_TILE` (256 and 64 in the code) so that tiles are cut
further. In `services` the probes 4, 8, 16 and 20 are three powers of two and a clipped one; crossovers
lie below, between and above them and so do the thresholds in force; evaluated outside TLC with the real
bounds 1000 and 1000000 the search gives the same answers.

*Deadlock* is checked in every run but three. It is off in `server_unruly` and
`set_before_server`, where the application breaks rules and the code really can stop:
two callers wait for workers that were retired or never existed; and in `win_server`, where a call
waits for ever when no worker could be started at all.

*Fairness.* Each worker and each caller is weakly fair as a whole: the operating
system runs a thread that can run. No mutex is fair and no application need call.
`BatchCompletes` therefore says what holds of a batch that has got `execute_lock`; that
every caller eventually gets it is not claimed (a pthread mutex does not promise it). In `win_server`
the same holds as long as one worker could be created (`BatchCompletesByWorkers`).

### Findings

Places where the code does not do what its documentation says; each has a run.

1. `cblas_set_num_threads(n)` without a live server (`cblas_init(1)`,
   `CBLAS_THREADS=1`, or after shutdown) stores the count and creates no worker; the next
   multi-threaded call never returns (`set_before_server`).
2. A multi-threaded `snrm2` or `dnrm2` adds the roots of its shares instead of taking the root of the
   sum (`nrm2.c:42`, `norms`).
3. GER with alpha 1 on the 128-bit kernels reads x and y as if their strides were 1
   (`kernels/ger_k.c:98`), and column-major GER reads `a[col * m + row]`, `x[row]` and `y[col]`, ignoring `lda`,
   `incx` and `incy` (`ger.c:414`). `ger_documented` stops at the row-major case, which it meets first. With
   `Cpus = {{}}`, where the row-major kernels honour the strides, it fails on column-major calls, for each of
   `incx` 2, `incy` 2 and a padded `lda` alone. `GerExact` states what GER does compute, with these as exceptions.

### Limits that hold under rules of use

No run shows these; a property holds because a rule excludes them. The first two also occur in
`server_unruly`, which checks that batches stay intact all the same.

- Overlapping `cblas_set_num_threads` calls compare before they lock and can leave a count without its
  worker (rule `set_alone`, `WorkersMatchCount`).
- `cblas_init` on a running server overwrites the thread count, and `cblas_shutdown` joins too few
  (rule `init_once`, `ShutdownJoinsAll`).
- `cblas_shutdown` returns at once when no server runs, so what `cblas_init(1)` allocated stays; after
  `cblas_init(2)` under other block sizes a kernel packs past the end of slot 0 (rule
  `init_server`, `PanelsFit`).
- Autotuning cannot lower a threshold: a probe uses threads only above the threshold in force, so
  `optimal_threshold` is never below it and a second tuning starts from the first one's result; and the GEMV
  and GEMM thresholds end at half of GER's default or more (`util.c:1465-1473`), far above their own.
  `ThresholdIsCrossover` says this of the search (`s > threshold[...]`).
- On Windows, growing leaves the buffer pool as it is: the new workers' kernels allocate for themselves.

## What is proved

Every property the passing runs check has a theorem, but the liveness properties.

### The thread server

With the assumptions `ThreadsAssumption` (callers, handles, `Null` and `Junk` are
distinct), `BoundsAssumption` (`MAX_THREADS`, `Cores` positive; a batch may have a
task per thread) and `EnvironmentAssumption`, for **every** set of callers and handles,
every bound, every subset of the rules and every failure switch:

- `TypeCorrect`: `Spec => []TypeOK`. The type invariant is strengthened by `LocalsSet`
  (the count a configuration call is about to store is at least 1; only a batch of
  several items is queued) and `HandsFull` (a busy worker holds an item).
- `BatchInvariant`: `Spec => []BatchInv`, the inductive invariant behind the rest. It
  follows each item: `OnePlace` (it is not twice in the queue or in two hands),
  `NoDanglingItem` (the place belongs to the caller that holds `execute_lock` and is
  between append and join), `NoTaskLost` (no item is missing), `RunsMatchPlace` (the
  kernel has run 0 times while queued or in hand before the kernel's return, once
  after), `FirstItemRuns`, `PrefixFinished` (what the join has passed is finished) and
  `LockHeld`. None of these is inductive alone: that the queue is empty when a batch is
  appended needs `NoDanglingItem` and `LockHeld`; that the item stays live when the join
  ends needs `PrefixFinished`; that a task does not run twice needs `OnePlace`.
- `ItemsStayLive`, `TasksStayKnown`: two of its parts, which the runs check.
- `Refinement`: `Spec => ImplementsBatch`. `execute_lock` is the owner of the batch,
  `items` of the owner its size, `runs` of the owner's items the counts. `Execute` maps to
  `Begin`, a kernel's return (worker or caller) to `Run`, `ExecuteReturn` to `Return`, all else
  to stuttering.

The proof of these first shows that all but nine actions are `Quiet` - they leave items where they
are - and that `Quiet` preserves the invariant; each of the nine moves one item and has
a lemma. Since no rule of use is assumed, the theorem says that nothing an
application does with `cblas_init`, `cblas_set_num_threads` or `cblas_shutdown` can make
the server lose, repeat or outlive a task. What it can do is make the call hang, which
is a liveness question.

*Under the rules of use* (the third part of `ThreadServerProofs`). Which workers there are, and which slot a kernel gets,
does depend on what applications do, so these theorems take the rules they need as a hypothesis on the
constant `Rules`; the run `server` is an instance that satisfies it, and "Limits that hold under rules of use"
says what goes wrong without. `ServerRules` are no BLAS call and no second configuration
call during a configuration call (`no_compute`, `config_alone`, `set_alone`), and no `cblas_init` on a live server
(`init_once`).

- `PoolInvariant`: `Spec => []PoolInv`. The thread count is a number and the workers a set, and no step
  changes both: the invariant says how far apart they are at each point of each call. `Staffed(S)` says the
  handles at the numbers in `S` are workers and the rest of the array is null; `Stage` gives `S` for every
  program counter: while the pool shrinks, those the new count asks for and those not joined yet
  (`server.c:66-79`), while it grows, those created so far. `Registered` makes number and handle a bijection and
  `ExitedExcess` says that a worker left only because its number is past the count, which is what makes
  a later growth find nobody missing. The two exclusions the rules give (`OneConfig`, `Apart`) are part of the
  invariant, since a rule speaks of the moment a call begins.
- `WorkersMatch` (`WorkersMatchCount`): between configuration calls the workers are those the count asks
  for. It needs in addition that creation does not fail where the code ignores it (`server.c:102`).
- `ShutdownLeavesNobody` (`ShutdownJoinsAll`): a handle is non-null for each live worker (`Registered`), and
  the joins end with an empty `Staffed`.
- `SlotsStayExclusive` (`SlotsExclusive`): a running item's `thread_id` is the number of the worker that runs it,
  or `CallerSlot` on the calling thread (`SlotsInv`); numbers are distinct by `Registered`, a batch has one caller by
  `BatchInv`, and no worker that may still run an item has the caller's number, because the count does not
  change during a batch and every other worker is below it.
- `SlotsStayBacked` (`SlotsBacked`), under all of `AppRules`: the pool has a slot per thread whenever a kernel may run
  (`BuffersInv`): from the creation of the pool on in `cblas_init`, all through `cblas_set_num_threads`, which grows
  the pool before the count (`server.c:94`), and until a shutdown begins.
- `ReductionsCover` (`ReductionCoversBatch`), under `no_compute` alone: the count read after the batch is
  the count it was cut by.

### The Windows server

`WinServerProofs`, with the same assumptions on the constants and **no** rule of use:

- `WinRefinement` (`ImplementsBatch`). The invariant is `BatchInv` again; the actions taken from `ThreadServer`
  bring their lemmas with them, and those that differ are either `Quiet` or move one item as their
  counterparts do. What has to be shown anew is that a worker that found no excess, and takes an item
  after the count has changed under it, keeps the invariant all the same (`server_win32.c:218`).
- `EventStaysQuiet` (`EventQuiet`). `EventInv` says that when the event is signalled some caller is between a signal
  and its reset (`Signals`). It is inductive because whoever stops being such a caller resets the event, and
  does so for everybody: it may be down although another caller counts on it, but never up with none.

### Partitions

`PartitionProofs`, with `BoundsAssumption` only (`MaxLength` a natural number, `MaxThreads`
positive; the length bound serves TLC and the proof never uses its value):

- `PartitionTypeCorrect`, `CoverIsExact`, `ArraysSuffice`, `SharesBalanced`, `PanelsWhole`: the properties
  `TypeOK`, `ExactCover`, `TasksFit`, `Balanced`, `WholePanels` of every call of every loop.
- They follow from one inductive invariant, `PartInv`: the tasks so far cover
  `0..offset-1`, clipped to the length, without overlap (`CoverShape`); in the even scheme after
  `i` tasks `offset` is `i * Quotient + Least(i, Remainder)` and a share the quotient or one more
  (`EvenShape`), the closed form of "divide the rest by the threads that are left"; in the fixed
  scheme task `i` starts at `(i - 1) * width`, and the width is a multiple of the granule with
  `width * threads >= total` (`FixedShape`), which is why the tasks fit. The arithmetic is in lemmas on
  `CeilDiv` (`CeilDivBounds`, `CeilDivLeast`, `CeilDivShare`), from the uniqueness of quotient and
  remainder.

### Packing buffers

`PackBuffersProofs`, with `BuffersAssumption` (sizes are naturals, at least one slot of each kind),
for every set of threads and every number of slots, and the first three for **every** subset of the rules:

- `BuffersTypeCorrect`, `SlotsExclude` (`SlotsHeldOnce`), `NoSlotLeaks` (`BusyIffHeld`). The
  inductive invariant adds `WellPlaced`: a thread in the middle of a claim or a cleanup points at
  a caller slot, so the scans stay in the array. `LockStep` is the heart: a step that takes a
  slot only when its flag is clear, and clears the flag of the slot it gives up, keeps
  both properties; each action is shown to be such a step.
- `PanelsAlwaysFit` (`PanelsFit`), if `AppRules \subseteq Rules`. A size passes through four places before a kernel
  packs by it: the globals, the label of a caller slot, the allocation, and the panel sizes the kernel has
  computed. `SizesInv` relates them: pool slots are allocated at the size in force or not at all
  (`PoolSized`), a caller slot at the size of its label but between allocation and labelling (`Labelled`), the slot of a
  call that has finished its claim at the size in force (`SlotSized`), and a kernel packs into a slot only if it found
  its panel no larger (`Packing`). That the globals do not change in between needs `ConfigApart`, and that a
  pool slot never keeps an old size needs that no pool outlives its server (`PoolServed`) - the one rule
  `init_server` is there for.
- `CleanupLeavesNothing` (`CleanupFreesAll`, an action property), if `init_alone` and `shutdown_alone` are kept: the scan
  has freed the caller slots below the one it is at (`PassedFree`) unless a GEMM started since, and nothing is
  allocated at or above `count` in the pool (`PoolBelowCount`), so that freeing below it frees all.

### Level-1 routines

`Level1Proofs`, with `Level1Assumption` (the routines have kernels; `Rounds`, strides and thread counts are
positive), for every processor and operating system, every stride, every number of threads and - since
`Rounds` may be anything - every length.

The first half is about the kernels as data. Each of the 134 is shown to have one of three shapes
(`PlainShape`, `SumShape`, `NormShape`) and each shape to be in order (`CodeOK`): the vectors of an iteration
are disjoint and fill its step, a loop over single elements comes last, and in a reduction every instruction
finds the summands where the one before left them - in four accumulators, in one, or in the scalar (`Leads`,
`Traced`). The tables are then right for every routine, instruction set and stride (`StridedKernelsRight` to
`NeonKernelsRight`), and so is whatever is chosen from them (`ChosenRight`). The second half is the
invariant of executing any code that is in order, so it does not look at a kernel again:

- `Level1Invariant`: `Spec => []Inv`. In a kernel the loops have taken exactly the first `i` elements of the share,
  `i` is a multiple of the first loop's step while that loop runs (which lets it round its bound instead of
  comparing), and nothing is left once the loop over single elements is over (`LoopInv`). A summand is in
  exactly one lane of those alive at this instruction (`SumInv`). Over the call, the shares so far have
  covered a prefix of the vector without overlap and the last one ends where the vector ends (`ShareInv`, `ResultsInv`).
- `SharesStayInBounds` (`InBounds`), `ElementsOnce` (`EachElementOnce`), `ReductionsSumEverything` (`SumsEverything`)
  follow from it.
- `KernelsRun` (`KernelRuns`): the kernel called is its routine's and holds no instruction that faults, for every
  processor that satisfies `FlagsNest`: AVX2 comes with AVX, FMA3 with AVX2 and AVX-512 with FMA3. The library
  takes this for granted, and the hypothesis cannot be dropped: `cpuid_x64.c:410` selects a
  kernel by FMA3 alone while `Makefile:182` compiles its file with `-mavx2 -mfma`, so on a processor with
  FMA3 and no AVX2 (AMD's Piledriver) it may fault. The processors of the run `level1` satisfy it.
  `KernelRuns` is about level 1 alone: `kernels/ger_k.c` holds `sger_k_base` and `sger_k_sse` as well as the AVX
  kernels and is built with `-mavx2` as a whole (`Makefile:199-200`), so GER may fault in the same way on a processor
  without AVX2. No run shows either.

### GEMV and GER

`Level2Proofs`, with `Level2Assumption` (sizes, strides, block sizes and thread counts are positive, padding is a
natural number), for **every** size, stride, leading dimension, layout, transposition, block size, number of
threads, processor and operating system.

The first half looks at the kernels as data again (`PassesOK`): the last pass takes single rows, every pass
ends on a loop over single columns that goes on while a column is left, and a loop may round its bound down to a
multiple of its step only where it starts at such a multiple, that is, first or after a loop whose step is a
multiple of its own. A GEMV kernel also asks for the strides its loads take for granted (`Asks`); of the GER
kernels those of 256 and 512 bits do, the 128-bit ones ask for alpha alone (`GerOK`). `TableOfKernels` shows this
of every entry that any feature word selects, `GemvCallOK` and `GerCallOK` that the drivers turn any call into
one the walk can execute (`CallOK`), with the operand vectors on the right sides of the stored matrix (`OperandsOK`).

The second half is the invariant of walking any such kernel over any matrix:

- `WalkInvariant`: `Spec => []IInv`. The entries recorded so far *tile* what is behind the walk (`Tiles`): their
  cells are the shares before, the blocks before, the passes before, and the rows of this pass up to the column it has
  reached, which for the dot form are still in registers; no two entries share a cell. `WalkOK` says that a pass is
  left only when its rows do not fit and a loop only when its columns do not; `ShareOK` that a share lies in the
  matrix, takes all of one dimension, starts where the one before ended, and that the last one ends with the matrix.
  `StridesOK` says that what was recorded used the strides, whatever the kernel was asked for, and `BetaOK` which
  elements of y beta has reached: rows behind the walk in the dot form, the columns of the shares entered in the other.
  None of these is inductive alone: that beta meets an element once needs to know where the products recorded
  so far have touched y, that is `Tiles` and `StridesOK`.
- `EveryProductOnce` (`GemvExact`) and `EveryUpdateOnce` (`GerExact`): at the end the tiles are the whole matrix, a cell is
  a product of the operation (`WantedCells`), and different cells are different products since strides are
  positive (`CellOfProduct`). For GER `GerAddressed` says why the supported calls use the strides.
- `EveryElementScaledOnce` (`BetaOnce`), `ClearedBeforeRead` (`BetaZeroClears`).

### GEMM

`GemmProofs`, with `GemmAssumption` (the routines are sgemm and dgemm; sizes, block sizes, thread counts and the least
tile are positive, padding is a natural number), for **every** size, leading dimension, layout, transposition, block
size, threshold, number of threads, processor and operating system, every order of the tasks and every failing
allocation.

The first part looks at a kernel as data (`KernelOK`, `OwnOK`): one to four kinds of strips, the first as often as it fits,
a kind taken at most once only where two of it would not fit, single rows last; panels of B as wide as
the micro-kernels read them, and strips of A packed by rows, or by columns when A is transposed. `TableOfKernels` and
`SharedKernels` show this of every kernel in the table. From it follow `RowsTaken` (the strips take each row once; the
recursive function `RowsOf` is unfolded for its at most four values, as no induction is needed),
`PacksPanels` and `PacksStrip` (a packed
panel holds, at the index the micro-kernel reads, the element of B or A it wants), and `KernelAdds`: a kernel whose
panels are right adds exactly the terms of its block (`BlockTerms`), and `BlockCount` many of them.

The second part is the invariant of a call:

- `GemmInvariant`: `Spec => []IInv`. `CallOK` says what the driver has made of the arguments (`CallsAreOK` shows it of any
  call the input checks let through), `StageOK` which plans, depths and panels go with which stage. `AddTasksOK` says
  that every task in the set is a rectangle of C, at the addresses of A and B that belong to it, somewhere along its loop
  (`LoopOK`), and that two of them are apart; `PackTasksOK` the same of packing tasks and columns. `PanelOK` says that
  the shared panel holds the current block in every column that no packing task is left for. `SumOK` accounts for each
  term: what has been added is the product's and as many terms as additions (`SumCounted`); a term of a
  depth no batch was started for is not there yet (`LaterClean`), nor one that a task has still to add
  (`TodoClean`); unless an allocation failed every other one is (`NothingLost`); and a depth block of an element is
  there altogether or not at all (`WholeSoFar`). That an addition is never repeated is not inductive without `TodoClean`
  and `AddedApart`; that no stale panel is read needs `PanelOK` together with the empty task set that lets
  the macro batch begin.
  `BatchOK` is the fact about the driver's partitions, for bands, tiles, macro kernels and the loop of the calling
  thread alike (`GridBatch`), and `Splits` the one about a step of a task's loop: what was to do is the
  next kernel call's block
  or is left to the task after it, not both.
- `EveryTermOnce` (`ProductExact`), `NothingWrongIsAdded` (`NoStalePanel`), `NoTwoTasksWriteOnePlace` (`TasksDisjoint`),
  `FailuresLoseWholeBlocks` (`BlocksWhole`).

### Statistics and autotuning

`AutotuneProofs`, with `StatsAssumption` (the empty name is no routine's; at least one entry) and
`AutotuneAssumption` (COPY is among the tuned routines, all are routines of the table; at least one core),
for every set of threads and routines, every table size, counter width, range of lengths and number of calls:

- `StatsCount` (`StatsExact`). The inductive invariant `StatsInv` says of the table that used entries come
  first and have different names, that a name's counter is the number of calls recorded for it, and that
  a routine that found the table full finds it full for good (`TableOK`, with a lemma for each thing done to
  a table); and of the threads that one at most is between the test under the lock and the flag, with an
  empty table to publish (`OneClears`), that nobody holds an entry while the flag is down (`NothingYet`), and that
  a thread about to count holds the entry of its routine (`PointerGood`). The last is not inductive without
  the first two: only they exclude that the table is cleared between the two critical sections.
- `ThreadCountReturns` (`ThreadsRestored`): between benchmarks the count is the first one or that one cut
  to the cores, and in a benchmark the saved count is (`ThreadsInv`).
- `ShortestPayingProbe` (`ThresholdIsCrossover`), for every range, threshold in force and crossover. It needs
  `RangeAssumption`, which the code's 1000 and 1000000 satisfy: the range has more than one length, its
  first is not a power of two and its last is within the doublings. Without the second the search is wrong: it never
  tries its last candidate, and on 1 to 4 with a crossover at 1 it ends on another probe.
  The inductive invariant `SearchInv` says that no candidate below `low` has a probe that
  pays, that the probe of `high + 1` does and is what was found (`Narrowed`), and that the thread count by which a probe
  was judged is the one in force (a count above the cores is cut by the first benchmark only). The
  untried candidate is made up for by `ProbesPaired`: its probe is that of the next length, or of the one before,
  which did not pay. `PowerUnfold` (the recursion of the doublings has a solution) and the lemmas on powers are proved by
  a least counterexample, the provers having no induction.

### Only model-checked

- Liveness (`BatchCompletes`, `BatchCompletesByWorkers`, `ConfigCompletes`): the prover does not do fairness.

## Not modelled

- Floating-point values: a kernel is followed to the elements it combines, not to their rounding; `rotg`
  is nothing but formulas.
- The AVX-512 GEMM kernels, which nothing calls (`cpuid_x64.c:450` keeps them out of the table), and
  `cblas_sgemm_naive`, a reference no library code calls.
- The decoding of CPUID leaves (vendor, brand, caches, core kinds) and the block sizes derived from
  them: any block sizes are allowed for, and buffers are sized from whatever they are.
- MT_DEBUG tracing, configuration printing, tests and benchmarks: output and clients.
- The library built without MT_ENABLED, and the unguarded creation of the statistics mutex on Windows.
- Weak memory is abstracted as described above.

## Plan

The plan is done: the thread servers, the partitions, the packing buffers, kernels and drivers of all three
levels, statistics and autotuning are modelled, and every safety property a passing run checks is proved. What
the model could take in next is listed under "Not modelled".
