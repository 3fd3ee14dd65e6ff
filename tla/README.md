# Specifications of the Popcorn compiler toolchain's run time

Popcorn Linux runs one program on machines with different instruction sets.
Its compiler toolchain builds a binary per architecture with the same symbol
addresses, describes every call site's frame on every architecture, and links
libraries that let a thread stop on one machine and go on on another.  These
TLA+ modules model the parts of the repository that decide whether such a
program computes the right thing: the OpenMP run time its threads are started
by (`lib/libbomp`), the transformation of a thread's stack from one
architecture to the other (`lib/stack_transformation`), the shim around it
(`lib/migration`), the compiler passes that decide what a stack map describes
(`patches/llvm`), and the tools that align symbols (`tool/alignment/pyalign`)
and build the tables the run time searches (`tool/stack_metadata`).

Run the checks inside this directory:

    tlc -config BompBarrier.cfg BompBarrier         (and so on, see "Runs")
    tlapm BompBarrierProofs.tla                     (and so on, see "Proofs")

## Inventory

### libbomp (lib/libbomp)

| part | state | operations |
|---|---|---|
| spin lock, barrier (`spin.h`) | the lock word; `max`, `cycle`, `counter` | `bomp_lock`, `bomp_unlock`, `bomp_barrier_wait`, `bomp_barrier_updateMax` |
| thread pool (`popcorn_threadpool.c`) | ring of tasks, head, tail, count, `shutdown`, handles of the workers | `threadpool_create`, `_add`, `_run`, `_destroy` |
| regions (`parallel.c`, `processing.c`) | `nested`, `g_thread_numbers`, array of thread-local data | `GOMP_parallel_start`/`_end`, `GOMP_barrier`, `bomp_thread_fn` |
| API (`omp.c`, `linux_backend.c`) | `bomp_num_threads` | `omp_set_num_threads`, constructor, destructor |
| compiler interface (`kmp.c`) | threadprivate caches | `__kmpc_fork_call`, static schedules, reductions, critical sections, threadprivate data |

A region is forked by the master, which queues a work item per other member of
the team and runs the body itself; workers take the items from the pool.  The
pool, the explicit barriers and the ends of regions share one barrier.  Hard
here: everything runs concurrently, on plain loads and stores; a barrier is
used again at once; workers may still be leaving the last region when the next
one, a resize or the exit comes; creation of threads can fail.  Correct means:
barriers separate, regions are joined, no work is lost, everything ends.

### Stack transformation (lib/stack_transformation)

| part | state | operations |
|---|---|---|
| rewriting (`rewrite.c`) | two contexts with their activations, the list of unresolved stack pointers | `st_rewrite_stack` |
| frames and values (`unwind.c`, `data.c`, `arch/`) | registers, CFA and callee-saved bitmap per activation | locating, reading and writing a value; popping a frame |
| lookup (`init.c`, `util.c`) | sections of the binary | search by address, by id; unwind offsets |
| user space entry (`userspace.c`) | handles, bounds of each thread's stack | constructor, `get_stack_bounds`, `st_userspace_rewrite` |

A thread calls the migration shim; the run time unwinds the source stack, sizes
the destination stack, and rewrites frame after frame, youngest first.  Hard
here: order.  A register is live in one frame and saved by another; a pointer
may be met before or after what it points to; sizes are computed before the
frames are written.  Correct means: the thread returns through the same calls,
finds its live values and valid pointers, and the source stack is intact until
the end.

### Migration (lib/migration)

| part | state | operations |
|---|---|---|
| migration points | vDSO page or environment, what each thread has used up, the registered callback | `check_migrate`, `migrate`, `__cyg_profile_func_enter`/`_exit`, `register_migrate_callback` |
| shim | `*pthread_migrate_args()`, `struct shim_data` in the shim's frame | `__migrate_shim_internal`, before and after the migration |

The shim leaves a pointer to data in its own frame, has the stack rewritten to
the other half, and asks the kernel to continue the thread on the other
architecture at the shim's own beginning, where the pointer tells it that the
migration is over.  Hard here: the same code runs on both sides; the pointer
outlives a rewrite that fails; the bounds of the stack are looked up once and
kept; callbacks are functions of the program and have migration points.
Correct means: the data is there when it is used, the callback runs once and
before the program goes on, no live frame is overwritten, and a thread gets to
where the scheduler wants it.

### Compiler passes (patches/llvm/src)

| part | state | operations |
|---|---|---|
| liveness (`LiveValues.cpp`, `LoopNestingTree.cpp`) | live-in and live-out sets, loop nesting trees | `dagDFS`, `constructLoopNestingForest`, `propagateValues` |
| stack maps (`InsertStackMaps.cpp`) | call site ids, hidden values | `removeOldStackmaps`, `getLiveValues`, insertion |
| unwinding records (`UnwindInfo.cpp`) | two maps by function | `recordUnwindInfo`, `emitUnwindInfo`, `emitAddrRangeInfo` |

Liveness is computed by one pass over the acyclic graph and one over the loop
nest, instead of iterating to a fixed point.  Hard here: nests of loops, loops
of one block, phis.  Correct means: the sets are those of the definition.

### Tools

| part | state | operations |
|---|---|---|
| `pyalign` | a list of symbols per section, paddings, linker scripts | `updateSymbolsList`, `orderSymbolList`, `align`, `produceLinkerScript` |
| `stack_metadata` | tables of call sites, unwinding records and live values | `update_function_addr`, `add_sections`, `check_stackmaps` |

The binaries are linked once for their maps, `pyalign` makes linker scripts of
these, the binaries are linked again, and `gen-stackinfo` post-processes each.
The run time then looks up a return address in one binary and the id it finds
in the other.  Hard here: indices into tables that are sorted afterwards, ids
given by position, paddings computed by one program and added to by another,
searches at the ends of tables.  Correct means: a symbol has one address, and
what is found for a frame belongs to its call.

### The rest

`lib/stack_depth`, `tool/namespace` and the scripts are profiling and I/O;
`lib/musl-1.1.10`, `lib/libelf` and the old Java aligner are third-party or
superseded.

## Modules

| module | models | how |
|---|---|---|
| `BarrierSpec` | what a barrier promises | abstract: arrivals, openings, returns |
| `SpinBarrier` | `struct bomp_barrier` | one action per load, store or atomic of `bomp_barrier_wait`; the last arriver's reset, load and store of the cycle are separate steps |
| `BompBarrier` | a team that waits again and again | composes SpinBarrier with history counters; invariant and refinement |
| `BompBarrierProofs` | | theorems about BompBarrier |
| `TaskQueue` | what the pool promises | abstract bounded FIFO that can be closed |
| `Threadpool` | `threadpool_t` and the worker loop | sections under `pool->lock` are one action each |
| `ThreadpoolProofs` | | lemmas about the ring and the counts of workers |
| `PoolLifecycle` | a pool from creation to destruction | composes Threadpool with a creator, failures of `pthread_create`, adds that race the shutdown; inductive invariant and refinement |
| `PoolLifecycleProofs` | | theorems about PoolLifecycle |
| `BompParallel`, `MCBompParallel` | regions and the omp API | composes Threadpool and SpinBarrier; the master runs a program, a sequence of resizes and regions |
| `RegionInvariant` | why regions are joined | the programs the library copes with (`Cooperative`) and the inductive invariant |
| `BompParallelProofs` | | theorems about BompParallel |
| `StaticSchedule` | `__kmpc_for_static_init` | operators, in two's complement of `Width` bits |
| `KmpTeam`, `MCKmpTeam` | a team in a work-shared loop with a reduction and a threadprivate variable | composes StaticSchedule with the spin lock and the abstract barrier; the reduction's variable counts each iteration's contributions |
| `KmpTeamProofs` | | theorems about StaticSchedule; inductive invariant of and theorems about KmpTeam |
| `StackFrames` | `data.c`, `unwind.c`, `arch/` | operators on contexts; addresses in words |
| `StackRewrite`, `MCStackRewrite` | `rewrite.c` | the program's calls (external), one action per step of the rewrite, the thread's returns on the other side (external) |
| `Userspace` | `userspace.c` | operators and the state of the entry: handles, thread-local bounds, halves of the stack |
| `Migration` | `migrate.c`, `arch/*/migrate.h` | composes Userspace with the shim; one action per branch and call of the shim, the scheduler and callbacks as environment; inductive invariant |
| `MigrationProofs` | | theorems about Migration |
| `ControlFlow` | LLVM's graphs, dominators and loops (external) | functions computed once per graph |
| `LiveValues`, `MCLiveValues` | the liveness passes and `InsertStackMaps.cpp`, for one function | one action per block and per loop; liveness by its definition beside it |
| `LiveValuesProofs` | | two inductive invariants of and theorems about LiveValues |
| `PyAlign` | `pyalign` and the linker that follows its scripts | one action per symbol of each loop |
| `StackMetadata` | `UnwindInfo.cpp`, `gen-stackinfo`, `check-stackmaps`, `init.c` and `util.c` | operators on sequences, one per function of the code |
| `Toolchain`, `MCToolchain` | the build of two binaries | composes PyAlign and StackMetadata |
| `ToolchainProofs` | | inductive invariants of and theorems about PyAlign and the build of Toolchain; lemmas about StackMetadata |

`PROJECT.json` maps each definition to its lines.  The inductive invariants the
proofs rest on are invariants of the runs `barrier`, `pool`, `parallel_grow` and
`migration`, each under the name `IInv`; each contains its module's `TypeOK`.

What the models leave out.  In StackRewrite all values are one word or whole
buffers, words do not overflow, every frame keeps a frame pointer, and a call site is always found;
the checks that are compiled in only with `_CHECKS` are not actions.  A frame
and a value are identified as in the metadata, so the program's memory before
the migration is determined by its chain of calls and by what its pointers
point to, and after it each location can be compared with what it should hold.
In BompParallel each store to `g_thread_numbers` and to the array, the test of
`omp_in_parallel` and the count of `nested` are steps of their own, since nothing
protects them.  An access to a null or freed pool (the exit destroys once more a
pool that `omp_set_num_threads` freed when it could not grow it), or to a thread
handle nobody wrote, ends the behaviour in a state of its own.  Memory is
sequentially consistent: neither x86's store buffers nor the weaker order of
aarch64 is modelled, so the runs and proofs about the barrier and the lock are
about interleavings of their accesses and not about missing fences.

In Migration a half of the stack is a few units long and holds at most one
shim's data, which is dead as soon as its frame is; following a pointer to dead
data, or restoring registers nobody saved, ends the behaviour in the state
"wild".  Threads share only the scheduler's page and the registered callback,
which the environment changes at any time, so that one thread meets everything
that several would.  In LiveValues the order of `dagDFS` is any order that
respects forward edges, loops of one depth are treated in any order, and graphs
are reducible.  A stack map is what is recorded for a call site: its number and
its place among the others are left out.  `BeforeAll` states in closed form what
the backward walk over a block leaves; that it is what the walk computes is an
assumption TLC evaluates (`BeforeAllIsTheWalk`).  In PyAlign a symbol stands
for a name and an object file (`Symbol.compare`), the blacklisted symbols of a
section for one block at its end, and `**common` for what the linker puts
first; the exit when an object file's name has neither of the forms that
`symbolObjectFileSanityCheck` knows is part of reading the map file and left out;
`orderSymbolList` orders one section per step, by the one permutation
that is stable and puts the symbols of more architectures first.  In StackMetadata the size of a location stands for all that
`check_stackmaps` compares of it, and the timing, native and debugging builds of
the libraries are left out.

## Runs

| run | question | bounds |
|---|---|---|
| `barrier` | is `bomp_barrier_wait` a barrier when it is used again at once? | 4 threads, 4 waits each: both phases of the cycle twice |
| `pool` | does the pool keep every task it accepts, and come down? | 2 workers, ring of 2, 3 tasks: full, empty and wrapped ring, every number of workers created |
| `parallel_grow` | are regions joined in programs that set their number of threads first? | 2 cores, teams of 3 and 4, 2 regions with an explicit barrier and a nested region of the master |
| `parallel_wild` | is the end of a region run by one thread at a time whatever the program does? | 1 to 3 cores, nested regions in every thread, shrinking and growing, failing creations |
| `parallel_default` | is a region joined with the default number of threads? **No** | 3 cores, one region |
| `kmp_team` | do schedules partition loops, are reductions complete, private copies private? | 3 threads, 17 loops: both schedules, fewer and more trips than threads, both directions |
| `stack_rewrite` | does a thread find itself after the migration? | chains of up to 3 calls of 4 functions, 2 pointers to the stack, both directions |
| `stack_fixups` | does the rewrite end? **No** | the same with 2 calls, none to the function that only computes |
| `live_values` | do the passes compute liveness, and are recorded values defined? | 6 graphs up to three nested loops, an argument, a value and a phi at every place |
| `live_selfloop` | is every value that is live across a call in its stack map? **No** | the graph with a loop of one block |
| `migration` | is the shim's data valid, the memory free, the request honoured? | 1 thread, halves of 4, frames of up to 3, 2 stack sizes, callbacks nested twice; any number of migrations |
| `toolchain` | does the run time find what the compiler emitted, at aligned addresses? | 3 functions and a datum on 2 architectures: sizes, alignments, symbols one of them lacks, residues; orders of files, maps and calls; up to 5 call sites |

Why the bounds are enough.  Three calls are the fewest in which a register is
live in one frame, untouched by the next and saved by a third, or in which a
frame has fixups of its own, of a younger frame and for an older one; the
functions of MCStackRewrite differ in size, saved registers, kinds of location
and duplicates between the architectures.  Four waits let a thread be overtaken
once by everybody; with two phases nothing new can happen later.  Three tasks
in a ring of two are one more than it holds.  Three nested loops are one more
than a header that is neither the outermost nor the innermost needs; in the
two largest graphs values are defined before and used after a block's call.
The state of Migration is finite without a bound on migrations: frames of three
units and halves of four put the stack pointer on both sides of, and at, the
middle, and two sizes of stack give both cases of `get_thread_stack`.  Five
call sites give binary searches of every shape up to depth three.

`parallel_default` is a finding: `threadpool_create` gives the barrier the
number of workers, not of threads of the team, so that with the default number
of threads `__kmpc_fork_call` can return while a worker has not begun.  It is
repaired by any call of `omp_set_num_threads` that changes the number, which is
what `parallel_grow` relies on.  `stack_fixups` is the other:
`fixup_local_pointers` decides whether to go on by the outcome of an earlier
fixup, and loops for ever on a frame that has a pointer to its own data and
then one to an older frame.

`live_selfloop` is the third: `dagDFS` skips the edge from a block to itself,
and a value that reaches the block's phi only over that edge is in no stack map
of the block's calls, although it is needed after them.

Where the code is known to do less, a property says so.  `LiveSetsComplete`
leaves out operands of phis on self edges (the finding) and, inside a nest of
loops, the phis of other headers that are no deeper than the block, those of
enclosing loops and of loops beside its own (`NestPhis`): `propagateValues` does
not empty `phiDefined` between the loops, so that an outer header's phi is not
carried into an inner loop.  The phis of the innermost loop around a block, its
own induction variables, are claimed.  Without either exception TLC refutes it.
`ShimDataValid` and `CallbackBeforeResuming` leave out a thread whose rewrite
has failed, since the pointer then stays behind and the next migration point
follows it, and one whose callback reached a migration point; no document
promises anything for them.  `BoundsMatchFrames` claims nothing of the lower
end of the lower half, which `get_stack_bounds` returns equal to its upper end.
`AlignedAcrossArchs` is about sections that begin at one address, which
`pyalign` only hopes for: residues of one architecture may cross a multiple of
0x100000, and `**common` data may exceed 0x1000.  `SitesCorrespond` needs the
stack maps of both binaries in one order, since ids are positions.
`CheckedMeansTransformable` does not: it says what the approval of
`check-stackmaps` is worth without that assumption, unless a value follows a
duplicate of another one, where the checker stops early.  The build does not
ask for that approval: `Makefile.pyalign.template:115-116` has the check
commented out, so it holds for those who run `check-stackmaps` by hand.

`stack_rewrite` is a run about safety and includes those executions; what it
shows is about migrations that end.

## Fairness

Threads are run by the operating system: weak fairness of every thread's steps
(`BompBarrier`, `BompParallel`, `KmpTeam`) and of every worker and of the
thread that creates or destroys the pool (`PoolLifecycle`).  The spin lock
promises no order and none is assumed: a thread gets it in the end because each
thread takes it finitely often.  Spurious wakeups, failures and what the
program chooses to do are never assumed to happen.  A rewrite is run by the
migrating thread itself, hence weak fairness of `Rewrite`.
In `Migration` each thread's step is weakly fair, and what it does next is its
own choice: a thread may call `migrate` for ever, so `RequestsHonoured` says
that it is on the wanted architecture again and again.  Neither the scheduler
nor a change of the callback is assumed to happen.

## Proofs

Every theorem is about every value of the constants that the assumptions allow:
any number of threads, tasks, regions, waits, stack sizes.  The assumptions are
few, and TLC evaluates them on the runs' instances:

| assumption | says | why |
|---|---|---|
| `TeamAssumption`, `WorkersAssumption`, `TasksAssumption` | threads and tasks are finite sets | they are |
| `QueueSizeAssumption` | the ring has an entry | `queue_size` is 1024 |
| `MasterAssumption` | the master is not a worker | it runs the constructor |
| `WidthAssumption` | `2^Width` is twice `2^(Width-1)`, both naturals | arithmetic the provers do not know of `^` |
| `ThreadsAssumption`, `LoopsAssumption` | a team is `0 .. n-1`; a loop has bounds in its type and a non-zero increment in its direction | what `__kmpc_for_static_init` is called with |
| `StackAssumption`, `MigrationAssumption` | frames fit in half a stack; two architectures | `MAX_STACK_SIZE`, `B_STACK_OFFSET` and the sizes the library supports |
| `GraphAssumption` | finite graphs with an entry, reducible, with LLVM's dominators and loops | what LLVM gives a pass |
| `BeforeAllIsTheWalk` | the closed form of the walk over a block | see above; of the run's functions only, no proof uses it |
| `AlignAssumption`, `ListAssumption` | the alignments of sections are multiples of those of pages; there are architectures and sections, sections named once | constants of `Globals.py` |
| `IdAssumption` | counted ids are below the reserved ones | the start id is an option of gen-stackinfo (`main.c:71`), 0 by default; `UINT64_MAX` is the largest value of the type |

`Cooperative`, of RegionInvariant, is not an assumption on constants but the
hypothesis of five theorems: see below.

### The barrier (`BompBarrierProofs`)

- `InductiveInvariant`: `Spec => []IInv`;
- `NoThreadReturnsEarly`: nobody returns from its r-th wait before everybody
  has entered its r-th;
- `OneLastArriver`: the plain stores of the last arriver do not race with those
  of another one, and all others then spin;
- `BarrierImplementation`: every step is a step of `BarrierSpec` or changes
  nothing of it.

`NoEarlyReturn` is not inductive: it says nothing of the counter or the cycle.
`IInv` adds that a thread is in one wait at a time (`CallsInv`), that the cycle
is the parity of the number of openings and that a thread which has not seen
the last opening still spins on the other parity (`PhaseInv`), and that the
counter is the number of those who spin for the next opening, except while the
last arriver is between its fetch-and-add and its store (`CounterInv`).  The
delicate step is `FetchAndAdd`: the arrival that finds `max - 1` is the last of
the team because a set of one element less than the team, without the thread
itself, is the rest of the team (`LastArrival`).

### The pool (`ThreadpoolProofs`, `PoolLifecycleProofs`)

- `PoolInvariant`; `NoLostWakeup` (`NoSleeperMissesWork`); `FreedPoolIsQuiet`
  (`FreedMeansQuiet`);
- `RingIsAQueue`: the pool implements the bounded queue `TaskQueue`.

`FreedMeansQuiet` needs that a worker leaves only an empty ring after the
shutdown (`LifeInv`), that `started` and the table of handles account for the
workers there are (`StaffInv`), and that a task that was accepted is in the ring
or with one worker (`RingInv`, `WorkInv`).  The ring is reasoned about through
`Slot(h, i)`, the index of the i-th oldest entry: slots differ (`SlotsDiffer`),
moving head shifts them by one (`SlotShift`), tail is the slot after the last
(`TailShift`).  For the refinement the abstract queue is the sequence of the
entries at slots `1 .. count`, and an add is an `Append`, a take a `Tail`.

### Regions (`BompParallelProofs`, `RegionInvariant`)

- `RegionEndedByOne` (`OneThreadEnds`): at most one thread at a time is between
  the wait and the resets of `bomp_end_processing`, and nobody has cleared the
  array under it.  These stores are not protected by a lock; all there is to keep
  two threads apart is that `GOMP_parallel_end` compares the one counter `nested`
  with 1.  No hypothesis: nested regions of workers, shrinking teams, one core and
  failing creations included.  The invariant (`CountInv`) needs that `nested` is
  the number of open regions and that a thread at the end has none open besides
  that one, so nobody else can find 1; it fails as soon as one kind of region is
  not counted.  That the master also joins when it should is `RegionsAreJoined`,
  below, and does need a hypothesis.

For programs that are `Cooperative` (before their first region they ask for more
threads than there are cores, never for fewer than before; a team's work items
fit in the queue; only the master enters nested regions), with any number of
cores, workers and regions and whether or not `pthread_create` fails:

- `RegionInvariantHolds`: `Spec => []IInv`;
- `RegionsAreJoined` (`RegionsJoined`), `BarriersSeparate` (`BarrierSeparates`),
  `WorkersSeeRegion` (`WorkersSeeTheirRegion`), `HandlesAreKept` (`HandlesKept`).

The hypothesis is not a convenience.  Without the request the barrier is one
thread short (`parallel_default`); when a team shrinks, a worker that has not
seen the end of the last wait is no longer waited for, and the smaller team can
turn the cycle back before it looks; when the queue is full
`bomp_start_processing` ignores that `threadpool_add` refused; and a nested
region of a worker makes `GOMP_parallel_end` of the master take its own region
for a nested one.  That
the programs of `parallel_grow` satisfy it is an assumption TLC evaluates
(`GrowingIsCooperative`), so the theorems are not vacuous.

None of the four properties is inductive, and they need each other.  The
argument: all waits are on one barrier.  While a region is open all threads, the
ones that have not taken their work item yet included, have the same next place
to wait at (`PositionInv`), so they cannot meet at the barrier for different
reasons; `counter` is the number of those who have arrived (`ArrivalInv`); `max`
is the number of all threads, workers without work included (`StaffInv`,
`Tuned`); so the last arriver finds all of them waiting there, and since each
worker has then a work item, no two the same (`WorkInv`), and there are as many
as the team has members besides the master, the whole team has come
(`WholeTeam`).  What a thread has finished or reached is in the history before
it arrives (`HistoryInv`).  After an opening some threads have not seen it
(`Stale`); they may be overtaken by the next region's start, which is why a
worker's item may be one of an earlier region (`HeldInv`).  `MasterInv` ties the
master's place to the globals, `ProgramInv` says which requests may still come.
The proof has one lemma per kind of step: `WorkerNext` and `MasterNext` put them
together.

### Work sharing (`KmpTeamProofs`)

- `SharesPartition`, `LastIterationFlag`: for every width of the type, team,
  schedule, chunk and increment, the shares `__kmpc_for_static_init` gives out
  are disjoint and complete, and the flag is that of the last iteration's owner;
- `TeamInvariant`; `EveryIterationOnce` (`IterationsPartitioned`),
  `LastFlagIsRight` (`LastFlag`), `ReductionIsComplete` (`ReductionComplete`),
  `PrivateCopiesAreKept` (`PrivateKept`).

The schedules are reasoned about by the index of an iteration, `(iv - lower) /
incr`: a thread's share is an interval of indices, or every n-th chunk of them,
and `NoOverflow` says that no intermediate value leaves the type.  The proof
found that it must also speak of the stride, `incr * nthreads * chunk`: the code
adds it to the upper bound, and where that wraps iterations are run twice.
`TeamInvariant`, whose `IInv` is in KmpTeamProofs, adds mutual exclusion by
`critical_lock`, that one cache is allocated and each entry written once
although it is first read without the lock, and that the shared variable holds
exactly the contributions of those who have written it.

### Migration (`MigrationProofs`)

- `MigrationInvariant`; `ShimDataIsValid` (`ShimDataValid`),
  `CallbackRunsFirst` (`CallbackBeforeResuming`), `RewriteIsInFreeMemory`
  (`RewritesFreeMemory`), `BoundsAreOfFrames` (`BoundsMatchFrames`).

`IInv` says for each thread that the bounds it keeps are those of its stack or
refuse every rewrite (`StackInv`), that between the two runs of the shim the
pointer leads to its data in the half that was left (`PointerInv`), and, unless a
rewrite failed or a callback reached the shim, where in the shim what has been
saved (`ShimInv`).  The geometry is in two lemmas: the halves are further apart
than frames are long (`Halves`), so `sp` tells them apart and `new_stack` is the
beginning of the other one (`OtherHalf`).

### Liveness (`LiveValuesProofs`)

For every function in SSA form on every reducible graph, with any number of
blocks and loops nested to any depth:

- `NoDeadValue` (`LiveSetsPrecise`): no value is called live where it is dead;
- `NoLiveValueMissed` (`LiveSetsComplete`): none is missed, but for the two
  exceptions above;
- `RecordedValuesDefined` (`RecordedAreDefined`): what a stack map records is
  defined on every path to its call.

That the function is in SSA form is the one hypothesis, a conjunct of `Init`
(`SSA`), which LLVM guarantees and which all functions of `live_values` satisfy.
Reachability is defined as membership in every closed set, so that what would be
an induction over paths is the choice of a closed set: dominance is transitive
and antisymmetric, a header dominates its loop, and loops are nested or disjoint
(`Nested`), which gives each block its tree (`RootIs`).

Precision: a header's live values are spread over its loop, and what is live at
a header and not one of its phis has its definition above the header, hence
outside the loop; so along the loop it is live everywhere.  `IInv` says
that at every point of both passes the sets hold live values only (`OnlyLive`)
and have the shape each phase needs (`Begun`, `Sets`).  The definition of such a
value dominates the header and, were it in the loop, the header would dominate
it: this is where SSA and antisymmetry are used.

Completeness needs an invariant of its own, `CInv`.  After `dagDFS` a value that
is live is in the sets of a closed set of blocks as far as forward edges carry
it (`DagDone`, `Bases`); a value that is live only around a back edge is live at
that loop's header.  `propagateValues` goes down a nest level by level: a loop is
either still to be treated or its header has handed its values to all children
(`HandedDown`), and only one nest is open at a time (`OneNest`).  When no loop
is left, what is live at the outermost header that does not define it has been
handed through all levels (`HandedThrough`) and is in each block's sets
(`NothingMissed`).

### Alignment (`ToolchainProofs`)

- `SymbolsAligned`: `AlignSpec => []AlignedAcrossArchs`, for any number of
  architectures, sections and symbols;
- `BuiltSymbolsAligned`: the same of the whole build (`BuildSpec`, of
  Toolchain, whose steps are steps of `AlignSpec` or leave it alone).

The hypothesis on the map files is `MapFiles`: a symbol is in one section, and
alignments divide a page.  `parseMapFile` accepts larger ones, but for those the
claim is false: `align` pads from 0 and the linker from the section's first
address, which is a multiple of 0x1000 only.  The run asserts it for each of
its programs.  `IInv` says of each symbol that `align` has met that it is planned
at the end of the one before it, rounded up, and which paddings that left in it
(`Aligned`), hence that planned symbols are apart (`Apart`); and of each symbol
that has been linked that it is there, from the section's first address
(`InPlace`).  The location counter of every architecture stands where the
iterator stood (`LinkLoop`) although the linker rounds the counter and `align`
the iterator: the paddings are equal because the section begins at a multiple of
a page (`PaddingShift`).

### Tables and searches (`ToolchainProofs`)

For every program, with any number of architectures, object files, functions and
calls:

- `EntryPointsSame` (`EntryPointsAgree`): the function found for a return address
  is at that address in the other binaries too;
- `CallsCorrespond` (`SitesCorrespond`): a return address leads to its site, any
  other address to none, and an ID to the same call on the other side;
- `OwnSelected` (`SitesSelectTheirOwn`): the offsets of a site select the
  registers of its function and the live values of its call.

What the compiler and the programmer owe is `ObjectFiles`, a conjunct of
`BuildInit` that the run asserts for each of its programs: a function with a
stack map has its registers in the same object file, each function is in one;
calls return strictly inside their function and to different places; one call
keeps each of the three special IDs, the same on all architectures
(`LibcStackMaps.cpp:63-93` removes the other stack maps of those functions); and
the counted IDs do not reach the special ones.

The inductive invariant is `BuildInv`: `IInv` of the alignment; the object files
(`FilesOK`), which no step changes; that the code of a function with a call is
never lost between its map file and the list of the functions (`CodeInv`: the
merge, the ordering, the padding and the linking each keep it, see `CodeStep`);
and that a processed binary holds the tables of its files and addresses as they
are (`BinInv`).  From `Apart` and `InPlace` follows that return addresses of two
functions are in disjoint ranges (`BinaryIs`), which is what the search for a
function needs since the table has only where functions begin.

The rest is about pure functions.  Their recursion is written as a recursive
function, and what would be an induction is the choice of the smallest
counterexample (`SmallestOf`, from the well-foundedness of `<` on the naturals):
sums (`SumFacts`), concatenation (`FlattenFacts`), filtering (`KeepFacts`),
sorting by distinct keys (`SortFacts`), and both binary searches, which are
instances of one scheme whose ranges get smaller (`HalvingFinds`,
`HalvingMisses`).  `RegistersSelected` puts together what decides
`SitesSelectTheirOwn`: the sum over the linker's order that gen-stackinfo
computes for a function is where the linker put that function's registers, as
the compiler emits both in one order; the sort that follows moves the record and
leaves its offset alone.

### Only model-checked

- Liveness (`EveryWaitReturns`, `AcceptedTasksRun`, `DestroyReturns`,
  `ProgramExits`, `TeamFinishes`, `RewriteEnds`, `RequestsHonoured`): needs
  fairness, which the provers do not handle.
- `ReturnsThroughItsCalls`, `LiveValuesCarried`, `PointersReified` of
  StackRewrite: the contents of a stack are built by recursion over its frames and
  rewritten frame by frame, and each property needs the whole layout in its
  invariant.
- `CheckedMeansTransformable` of Toolchain: check-stackmaps walks two lists with
  indices that skip duplicates and stops by a count that leaves them out; what the
  walk has compared is a further induction over both lists.

## Plan

1. `StackRewrite`: that the rewrite leaves the source stack intact until the end,
   and that the list of unresolved pointers is empty then.
2. `check-stackmaps`: from the walk over two lists of locations to the sizes that
   `rewrite_frame` pairs.

## Not modelled

- A second run of `gen-stackinfo` on its own output.  `add_sections` updates
  existing sections, but `update_function_addr` then recomputes the offsets
  from records already sorted by address; `SitesSelectTheirOwn` is about one
  run per binary.
- Calls that are the last instruction of a function: `InsertStackMaps.cpp:102`
  also instruments calls that do not return, and behind such a call there may be
  no code.  Its return address is then the start of the next function, whose
  unwinding records `get_func_unwind_data` finds.  `ObjectFiles` says that calls
  return into their function.
- `StackTransformMetadata.cpp` (works on LLVM machine code that is not in the
  repository), `LibcStackMaps.cpp`, `NameStringLiterals.cpp`,
  `StaticVarSections.cpp`: rename and annotate the IR.
- Text input: `/proc/cpuinfo`, `/proc/<pid>/maps`, map files, `readelf`.
- ELF reading and writing, timers, dumps, the stack depth profiler, the
  namespace tools, the installer: I/O without a protocol.
- `lib/musl-1.1.10` and `lib/libelf`, by far most of the repository's lines:
  third-party code.
