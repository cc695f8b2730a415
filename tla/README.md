# EpiphanyDB: a TLA+ model of the library, its engines and its host

This directory holds TLA+ specifications of the C code of EpiphanyDB, the TLC
configurations that check them on small instances, and proofs, checked by
TLAPS, that the most important properties hold for every value of the
constants. `PROJECT.json` lists the components, the runs, the mutants, the
source lines behind each definition, the findings, the hazards and the
theorems.

## The system

The repository holds three bodies of code.

1. **The core library**, `src/src/epiphanydb_core.c` with
   `src/include/epiphanydb.h`. A client creates a *context* from a
   configuration (two directory strings and the size of a shared buffer),
   creates or opens *tables* in it, begins *transactions*, and calls data,
   index and statistics functions on tables. Contexts, tables and transactions
   are malloc'ed structs with owning pointers to strings and to the buffer.
   There are no locks. Tables and transactions point back to their context,
   but a context does not know its tables.
2. **The storage engines**, `src/src/storage/*.c`: heap, columnar, vector,
   time series and graph. Each has `storage_init`, `storage_cleanup`,
   `create_table` and a number of operations on open tables. Only `init` and
   `create_table` allocate memory, and only `heap_create_table` touches a
   file; the vector engine computes distances; the other operations are
   placeholders that report success. The core does not call the engines.
3. **A PostgreSQL extension**, `src/postgresql/contrib/epiphanydb/`, inside an
   unchanged copy of PostgreSQL 17: three settings, eight SQL functions and
   two views. It does not call the library. PostgreSQL is its *host*: it reads
   the configuration, forks the backends, and coordinates them by lightweight
   locks, condition variables, barriers and signals.

`src/src/tests/test_storage_engines.c` is a test program for an API that the
header does not have. The documents under `src/docs/` describe much more (a
query router, a cluster, sessions) for which there is no code.

| Part | Modules | Status |
|---|---|---|
| contexts, tables, transactions | `EpiphanyCore`, `HandleLeases` | checked, proved |
| data, index, statistics, lookups | `DataOperations` | checked, proved |
| engines: init, cleanup, create_table | `StorageEngines` | checked, proved |
| engines: operations on tables | none | placeholders without state, see "Not modelled" |
| vector distance functions | `VectorMath` | checked, proved but for the bound of the cosine |
| extension: settings, with the host's configuration | `ExtensionSettings` | checked, proved |
| extension: functions on tables | `ExtensionFunctions` | checked, proved |
| host: lightweight locks | `LWLock` | checked, proved |
| host: condition variables | `ConditionVariable` | checked under its two users, proved for any |
| host: parallel B-tree scans | `ParallelScan`, over `ConditionVariable` | checked, safety proved |
| host: barriers | `Barrier`, over `ConditionVariable` | checked, safety proved |
| host: process-signal barriers | `ProcSignal` | checked, safety proved |

`MC...` modules add the symmetry sets and argument sets that TLC needs; modules
named `...Proofs` hold the theorems. The specification of a module is `Spec`,
except in `DataOperations` (`CallsSpec`), `VectorMath` (`VectorSpec`) and
`ExtensionFunctions` (`FunctionsSpec`), whose theorems share a module with
those of `StorageEngines` and `ExtensionSettings`.

## EpiphanyCore: lifecycles of contexts, tables and transactions

One step of the model is one `malloc`, `strdup` or `free` of the C code, or one
read of a context that a call was given, with the assignments up to the next
one. Any number of threads are inside the library at once.

**State.** `kind[a]` says what lives at address `a` (nothing, a context, a
table, a transaction, or the bytes of a string or buffer). `field[a]` holds
the owning pointers of the struct: `data_directory`, `log_directory`,
`shared_memory` and `name`. `flag[a]` is `initialized`, `is_open` or
`is_active`, and `context[a]` the back pointer. `pc[t]` is the place of thread
`t` in its call and `obj[t]` the object it builds or takes apart, `conf[t]`
the configuration given to `epiphanydb_init`, and `arg[t]` the context that a
call was given: it is read once or twice, and in `epiphanydb_create_table`
stored after two allocations. `ret` is the code with which the last step has
ended a call. `contexts`, `tables` and `txns` are the handles that clients
hold. `fault` records the first access of a freed block, or the first free of
something that is no live block.

**malloc and free** are the environment. `malloc` fails whenever it likes and
otherwise returns any free address, so that what one thread has just freed may
be handed to another before the first call has returned. `free(NULL)` does
nothing. A pointer to a string that belongs to the caller is the value
`Caller`: `epiphanydb_init` copies the configuration as a whole, so each
string member is the caller's pointer until it has been duplicated, and a free
of it would be a fault.

**Actions.**

| Code | Actions |
|---|---|
| `epiphanydb_init`: null arguments | `InitReject` |
| ... malloc of the context and the shallow copy | `InitContext` |
| ... the two strdups, each with its own cleanup | `InitData`, `InitLog` |
| ... the shared buffer, then `*ctx = context` | `InitShm` |
| ... cleanup after a failed allocation | `UndoLog`, `UndoData`, `UndoContext` |
| `epiphanydb_cleanup` | `Cleanup`, `CleanShm`, `CleanData`, `CleanLog`, `CleanContext` |
| `epiphanydb_create_table`: null checks; `ctx->initialized` and the engine; malloc; strdup; its cleanup | `CreateTable`, `CreateCheck`, `CreateAlloc`, `CreateName`, `UndoTable` |
| `epiphanydb_open_table`: null checks; `ctx->initialized`; the checks of `epiphanydb_create_table` for a heap table | `OpenTable`, `OpenCheck`, `OpenCreate`, then as above from `CreateAlloc` on |
| `epiphanydb_close_table` | `CloseTable`, `CloseName`, `CloseFree` |
| `epiphanydb_drop_table` (checks only) | `DropTable`, `DropCheck` |
| `epiphanydb_begin_transaction` | `BeginTransaction`, `BeginCheck`, `BeginAlloc` |
| `epiphanydb_commit_transaction`, `..._rollback_transaction` | `CommitTransaction`, `RollbackTransaction`, `EndFree` |

`epiphanydb_cleanup(NULL)` and `epiphanydb_close_table(NULL)` return at once
and change nothing; they are stuttering steps.

**The client** passes handles that it holds and gives each handle to one
releasing call, as the C API asks of any caller. It gives a context to
`epiphanydb_cleanup` only when no call that was given the context has still to
read `ctx->initialized` (`LookedAt`). The library takes no lock and counts no
references, so a client that releases the context earlier makes that read a use
after free; nothing in the code prevents it, and `NoFault` does not hold for
such a client. The rule is as weak as it can be: the client may release a
context while tables and transactions of it are still held, and while a call
that was given the context is past its last read and goes on to allocate, and
to store the address of what is gone. A storage type may be any integer.

**Abstract specification.** `HandleLeases` is what the header promises of
handles, seen from outside. A successful call takes a handle with a set of
blocks in one step, a releasing call gives back all of them in one step, and
nothing else ever changes what stands behind a handle. `EpiphanyCore` refines
it with `lease <- [h \in Held |-> HandleBlocks(h)]`: the allocations and frees
inside a call are invisible.

**Properties.**

- `NoFault`: no undefined memory access on any path of any call, however the
  steps of threads are interleaved under the rule above.
- `Conservation`: the state is well typed, and the allocated blocks are exactly
  those that a held handle or a call in progress accounts for. It says at once
  that nothing leaks, on any exit path, and that nothing dangles.
- `SingleOwner`: no block is behind two handles, two calls, a handle and a
  call, or two members of one object.
- `HandlesUsable`: what a client holds is a finished object of its type.
- `ImplementsLeases`: the refinement.
- `CallsReturn`: every call returns (liveness).

## DataOperations: calls on open tables

One client makes one call after another; memory is the business of
`EpiphanyCore` and is left out. The core keeps neither a catalogue nor rows, so
its whole state is in the handles: `open[h]` is the name and the storage type
stored in a table, and `index` the client's index pointer. `last` records the
last call with its code and the value it wrote or returned.

There is one action per function (`vacuum` and `analyze`, which are the same,
share one). `ok` stands for "no required pointer is null and no size is zero".
`storage_engine_available`, `storage_engine_name` and `error_message` are
translated with their comparisons, since the arguments are arbitrary integers
and the results index arrays of five and eight strings.

- `LookupsInBounds`: however a handle came to be open, its type names an
  engine, and neither the array of names nor that of messages is read past its
  end, for any argument.

## StorageEngines: init, cleanup and create_table of the five engines

The five `create_table` functions have one shape: allocate the table struct
without clearing it, allocate its members in turn, create a file (heap only),
free everything. Each engine is therefore a record with the list of its
members, the order of its frees, the number of strings in its context, and
whether it makes a file. A member is a `strdup` whose result is not looked at,
or a path buffer with the three lengths that matter: the literal prefix and
the literal suffix that size the buffer, and the characters of the format that
fills it. A table name is known by its length.

`AllocMember`, `OpenFile` and `FreeMember` are the steps that all engines
share. A `strdup` may give null, which is stored and later freed without harm.
A path buffer that cannot be allocated is written through a null pointer at
once: `Crash` ends every call of the process, `Restart` begins again, and only
files are left. `storage_init` allocates a context that nothing refers to
afterwards, and `storage_cleanup` does nothing.

- `PathsFit`: each path fills its buffer exactly, terminator included.
- `NoBadFree`: no member is freed twice or before it was set.
- `NothingLeft`: the state is well typed, and no exit leaves a block behind.
- `CreatedHasFile`: a heap table that was reported as created has its file,
  also after a crash that another thread's call has caused.

## VectorMath: similarity and distance of vectors

The three functions of `vector_storage.c` as loops over a binary floating-point
format with few bits: `Precision` significand bits, a greatest exponent
`MaxExp`, gradual underflow, infinities and not-a-number, rounding to nearest
with ties to even. The format is laid out like IEEE 754, so that squares of
small numbers vanish, squares of large ones overflow, and sums are rounded, as
in `float`. A finite number is an integer multiple of the least positive one.

- `DenominatorSound`: if the norms are neither zero nor infinite, neither is
  the denominator of the cosine. This is why the code multiplies two square
  roots; one root of the product would fail.
- `ResultsDefined`: distances are not negative, and the cosine is not-a-number
  only if a norm overflowed.
- `CosineBounded`: in at most two dimensions the similarity is at most 2. It
  may exceed 1, since squares of small components are rounded to the least
  number or to zero.
- `ManhattanSeparates`: distinct vectors have a positive Manhattan distance.
  The Euclidean distance has no such property: squares vanish.

## ExtensionSettings: the settings and who sees which value

The three variables of `_PG_init` have the context `PGC_POSTMASTER`. The module
follows them from the lines of the configuration file to the answers of the
SQL functions, through the code of `guc.c`, `dfmgr.c`, `miscinit.c`
and `postmaster.c` that they meet: placeholders before the library is loaded,
validation, preload at the start of the server, inheritance by `fork`, reloads
that reach the postmaster and each backend at moments of their own, edits of
the file in between, shutdown and restart, and the FATAL error of a backend
that loads the library late (`init_custom_variable`).

`conf` and `preload` are the file; `val`, `fromFile` and `pending` what each
process holds; `loaded` and `alive` which processes have the library and run;
`sighup` the backends with `ConfigReloadPending`. `answers` records what the
functions returned in which run of the server.

- `AnswersAgree`: in one run of the server all backends give the same answers,
  whenever they started and whatever they have read since.
- `RestartsAnnounced`: a process that has read the file has marked every
  setting for which a restart would bring another valid value. It includes
  `TypeOK`, and with it that a variable of the library always has a valid value.

## ExtensionFunctions: PG_TRY, PG_CATCH and the frees

`epiphanydb_create_table_sql` allocates three strings under `PG_TRY`, and any
step there may throw. A throw is a `longjmp` to the handler in
`PG_exception_stack`. The three locals are assigned between `setjmp` and
`longjmp` and are not volatile; in `PG_CATCH` each may be null or hold its last
value, which is a nondeterministic choice for each of them. The abort of the
transaction (external to the extension) resets the memory contexts. The four
other functions that take a name are one action, `WithName`.

- `NoBadPfree`: whatever throws and whatever `PG_CATCH` sees, nothing is freed
  twice or without having been allocated.
- `CleanExit`: between calls no string is allocated and the handler is the
  caller's; success is reported only for names that are not empty.

## LWLock: lightweight locks

One lock of `lwlock.c` with any number of processes, which call
`LWLockAcquire`, `LWLockConditionalAcquire`, `LWLockAcquireOrWait`,
`LWLockWaitForVar`, `LWLockUpdateVar`, `LWLockReleaseClearVar` and
`LWLockRelease` in any order that the functions allow. A step is one atomic
operation on `lock->state`, one section under the wait list lock, one write of
`lwWaiting`, or one operation on a semaphore. A compare-and-exchange loop is
one step, as only its last iteration has an effect. `LWLockWaitListLock` is an
action whose guard is the spin. Semaphores are posted for other reasons as
well (`ForeignPost`).

- `MutualExclusion`: an exclusive owner is the only owner.
- `NoLostWakeup`: somebody is bound to wake every process that sleeps.
- `ReleaseOkReturns`: while `LW_FLAG_RELEASE_OK` is clear, a woken process is
  still on its way to set it.
- `QueuedOnce`: a process is on the wait list or on one list of processes to
  wake, never on both, and `LW_FLAG_HAS_WAITERS` tells of everyone queued.
- `VarChangeSeen`: nobody sleeps for a value that is gone unless somebody is
  on the way to wake it.
- `PostsBalance`: absorbed posts are given back, so that between calls a
  semaphore counts exactly the posts of its other users.

Deadlock is checked: a process that holds the lock can always release it.

## ConditionVariable, ParallelScan and Barrier

`ConditionVariable` has the functions of `condition_variable.c`, one step per
section under `cv->mutex` or operation on a latch: sleep (prepare, wait for the
latch, look at the list, handle interrupts), cancel, signal, and the broadcast
with its sentinel. It has no callers; two modules compose with it.

`ParallelScan` is the shared state of a parallel forward scan of a B-tree
(`_bt_parallel_seize`, `_release`, `_done` and the parts of `_bt_first`,
`_bt_readpage` and `_bt_readnextpage` that call them). `Barrier` is
`barrier.c`: static and dynamic parties, arrive-and-wait, attach, detach,
arrive-and-detach, and the form in which all but the last one detach.

In both, a process tests the shared state under a spinlock, lets go of it, and
only then calls `ConditionVariableSleep`; the two are separate steps
(`SeizeWaits` and `SeizeSleeps`, `WaitOn` and `Sleep`), so that others may
release the scan or begin the phase in between. The first call of
`ConditionVariableSleep`, and one after an interrupt has cancelled the sleep,
only puts the process on the list and returns for another test.

- `BroadcastWakesAll`: a broadcast wakes everyone who was on the list when it
  began, whoever signals, broadcasts, joins or leaves meanwhile.
- `SignalNotLost`: a process that sleeps is on the list, or whoever has taken it
  off is about to set its latch; and nobody is on the list twice. Interrupts
  and other users of a latch do not swallow a signal.
- `SleeperHasWaker` of the scan: whoever sleeps has a process that is
  responsible for it. While the scan advances, one has it; when it is free, one
  has still to signal or will look at the scan; when it is done, one has still
  to broadcast or to set the latch. In particular the one signal of a release
  does not go to a process that turns away from the scan.
- `SleeperHasWaker` of the barrier: whoever sleeps though its phase has begun
  has a process that is still to broadcast or to set its latch.
- `PagesReadOnce`, `NothingMissed`: each matching page of the scan is read
  exactly once among the processes.
- `ScanEnds`: the scan ends for every process (liveness).
- `PhaseInStep`: an attached process sees the phase it was told, which is why
  `BarrierPhase` may read it without the lock, and the assertion in
  `BarrierArriveAndWait` holds.
- `OneElected`: a phase elects one participant, also if it began by a detach.
- `WaitersReturn`: whoever waits for a phase that has begun returns (liveness).

## ProcSignal: barriers over all processes

`procsignal.c`: a process changes shared state, emits a barrier by marking the
slots from the first to the last, advancing the generation and notifying the
processes from the last to the first, and waits until every slot has reached
the generation. A notification takes three steps: `ReadPid` looks who is in the
slot, `FlagSlot` sets its flag and `SignalProcess` sends the signal. Processes
start (`ProcSignalInit`, one step per access to shared memory), end
(`CleanupProcSignalState`), handle the signal, and absorb the barrier at some
later interrupt check, which may fail and be retried. `version` and `cached`
stand for the state that barriers are about (an open file in the source);
`confirmed` is the last version for which a wait has returned.

- `NothingStale`: after a wait has returned no process works with state from
  before its barrier.
- `GenerationExists`: the assertions `local_gen <= shared_gen` and
  `generation <= psh_barrierGeneration`.
- `QuietNotified`: if no process starts just while a barrier is emitted, nobody
  waits for a process that does not know of the barrier. Each such process has
  a signal on the way that its handler will find flagged, or the handler has
  run, or it has read the generation that it is going to advertise. Neither an
  error in the midst of absorbing, nor a second barrier, nor a process that
  ends between the look at its pid and the `kill`, nor a flag that is taken
  for the signal of another emitter loses a notification.
- `QuietWaitsEnd`: a wait ends if no process starts just while a barrier is
  emitted (liveness).
- `WaitsEnd`: a wait ends in any case. **Violated**, see "Finding".

## Runs

| Run | Configuration, module | Shows | Distinct states |
|---|---|---|---|
| `core_memory` | `CoreMemory`, `MCEpiphanyCore` | `NoFault`, `Conservation`, `SingleOwner`, `HandlesUsable`, `ImplementsLeases` | 240,762 |
| `core_liveness` | `CoreLiveness`, `MCEpiphanyCore` | `CallsReturn` | 13,152 |
| `data_calls` | `DataCalls`, `MCDataOperations` | `LookupsInBounds` | 2,424 |
| `engines_create` | `EnginesCreate`, `MCStorageEngines` | `PathsFit`, `NoBadFree`, `NothingLeft`, `CreatedHasFile` | 950,961 |
| `ext_settings` | `ExtSettings`, `MCExtensionSettings` | `AnswersAgree`, `RestartsAnnounced` | 1,979,308 |
| `ext_functions` | `ExtFunctions`, `ExtensionFunctions` | `NoBadPfree`, `CleanExit` | 1,015 |
| `vector_floats` | `VectorFloats`, `MCVectorMath` | `DenominatorSound`, `ResultsDefined`, `CosineBounded`, `ManhattanSeparates` | 82,944 |
| `lock` | `Lock`, `MCLWLock` | `MutualExclusion`, `NoLostWakeup`, `QueuedOnce`, `ReleaseOkReturns`, `VarChangeSeen`, `PostsBalance` | 2,123,838 |
| `scan` | `Scan`, `ParallelScan` | `PagesReadOnce`, `NothingMissed`, `BroadcastWakesAll`, `SignalNotLost`, `SleeperHasWaker`, `ScanEnds` | 642,228 |
| `barrier` | `Barrier`, `Barrier` | `PhaseInStep`, `OneElected`, `SleeperHasWaker`, `WaitersReturn` | 308,050 |
| `signal` | `Signal`, `ProcSignal` | `NothingStale`, `GenerationExists`, `QuietNotified`, `QuietWaitsEnd` | 261,733 |
| `signal_join` | `SignalJoin`, `ProcSignal` | `WaitsEnd` is violated | 3,337 |

A run is repeated with `tlc -config CoreMemory.cfg MCEpiphanyCore`, and
likewise for the others.

### Bounds

- `core_memory` has two threads and four addresses. Four is the size of a
  complete context, so every allocation of `epiphanydb_init` can be the one
  that fails, with the heap full or not, while the second thread builds a
  table or a transaction from what is left and reuses what the first has
  freed. `core_liveness` has two addresses: the heap is then full most of the
  time, the case in which a retry loop would show. The storage types are on
  both sides of the two ends of the range.
- `data_calls` has two table variables, two names, and types and error codes
  around the ends of the two arrays.
- `engines_create` has two threads, the empty name and one of length three,
  and one `storage_init` (`MaxInits`); the two formulas that matter for paths
  are linear in the length of the name.
- `ext_settings` has two backends, three edits (`MaxEdits`) and two starts
  (`MaxRuns`): enough to edit a line, edit it back and remove it, with reloads
  between, and to compare a run with the next. Sizes are on both sides of both
  limits, and one word is no Boolean.
- `ext_functions` needs one name; the two other cases are the empty name and
  the empty schema.
- `vector_floats` has `Precision` 3, `MaxExp` 5 and two dimensions, with
  twelve components among which are zero, the least numbers, numbers whose squares
  vanish or are rounded, one and its neighbours, and numbers whose squares
  overflow.
- `lock` has three processes, which is one that holds the lock, one that waits
  and one that comes between; both modes, all functions, two values of the
  variable and one foreign post (`MaxForeign`).
- `scan` has three processes and three pages, of which the first is deleted;
  `barrier` three processes and three phases (`MaxPhase`), the last of which
  ends by `BarrierArriveAndDetachExceptLast`. In both, the latch of one
  process serves other purposes as well.
- `signal` has two slots, whose processes may end and start again, two
  barriers (`MaxEmits`) and one error (`MaxErrors`), so that two barriers
  overlap in both slots. `signal_join` needs one barrier.

Threads, addresses, backends and processes are interchangeable where symmetry
is declared, and the properties do not tell them apart. Runs with a liveness
property declare no symmetry.

Deadlock is checked in the runs of the core, of the engines, of the
extension's functions and of the lock, where a caller can always make another
call. The other systems may stop: a function of `VectorMath` has returned, a
scan has ended, or the bounds on edits, phases and barriers have run out.

### Fairness

- `EpiphanyCore`: weak fairness of `Step(t)`: a thread inside the library goes
  on. There is no lock, no loop and no wait in the core, so this asks only
  that the operating system runs each thread. Nothing is assumed of clients,
  or of `malloc`, which may fail for ever.
- `ParallelScan`, `Barrier`: weak fairness of what a process does by itself
  once it is inside a function. A process that sleeps on its latch has no such
  step until the latch is set. Participants of a barrier need not arrive.
- `ProcSignal`: weak fairness of a process's own steps, and of its interrupts:
  signals are delivered, and "any backend that participates in ProcSignal
  signaling must arrange to call this function periodically" (comment on
  `ProcessProcSignalBarrier`). The sleep of a waiting process times out every
  five seconds to look again, so it is a guard.

### Mutants

Each property of a passing run has a mutant, defined beside the operator that
it changes, in the way a plausible bug would: a read of the context behind the
point where it may be gone (`CreateNameLooks`), a forgotten free
(`InitLogLeak`), a handle published before the last check (`InitShmEarly`), a
missing terminator (`SizeNoTerminator`), a setting that a reload changes
(`SetSighup`), one root of a product (`OneRoot`), a sleep without a second
attempt or a second test (`SleepAtOnce` of the lock and of the condition
variable), a broadcast without a sentinel (`BroadcastFirst`), a generation that
is read again when it is advertised (`AdvertiseLatest`), and others. TLC finds
the property violated with each.

## Finding

`signal_join`: `ProcSignalInit` reads the generation, advertises it, publishes
its pid, and only then can notice a signal. A barrier that is emitted between
these steps sends it no signal, or one that it drops, and its slot stays
behind. `WaitForProcSignalBarrier` of the emitter then waits until yet another
barrier is emitted. The comment in `EmitProcSignalBarrier` (`procsignal.c`,
lines 359 to 364) says of backends that start meanwhile "Concurrency is not a
problem here." What does hold in this case is `NothingStale`: the wait is too
long, never too short.

## Disagreements without a run

In these places the code does otherwise than a comment or document says, by the
text of one function alone and in every state, so that there is nothing to
explore. Most of the functions are marked as unfinished in the source. Paths
are below `src/`.

- The core returns error codes that the header does not declare
  (`src/epiphanydb_core.c:79`; `include/epiphanydb.h:36`). The model takes the
  missing names as distinct codes.
- An insert succeeds and a select of the key succeeds with null
  (`src/epiphanydb_core.c:376`; `include/epiphanydb.h:142` and `168`).
- `epiphanydb_open_table` gives a heap table whatever engine the table was
  created with (`src/epiphanydb_core.c:231`; `include/epiphanydb.h:105`).
- `epiphanydb_create_index` succeeds with null, which `epiphanydb_drop_index`
  rejects (`src/epiphanydb_core.c:395`; `include/epiphanydb.h:180` and `189`).
- All error codes are negative, and `epiphanydb_error_message` has messages
  for non-negative ones (`src/epiphanydb_core.c:154`; `include/epiphanydb.h:79`).
- `storage_cleanup` of an engine frees nothing (`src/storage/heap_storage.c:44`),
  and `open_table` succeeds without writing the table
  (`src/storage/heap_storage.c:88`); likewise in the other engines.
- The mark of a pending restart stays when the line that had caused it is
  removed again (`utils/misc/guc.c:459` in the server;
  `system-views.sgml:3320`).
- Functions declared `IMMUTABLE` return settings that change at a restart
  (`epiphanydb--1.0.sql:25`; `create_function.sgml:318`).
- The view of engines lists all of them as available whatever the setting
  says (`epiphanydb--1.0.sql:77` and `108`).
- `PG_CATCH` may leave strings to the abort, as its locals are not volatile
  (`contrib/epiphanydb/epiphanydb.c:193`).
- `epiphanydb_get_table_storage_engine_sql` returns a text pointer where the
  script declares an enum (`contrib/epiphanydb/epiphanydb.c:224`;
  `epiphanydb--1.0.sql:47`).

## Proofs

| Theorem | Module | States |
|---|---|---|
| `Invariance` | `EpiphanyCoreProofs` | `Spec => []IInv` |
| `TypeCorrect` | `EpiphanyCoreProofs` | `Spec => []TypeOK` |
| `MemorySafety` | `EpiphanyCoreProofs` | `Spec => []NoFault` |
| `HandlesAreUsable` | `EpiphanyCoreProofs` | `Spec => []HandlesUsable` |
| `NoLeaks` | `EpiphanyCoreProofs` | `Spec => []Conservation` |
| `OneOwner` | `EpiphanyCoreProofs` | `Spec => []SingleOwner` |
| `Refinement` | `EpiphanyCoreProofs` | `Spec => ImplementsLeases` |
| `EnginesInvariant` | `StorageEnginesProofs` | `Spec => []IInv` |
| `EnginesTypeOK`, `EnginesPathsFit`, `EnginesNoBadFree`, `EnginesNothingLeft`, `EnginesCreatedHasFile` | `StorageEnginesProofs` | the four invariants of `engines_create`, and `[]TypeOK` |
| `CallsLookInBounds` | `StorageEnginesProofs` | `[]LookupsInBounds` of `DataOperations` |
| `DenominatorIsSound`, `ResultsAreDefined`, `ManhattanSeparatesVectors` | `StorageEnginesProofs` | `[]DenominatorSound`, `[]ResultsDefined`, `[]ManhattanSeparates` of `VectorMath` |
| `SettingsInvariant`, `SettingsAnswersAgree`, `SettingsRestartsAnnounced`, `SettingsTypeOK` | `ExtensionProofs` | `[]IInv`, `[]AnswersAgree`, `[]RestartsAnnounced`, `[]TypeOK` of `ExtensionSettings` |
| `FunctionsInvariant`, `FunctionsNoBadPfree`, `FunctionsCleanExit` | `ExtensionProofs` | `[]FInv`, `[]NoBadPfree`, `[]CleanExit` of `ExtensionFunctions` |
| `LockInvariant`, `LockExcludes` | `LWLockProofs` | `[]IInv`, `[]MutualExclusion` |
| `LockBase`, `LockQueuesOnce`, `LockBalancesPosts` | `LWLockProofs` | `[]Base`, `[]QueuedOnce`, `[]PostsBalance` |
| `LockPromises`, `LockReleaseOkReturns`, `LockLosesNoWakeup`, `LockVarChangeSeen` | `LWLockProofs` | `[]WInv`, `[]ReleaseOkReturns`, `[]NoLostWakeup`, `[]VarChangeSeen` |
| `CVKeepsPromises` | `ConditionVariableProofs` | `[](SignalNotLost /\ BroadcastWakesAll)` under any callers |
| `ScanInvariant`, `ScanReadsOnce`, `ScanMissesNothing`, `ScanBroadcastWakesAll`, `ScanLosesNoSignal`, `ScanWakesSleepers` | `ParallelScanProofs` | `[](SInv /\ CVInv /\ WakeInv /\ SleepInv)` and the five invariants of `scan` |
| `BarrierCounts`, `BarrierInStep`, `BarrierElectsOne`, `BarrierWakesSleepers` | `BarrierProofs` | `[](BInv /\ CVInv /\ WakeInv /\ WaitInv)` and the three invariants of `barrier` |
| `BarrierInvariant`, `BarriersAbsorbed` | `ProcSignalProofs` | `[]IInv`, `[]NothingStale` |
| `BoundedInvariant`, `GenerationsExist` | `ProcSignalProofs` | `[]TInv`, `[]GenerationExists` |
| `NotificationsArrive` | `ProcSignalProofs` | `Spec => QuietNotified` |

Every safety property that a run checks has a theorem, except `CosineBounded`.

**Assumptions.** They are named and stated with the constants. Core:
`PointerAssumption` (null and the caller's pointer are no addresses, and
differ) and `TypeArgsAssumption` (types are integers); `Addr` and `Threads` are
any sets. Engines: `EngineAssumption` (lengths and the bound are natural
numbers). Calls on tables: `ArgsAssumption` (arguments are integers).
Vectors: `FormatAssumption` (at least three significand bits, and an odd
greatest exponent, as in every IEEE 754 format; any dimension) and
`ComponentsAssumption` (components are finite numbers of the format).
Settings: `ProcessAssumption` (the postmaster is no backend),
`BoundAssumption` and `AbsentAssumption` (the mark for a missing line is no
value). Lock: `ProcsAssumption` (finitely many processes), `OpsAssumption` (the
functions that processes call are among those modelled, and not only
`LWLockUpdateVar`, which needs a holder) and `ValuesAssumption`. Condition
variable: `NobodyAssumption` and `DisturbedAssumption` (who may be interrupted
is a process); any set of processes, infinite ones included. Scan:
`PagesAssumption` (numbers; the ignored pages are pages). Barrier:
`BarrierAssumption` (finitely many processes, a number of phases). Signals:
`ProcSignalAssumption` (there are finitely many slots, and the bounds are
natural numbers).

**The core.** `NoFault` is not inductive: whether a free is sound depends
on what all handles and all other calls point to. The invariant `IInv` is
an ownership invariant. A *slot* is an object with one of
its members. `Live` gives the slots that somebody still has to free: all
members of a held handle, and for the object of a call the members that the
rest of the call owes (`Owed(pc[t])`). `Roots` are the held handles and the
objects of calls. `HeapOK` ties the two to the heap: the objects are exactly
the roots; a live slot holds null or an allocated block of bytes; no two live
slots hold the same block; every block of bytes is in a live slot. To this
`IInv` adds that calls work on objects of their own that no client holds
(`CallsApart`), that a handle is finished and has no pointers in members its
type does not have (`HandlesUsable`, `HandleShape`), and what a constructor
has not written yet (`CallShape`). The last is what makes the skipped strdups
sound: a string that the configuration does not have is null in the copy.
`ArgsHeld` is kept beside it: a call that has still to read its context finds
it among the held ones. It is inductive because clients do not release such a
context, and with `HandlesUsable` it makes each of the reads sound.

The proof first shows that the six things a step can do to slots and roots
(free a slot, fill one, write null to a dead one, relabel null slots, add an
object, drop an object) keep `HeapOK`, whatever the heap. Then come the steps
that free or only return, the strdups of a constructor and its last step, which
hands the object to the client, and the first steps of calls.
For the refinement, a step that leaves the members of held objects
alone is a stutter, taking a handle back is a `Release`, and publishing an
object is an `Acquire` of blocks that no other handle has, which is where
single ownership is used.

**The engines.** `IInv` says, for each thread, which members of its table
struct are set at each place of `create_table`: those already allocated and,
in the order of the frees, those still to be freed. The facts about the five
engines themselves (each path is as long as its buffer, the frees name the
struct and each member once) are the lemma `EngineShapes`; the steps only use
these facts.

**Calls on tables.** The invariant `Answers` is the type of the handles and what
the property demands of the last report (`Sound`); it is inductive, since no
call reads an earlier report.

**Vectors.** The theorems are for every format and every dimension. They rest on
facts about rounding: it gives zero for zero, and not for more than half
the least number; it overflows exactly from half a step above the greatest
number on (`RatioFacts`, `RatioMonotone`, `RatioOverflows`).
Powers of two, the spacing of numbers and the integer root are recursive or
chosen values, so their laws come first (`Pow2Defined`, `SpacingFacts`,
`RootSplit`). That a sum is not-a-number only if a term is infinite, is zero
only if all its terms are, and stays infinite once it is, is an induction over
the loop (`SumFacts`, `SumZero`, `SumInfinite`), which, like those on powers, is
an induction on a set of numbers. For `DenominatorSound`, the square of a
rounded root is more than half of the number, and is not larger than the
greatest number (`RootBounds`), so that the product of two roots neither
vanishes nor overflows. This is where the odd exponent and the third bit are
used: with eight bits and an even greatest exponent the product for the
greatest number overflows, and with two bits and the greatest exponent 1 the
product for the least number vanishes.
`ManhattanSeparates` uses that the difference of two numbers is a multiple of
the least one, so it cannot be rounded to zero.

**The settings.** Two backends agree because each agrees with the postmaster.
The invariant is that every process with the library has the postmaster's
values (`Inherited`), and so has every answer of this run (`AnswersInForce`). A
reload keeps it because it does not change a value in force, a fork because it
copies, and a late load because it is refused.

`TypeOK` needs in addition that the values in the file are lines of the file or
`Absent`, and that every variable that was defined has a valid value (`Typed`).

**The functions of the extension.** `FInv` gives, by the place in
`epiphanydb_create_table_sql`, whose exception handler is set and that no
string has been freed before the frees of the two paths. Which values
`PG_CATCH` finds in the locals is left open, and does not matter: they are null
or the string that was allocated.

**The lock.** Three invariants, each from the ones before it.

1. `IInv`. Exclusion follows from the counts in `lock->state` only as long as
   these are the numbers of the owners, and they are only as long as a process
   that tries for the lock does not own it and one that releases it does.
   `Counted`, `Compatible` and `PlaceInv` say this together; the wait list
   plays no part.
2. `Base`. `lwWaiting` of a process says where it is: on the wait list, on the
   list of exactly one process that wakes others, or on none (`ListInv`). The
   posts of a semaphore, with those absorbed and those about to come, are the
   foreign ones and one more if the process was woken and has not slept since
   (`PostInv`).
3. `WInv`. The argument of the comments in `lwlock.c`, made precise. While a
   process is queued and past its second attempt, somebody is *active*: it
   owns the lock, was woken to try again, or is about to try or to wake
   (`ActiveInv`). The flag `LW_FLAG_RELEASE_OK` is set, or a process that a
   release has woken will set it (`ReleaseOkReturns`); it is set as long as
   somebody waits for the variable (`OkInv`). Whoever sleeps for a value that
   is gone has a process on the way to the list (`TellInv`). That a release
   wakes all who wait for the lock to be free rests on their being in front of
   the lockers (`Ordered`).

The loops over the wait list are the recursive function `Among`. What it
computes for every list (the members of the set, each once, in their order) is
proved by induction over its length, from the well-foundedness of the natural
numbers (`Least`, `SetInduction`, `AmongFacts`, `AmongOrdered`).

**Condition variables, scans and barriers.** `CVInv` is about the list alone and
holds whatever the callers do: whom a broadcast is still to wake is on the list
ahead of the sentinel of that broadcast. So a sentinel that comes to the head,
or has been popped by someone else, has nobody ahead. Scan and barrier inherit
it, because each of their steps is a function of the variable, a step inside
one, or leaves it alone. `WakeInv` is what makes `SignalNotLost` inductive: a
process that has prepared to sleep, and is not just looking at the list, is on
the list or has its latch set or about to be set. The look at the list is the
exception because the latch has then been reset and the loop of
`ConditionVariableTimedSleep` decides by the list alone.

`SInv` of the scan says that at most one process has seized the scan, that the
pages from `scanPage` on are unread, and that each page before it was read
once, is ignored, or belongs to one process that is about to read it. `BInv` of
the barrier says that `participants` and `arrived` count the attached processes
and those that have arrived in this phase. The process that makes the phase
advance is then the only one that was missing; and as long as somebody has not
returned from the phase before, nobody else is elected for it (`ElectInv`).

For `SleeperHasWaker`, `SleepInv` of the scan and `WaitInv` of the barrier speak
not only of who sleeps but of everyone who would go on sleeping if it looked now
(`SleepsOn`). `SleepInv` adds where a process of the scan uses the variable
(`PlaceInv`). A process between its test and its call of
`ConditionVariableSleep` counts as well if it has prepared to sleep and is on
the list, since the call will put it to sleep (`Bound`); it can only have come
there by a test that found the scan advancing or its phase not begun
(`BoundBefore`). The hard case is a release: it signals one process, and the next
to look at the scan must be one that seizes it. Whoever was taken off the list
returns from its sleep and tests the scan again, so it will; and a process that
is on the list and turns away has seized the scan itself, or has found it done.

**The signals.** The invariant is about pairs of an emitter and a process that
has cached what the emitter has replaced (`PairInv`). From the moment at which
the slot is marked until the process has dropped the state, the mark is set or
the process is absorbing; it has not advertised the generation of the barrier;
and if it has read that generation in order to advertise it, it will find the
mark first. The order of the three steps (mark before the generation advances;
read the generation before taking the marks; advertise after absorbing) is
used at each point.

`GenerationExists` includes the types with their bounds. That there are never
more than `MaxEmits` generations follows from counting: each version but the
first has a generation or an emitter that is about to give it one (`Counted`).

`NotificationsArrive` is an invariant under a temporal assumption: as long as
no process starts while another one emits, `NInv` is kept, and with it
`WaitersNotified`. `SlotInv` says what a slot shows of its process: one that is
not there looks as if it had absorbed everything, one that starts has nothing
to absorb, one that runs sees its flags. `ReachInv` is about an emitter and a
slot that its loop has passed: the process there has absorbed the barrier or is
notified of it; and about the slot that the emitter has flagged and has still
to signal (`Struck`): the flag is set there, or the process has taken it for
the signal of another emitter and is notified (`Flagged`). The assumption
cannot be dropped; `signal_join` is the counterexample.

**Only model-checked.**

- Liveness: `CallsReturn`, `ScanEnds`, `WaitersReturn`, `QuietWaitsEnd`. The
  proof system does not handle fairness. Their safety cores, which say that
  whoever waits has somebody who is bound to let it go on, are proved:
  `SignalNotLost`, `BroadcastWakesAll` and `SleeperHasWaker` for the scan and the
  barrier, and `QuietNotified` for the signals. That each of these obligations
  is met in the end is what TLC checks.
- `CosineBounded`. It is an analysis of the rounding errors of three sums, two
  roots, a product and a quotient, with products of four unknowns and a bound
  that is reached; the provers' arithmetic does not carry it. In more
  dimensions the bound grows with their number.

## Not modelled

- **Most of PostgreSQL.** The repository has an unchanged copy of PostgreSQL 17
  of about 1.6 million lines, so that the modelled code, which is all of
  EpiphanyDB's own with state and about 2,500 lines of the host, is a
  very small share of the lines in the tree. No model of this kind can cover a
  whole database server. The host parts were chosen because they carry the
  concurrency of the server that the extension runs in, and are where
  interleavings decide.
- Of the host parts: tranches, statistics and the list of held locks
  (`lwlock.c`); timed sleeps (`condition_variable.c`); backward scans, array
  keys and the pages themselves (`nbtree`); other reasons for signals
  (`procsignal.c`); other contexts and sources of settings (`guc.c`). Of a scan
  whose keys can never match (`so->qual_ok`, `nbtsearch.c:906`) every process
  only calls `_bt_parallel_done`, and none seizes or waits. Of
  `ProcessProcSignalBarrier`, the path on which a barrier is not absorbed
  without an error is left out: the only function that absorbs one,
  `ProcessBarrierSmgrRelease` (`smgr.c:817`), always returns true.
- The operations of the engines on open tables. They are placeholders that keep
  no state and report success in every case, so there is nothing to explore.
- The extension's storage manager: two functions that only log and that
  nothing calls. `_PG_fini`, which the server never calls. `epiphanydb_version`,
  which returns a constant.
- The engine test program, which calls functions that do not exist and cannot
  be linked. The architecture and the API with sessions under `src/docs/`, for
  which there is no code.
- The content of strings and buffers, table schemas and time stamps.
- Misuse that the C API forbids: handles that were never returned, were
  already released, or are released by two threads at once; and a context that
  is released while a call has still to read it.
- A composition of the core with the engines, or of the extension with the
  library: none of them calls another.
