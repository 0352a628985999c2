# A formal model of f4kvs-ffi

TLA+ specifications of the f4kvs C interface (`crates/f4kvs-ffi`), of its Go
binding (`go/`) and of the benchmark programs that use it (`bench/`), checked
with TLC on small instances and, for the properties that matter most, proved
with TLAPS for every instance.

## The system

| Part | State | Operations | What is hard about it |
|---|---|---|---|
| Returned memory (`lib.rs`: `StringAllocator`, `BytesAllocator`, `allocate_*`, `*_free`) | two process-wide registries of addresses, each behind a mutex; the heap | reads and scans hand out strings, buffers and arrays; five free functions take them back | several lock acquisitions per call, addresses reused by the system allocator, scans given up halfway, empty buffers that share one address |
| Data calls (`lib.rs`: `f4kvs_engine_put` ... `batch_delete_kv`) | the engine's map | 21 calls in three families: C strings, byte values, length-prefixed | argument checks, conversions between families, limits, batches |
| Error message (`LAST_ERROR`) | one message per thread | set by failing calls, read by `f4kvs_get_last_error` | lifetime of the pointer, threads |
| Cursors (`F4KvsCursor`) and callback scans | engine `Arc`, scan state, `done` | open, next_n, next_n_kv, free; scan_prefix_cb | writers and errors between two keys; the handle freed first; a callback that stops the scan |
| Opening (`open_lsm_engine`, `unique_data_dir`, `validate_data_dir`, `read_open_options`, `apply_open_options`; `NewMemoryEngine`, `NewPersistentEngine*` in Go) | a counter; the configuration | new, open, open_ex and their Go forms | headers of other versions, option precedence, directories left behind |
| Go handle (`F4KVS`) | handle, closed flag, `RWMutex` | all methods, Close | Close against calls in progress, loops that lock once per key |
| Go transactions (`Transaction`) | staged operations, two flags | Put, Delete, Get, Commit, Rollback | Commit is two engine batches with failures in between; retries |
| LSM engine (`f4kvs-lsm`) | - | - | another repository; appears only through what the code here relies on |
| Benchmark programs (`embed_vs_sqlite/main.go`, two probes, `ffi_read_tax/main.go`) | stores, rows, exit status | phases of eight profiles, integrity check, comparison table | paths that depend on flags and sizes, batch limits, deferred calls, ignored errors |
| Run writer (`de_out.go`) | staging and published directory of a run | NewRunWriter, AppendPhaseResults, Finalize | a crash between any two file-system calls, a run id that is used again |

The Go handle calls the data calls, transactions call the handle's batch
methods, cursors and scans hand out memory of the registries. Each module
below keeps the state of its own part and replaces its neighbours by what they
promise: `GoTxn` uses an engine that may close at any time, which is what
`ClosableEngine` allows and `GoHandle` is shown to implement; `FfiCursor` uses
an engine that others write to; `FfiCalls` leaves the memory of answers to
`FfiAlloc`. `FfiOpen` extends `OpenOptions`; `BenchHarness` composes the programs
(`BenchPrograms`) with the run writer (`BenchRunWriter`), every step of which is
one of the writer's specification (a lemma of `BenchProofs`).

## Modules

| Module | Models | Proofs |
|---|---|---|
| `FfiAlloc` | memory that crosses the C ABI | `FfiAllocProofs` |
| `GoHandle`, abstract: `ClosableEngine` | the Go handle and its lock | `GoProofs` |
| `FfiCursor` | prefix cursors and scans with a callback | `FfiCursorProofs` |
| `GoTxn` | Go transactions | `GoProofs` |
| `FfiCalls`, abstract: `AtomicMap` | data calls and error messages | `FfiCallsProofs` |
| `OpenOptions`, `FfiOpen` | from options to a configuration; opening engines from C and from Go, and their directories | `FfiOpenProofs` |
| `BenchRunWriter` | the run writer | `BenchHarnessProofs`, `BenchProofs` |
| `BenchPrograms` | the benchmark programs as scripts of calls | `BenchScriptProofs` |
| `BenchHarness` | what the calls do, rows, comparisons, the end of a process | `BenchHarnessProofs`, `BenchProofs` |

`BenchTraces` says what the scripts of `BenchPrograms` are like.
`BenchScriptProofs` proves it of every script, `BenchHarnessProofs` concludes
from it what each step of `BenchHarness` keeps, and `BenchProofs` has the theorems.

`MC<Module>` gives the constants of a module their values for TLC. Operators
named `X_something` right before `X` are mutants: plausible mistakes in the
code that `X` models. Each property is known to fail for at least one of them.
`PROJECT.json` maps every definition to the lines it models.

**FfiAlloc.** A slot is an out-variable of the client. A reading call begins by
allocating its array, then alternates `allocate_*` (the object gets an address)
and `*_register` (one lock), and ends by storing the result in its slot; a
string with an interior NUL sends it to the release steps instead. A free call
takes the pointers of a slot and goes through `is_allocated`, `unregister` and
the deallocation, one lock each for strings, one in all for buffers. The
deallocation of something that is not there, or has another length, sets
`corrupt`. All empty buffers have one address, so that a result may hold it
several times (`Forget`), and the registry one entry for all of them; freeing it
with another length than 0 sets `corrupt` too. `Careless` lets the client keep
pointers it has freed.

**GoHandle.** A method waits in `RLock`, checks the handle (`rLockLive`), is
inside C, and unlocks; `BatchPut` and `BatchGetBytes` do so once per key.
`Close` announces itself as a writer, waits for the readers, and shuts down,
frees and clears in three steps. `sync.RWMutex` is external: a waiting writer
holds back new readers, and those enter together when it unlocks.

**FfiCursor.** Keys of the prefix are numbers. A page is pulled key by key;
between two keys, others write. The engine may show a key that came or went
since the scan started, and must show one that was there all the time.
`PullError` is an engine error in the middle of a page; `fill_scan_result`
includes the failure of the C-string form on a key with a NUL. A callback scan
takes its pairs one by one as well (`Visit`), passes over values that are neither
bytes nor strings (`VisitSkip`; `foreign` are the keys that have one), and ends
when the callback says so, at the end of the prefix, or with an error.

**GoTxn.** `Commit` is three steps: the split of the staged operations, the put
batch (`CommitPuts`), the delete batch with the final assignments
(`CommitDeletes`). Names that `F4KVS` and `Transaction` share carry the prefix
`Txn` here. Either batch may be refused (closed engine, invalid key, too many
keys) or fail after any part of it was applied. `view` records what the transaction would have read when Commit was
called, `disturbed` that somebody else wrote meanwhile.

**FfiCalls.** Byte strings are short sequences of an ordinary byte, NUL and a
byte that is not UTF-8, so that cutting at a NUL, length limits and UTF-8
checks are modelled by what they do. A call is checked in one step, takes
effect in the engine in a second, returns in a third.

**OpenOptions.** The layout of the struct (`EndOf`), the copy of the declared
prefix, and the assignments of `apply_open_options` in their order. `Documented`
says the same field by field, as the header does, but for the wait of the
amortized preset, where the header says 10 ms and the code 50 ms. `CopyOptions` is the copy that
the Go binding makes.

**FfiOpen.** Threads of a process open engines through the C or the Go calls,
ephemeral ones or on a path (cut at a NUL, refused if empty or not UTF-8), use
and free them; the process ends and another may get its id. A call takes its
directory and configuration in one step and creates the engine in a second,
which may fail.

**BenchRunWriter.** One step per file-system call: `RemoveAll` goes file by
file, a file is created and then filled, `Rename` refuses to replace a
directory. A process may stop between any two, and the next may use the same
run id. A file is known by the process that wrote it and the lines it holds.

**BenchPrograms.** A program is the sequence of calls that its flags lead to: each
benchmark function becomes an operator of the same name that returns the calls
it makes, with what it does when one fails (`fatal`, `panic`, ignored). Loops
over keys are as long as the flags say. The conversion `uint32(need)` of a batch
size (`main.go:725`) is left out: it changes nothing below 2^32 keys.

**BenchHarness.** A process works through its script. A store knows how many keys
of each kind were acknowledged and how many are durable; `FlushWAL`, a clean
close or the engine's own group commit (`Background`) makes the two equal. Any
fallible call may fail, an engine may lose rows at a close that reports
nothing or at an open, `fatal` ends the process without its deferred calls and a
panic runs them, and a crash may come at any point. Durations are chosen when the
table is printed. Payloads, formatting and the facts about host and git in the
manifest are left out.

## Runs

| Run | Checks | Distinct states |
|---|---|---|
| `alloc` | `HeldUsable`, `NoCorruption`, `NoLeak`, `IInv`, for a client that frees once | 274,701 |
| `handle` | `NoUseAfterClose`, `ClosedForGood`, `IInv`, `ImplementsClosable` and, under fairness, `MethodsReturn` | 30,277 |
| `cursor` | `NoReplay`, `CompleteScan`, `CompleteVisit`, `EngineOutlivesCursors`, `IInv` and, under fairness, `ScanEnds` | 274,718 |
| `txn_commit` | `CommitEffect`, `DeletesAfterPuts`, `TxnInv`, `Finished`, `FailedCommitKeepsOps` | 776,839 |
| `calls` | `TypeOK`, `StringsAreText`, `ErrorReported`, `MessageOutlives`, `ImplementsMap` | 371,350 |
| `open` | `OwnDirectory`, `AsDocumented`, `MaxCoversTarget` | 38,886 |
| `harness` | `TypeOK`, `NoSelfInflictedFailure`, `NoSilentLoss`, `DurableRows`, `FairUnits`, `ComparesNameFaster`, `PublishedCovers`, `FailuresArePublished`, `FirstPublishAtomic`, `RemovesClosedStores`, `OnlyRestartForgets` | 102,937 |

What the benchmark properties say: with sensible flags (`Sensible`) a program
fails only if a call fails that has no reason to; a run never succeeds when an
engine it checks has lost rows; rows that stand for durable ingest are recorded
when everything is durable (SQLite with `synchronous=NORMAL`, which does not
promise it, aside), and batched ingest has the number of durable units
that the benchmark's README promises; comparison lines name the faster side, and
the two products are compared in every phase but `post_restart_row_count`; a
successful run has published exactly its profiles, each measurement once, and one
that fails its integrity check has published the results that show it;
what is published is whole, and a copy of a run is lost only to a new start
under its run id; stores are closed before their directory is removed.

Five runs state what a comment or document of the repository says and find
that the code does something else:

| Run | Statement | What the code does |
|---|---|---|
| `alloc_string_double` | `f4kvs.h`: double-free is prevented | two threads that free one string both pass `is_allocated` and both deallocate |
| `cursor_resume` | `f4kvs.h`: after an error the cursor resumes after the last returned key | keys pulled before the error are passed over |
| `txn_nul` | `LIMITATIONS.md`: C-string calls reject NUL | through Go, the key is cut at the NUL and written |
| `calls_nul_trap` | `f4kvs.h`: no NUL trap in length-prefixed calls | their prefix scans return C strings and fail on such a key |
| `gate_covers` | `bench/embed_vs_sqlite/main.go:307`: integrity gate for each engine that ran | three of the eight profiles are never reopened and counted |

Smaller differences between documents and code that the models follow the code
in, without a run of their own: `ErrorNotFound` sets no error message
(`f4kvs.h:45`); a batch that is too large is an invalid argument, not a storage
error (`LIMITATIONS.md:38`); the default group-commit wait is 50 ms, not 10 ms,
with the amortized preset (`f4kvs.h:84`, which `AsDocumented` makes an exception
of; `main.go:260` says 50 ms); a scan with a callback does not visit every live
pair (`lib.rs:1924`), but those whose value is bytes or a string (`lib.rs:1973`);
`post_restart_row_count` has a duration for each side, and yet no comparison is
printed for it, because `ratioLine` uses the last row of a profile, and the last
one of this phase is a count; an ephemeral engine may open the data
of an earlier process with the same id (`f4kvs.h:22`); a run that is published
again is removed first, so that the publication is atomic only for the first run
of a run id (`de_out.go:195`); the group-commit profiles acknowledge a put before
the group is synced (`main.go:227`), not after (`bench/embed_vs_sqlite/README.md:27`).

### Bounds

Two threads and two slots are enough for two calls to race for an address, and
three addresses for a scan result of one pair (array, key, value), or for a
single object beside a scan that is being built or given up, so that freed
addresses are reused. A scan may find up to two pairs and a buffer is empty or
not. Three goroutines give a reader, a closer and a second closer or a reader
held back; loops have up to two keys. A cursor pages through three keys with
pages of up to two, so that pages end before, at and after the end of the scan,
and a key that is no C string lies in the middle; any of the keys may have a value
that callback scans pass over. Transactions use three keys
(one invalid) and a batch limit that the staged operations can exceed. The data
calls use a maximum key and value length of 2, strings of up to 3 bytes, and
batches of up to one item above the limit, whose items are drawn from a smaller
set (`BatchArgs`, `BatchDatas`) with valid, NUL-carrying and NULL members. In
`calls` a behaviour is one of a single thread that passes anything, until only
plain data is around, and then one of two threads with plain data
(`MCFfiCalls`): what threads share, beside the map, does not depend on the
arguments. In `cursor` a behaviour has a cursor or a callback scan, since the two
share nothing but the engine. In `open` the first engine is opened with any
options and later ones with none; table sizes are scaled down, and struct sizes
are those of headers without some fields, the present one and a later one. In
`harness` an engine takes batches of two (10,000 in the code) and bulk-import mode
begins at two chunks, so that key numbers from zero to three lie below, at and above
each limit; there are up to three processes where they share something (a run id or
a `-dir`), and one failing call per process, none where many profiles run one
after the other. Symmetry is used in `txn_commit` and `open`, which have no
liveness properties.

Deadlock is checked for the memory, handle and data-call runs. The other
systems may really stop: a client frees everything it has (cursors), all
transactions are finished on a closed engine, and the number of engines,
processes and program runs is bounded.

### Fairness

`handle` assumes that a goroutine inside a call keeps
running (weak fairness of its steps), which any preemptive scheduler gives and
which is all that straight-line code needs. `Announce`, the mutex that
serialises writers, has strong fairness: `sync.Mutex` hands itself over to a
waiter that has lost too often. `cursor` assumes in addition that the client
goes on asking, since that is what `ScanEnds` is about. No fairness is assumed
of writers, nor of clients that are outside a call.

## Proofs

Each component has an inductive invariant, shown to hold initially, to be
preserved by every action, one step per action, and to imply the properties.
Memory, handle, cursors and transactions have it in their own module (`IInv`,
`TxnInv`, with `TypeOK` as a conjunct), and TLC checks it on the runs. For data
calls, opening, run writer and harness it ranges over infinite sets and is
defined in the proof module (`IInv`, `WInv`, `HInv`).

| Theorem | Says |
|---|---|
| `OwnershipDiscipline`, `HeldPointersUsable`, `FreesAreExact`, `NothingLeaks`, `RegistriesMatchHeap` | for a client that frees once, any number of threads, slots and addresses: exact frees, no leaks |
| `LockDiscipline`, `HandleOutlivesCalls`, `ClosedOnce`, `ClosedStaysClosed`, `HandleImplementsClosable` | the handle for any set of goroutines, and that it implements `ClosableEngine` |
| `CursorDiscipline`, `PagesNeverReplay`, `ScansAreComplete`, `VisitsAreComplete`, `CursorsKeepEngine` | cursors and callback scans for any set of keys, page sizes and cursors |
| `TxnDiscipline`, `CommitIsFaithful`, `PutsComeFirst`, `FinishedIsFinal`, `FailureKeepsOps` | transactions, if no two keys are cut to the same name (`Distinct`) |
| `CallDiscipline`, `FailuresAreReported`, `StoredStringsAreText`, `MessagesOutliveCalls` | data calls for any arguments, limits and threads |
| `EphemeralEnginesAreAlone`, `EnginesAreConfiguredAsDocumented`, `MaximumCoversTarget` | opening, for any threads, process ids, paths, options, presets and defaults |
| `CallsImplementMap` | the data calls implement `AtomicMap`: the map changes only as the calls in progress say, whatever part of a failing batch is applied |
| `PublishesWhole`, `FinalizeKeepsACopy` | the run writer, for any run ids, lines and number of processes |
| `ScriptGood` | the script of every program, for any flags: which calls it may hold, and that a row of durable ingest comes right after a `FlushWAL` of its store, unless writes to it are durable when they return, and a row of batched ingest after as many writes as its profile should make |
| `RowsAreDurable`, `UnitsAreFair`, `ComparisonsNameFaster` | the harness, for any flags, sizes and limits, any durations, any number of processes and failing calls: rows, their units and comparison lines are what they stand for |
| `DirectoriesRemovedClosed` | no program that has met no error removes the directory of an open engine, for any flags |
| `LossIsNoticed` | the harness never succeeds when a store it checks has lost rows, for any flags and whatever fails unseen |
| `RunsArePublished`, `FailedRunsArePublished` | what a run has published when it ends, with success or by its integrity check, for any flags and whatever fails |
| `HarnessPublishesWhole`, `HarnessKeepsACopy` | the properties of the run writer hold of the harness, whose steps are steps of the writer |
| `TypeCorrect` (memory, handle, cursors, calls), `TxnTypeCorrect`, `HarnessTypeCorrect` | type correctness |

Why the invariants are needed:

- *Memory.* That frees are exact does not follow from the step before. The
  strengthening says that an address has one owner (`Ownership`), and that an
  owned element is registered unless its owner is just between the heap and the
  registry with it (`InFlight`): at those moments the address is in no registry,
  so that no other thread can mistake it for its own. The address of the empty
  buffers has many owners; `EmptyBuffers` says that whoever registers, replaces
  or removes its entry, the length found there is 0, and 0 is what is freed.
- *Handle.* `LockInv` ties the lock to program positions; `HandleInv` says what
  handle, flag and engine are outside and inside the closing section.
- *Cursor.* `PageInv` puts everything pulled at or before the position;
  `CoverInv` says that nothing stable is missing there unless a call failed.
  `VisitInv` says the same of a callback scan, where the keys it may pass over are
  none of those it owes.
- *Transaction.* `ViewInv`: before the put batch the view is what a read gives,
  before the delete batch it is the store except for the keys to be deleted.
- *Calls.* A call in progress has passed its checks: all its keys and values are
  valid, so that whatever part of a batch is applied, stored strings are text.
- *Opening.* `OpenInv`: directories in use carry numbers below the counter, and
  those at or above it hold nothing of this run. `ConfigInv` ties the configuration
  of an engine to the options its caller gave; that these give what the header
  describes is a fact about `apply_open_options` alone, shown field by field.
- *Run writer.* `Staged`: which files of the staging directory are complete at each
  step, so that it is whole from the removal of the published directory on.
- *Harness.* A script is built by some thirty operators from the flags. `Good`
  is a property of scripts that survives concatenation and that each operator is
  shown to have. It says what a call may look like, that a store is opened with
  the same durability each time (`LazyPaths`), and that the flush stands next to
  the row, with at most a `SetBulkImport` between. `HInv` adds types, that a store
  that is not lazy has nothing that is not durable, and that a store is
  durable when the call before was its flush. For the units of a row, `Good` finds
  the writes that are to be counted between two positions of the script (`Window`),
  and `CountsUnits` says that those made so far are in the store. A failing flush ends the process or
  its rows are not reached; group commits in the background only help.
- *Harness, whole scripts.* What depends on calls far apart is a trace: a state
  before each call of a script, whose moves are in a set (`Leads` in `BenchTraces`).
  Traces are composed like the scripts. `Stacks` has the deferred calls and the
  stores that may be open, `Staging` the stages of an integrity check, `Ranks` the
  order of the rows of a profile, `Publishing` that main makes the writer, appends,
  finalizes and then checks. The invariants `Stacked`, `Noticed`, `Ranked` and
  `Publishes` tie the state of the process to the trace at its next call: what
  deferred calls there are, what the store of a check can have lost and where the
  loss is to be seen next, which rows there are, and what the writer has.

The assumptions are the named ASSUMEs of the modules, which say that special
values are distinct, bounds and limits are numbers, structs have possible sizes,
and flags have the types that the flag package gives them.

Only model-checked are the liveness properties (fairness is out of the prover's
reach) and `NoSelfInflictedFailure`, which depends on what every loop of a script
has written before what others read. The provers cannot instantiate an induction
theorem whose parameter is an operator; where a recursive function must be reasoned
about (`longLines`) the induction is over a set of numbers (`Inductive`).

## Not modelled

- The LSM engine, the Tokio runtime and SQLite: not in this repository. A call
  into them is a step (or the steps of a scan) of the calling thread.
- Go error messages: `lastError` asks for the message in a second C call, and
  whether that runs on the same thread is up to the Go scheduler
  (`LIMITATIONS.md:59`). `FfiCalls` says what holds on one thread.
- `f4kvs_result_to_string`, `errors.go`, the stub without cgo, build files and
  scripts: constant or straight-line code.
- `read_tax.rs` calls the LSM engine past the interface modelled here.
- In `de_out.go`, the collection of host and git facts, and `AppendLine`, which
  nothing calls.
- A crash of the host, after which renamed files may be empty, and two processes
  that stage the same run id at a time (run ids have a resolution of a second).
- Values of other types than bytes and strings, outside callback scans: nothing
  here writes them, but other users of the engine may (`LIMITATIONS.md:50`). In
  `FfiCursor` the scan with a callback meets them.
- What a Commit leaves when others write its keys between its two batches: the
  writes are in `GoTxn`, but its properties are about undisturbed commits, as
  transactions are "not an isolation mechanism" (`LIMITATIONS.md:54`).
- Which of two items with the same key counts in a batch: the calls keep the
  caller's order, and that the last one counts is assumed of the engine.
- A data race on one cursor or one transaction: the documents forbid it.
