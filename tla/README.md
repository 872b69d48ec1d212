# Verification of wago's runtime core

wago compiles WebAssembly to native code and runs it inside a Go program. This
directory holds TLA+ models of the parts of wago that are hard to test: the
protocols by which goroutines, native code, plugin callbacks and shutdown share
instances, memories and plugins; the two garbage collectors against the program
that runs on top of them; and the protocols by which processes publish project
metadata and manager releases through crashes. TLC checks the models on small
instances. TLAPS proves the safety properties for every value of the constants:
any number of goroutines, processes and files, and any heap.

Paths below are relative to the repository; code named without a directory is
in `src/wago`.

## The system and its parts

| part | code | state | operations | model |
|---|---|---|---|---|
| invocation gate | `instance_entry.go`, `instance_native_context.go` | gate word (Held, Waiters, Fast, Revoked, Handoff), waiter list, shared notification channel, execution flags | Lock, lockContext, Unlock, direct entry, prepared entry, revokeFast, markNativeControlShared | `InvocationGate` |
| atomic wait and notify | `memory_wait.go`, `atomic_wait_helper.go`, `memory.go`, native shortcut in `amd64/atomic_fast_wait.go` | cells, pending word, queue per offset, result channel, importer count | wait, notify, timeout, cancellation, Instance.Close, Memory.Close | `MemoryWait` |
| instance lifecycle | `instance_lifecycle.go`, `reference_lifetime.go`, `import_attachments.go` | entry count and close bit, close state flags, roots, finalizing claim | construction, invocation, Close, hooks, retain and release of roots, adoption, terminal wait | `InstanceLifecycle` |
| plugin call gate | `plugin_call_gate.go` | call count with close bit, drained channel, terminal lane | enter, reserve, release, deactivate, terminal lane | `PluginCallGate` |
| runtime shutdown | `runtime.go`, `plugin_plan.go`, `managed_instances.go`, `services.go`, `hooks.go` | runtime state, operations, instances, managers, contract slots | operations, instantiation, invocation, callbacks, LoadPlugins, Close | `RuntimeShutdown` |
| Tiny collector | `tiny_collect.go`, `tiny_alloc.go`, `barrier.go`, `roots.go` in `src/core/runtime/gc/native` | handles, colours, gray stack, scan, root and sweep cursors, epoch | Step, full collection, barriers, allocation, root publication | `TinyCollector`, `ManagedHeap` |
| Throughput collector | `collect.go`, `mark.go`, `cards.go`, `survivor.go`, `alloc.go`, `barrier.go` in the same directory | spaces, marks, remembered set, cards, slot cards | minor and full collection, allocation with retries, barriers, ForcePromote | `GenerationalCollector`, `ManagedHeap` |
| project metadata, atomic files, file locks | `cli/internal/project`, `internal/atomicfile`, `internal/filelock` | manifest, lock, journal, project lock | publish, recover, snapshot read; crash, power loss | `ProjectTransaction` |
| managed releases | `internal/managedrelease`, `internal/filelock`, `cli/manager/internal/self` | release directories, leases, record, publication lock | prepare, publish, roll back, prune, launch, uninstall; crash | `ManagedRelease` |
| module leases, code mapping, reference store, native interruption, plugin builds | `module.go`, `code_mapping.go`, `reference_store.go`, `src/core/runtime`, `cli/manager/internal/plugin` | use counts, mapped code, graph of references, interrupt requests, build directory | begin and end of use, acquire and release, deadlines, publish | not modelled |
| decoder, validator, code generators, encoders | `src/core/compiler`, `src/core/encoder` | none shared | pure translation | not modelled |
| command line, installer, registry, profiling | `cli`, `profile` | files, network | I/O | not modelled |

How they interact. A public call takes the invocation gate of its instance, a
lease of the instance and an operation of the runtime. It may park in a host
callback, which holds the gate of the plugin that provides it. Closing an
instance waits for leases and roots and then runs hooks through the plugin
gates; closing the runtime closes instances, stops plugins and waits for all of
them in an order that must not be circular. The behaviours that are hard to test
are the interleavings at those boundaries; `PROJECT.json` lists them as hazards,
each at its line, with the properties that cover it.

## Modules

### `GateContract` and `InvocationGate`

`GateContract` is what callers rely on: one holder at a time, ordinary or fast,
and no fast holder once revocation was reported. `InvocationGate` is the code.
One step is one atomic operation or one critical section of `gate.mu`; `pc` says
where each goroutine is, `seen` is the word it last loaded, and `state` is the
set of bits in the word. `changed` is the set of goroutines holding the current
notification channel; closing the channel empties it. `revoked` and `published`
are history variables. `GateContract` is implemented under the mapping `holder`.
The locks that `markNativeControlShared` takes around the publication of its bit
(`nativeShareMu`, the native-execution lock, the retained host gate) are left
out, which only adds interleavings.

### `MemoryWait`

One shared memory. The guest's plain store may stay in a store buffer until the
fence of the native notify path; the waiter sets the pending word before it
compares. `result` is the channel of each waiter. Instances attach to the memory
and `Memory.Close` succeeds only when none is attached. Not modelled: growth,
alignment and bounds traps, unshared memories.

### `InstanceLifecycle`

One instance of any kind in `Config` (made for a manager or not, with a collected
graph or not, with AfterClose hooks or not). `tryFinalize` and `finalize` are
called from many places, so `ret` and `fret` hold the label to return to.
`closeState` is the set of flags of `instanceCloseState`. A holder gives a
reference to a closed instance back once. Not modelled: instances without a
runtime or a manager, and the function-environment reconciliation that exists on
RV64 only; operations of the runtime belong to `RuntimeShutdown`.

### `PluginCallGate` and `RuntimeShutdown`

`PluginCallGate` has the gate's operations; `RuntimeShutdown` composes them with
everyone who uses them. An instance is reduced to the five stages that
`InstanceLifecycle` gives it. A host import may wait for some plugin's `Stop`
(`awaits`), which is what makes the order of the drains matter. Contract calls go
from any later plugin to the first. `Fork`, budgets and limits are not modelled;
the close observers run while the gates are still open and are part of
`DrainCallbacks`.

An instance that an observer refuses, whose context is cancelled or whose runtime
is closed by then is taken back (`TakeBack`, `FinishInstantiate`). What fails
earlier never leaves its constructor, and the wait of a cancelled instantiation for
the terminal hooks of its instance is not modelled.

A hook whose gate admits it on neither lane would be dropped. The model has no
such step: `HooksAreDelivered` states that the situation never arises.

### `ProjectTransaction`

Processes that publish and read the metadata of one project. `seen` is what the
file system shows; `disk` holds, per name, what may be found after a power loss.
A rename is visible at once and durable when its directory is synced; different
names reach the disk in any order until then, which is what the code's separate
syncs guard against. The data of a replaced file is synced before the rename, so
contents are whole. A document is the number of the transaction that wrote it
and the journal is the set of documents it carries, so "newer" is a comparison.
`whole`, `claimed` and `floor` are history. A fault model in `FaultModels` is
a choice among failing reads, writes and syncs (`io`), a failing sync of the
journal's directory (`journalSync`), the death of a process at any step (`kill`)
or only outside the window before the journal is synced (`lateKill`), and power
loss at any step (`power`) or only once the name `.wago` is on the disk
(`latePower`). That name is in the project directory, so syncing `.wago` does not
make it durable, and without it a power loss takes the journal and the lock file
too. A project starts fresh, without `.wago`, or used, with `.wago` and the lock
file and no journal. A callback returns the first error it gets, and nobody
removes the project lock. The syncs are those
of Unix; Windows writes through on rename. Not modelled: file modes, corrupt
journals (refused by `validateJournal`), and reads of a single document.

### `ManagedHeap`, `TinyCollector` and `GenerationalCollector`

`ManagedHeap` is what a program may expect of a collector: constructors, loads
and stores do what they say, and the only other thing that ever happens is that
objects out of reach disappear. Reachability is the least set that is closed
under the fields. Both collectors are shown to implement it, the first under the
identity, the second with `used` as the handles of any space and `frame` as
everything the roots of a collection hold.

`TinyCollector` is the incremental profile. The program runs between the Steps of
the collector, as it does in the code, where allocations pay for them. An object
is a handle with `Width[h]` reference fields; `Chunks[h]` pieces of it are
poisoned one by one. A Step of the model scans one reference or sweeps one
handle. A Step of the code does several in a row, so each of its interleavings is
one of the model's. The budget of persistent roots is not cut up in this way,
because what the code does between two budgets matters (see `tiny_remark`
below). Colours are epochs that wrap. An allocation is the publication of its
object; the Steps it pays for come before it and are Steps like any other. The
fields of a freed handle become blank in the model; in the code its payload stays
until the next constructor at that place overwrites it, unless it is poisoned.

`GenerationalCollector` is the Throughput profile. A collection is synchronous and
so is one action; an allocation that finds no room is one for each collection it
asks for. Sizes and ages are choices: an object fits or does not, and a survivor
stays young or is tenured, which is every outcome the adaptive threshold and the
survivor room can have. `bad` and the second disjunct of `AddCards` are cards that
could not be recorded. `job.args` are the operands that only the constructor holds.

Not modelled: type descriptors and the layout of objects; the free lists and
block bitmaps of the heaps; the debt that paces Steps; the build without
incremental collection (`tinyCollectNonIncremental`); the debugging options
`ForceMajorEveryMinor`, `VerifyAfterCollect` and `CollectEveryAlloc`; weak
persistent roots; the native allocation paths and the handles they reserve; the
object-edge records of RV64.

### `ManagedRelease`

Updaters, which prepare and publish a release and prune the old ones, or
uninstall; and launchers, which run the selected release or are started from its
directory. A directory is in one of the states that its files tell apart: with a
lease only, complete, published (with its marker), retiring (the lease renamed),
retired (the directory renamed), scraps (of a retired one, some entries removed),
torn (an uninstall is removing it) or gone; legacy releases have neither lease nor
marker. `RemoveAll` removes entries one by one and in no order that the code
relies on, so of scraps and of torn releases any name may be left. A payload that
is started directly learns its directory from `os.Executable`, which names the
retired one when a pruner has renamed it since the start (`StartDirectly`). Lock files are numbered, because
a name may outlive its file and a waiter its name. A step under the publication
lock is one action when only its holders can disturb it; the system calls of a
launcher are one action each. `Stop` is the death of a process at any step, and
also every error return that has nothing to undo. A launcher gives up at its
sixteenth attempt; the model lets it stop or go on. `wiped` and `since` are
history. Not modelled: Windows (deferred uninstall, pending markers and
`Rotate`), what a bootstrap does to the launcher binary, the run of the staged
binary by which `Prepare` verifies it, and power loss.

Definitions that begin with "Fault:" in their comment are deliberately wrong
variants of the definition that follows them. They show that the properties can
fail; no specification uses them.

## Runs

| run | instance | properties | states |
|---|---|---|---|
| `gate` | four goroutines: a caller with a context, one with direct entry, one with prepared entry that may publish, a publisher; fair | `MutualExclusion`, `QueueHasReleaser`, `PublicationIsQuiet`, `ImplementsContract`, `GateProgress`, `RevocationReturns` | 27,589 |
| `wait_wake` | two waiters, two offsets, two values, a notifier that wakes all | `PendingIsExact`, `NoLostWakeup` | 963,672 |
| `wait_close` | wakes of 0 or 1, a guest and a host waiter, closes under parked waits; fair | `WakeIsReported`, `WaitReturns` | 49,107 |
| `life` | two invokers, a closer, a holder, a waiter, all kinds of instance; fair | `ReleaseIsQuiet`, `OnceOnly`, `HooksInOrder`, `NoOwnerLeftBehind`, `CloseReleases`, `TerminalWaitReturns`, `CollectionHappens` | 194,362 |
| `shutdown` | two plugins, a client, a direct and a managed instance; fair | `NoCallAfterTeardown`, `LeaseOutlivesStop`, `ClosedIsQuiet`, `HooksAreDelivered`, `ShutdownCompletes` | 29,738 |
| `project` | two processes, two publications; two fault models | `EffectiveIsWhole`, `ReadsAreCurrent`, `EveryOutcomeIsWhole`, `CommittedIsDurable`, `NothingIsRolledBack` | 468,660 |
| `project_torn` | the first publication of a fresh project; power loss | `EveryOutcomeIsWhole`: violated | |
| `tiny` | an object with two references, one with one reference that is poisoned in two pieces, a slot, two epochs; fair | `LiveIsKept`, `NoBlackToWhite`, `ColorsAreExact`, `SweepNeverFails`, `ImplementsHeap`, `GarbageIsReclaimed` | 48,294 |
| `tiny_remark` | a chain of three objects, as many slots as a root budget | `LiveIsKept`: violated | |
| `generational` | a parent with two fields on cards that do not touch, a leaf, a slot; moving and not | `NothingDangles`, `RememberedIsComplete`, `ImplementsHeap` | 576,510 |
| `releases` | two updaters, a launcher, three releases, an uninstall | `RunningIsWhole`, `SelectedIsWhole`, `PublicationIsExclusive`, `LaunchIsPatient` | 950,513 |
| `releases_direct` | the same without an uninstall | `DirectIsPinned`: violated | |

The fault models of `project` are failing writes and syncs with processes killed
at any step; and failing writes with power loss once `.wago` is durable and
processes killed at any step but the sync of their journal.

All hold but three, which show where the code and its comments or tests part:

- `project_torn`. The first publication of a project creates `.wago`
  (`filelock.Acquire`), writes the journal and syncs `.wago`, but not the project
  directory, which has the name `.wago` in it; that is synced after both documents
  were replaced. If the power fails in between, the new manifest may be left with
  the old lock, and `.wago` and the journal may be gone with their name, although
  the comments promise an atomic, crash-recoverable pair. Syncing the project
  directory after `.wago` was created would restore the order.
- `releases_direct`. A payload is started from its own directory while a pruner
  retires that directory. It resolves its path to `.retired-release-x`, where
  `RemoveAll` has removed the lease and the marker and not yet the receipt:
  `pinProcess` takes it for a release from before there were leases and runs it,
  in a directory that is going away. A comment says that such a payload pins its
  source. Refusing names that begin with `.retired-` would close the window.
  `RunningIsWhole` leaves out this one case (`Stray`).
- `tiny_remark`. With a whole root budget of persistent slots or more (256 in the
  code), remark takes several Steps and reads the frames in the first only. In
  between, the program loads a reference from a gray object into a frame and
  overwrites the field; no barrier sees a load or a deletion. A bulk array write
  then scans the gray object (`PostBulkWriteBarrier` drains in remark), so the
  last Step of remark finds no work and starts the sweep, and the object that the
  frame holds is freed. Without that drain the gray object itself would send the
  collector back to mark, and so to another look at the frames. Reading the
  transient roots in the last Step of remark rather than in the first, or not
  draining in remark, would close the window. With fewer slots than a budget
  remark is one Step, and the property is proved.

Three more power losses are outside the fault models of `project`. Each is found
with `MaxTx = 1` and these values of `FaultModels`:

- `{{"kill", "latePower"}}`, `EveryOutcomeIsWhole`: a process dies after it renamed
  the journal and before it synced the journal's directory. `recover` applies the
  journal without that sync, and a power loss may keep the new manifest with the
  old lock and no journal. A sync in `recover` before `applyJournal` would do.
- `{{"journalSync", "latePower"}}`, `CommittedIsDurable`: when the journal's directory
  cannot be synced, `publish` returns an error that `TransactionCommitted` accepts.
  Going forward is the only sound choice, since the journal is visible, but it is
  not "durably recorded", as the comment on `TransactionCommitted` says.
- `{{"io", "power"}}`, `CommittedIsDurable`: in a fresh project a failed
  `applyJournal` is reported as committed before the name `.wago` was ever synced.

`project` shows that, at these bounds and under the assumptions of
`ProjectTransaction` above, every other death and failure, and every power loss
that comes once `.wago` is durable, is recovered from.

Why these bounds. The gate needs an owner, a queued waiter and a barging or
cancelled third; with four goroutines every pair of protocols that share `mu` and
the channel meets. A lost wake-up takes one store and one waiter, and a second
waiter and offset make the pending word cover more than one queue. Release races
are between the last two of lease, root, construction and close; `AfterClose` hooks
matter to a managed instance without a collected graph only
(`AsyncManagedTerminal`), so the other kinds are checked without. Shutdown needs a
provider and a consumer, and a client that may be inside a callback, a contract
call or an instantiation while `Close` and `LoadPlugins` run. A project needs a
writer and someone else; a killed process returns as a new one, so two slots give
any number of successors, and two publications let a second journal meet what is
left of the first. A barrier relates two objects, and the second epoch of two is
already the wrap; larger heaps are left to the proofs. Two cards that do not
touch, with one between them, tell a widened range from a second one. Pruning
takes three releases: a current, a previous and an old one. One uninstall makes a
retired lock and a fresh one coexist; `RemovalBound` follows it to its end with
two releases and up to its first removal with three. Symmetry is used only for safety, over
goroutines or processes that play the same role.

Deadlock is not checked where the program may really stop (a closed memory, a
released instance, a closed runtime); the liveness properties cover waiting there.

Fairness. Goroutines are scheduled (weak fairness of their steps). `sync.Mutex`
does not starve a waiter (strong fairness of steps that take one). Admitted
calls, hooks and contract calls return, timers fire; in `InvocationGate`, a call
whose host callbacks may publish again ends all the same (strong fairness), any
other needs only to be scheduled. In `RuntimeShutdown`, an
operation makes finitely many callbacks, so it gets to its end although it could
enter another one (strong fairness), and a client that keeps trying a closed
managed instance does not win `rt.mu` from the drain of operations every time.
Host callbacks that wait for a `Stop` are not assumed to return before it. In
`TinyCollector` the Steps are weakly fair, which is so as long as the program goes
on allocating, since each allocation adds to the debt that Steps pay, and inside
a full collection, which loops. A program that has stopped allocating keeps its
last garbage.

## Proofs

The eight proof modules extend the modules TLC runs; nothing is assumed but the
named assumptions on the constants.

`InvocationGateProofs`, for every set of goroutines in any roles
(`RolesAssumption`: roles are goroutines and `NoThread` is not one):

- `TypeCorrect`: `Spec => []TypeOK`;
- `GateMutualExclusion`: `Spec => []MutualExclusion`;
- `NoOwnerlessQueue`: `Spec => []QueueHasReleaser`;
- `PublicationQuiet`: `Spec => []PublicationIsQuiet`;
- `GateImplementsContract`: `Spec => ImplementsContract`.

Mutual exclusion is not inductive: nothing in it says why a compare-and-swap of
another goroutine fails. The inductive invariant `IInv` adds `Placement` (which
labels own the gate, and that `mu` is held at exactly four of them), `Ownership`
(an owner's word is Held without Handoff, so claims by others fail) and `Loaded`
(the only plain store, in `Unlock`, is made under `mu` from a word that is still
current). `QueueHasReleaser` is part of it. The proof has one lemma per conjunct
and one step per action. Publication needs a second invariant, `Revocation`: Revoked
is never cleared, a fast owner shows in the word, and the shared bit keeps prepared
activations out from the moment publication starts to wait for the last one. The
refinement rests on both: a step that changes `Owners` or `revoked` is a step of
`GateContract`, every other one a stutter.

`TinyCollectorProofs`, for every heap, number of slots, poisoning, budget and
epoch mask (`ShapeAssumption`, `BudgetAssumption`), under the hypothesis
`RemarkIsAtomic`, that the slots are fewer than a root budget:

- `ReachableIsKept`: `Spec => []LiveIsKept`;
- `TriColour`: `Spec => []NoBlackToWhite`;
- `ColorsStayExact`: `Spec => []ColorsAreExact`;
- `SweepIsSound`: `Spec => []SweepNeverFails`;
- `Implements`: `Spec => ImplementsHeap`.

`tiny_remark` shows that the hypothesis is needed. `IInv` says that some set of
allocated handles holds the roots and the marked objects and is closed under the
fields, and that during a sweep the marked objects are such a set (`Reach`), so
what the sweep frees is unreachable; that the sweep's cursors are valid and no
white object is behind them (`Sweeping`); that the gray objects are the queued ones
and the active one (`GrayInv`); that no scanned reference leads to a white object
(`EdgeInv`); and which states and root phases go together (`Phases`). Reachability is a least set,
which the provers cannot induct over: a closed set that holds the roots bounds it
from above, and that is all the proof needs. Marking is proved on plain values, so that
a Step, a barrier and a constructor share its lemmas.

`GenerationalProofs`, for every heap and every layout of cards (`HeapAssumption`):

- `NoDanglingReference`: `Spec => []NothingDangles`;
- `RememberedSetIsComplete`: `Spec => []RememberedIsComplete`;
- `Implements`: `Spec => ImplementsHeap`.

`IInv` is the type, the two properties, and three facts: young objects are marked
only since a full collection (`MarksOK`), a remembered parent without cards means
that the fallback is on (`CardsOK`), and no operand is held outside an allocation
(`JobOK`). `NothingDangles` covers
unreachable objects too; it has to, because a minor collection keeps dead old
objects and everything that they refer to.

`ManagedReleaseProofs`, for every number of updaters, launchers, releases and
uninstalls (`BoundsAssumption`: updaters and launchers are different processes):

- `PublicationExcludes`: `Spec => []PublicationIsExclusive`;
- `RunningStaysWhole`: `Spec => []RunningIsWhole`;
- `SelectedStaysWhole`: `Spec => []SelectedIsWhole`;
- `LaunchStaysPatient`: `Spec => []LaunchIsPatient`.

`IInv` says that a process at protected work has the lock on the very file that
has the lock's name (`Locked`), so what it read under the lock is still true:
between selection and commit the record is the one it wrote and the old one still
names whole releases (`Publishing`), and a pruner's list has no release of the
record (`Pruning`). An exclusive lease belongs to a pruner at its victim and
excludes shared ones (`Leases`). `Reading` is what protects a launcher between its
unlocked reads: until it has the shared lease, the record it read keeps its release
for one change (`Covered`); after that the lease does. A payload that runs without
either is in a legacy release, in one that an uninstall removes, or a `Stray`: started
directly and taken in by the scraps of a retired directory. `IInv` holds on the states of
run `releases` as well.

`MemoryWaitProofs`, for every set of waiters and notifiers, of offsets and values,
and every set of notify counts (`MemoryAssumption`: the sets are not empty and
counts are natural numbers):

- `PendingStaysExact`: `Spec => []PendingIsExact`;
- `WakesAreReported`: `Spec => []WakeIsReported`;
- `NoWakeupIsLost`: `Spec => []NoLostWakeup`, if `CountsCover`.

`CountsCover` says that a notify asks for at least as many waiters as there are: a
program that stores once and wakes one of two waiters leaves the other asleep, and
should. `IInv` says that a waiter sits in one place of one queue, that of its
offset, and only while it waits (`Own`, `Order`); that the notify which takes it
out credits it and fills its channel in one critical section, so the channel tells
`cancelWait` who won; and that a store in a buffer belongs to a notifier at its
fence (`OwnStore`). `NoLostWakeup` is carried beside it, action by action. The
lemmas on queues say what appending, unlinking and taking the first waiters do to
membership.

`InstanceLifecycleProofs`, for any number of invokers, closers, waiters and holders
(`ThreadsAssumption`: they are finitely many, and the worker is none of them):

- `ReleaseStaysQuiet`: `Spec => []ReleaseIsQuiet`;
- `EverythingIsOnce`: `Spec => []OnceOnly`;
- `HooksStayInOrder`: `Spec => []HooksInOrder`;
- `OwnerIsDetached`: `Spec => []NoOwnerLeftBehind`.

The terminal phase starts on an instance that no lease, construction or adoption
can reach any more, and stays so (`Quiesced` in `Flow`). One goroutine owns it from
its start to its signal, also while it finalizes on the way (`TermOwner`);
finalizers come after its hooks, one at a time scans, and the one that closes the
resources releases them (`Own`, `Unique`). The lease and root counters are the
numbers of goroutines inside (`Counts`), which takes the cardinality theorems.

`ProjectTransactionProofs`, for any number of processes, transactions and power
losses (`LockAssumption`: `Free` is not a process):

- `NoTransactionIsRolledBack`: `Spec => NothingIsRolledBack`, whatever the faults;
- `MetadataStaysWhole`: `Spec => []EffectiveIsWhole`, if `CoveredFaults`;
- `SnapshotsAreCurrent`: `Spec => []ReadsAreCurrent`, if `CoveredFaults`;
- `PowerLossLeavesWholes`: `Spec => []EveryOutcomeIsWhole`, if `CoveredFaults`;
- `CommitsSurvivePowerLoss`: `Spec => []CommittedIsDurable`, if `CoveredFaults`.

`CoveredFaults` says that power fails only once `.wago` is durable, and that where
it may fail no process dies between the replacement of a journal and its sync, and
that sync does not fail; `project_torn` and the fault models listed under the runs
show that the code needs all three. Every fault model
of the run `project` is covered. The proof has two layers. `Base` knows nothing of
faults: types, numbers that were given out (`Numbered`), and what the holder of the
lock knows of the journal and of the documents it has applied (`Own`). `Sound` says
what the documents mean: `Current`, a publication that is not synced can still be
lost whole (`Revocable`), a reader without the lock has read while nobody wrote
(`Reads`), and `Durable`: as long as the journal may be lost or an old one come
back, the documents on the disk are settled and old journals repeat them; once a
document is renamed, the journal that covers it is on the disk. Both hold on the
states of run `project`.

`RuntimeShutdownProofs`, for any number of plugins, clients and instances
(`OrderAssumption`: every plugin has one place in the order and every managed
instance an owner; `KindsAssumption`: goroutines and instances are finitely many,
and plugins, goroutines and instances are told apart):

- `TeardownIsQuiet`: `Spec => []NoCallAfterTeardown`;
- `LeasesOutliveStops`: `Spec => []LeaseOutlivesStop`;
- `ClosedRuntimeIsQuiet`: `Spec => []ClosedIsQuiet`;
- `HooksFindALane`: `Spec => []HooksAreDelivered`.

All four follow from one inductive invariant (`Invariance`), which has five layers.
`Course` is where the loader and `finishClose` are, and nothing else. `Places` is
what a goroutine holds at each of its steps and what that says of its instance: a
managed instance is its creator's alone until it is adopted, and one goroutine
closes it. `Gates` and `Counts` make the counters mean something: the calls of a
gate are the goroutines and the hooks inside it, `operations` the clients in an
operation, `pending` a manager's unfinished creations; a wait for zero is then a
statement about everyone. `Stages` says what `finishClose` has finished with, plugin
by plugin from the last to the first: whose terminal lane is open, whose admission
is closed, who is stopped, which gates and instances are drained; and that nobody
goes back there. With `Stages`, a lease on the first plugin keeps its holder inside
a later one, whose `Stop` comes first.

A step is of one of three kinds, and each kind has one lemma: a goroutine moves and
no instance changes (`CalmStep`), a goroutine changes one instance (`TouchStep`), or
everyone stands still while the loader or `finishClose` goes on (`QuietStanding`).
The hooks of an instance, which run in the goroutine that closed it or in the
manager's worker, have their own (`HookStepKeeps`). The invariant holds on
the states of run `shutdown`, and with two clients.

Only model-checked: the liveness properties, which need fairness, and that the
proof system cannot use.

## Not modelled

- Module use leases and the reference count of mapped code: counters under one
  mutex beside a close flag, the shape `PluginCallGate` has; what can go wrong
  besides is in system calls on pages, whose partial effects depend on the platform.
- The graph and the lease tables of the reference store; an instance sees them as
  the roots it retains.
- Budgets of managed instances and `Fork`: they count bytes, which
  the models do not have.
- Native interruption, the context switch, guard pages and stacks: signals and
  machine code.
- The build directory that a plugin installation renames around its metadata
  transaction, and the watch supervisor.
- The decoder, validator and code generators: sequential translations whose
  oracle is the WebAssembly test suite.
- The command line, installer and registry (I/O), profiling, the SSA research
  package, and the generated facade.
