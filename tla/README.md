# Windows-System-Wide-Filter: a verification project in TLA+

The repository holds three Windows drivers and the libraries they share. A PnP
filter driver (`o_filter`) attaches itself to every device, a hooker driver
(`o_hooker`) replaces the dispatch functions of other drivers, and the core
(`o_core`) receives what the two intercept, keeps objects for devices, files and
operations, and lets requests pass, denies them or copies their data. All of it
is kernel code: callbacks at DISPATCH_LEVEL on several processors, objects whose
lifetime is a reference count, locks made from interlocked operations, and a
driver that can be unloaded while requests are in flight. The tests of the
repository are three drivers that hammer a hash, a thread pool and the worker
threads; they reach no particular interleaving.

The modules model the synchronisation core on which everything else relies and the
components that use it: requests and their completions, operations and shadow
copies, devices in the core and in the PnP filter, the start and the unload. Each
is translated from the source and checked by TLC on small instances; the three
locks, the hash manager, the pools of worker threads, the operations with their shadow
copies, and the core driver from its start to the end of its unload are proved with TLAPS for
every instance.

## 1. Inventory

| Part | Source | State | Operations | What makes it correct |
|---|---|---|---|---|
| Reader/writer spin lock | `include/ocrwspinlock.h` | one word, bias minus readers | acquire and release for read and write | exclusion; the word is exact after any undo; no spin on the only processor |
| Remove lock | `o_core/remove_lock.c` | count, Removed, event | acquire, release, release and wait | the event is set when, and only when, nobody holds the lock |
| Queue lock | `o_core/queue_lock.c` | list of wait blocks, next pointers and flags, an event per block | acquire, release, insert and remove a barrier | one holder per context, arrival order, no lost signal |
| Object manager | `common/objects/ocobject.c` | reference counts of objects and types, the mark for deletion | create, reference, dereference, delete a type | freed once, when nobody uses it; a marked type goes with its last object |
| Hash manager | `common/hash/ochash.c` | lines of entries, each with reference count and PurgeDisabeled | insert, find, remove, purge | a found context exists; entries outlive those that hold them |
| Worker threads, pools | `common/wthreads/` | list of work items and event, thread objects, TerminateThread | create, post, process, stop | every post is answered, stops end, memory of an item is used while it is there |
| File objects and contexts | `o_core/fileobject.c` | two hashes, references, OpenedFileObjectCounter | create completion, adoption of a stream file object, close | counters, hashes and references agree; nothing is left after the last close |
| Requests | `o_core/iomngr.c`, `ioworkerthread.c`, `complhooker.c` | node contexts, completion contexts | dispatch, postpone, hook and continue a completion | completed once, locks given back once |
| Operations, shadow | `o_core/operation.c`, `shadow.c` | operation objects and their references to files and devices | create, complete, log | alive while request or completion needs them |
| Device database | `o_core/devdatabase.c`, `deviceinfo.c`, `disk.c`, `filesystems.c` | device objects, relations, the device hash | report, start, relate, remove | a removed device has no requests and no relations |
| PnP filter | `o_filter/*.c` | connection, device extensions | connect, dispatch, PnP | no callback after disconnect |
| Hooker | `o_hooker/*.c` | connection, hooked drivers | connect, hook, dispatch, cookies | no callback after disconnect, original function always found |
| Start and unload | `o_core/init.c` | all of the above | DriverEntry, DriverUnload | every part is quiet before it is taken down |
| Minifilter, security descriptors, bus information, fast I/O, md5, tests | remaining files | caches or none | | |

How they interact. The spin lock guards the lines of a hash and the lists of
the devices; what is done under it is one step of the modules above it. Objects
live in hashes that own one reference to each; `OcObReferenceObject` and
`OcObDereferenceObject` are the functions that a hash is given. File objects use
two hashes, two kinds of queue lock (one for the line of the context hash, one
for the stream files of a context) and the object manager. Requests are
postponed by posting items to pools, which keep the device's remove lock from
the post to the end of the item. `DriverUnload` disconnects from the two other
drivers, runs down the driver's remove lock, purges the hashes, deletes the
object types and waits for their last objects, and ends the pools, in this
order (`init.c:848-1060`).

What is hard. Nearly every operation reads something without a lock and acts
on it later: the barrier flag of a wait block, the counter of a context, a
found entry after the lock of its line, TerminateThread after an empty list, the
flag word of an operation, the relations of a device. Each is in the list of
hazards in PROJECT.json, at its line, with the properties that would break; those
without a property name the definition that TLC finds false (section 4), or the
part of section 6 that leaves them out. Three of these are in code that no module has:
a request is marked as pending before its post fails (`ioworkerthread.c:347`); a
foreign driver may call a completion routine twice (`complhooker.c:386`); the table of
original functions is used after the reference to its owner was dropped
(`driverhooker.c:271`).

## 2. Modules

| Module | Models | Abstract specification | Checked by | Proved in |
|---|---|---|---|---|
| `RwSpinLock` | `ocrwspinlock.h` | `RwLock` | `MCRwSpinLock` | `Locks_proof` |
| `RemoveLock` | `remove_lock.c` | `Rundown` | `MCRemoveLock` | `Locks_proof` |
| `QueueLock`, `Lines` | `queue_lock.c` | `BarrierLock` | `MCQueueLock` | `Locks_proof` |
| `Hash` | `ochash.c`, references of `ocobject.c` | `ContextTable` | `MCHash` | `Hash_proof` |
| `FileContext` | `fileobject.c` | uses `BarrierLock` and what `ContextTable` promises | `MCFileContext` | `FileContext_proof` |
| `WorkerThreads` | `ocwthread.c`, `octhreadpool.c` | | `MCWorkerThreads` | `WorkerThreads_proof` |
| `Operations` | `operation.c`, `shadow.c`, completion hooks of `complhooker.c`, `filesystems.c`, `fsminifilter.c` | | `MCOperations` | `Operations_proof` |
| `CoreDriver` | `init.c`, `iomngr.c`, `ioworkerthread.c`, `complhooker.c`, connections of `o_hooker` and `o_filter`, object types of `ocobject.c` | uses what `Rundown` promises | `MCCoreDriver` | `CoreDriver_proof` |
| `PnPFilter` | `filter.c`, `pnpfilter.c`, `pnpfilter_hook.c`, `device_filter.c` | | `MCPnPFilter` | `PnPFilterTypes_proof`, `PnPFilter_proof` |
| `DeviceDatabase` | `devdatabase.c`, the purge of `init.c` | uses what `Rundown` and `ContextTable` promise | `MCDeviceDatabase` | |

The abstract specifications are what the modules above rely on. `FileContext`
takes its two locks to be instances of `BarrierLock`, which `QueueLock`
implements (proved), and finds and references a context in one step, which is
what `Hash` gives (`ContextTable`, proved). `Hash` takes the critical
sections of a line to be single steps, which `RwSpinLock` gives (`RwLock`,
proved). `CoreDriver` and `DeviceDatabase` take a remove lock in one step, which
`RemoveLock` gives (`Rundown`, proved). Nothing is assumed of a lower part that is
not shown of it; the remove locks of `PnPFilter` are those of the I/O manager.

### RwSpinLock

`rwLock` is the lock word; `pc` says where each thread is. A read attempt
decrements (`TryLockForRead`) and, if the result is negative, increments again
in a later step (`UndoRead`); a writer exchanges the bias for zero; its release
adds the bias. `processors` is chosen at the start: on one processor a thread at
DISPATCH_LEVEL runs alone, which is why a writer may spin. `Bias` is 0x01000000 in
the code and any positive number here: it is also the number of readers that
fit in.

### RemoveLock

Every interlocked operation and the setting of the event is a step. A caller is
counted, then looks at Removed, then stays or takes its count back; a remover
marks, drops the reference of the initialisation if it was first, drops its own
and waits if anything is left. A remover acquires first, as the comment of the
function asks. A process leaves after release and may come again; one that was
refused stays away, unless its reference was the last and it had to signal.

### QueueLock

The list with next pointers and barrier flags, changed in single steps because
`ListSpinLock` is held. The two steps outside that lock are the module's point:
`ReadFlag` before a release, `SignalNext` after it. A wait block is a local
variable, so a block that left the list is forgotten and a pointer to it
becomes `NoBlock`; what writing through such a pointer does to the stack of another
function is left out, that it happens is `SignalsQueuedBlock` of section 4. A process
stands for a thread with one operation, hence one block, at a time.

### Hash

A search takes a reference to the entry and increments PurgeDisabeled under the
lock (`Locate`), then calls the context function (`Apply`), re-enables purge and
drops its reference. A removal unlinks, stores the function to call
(`SetFunction`) and drops the reference of the line; whoever drops the last one
calls the function (`DeleteEntry`). A purge takes entry after entry and waits for
finders. Contexts are objects with reference counts; threads own references and
use them as the drivers do. One line is modelled, since lines share nothing.
A search without a context function, which the drivers use to ask whether a key is
there, does less than the one modelled; a second purge at the same time, which
no driver starts, is excluded.
The wait for PurgeDisabeled turns out not to be needed for safety: the function
is called at the last dereference in any case.

### FileContext

Per thread, one operation with its local variables (`at`). `Begin` to `Exit` is
`OcCrProcessFileObjectCreating` with `OcCrInsertFileObjectInContext`, for a create
that completes (with creation information) and for a stream file object found by
several threads (without); `BeginClose` to `DereferenceClosed` is the close. The
compare-exchange loop on the counter is one step, since a failed exchange changes
nothing. The system sends the close of a file once, when no create or adoption of
that file is under way. Each hash is a set of objects: the order of the entries of a
line shows nowhere, since no hash has two with one key, which `TableInvariant` checks and
section 5 proves. `FileHashFails` adds the failure of the insertion of line
385, which the code does not undo.

### WorkerThreads

A pool from the creation of its first thread to the end of its last. Blocks of
memory are explicit: those of the heap and the one on each poster's stack, with
what they are at the moment, so that use after free shows. So are the objects of the
threads (`object`). A creation may fail before the thread runs, or after it, when the
thread cannot be referenced (`ocwthread.c:598-641`): `owner.lost` remembers that the
creator then has a handle only. It wakes the thread and drops the object
(`FreeLostThread`) before it waits by the handle (`WaitForLostThread`); what the thread
reads of its object in between is anything, so it may end or go on, and the stop of that
pool need not end. The assertion of the checked build at line 355 is not modelled.
Synchronization events are reset by the wait that they end. `StopPool` needs idle
posters: the drivers dereference a pool when the unload has waited for those that post.

### Operations

A request goes down a stack of `Depth` filtered devices and its completion up again
(`at`); at each level it may get an operation object (`op`: references, flags, the
MDL it owns), or be found in the device's queue and be left to the object that
is there (`IsRequestInDeviceQueue`, whose read and write of the flag word are two
steps). For a file system request level 2 is the minifilter and level 1 the hooked
file system driver, which calls the same callbacks through the emulation. The
completion routine of an operation (`cr`) and the one shadow thread (`sh`) share the
object: the first test is without the lock in both, then come `ShadowingInProgress`
and `ShadowProcessOperationBuffersForDevice` under it. The post operation of the
minifilter marks the object in the same way as the scan, by a read and a write without the
lock (`FsmfPostOperation`, `FsmfPostOperationMarks`). With an MDL of the caller, which the
operation did not lock, a free build has nothing to do before the completion and a checked
build copies the data first (`operation.c:86`), so `UnlockAndFreeMdlForOperation` has both. `Requests` says what a request
may be, `Faults` what may be refused to it. `ends` and `cont` count completions and
continuations for `CompletedOnce`; `torn` remembers that a flag was written over.
The reading of the debug list, the names and the security descriptor of an operation,
and the shadow file are left out.

### CoreDriver

`boot` is the thread that runs `DriverEntry`, then a query for unload, then
`DriverUnload`, in the order of `init.c`. A request (`Kinds`) is an I/O request from the
hooker or from the PnP filter, or the report of a new or removed device; it has
up to four threads of control (`at`): the dispatch, the item it is postponed to, the
completion and the item that one is postponed to. `up` is what exists, `conn` and
`event` the connections with the two other drivers, `global` the driver's remove
lock, `dev` the devices with their references and locks, `type` the object type of the
devices, whose deletion takes the two steps of `OcObDeleteObjectType`. Every step of
initialization in `Faults` may fail, which runs the unload in the same thread.
Whatever a thread is about to use at each point is listed in `Needs`.

### PnPFilter

`ext` holds the extensions: the filter devices and the virtual PDOs, each with
references, references by relations, remove lock and state; `list` is the global
list, `known` what the core was last told of each device. The threads run scripts,
sequences of requests and of calls of the core; a step is a critical section of the
spin lock or the resource, an interlocked operation, or a call. The relations of a
device are exchanged in one step, the extensions they name found in the next
(`ProcessNewRelations`) and recorded in a third (`RecordShadow`), as in
`OcFilterSetNewDeviceRelations`. The traversal of the list is the loop of the code,
pointer by pointer (`Visit`), since its end is the question. The pointer that the hooked
dispatch has (`h`) is apart from that of the thread's own request (`x`). `SerialAssumption`
says of the scripts that the start, the removal and the addition of one device, or the
attachment and detachment of one that is not of PnP, are calls of one thread: the PnP manager, and
for the others the I/O manager, does these to a device one at a time. Queries of
relations, requests and reports come from any thread at any time.

### DeviceDatabase

`obj` holds the objects of the core for the kernel's devices: references, the pointer
to the PDO and the PDO's list of upper objects (with no reference), the parent and
the relations (with one), state and remove lock. The calls of the PnP filter (new
device, new state, new relations), of the dispatch (a device in the middle of a
stack) and of the unload (purge) are the operations of the scripts; the worker thread
takes the items that look for parents and walks the list. A report is a nest of
functions with the same exits, so a thread has return points (`ret`) and a stack of
cleanups (`stack`), and references to drop (`drop`) before it goes on. The assertions of
the checked build that dereference are included (`VerifyDeletion`).

### Known defects inside a module

`PnPFilter` and `DeviceDatabase` run into defects of the code that destroy the memory
or hang. They are kept, not repaired: the step is taken as in the code and its name
put into `broken`; what would follow is not modelled. The properties hold as long as
none happened (each says which it excepts), so they show that there is no other way to
break them in these instances:

| Module | Name | What happens |
|---|---|---|
| `PnPFilter` | `loop` | the loop over the list passes the list head (`filter.c:1187`) and keeps the spin lock for ever; run `pnp_filter_traversal` |
| | `shadow` | two queries of one device meet between the exchange of the relations and the record of their extensions: references are lost, or given back twice (`pnpfilter.c:934-957`). Or there is no memory for the copy of the relations: what was found stays referenced, the copy is freed twice, or a record that nobody filled in is returned (`filter.c:1083-1097, 1276`) |
| | `follow` | the reporter of all devices follows the pointer of an extension that left the list (`pnpfilter.c:1269`) |
| `DeviceDatabase` | `insert` | an upper object whose insertion in the hash fails stays in the list of its PDO (`devdatabase.c:431`) |
| | `swap` | the parent of a child changes under its exchange (`devdatabase.c:1257`) |
| | `enlist` | an object is inserted in the list after its cleanup (`InsertInList`) |
| | `walk` | the search for the parent starts at an object that is in no list and never ends (`devdatabase.c:2430`) |
| | `self` | a thread waits for a remove lock that it holds (`devdatabase.c:3462`) |
| | `found` | the checked build finds a device that was deleted, and stops (`devdatabase.c:1054`) |
| | `null` | the object of a PDO that nobody entered is dereferenced (`devdatabase.c:3473`) |
| | `unlink` | an upper object is unlinked from its PDO by links that are no longer those of the list, since the test is outside the spin lock (`devdatabase.c:1747-1756`). `ObjectsOutliveTheirUsers` does not except it: it does not happen in the run, since the PDO's remove lock shuts it out |
| | `ghost` | an old report enters a device again after its deletion; behaviours go on, `DevicesOutliveTheirQueries` excepts them |

## 3. Runs

| Run | Question | Instance | Result |
|---|---|---|---|
| `rw_spin_lock` | exclusion, exact counter, progress, `RwLock` | 4 threads, up to 3 processors, bias 8 | holds |
| `remove_lock` | exact count, meaning of the event, `Rundown`, some remover returns | 4 callers, 2 of them removers | holds |
| `queue_lock` | chains, `BarrierLock`, every waiter gets the lock | 4 threads, 2 contexts | holds |
| `hash` | entries and contexts are alive, `ContextTable`, operations end | 3 threads, 2 contexts of one key, 2 entries | holds |
| `file_context` | counter, hashes and references agree, nothing is left | 3 threads, 3 files of one context, 4 objects of each type | holds |
| `file_context_ends` | operations end, repeated attempts included | 2 threads | holds |
| `worker_threads` | memory of list, items and thread objects, wake-ups, answers, the stop | 2 workers, 2 posters, 2 heap blocks | holds |
| `operations` | buffers outlive copies, pages are unlocked in time, completed once, requests end | 2 requests, 2 levels, the first of 9 kinds with 5 faults | holds |
| `core_driver` | parts, code and devices outlive their users, passed on once, the unload ends | 2 requests of 5 kinds, 2 devices, 8 faults | holds |
| `pnp_filter` | counts, lifetimes, the last report, requests end | 3 threads, 3 devices, 7 extensions, 3 faults | holds |
| `pnp_filter_traversal` | does the loop over the list come to its end? | same | violated |
| `device_database` | counts, lifetimes, reports end, nothing is left | 4 threads, 5 devices, 9 objects, 3 faults | holds |

An invariant of a run whose name ends in `Invariant` is the conjunction of the
module's type invariant and of the invariants named in its definition:

* `QueueInvariant`: `ChainIsComplete`, `HolderIsOldest`.
* `HashInvariant`: `EntriesOutliveTheirUsers`.
* `TableInvariant`: `CounterCountsFileObjects`, `HashMatchesCounters`, `OneFileObjectPerFile`.
* `PoolInvariant`: `ListOutlivesItsUsers`, `BlocksAreUsedWhileTheyExist`, `ObjectsOutliveThreads`.
* `OperationInvariant`: `BuffersOutliveCopies`.
* `DriverInvariant`: `UsersHaveWhatTheyNeed`, `DeviceReferencesAreExact`.
* `FilterInvariant`: `CountsAreExact`.
* `DatabaseInvariant`: `ReferencesAreExact`, `NothingIsLeftBehind`.

What the violated property says of the code: the comment at `filter.c:1142-1146` has the
list "traversed simply by moving pointer to the next list entry", but behind an entry
that is no virtual PDO the pointer moves twice; a filter device at the end of the
list, where it usually is, takes it past the list head.

### Bounds, and why they are enough

* Threads: the races are between two operations, and a third actor that makes the
  window matter (the reader that keeps a writer out, the last close besides two
  openers, the user that drops its reference between a search and a removal). All
  instances have the third, `rw_spin_lock`, `remove_lock` and `queue_lock` a fourth.
* Keys and contexts: different keys meet only in a list that is searched; one key
  with two contexts makes one hide the other, two contexts of a queue lock make
  blocks of another context stand between the blocks of one.
* `MaxObjects`, `MaxEntries`, `MaxExts` and `MaxObjs` are the memory there is:
  operations that find none fail, or do not start, so in the first two the bound is
  also a failure injection. Three files keep three file objects, and an adoption
  creates a fourth that it may throw away. Seven extensions are four at the start
  and one for each that a script can add, nine objects two at the start and all
  that the scripts can enter, again after a deletion included.
* `MaxOwned = 1`: a user keeps one reference; more only repeat.
* `Bias = 8` with four threads: there is room for every reader, as in the code; the
  proofs cover every bias.
* `MaxProcessors = 3`: one, two and more.
* `Depth = 2` (`operations`): the queue scan needs a second device in the stack, a
  file system request has two levels in the code. The first request takes every
  kind in turn; the second, whose completion is postponed, keeps the shadow thread
  busy, so that an item waits in its queue.
* `core_driver`: the requests are one that is postponed and hooked and one that is
  postponed, reports or removes a device; with a third the same waits repeat.
* Scripts (`MCPnPFilter`, `MCDeviceDatabase`): each thread runs one of a few sequences
  in an order that the system keeps for one device (added, started, removed), and the
  threads are interleaved freely. `Eligible` is
  empty: every search goes up to the root.

Symmetry (threads, user files) is used in `file_context` only, which has no
liveness property. Deadlock is not checked where the system may stop: when
every caller is refused or gone, every file closed, the pool ended, the driver
unloaded, the scripts run, or memory used up by those who keep it
(`CHECK_DEADLOCK FALSE` in those configurations).

### Fairness

Weak fairness only, of the steps that finish an operation that has begun: a
thread that can run is scheduled. Nobody has to begin anything.

* `RwSpinLock`: steps of a thread that has asked; holders release, since critical
  sections are short by the rules of DISPATCH_LEVEL. Starvation of one thread is
  possible and the code says so (the comment at lines 182-187): only
  `SomeoneEnters` and `WritersLeave` are claimed.
* `RemoveLock`: those that entered leave, since every acquisition in the sources
  is paired with a release.
* `QueueLock`: holders release and barriers are removed by the function that put
  them; the event of a waiter is signalled once and stays so.
* `Hash`, `FileContext`: steps of operations.
* `WorkerThreads`: posts that have begun, work, and the owner of the pool; work
  item functions end, which the drivers need anyway (the pool is ended from
  `DriverUnload`, which waits for the threads). `PoolStops` excepts a pool with a lost
  thread, which fairness cannot help.
* `Operations`: each request on its way down, each completion, the shadow thread; the
  drivers below complete what they were given.
* `CoreDriver`: some thread with work goes on; a thread has a bounded number of steps, so
  fairness of each would add nothing. Requests and the unload need not come.
* `PnPFilter`, `DeviceDatabase`: some thread goes on until the scripts have run. The
  scripts are finite, a wait is a guard, so a thread that waits for ever shows as a
  behaviour that stops before its end.

## 4. Properties that do not hold

The modules state properties that comments or assertions of the code suggest and that
TLC finds false. One has a run. The others are named in the module with the word
"False"; to see the counterexample, name the definition in the module's
configuration, with the constants given here where others are needed.

| Property | Configuration | What the code does |
|---|---|---|
| `TraversalEnds` | `MCPnPFilterTraversal` | see section 3 |
| `EveryRemoverReturns` | `MCRemoveLock` | when the second of two removers brings the count to zero it returns without signalling, and the first waits for ever, although the comment says that several callers may run the function (`remove_lock.c:157-160, 182`). The drivers call it once for each lock. |
| `SignalsQueuedBlock` | `MCQueueLock` | a barrier inserted after a release read the flag, and removed before the release signals, leaves the release with a pointer into a stack frame that is gone; the assertion of `queue_lock.c:328` fails as well |
| `FailureIsUndone` | `MCFileContextEnds`, with `FileHashFails = TRUE` and `MaxObjects = 3` | a file object that cannot be inserted in its hash stays counted in its context, which therefore never leaves its hash (`fileobject.c:385`) |
| `NothingIsLeftInTheList` | `MCWorkerThreads` | an item posted after a worker found the list empty and before it read TerminateThread is never processed (`ocwthread.c:362`). It needs an item that nobody waits for and a poster that is done when the pool is dereferenced, which the drivers guarantee. |
| `NoObjectIsFreedTooEarly` | `MCWorkerThreads` | a thread that runs and cannot be referenced has its object freed under it, before it is waited for (`ocwthread.c:617-641`) |
| `CompletedOnce` | `MCOperations`, with `Irps = {r1}`, `Requests <- HookedCreates`, `Faults <- HookedCreateFaults` | a create that the callbacks of a hooked file system driver refuse is completed, and then sent to the original function all the same (`filesystems.c:482`) |
| `MarkedTypeIsDeleted` | `MCCoreDriver`, with `Faults = {}` | the last device may go between the look at the count and the mark: nobody deletes the type and the unload waits for ever (`ocobject.c:165-167`, `init.c:977`) |
| `LockedDeviceStaysInList` | `MCPnPFilter` | a virtual PDO leaves the list while its remove lock is held, against the comment at `pnpfilter.c:1034-1037` |
| `SwapIsAtomic` | `MCDeviceDatabase` | the parent of a child is exchanged under the lock of the parent, not of the child (`devdatabase.c:1257`; the comment at `devdatabase.h:331-335` asks for the latter) |

## 5. Theorems

The locks share one module of proofs, `Locks_proof`; their definitions have the prefixes of the
source, `Rw` and `Rl`, where the names would be the same.

For `RwSpinLock` it proves for every finite set of threads, every positive bias and
any number of processors: `Exclusion`, `Exactness`, `RwTyping`,
`Uniprocessor`, and `RwRefinement` of `RwLock`. Exclusion is not inductive, since the
guards look at the word and not at the other threads. The invariant `RwIInv` adds
what the word says (`Counter`: the bias unless a writer is inside, less those that
have decremented and not incremented): a read attempt succeeds when the result is
not negative, so by `Counter` there is no writer; a writer's exchange succeeds
when the word is the bias, so nobody is counted. Cardinalities change by one in
each step, with the facts of FiniteSetTheorems. `Uniprocessor` adds
`DispatchBound`, that no more threads are at DISPATCH_LEVEL than there are
processors. The refinement maps the threads to the mode of the abstract lock; a
failed attempt is a stutter.

For `RemoveLock` it proves for any finite set of callers and any removers: `Count`,
`Signalled`, `ElectedFindsTwo` (the assertion of line 172), `RlTyping`, and
`RlRefinement` of `Rundown`. The invariant ties the count to the callers between
increment and decrement plus the reference of the initialisation (`CountIsExact`),
which is there until one elected remover drops it (`OneElected`); so a count of zero
means an empty lock, which is the argument for the event (`LastOut`,
`ZeroMeansEmpty`).

`Hash_proof` proves `HashIsSafe` for any finite set of threads, any contexts, keys and
entries: `HashInvariant`, that an entry exists for as long as somebody uses it and is
freed once. What a thread relies on, a reference it took under the lock, says nothing of
the other threads, so `IInv` counts: the reference count of an entry is
exactly the number of its holders, plus one for the line (`RefsAreExact`), and
`PurgeDisabeled` is that of the finders (`FindersAreCounted`). The reference of the line has
one owner at a time, the inserter, the line and the remover in turn (`LineHasOneOwner`), so
the thread that brings a count to zero is the only one that still has the entry
(`OneDeleter`), the line no longer has it, and nobody is at an entry that is free
(`FreeIsUnused`).

It goes on from there, for the same instances, to `ContextsAreAlive`
(`FoundContextIsValid`) and `HashIsContextTable` (`ImplementsContextTable`). Its invariant `CInv`
gives every reference of a context one owner (`ContextIsExact`): each of the users' references,
an entry from the reference of the insertion to its deletion, linked or
removed, the inserter between reference and link, a search between the context function
and the return. A search before the function owns none, and this is the point of the code's
comment: its entry is linked, or removed and not yet deleted, and either way is an owner. That
the deletion gives the reference back at all is `RemovalIsCertain`: the flag is set, or
the entry is in the line or with a thread that will set the flag. The reference of the
hash object is counted in the same way (`HashRefIsExact`). For the refinement the table's count
takes a search as done from its step under the lock, a removal likewise, and an insertion from the
link, so the count is the number of owners that the table knows (`TableCounts`); the deferred steps
leave table and counts as they are, which each lemma `...Contexts` shows for its action, and
the sequence of contexts follows the line (`TableLinks`, `TableUnlinks`).

For `QueueLock` it proves `QueueIsSafe` (`QueueInvariant`) and `QueueImplementsBarrierLock`
(`ImplementsBarrierLock`) for any threads, any contexts and any number of blocks in the list. The
blocks of a context are a part of one list (`Only` of `Lines`, a recursive function), so the module
begins with what `Only` computes for every sequence: its elements, their order, what an
append and a removal do to it; `OnlyIsWithout` says that the removal of a block from the list is the
abstract lock's `Without`. These lemmas (`OnlyAppend` to `OnlyInjective`) are proved by
induction in the form the provers can use, with the set of the sequences that have a
property in the place of the property (`Sequences`, from the minimum of a set of
numbers). `ChainGrows` and `ChainShrinks` follow a chain through an insertion and
through the removal of any of its blocks. The invariant `QInv` says besides that who holds a lock, *or waits and
has been called, or is about to be*, is the first of its chain (`HeadsFit`): a release has
unlinked its block and has yet to signal, and a barrier that goes away in between signals the same
block a second time. The pointer of the first block names the second, so both signals go to
whoever has become the first; a barrier signals only if no block points at it, which for a
complete chain means that it is the first (`BeforeFirst`). A pointer to a block that has left the list is
never followed as if it were one (`TargetsFit`; what the code does with it is
`SignalsQueuedBlock` in section 4). In the refinement the release is done when the block is unlinked, and the grant when the
waiter wakes up; reading the flag and signalling are stutters.

`WorkerThreads_proof` proves for any number of threads, any finite set of posters and
any heap: `PoolIsSafe` (`PoolInvariant`) and `SleepersAreCalled`
(`IdleThreadsAreCalled`). For the blocks the invariant says that each is in one place, in
the list, on its way there, or in the hands of one thread (`BlocksInv`); what a thread read
from a block on a stack before it signalled the poster no longer counts as the block
(`Has`), which is why the order of reading and signalling matters. For the list,
the count is exact (`RefsAreExact`): posters between the two ends of a
post, threads created and not yet waited for, the pool. For the sleepers the premise is
extended to the threads that are about to sleep, and a list is empty until the pool
has all its threads (`CallsInv`). For the objects of the threads, each that was created and
not yet waited for has one (`ObjectsInv`), but for a thread that is lost, of which there is at most
one, the last of the pool (`LostIsLast`), so nobody else is waited for in its place.

`CoreDriver_proof` proves `RequestsPassOnce` (`PassedOnce`) for any finite sets of requests and
devices, any kinds of requests and any set of faults. Its invariant `RInv` says of one request
which places its four threads of control may have at the same time (`PlacesFit`) and who of
them has sent it, given what the contexts say (`SendsFit`): before the post nobody, after
it the dispatch counts the request as sent because its context says pending, and the item is the
only one that may send. For the devices it counts: the references are exactly those of
the users of the device (`DeviceReferencesAreExact`), and the reference of the hash has one owner at a
time, the hash, the request that removes the device, or the purge (`OneOwner`). So whoever uses a
device finds it alive (`Alive`), a fact the second half starts from.

The same module proves `DriverIsSafe` (`DriverInvariant`) and `CodeIsLeft`
(`CodeOutlivesItsCallers`), from `RInv` and a second invariant, `UInv`. A wait of the unload looks
at an event or a count and not at the threads, so `UInv` says what each of them counts: the
references of a connection are the callers that are inside, the cookies and the
current connection, and the event is set when there are none (`ConnectionsAreExact`); the
driver's remove lock counts the completions that have acquired it (`GlobalIsExact`); the object type
counts the devices that are not deleted yet (`TypeIsExact`). `LinksFit` and `LockFits` give the places of
the unload where each is known to be zero, since nobody can enter any more; `PartsStay` says that each
part is there for whoever is counted. Two things nothing counts. A queued item has no
reference to the driver, but its context has one to the device, so no item is queued once the type
is deleted (`NoItemIsQueued`). The thread that deletes a device is still in a callback or in an item
when the count of the type has reached zero (`DeletersStay`), and that is why the wait for the
type alone would not do, and the end of the pools is needed (`ItemsEnd`). The effect of a step of a request on
all of this is stated once (`Effects`): each step changes at most one of the counts.

`Operations_proof` proves `OperationsAreSafe` (`OperationInvariant`), `PagesAreUnlocked`
(`PagesUnlockedAtCompletion`) and `CompletionIsContinuedOnce` (`CompletedOnce`) for any requests,
any number of filtered devices in a stack and any refusals. The invariant `OInv` speaks of one
level of one request at a time, since requests and levels share nothing but the queue and the shadow
thread: `Fits` relates the place of the request, the operation object, the hook, the completion
routine, the postponement and the place the shadow thread has the object at. Its four parts:
the routine runs where the request is on its way up, unless the completion is postponed
(`RoutineFits`); the references of the object are that of the request, from the creation
to the end of the routine, plus one while the object is in the queue or with the shadow thread
(`ObjectFits`); what each flag says to the two threads (`FlagsFit`): only `InThread` hands the
completion over, and only while it is postponed; and who copies data that is not copied yet
(`DataFits`): when it is the shadow thread, the routine is before the lock and will find `Shadowing`
there; when it is the routine, the shadow thread finds `Wait`. `MarkFits` is the one fact about two
levels: the flags that the scan of a queue has read in the object of a level above are among
those of the object until the scan writes them back. What the shadow thread adds in between is lost then
(`torn`), which harms nobody: the request is on its way down, so no completion routine has
begun, and the data of a write was copied when the object was created, so `Data` was read with the rest.
The post operation writes back flags as well. `RereadsFit` says of those that they are still in the
word: nobody takes a flag away in between, since the request has left the level. `Data` is among them for
a write, so what is lost is again harmless.
A step is proved on the ten values of its level
(`StartFits` to `ShadowDerefFits`) and carried to the whole state by `OneLevelMoves`, when the request
stays, or `RequestMoves`, when it passes from level to level. `CompletedOnce` needs the hypothesis
`NoHookedCreateRefused`: with a refused create the code completes twice, as section 4 says, so the
property is false without it.

`FileContext_proof` proves `TablesAgree` (`TableInvariant`), `DropFindsItsContext`
(`DropsItsOwnContext`) and `EverythingIsGivenBack` (`NothingIsLeftBehind`) for any finite set of threads,
any user and stream files, any keys and any number of objects. Its invariant `IInv` counts, as
those of `Hash` and `CoreDriver` do: the references of a file object are those of the
threads that have it in a local variable and that of the hash (`FoCounts`); those of a context
are the file objects attached to it, the threads that have found or made it and not attached it yet, and
the hash (`ContextCounts`); its counter is the number of its open file objects. What makes the counts
inductive is ownership. A file object outside the hash has one thread (`FosFit`). A new context
belongs to its maker until the step in which it is inserted (`NewFits`). The heart is `DroppersFit`: a context whose counter is
zero is in the hash only as long as exactly one thread, the one that brought it there, is on its way
to take it out, and nobody can raise the counter from zero, so the lookup by key in
`OcCrDropFoContext` finds the context of the thread and no other. For the files, `StreamsFit` says that who looks up, or inserts, under the lock of a stream is
the first of its line, so of several threads that adopt a file one inserts and the others find
its object; `FilesFit` says that nobody else works on a file that is created or closed. An
action changes a few of these conjuncts and leaves the others as they were, which the lemmas
`...Stay` say once for each; `FosNext`, `FoCountsNext` and `ContextCountsNext` reduce the
counts after a step to what happens to one object.

The three theorems have the hypothesis `FileHashFails = FALSE`. With failures `TableInvariant` and
`NothingIsLeftBehind` are false, as `FailureIsUndone` of section 4 says: the code leaves the
counter of the context too high, for good. `DropsItsOwnContext` is not known to fail then (TLC
finds no violation with two threads and three objects in the states it reached), but its proof uses the exact counter.

`PnPFilterTypes_proof` and `PnPFilter_proof` prove `CountsStayExact` (`FilterInvariant`), `UsersOutlived`
(`ExtensionsOutliveTheirUsers`) and `LastWordKept` (`DeletionIsTheLastWord`) for any devices, any scripts
of any finite set of threads with `SerialAssumption`, any number of extensions and any faults.
The invariant has seven parts; TLC checked all of them in the states of the run before they were proved.

1. `Typed`: the types, and for each place a thread can be at, which operation and which
   return it is in (`Standing`); `Formed`: what every pointer points to. With them the module has a lemma for each action and group
   of fields that says what the action leaves alone (`Keeps...`), which the other parts cite.
2. `Held`: the remove lock of an extension is held as often as there are threads that have it, by the place
   they are at. All of `IoAcquireRemoveLock` and `IoReleaseRemoveLock` balance.
3. `Living`: an extension is freed only when it is out of the list and its lock is free. Here
   `SerialAssumption` is used: the thread that removes, adds or deletes has the device to itself, so what
   it found at the first step is there at the last (`Removal`, `Addition`, `Dropping`).
4. `Counting`: until the defect `shadow` is met (`Sound`), the references of a virtual PDO are
   those of its filter devices, of the relations it was found for, of the
   threads and of its creation (`Exact`). The filter gives the references of
   relations back by going through the list *again*, so `Relational` says that the second traversal
   finds what the first did. It does, although the list may have changed, because what was found is still in
   the list, and what was not is found in neither. The functions of the loop are a fixed number of rounds of
   a recursive function, and what a round finds is proved by induction over the rounds, as for `Only`.
5. `LastWords` and `Departures`: the core was told last of a freed filter device, and of a physical device all
   of whose virtual PDOs are freed, that it is deleted. A report of a state that races
   with the deletion keeps the lock or a reference, so the deletion comes after it.

`LastWordKept` has the premise `Sound`, and `DeletionIsTheLastWord`, which the run
checks, has not: with lost references an extension may be freed that the parts above say nothing of. TLC finds no
violation then; that a wrong count never leads to a wrong last word is not proved.

`RwTyping`, `RlTyping`, `Uniprocessor` and `ElectedFindsTwo` are proved only; the runs check the other
properties of the modules named, which TLC agreed with before they were proved.

Assumptions are the named ASSUMEs of the modules. Model-checked only:
liveness (the prover has no rules for fairness here), and the
invariants of `DeviceDatabase`.

## 6. What is not modelled

* Data: names, paths, buffers, properties of devices, digests.
* Debug builds' lists of allocated objects and holders, except that assertions
  became properties where they say something (`FirstRemoverHasTwo`,
  `CounterCountsFileObjects`, `EntriesOutliveTheirUsers`).
* The order of memory accesses below interlocked operations: the code runs on
  x86, and the plain reads that matter are steps of their own.
* APCs and thread suspension: the queue lock is used inside critical regions.
* Of the device database: lower devices that are not of PnP, the objects for properties,
  types and names, the search for the FDO (`devdatabase.c:3649-4063`), usage
  notifications (1498-1563), the traversals of the tree and their cache of the next PDO.
  A device in the middle of a stack whose PDO is not known has the failed attachment only
  (`FindBase`): after a successful one the search is repeated, and enters the PDO as a device
  that is not of PnP. The fault `create` of an object stands for a driver that cannot be
  hooked as well (`devdatabase.c:265`), which has the same exit.
* Of the PnP filter: the postponement of a completed PnP request to a work item, power
  policy, usage notifications, more than one type of relations for a device. A start of a
  device always succeeds, and its callback never completes or postpones the request
  (`pnpfilter.c:243-254`, an exit that the core's callback does not take and that would keep the
  remove lock). The report of `pnpfilter_hook.c:781` that follows the report of
  the start is left out; the lock and the reference of the first are held, and it says nothing
  new of the state. In `OcFilterSetNewDeviceRelations` there is always memory for
  the relations themselves (`pnpfilter.c:910-918`): where there is none the record of their
  extensions is kept without them, which ends in the defect `shadow` at the next exchange.
* Of the requests: the IRP's pending bit, copies of its fields, and a foreign driver that
  calls a completion routine twice.
* The creation information of a file and its list in the volume's device object
  (`fileobject.c:1057-1158`), and the security state of files.
* Security descriptors (`security_descr.c`): a cache of the system's descriptors, filled by
  one more client of the thread pool.
* Bus specific information, fast I/O, the md5 digest: no state that others share.
* The hooker's table of hooked drivers: an entry is made when a driver is first
  reported and goes, with a wait for its users, when that driver unloads
  (`driverhooker.c:38-230`).

## 7. What is left

1. The creation information in `FileContext`, and its list under the volume's remove lock.
2. The traversals of the device tree (`devdatabase.c:2683-3180`), over `DeviceDatabase`, and
   the table of hooked drivers.
3. Proofs: the references of `DeviceDatabase`, with the exact count of who
owns a reference that served for `Hash`, `CoreDriver`, `FileContext` and `PnPFilter`; and
`DropsItsOwnContext` with failing insertions, for which the counter is no longer exact but at
least the number of open file objects.
