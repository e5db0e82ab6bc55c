# Cxbx-Reloaded: TLA+ models of the emulated kernel

Cxbx-Reloaded runs Xbox titles on a Windows host. Guest code executes directly on host
threads, and the Xbox kernel is replaced by host code (`src/src/core/kernel`). The real kernel
runs on one processor and protects itself by raising its interrupt level. The emulated one
runs on as many host threads as the title has, preempted anywhere, plus two of its own:
*system_events*, which plays the clock and the hardware interrupts, and the main thread,
which executes DPCs. `KiLockDispatcherDatabase` only raises a per-thread level and excludes
nobody. What excludes is a handful of host locks: `g_DpcData.Lock`, `KiTimerMtx`,
`KiWaitListMtx`, `KiApcListMtx`, `g_ObMtx`, and the memory manager's `m_CriticalSection`.

The repository has no unit tests. What goes wrong in this code goes wrong in the order of
steps of several threads. That is what this project models, with TLC runs on small instances
and TLAPS proofs for the invariants that matter most.

## Inventory

| Component | State | Operations | Interacts with | Hard parts and what correctness means |
|---|---|---|---|---|
| DPC queue (`EmuKrnlKe.cpp`, `EmuKrnl.cpp`, `EmuKrnlHal.cpp`) | queue, `Inserted`, `IsDpcPending`, `IsDpcActive`, lock | initialize, insert, remove, drain, wait | interrupts insert; the main thread and every thread that lowers its level drain | two kinds of executor, flags set outside the lock, titles overwriting queued objects; no object lost or queued twice, no lost wake-up, no nesting |
| Timers and clocks (`EmuKrnlKi.cpp`, `EmuKrnlKe.cpp`) | clocks, tick count, bucket table, `KTIMER` fields, `KiTimerMtx` | clock interrupt, expiration DPC, set, cancel, set system time | expiration is a DPC; expiry ends waits; DPC routines of timers set timers | stale times, tick ranges, wrap-around; no timer lost, early or left behind |
| Waits, events, semaphores (`EmuKrnlKe.cpp`, `EmuKrnlKi.cpp`, `EmuKrnl.h`) | `SignalState`, wait lists, thread `State`, `KiWaitListMtx` | wait for one or many, set, pulse, reset, release | timeouts use timers, alertable waits use APCs | unlocked signal states; every signal reaches its waiter, lists lead to live wait blocks |
| APCs (`EmuKrnlKi.cpp`, `EmuKrnlKe.cpp`, `EmuKrnl.h`) | APC lists, pending flags, `KernelApcDisable` | queue, execute, critical regions, alertable waits, end of thread | run in waits and at every unlock of the dispatcher | flags set and read outside the lock, `try_lock` that gives up; no APC forgotten or linked twice, an alertable wait runs what is queued |
| Suspension (`EmuKrnlKe.cpp`) | `SuspendCount`, host suspension | suspend, resume | host scheduler | unlocked counter; host-suspended owner of a lock |
| IRQL and interrupts (`EmuKrnl.cpp`, `EmuKrnlHal.cpp`) | per-thread IRQL, global request register | raise, lower, request | triggers DPCs, APCs | unsynchronised register, toggled bits |
| Executive locks (`EmuKrnlEx.cpp`) | `ERWLOCK` counters | acquire shared or exclusive, release | waits | the shared wait is compiled out |
| Device queues (`EmuKrnlKe.cpp`) | `Busy`, list | insert, remove, by key | I/O | no lock |
| Objects (`EmuKrnlOb.cpp`, `EmuKrnlNt.cpp`, `EmuKrnlIo.cpp`, `NativeHandle.cpp`) | handle table, reference and handle counts, directory, drive letter cache, host handles | create, insert, open, duplicate, close, make temporary | every Nt call | the lock is released inside calls, references change without it; counts exact, no name, handle or cache entry leads to a freed object |
| Memory manager (`memory-manager/`) | free list, page frames, page tables, VMA map, counters | allocate, free, map, claim | host memory | one lock, long sequences of calls and failures on shared pages; each page free or used once, a table stays while it is used |
| Devices (`devices/`) | registers | port and memory accesses, interrupts | IRQs, host I/O | PFIFO threads, OHCI frames |
| HLE patches (`core/hle/`), settings, input, GUI, loader, debugger | host resources | forwarding | host APIs | none that a model of this kind reaches |

`PROJECT.json` lists every component, with the reason where one is not modelled, and every
hazard at its line.

## Modules

| Module | Models |
|---|---|
| `KeDpc` | the DPC queue and its executors |
| `KiTimerTable` | the timer table as functions on its contents: what each `Ki*`/`Kx*` helper does |
| `KiTimer` | clock interrupt, expiration DPC, setting and cancelling timers, setting the system time |
| `KiWait` | waits for single objects, events, semaphores |
| `KiApc` | APC queues, their execution, critical regions, alertable waits, end of a thread |
| `ObManager` | objects, handles, names, drive letters, host handles |
| `ObLifetime` | abstract specification: what `ObManager` promises about the life of an object |
| `PhysicalMemory` | the list of free pages as functions: `RemoveFree`, `InsertFree` |
| `VMManager` | page frames, page tables, areas and the allocation calls, over `PhysicalMemory` |
| `MCKeDpc`, `MCKiTimer`, `MCKiWait`, `MCKiApc`, `MCObManager`, `MCVMManager` | constants and symmetry for TLC |
| `ListLemmas` | lemmas on sequences that stand for linked lists |
| `KeDpcProofs`, `KiWaitProofs`, `KiApcProofs`, `KiTimerProofs`, `ObManagerProofs` | theorems about `KeDpc`, `KiWait`, `KiApc`, `KiTimer` (with the helpers of `KiTimerTable`) and `ObManager` |
| `VMPagesProofs` | what the memory manager does to pages: free list, page frames, the loops over page tables and pages |
| `VMManagerProofs` | theorems about `VMManager`, over `VMPagesProofs`: areas, the inductive invariant, one lemma per call |

A definition whose comment begins with "Fault" is a variant of its neighbour with a plausible
programming error. It is not part of any specification. Substituted for the neighbour, it
makes TLC find the property named for it in `PROJECT.json` violated.

### KeDpc

A thread is at `pc = "code"` when it runs guest code or a DPC routine; the other locations are
points inside `KeInsertQueueDpc`, `CallSoftwareInterrupt` and `ExecuteDpcQueue` where the code
is outside the lock or has just taken it. Whatever happens under `g_DpcData.Lock` in one piece
is one step. `frames[t]` is the stack of routines thread `t` is inside. `IsDpcPending` is set
in a step of its own (`SetPending`), since the code sets it after `LeaveCriticalSection`.

`HalInterruptRequestRegister` is read and written by all threads without synchronisation, so
whether a thread sees the request bit is left open: every behaviour of the register is a
behaviour of the model.

The list is modelled by its links, `Flink` and `Blink` of the head and of every object, since
`GuestClobbersDpc` writes over them: a title clears the routine of a queued object, writes a
small value (`Junk`) or nullptr over its `Blink`, or clears the object as a whole.
`ExecuteDpcQueue` repairs the list by hand (`SkipEntry`) or resets its head (`ResetQueue`), and
`RemoveEntryList` leaves out a neighbour that is nullptr. The history variable `spoiled` counts
the writes of nullptr. After one of them `Inserted` and the list may part: the null `Flink` of a
cleared object goes into the head, the head is reset, and the objects behind are left with
`Inserted` set; `KeRemoveQueueDpc` of an object with a null `Blink` clears `Inserted` while the
head still leads to it. So `InsertedIffQueued` and `QueuedDpcRuns` are asked for until the first
nullptr. The lock, the wake-up and the active flag are asked for throughout. Where the code
follows a pointer that is none (a `Junk` in `RemoveEntryList`, a null `Blink` of the head in
`InsertTailList`) the process faults and the step is not in the model. A write comes between
the turns of the drain, not within one.

Bounds of the run `dpc_queue`: two threads (the DPC loop and one of the title), two objects, two
nested drains, one write of nullptr (`MaxSpoiled`). Two objects are enough for an entry with a successor. A
thread that stays at DISPATCH_LEVEL does nothing an ordinary one cannot do, so the run has none
besides the DPC loop.

### KiTimerTable and KiTimer

The table is a record `db`: lists, bucket times and the fields of each timer. The helpers are
operators from table to table, so that an action is a short composition of them, as in the
code. What runs under `KiTimerMtx` is still cut into steps wherever the clock matters: clocks
advance without the lock, so `KeSetTimerEx` computes the due time in one step and inserts in
the next, `KiTimerExpiration` handles one timer per step, and `KeSetSystemTime` one timer per
step. `dueBy` is the time `KiTimerExpiration` read before it had the lock.

DPC routines of timers are called in the middle of the scan with the (recursive) lock held. A
routine may set and cancel timers like a guest. Interrupt times are unsigned modulo
`TimeModulus`, tick counts modulo `TickModulus`. A bucket time with `HighPart = 0xFFFFFFFF` is
the one value `InfiniteTime`.

Bounds of the run `timers`: two timers, two buckets, ticks of one time unit, times up to
`MaxTime = 5` of 16, tick count modulo 4 (it wraps), batches of two timers (4 and 24 in the
code), clock steps of one and two ticks, two executors, one guest. Two timers share a bucket
or not, are due together or not; two ticks per interrupt make ranges longer than a bucket and
ranges capped at the table size.

### KiWait

Every access to `SignalState` outside `KiWaitListMtx` is a step, and because such accesses
race with the ones under the lock, those are steps too: `-=` is a load and a store. The lock is
the variable `WaitListLock`. `pc` gives the point in the call, `object` its argument, `seen`
the value it loaded. Linked wait blocks are the sequence of threads in `WaitList[o]`.
Options are at their defaults: `wait_list_toctou_recheck` on.

Bounds of the run `waits`: two waiters, two signallers (one thread is both), one object of each
kind, semaphore limit 1. `MaxDeficit` bounds how far below zero the racing decrements may take
a semaphore before it is no longer released.

### KiApc

A thread is a stack of frames: guest code at the bottom, above it the kernel functions it is
in, and the guest code of an APC routine on top of the `KiExecuteApc` that called it. All
users of the lists take `KiApcListMtx`, so what is done under it is one step; the flags
`KernelApcPending` and `UserApcPending` are read and written outside and have their own steps.
`flags` is the option `satisfy_wait_apc_flags`; both values are initial states. The `try_lock`
after a routine may fail whenever another thread is at a point where it takes the lock.

Restrictions: APC routines queue APCs and make kernel calls, but do not wait and do not enter
a critical region; critical regions do not nest; a freed KAPC of `NtQueueApcThread` keeps its
contents until `KiExecuteApc` has called its routine, which reads it after it was freed.
Bounds: two threads, of which one is the target of all APCs (APCs to itself included), two
kernel and two user APCs, stacks of three frames. Two APCs per mode are enough for a list
with something left behind.

### ObManager and ObLifetime

A call is a first step and a list of work items, one for each piece of the call between two
points where another thread can run: the name lookup, the pool, the handle, each
`ObfDereferenceObject`, the removal of the host handle. `hdr` holds the object headers with
their name information by address, so that an address can be used again while a late step of
the last user is still to come, which is what the retry of `RegisterXboxObject` is for.

`leaked` counts the references `NtDuplicateObject` loses when the handle table is full and
those of file objects whose host file could not be opened: `IopParseDevice` has then set
`ParseCheck`, and `IoCreateFile` drops nothing. `IopParseDevice` makes the file object and
`OpenHostFile` opens the host file, with its three ends: opened, not opened (`NotOpened`), and
no host handle to open it below (`NoRootDirectory`). The last comes up only with `HostHandle =
FALSE`: devices register a host handle when they are made, and without one
`GetObjectNativeHandle` returns an empty optional which `IopParseDevice` dereferences. What it
reads then is undefined; zero is one outcome, and the one the code goes on to test for.
`fault` is set where the code follows the null `Directory` of an object that is detached a
second time (its attached flag is never cleared); the model stops there, as the process does.
Not closing a handle twice and not using a handle while it is being closed is up to the
title. Unlocked increments are single instructions of threads that share one host core and
count as atomic.

`ObLifetime` knows only which addresses carry an object and how many users each has: an object
with users exists, one without gets none any more and is destroyed once. `ObManager`
implements it with `users` mapped to everything that refers to an object: handles, directory
entries, links, running calls.

Bounds: two threads, one that makes directories and keeps pointers to objects, and one that
makes every other call; two objects at a time next to the directory and a device, one drive
letter and one name, two handles, one pointer held between calls, one reference leaked before
an object is no longer duplicated. What
either thread has left to do is interleaved with the whole calls of the other. Two objects are
enough for a link and its target, or an object and its successor at the same address; two
handles for the table to be full. TLC finishes in minutes only because the calls are divided
up; the proofs hold for every assignment of calls to threads and every number of threads.

### PhysicalMemory and VMManager

Memory is counted in pages. `RemoveFree` and `InsertFree` are functions on the list of free
blocks, with page numbers modulo `Word` since the alignment arithmetic is unsigned. `VMManager`
has the state of `g_VMManager` as one record; every call holds `m_CriticalSection` and is one
step. A place for a block is chosen freely among those the search of `MapMemoryBlock` can end
at; that covers `LastFree` and a host that refuses an address.

`AllocateSystemMemory`, `XbAllocateVirtualMemory` and `AllocatePT` ignore the result of
`RemoveFree`. When it fails they go on with a stale page number: `starved` is set and the
model ends, which is why deadlock is not checked. `CallersHavePages` says when that can happen.

Bounds: eight pages (page 0 for D3D, two of NV2A instance memory), page tables of three
entries, granularity of two pages, requests of one or two pages, alignments 1, 2 and 4, two
ranges, three user and four system pages. That is full after a few calls, so every failure
path is taken, and small enough for all sequences of calls. Alignments are powers of two, for
which masking is the rounding the model has.

Three calls that the code does not refuse work on pages which do not exist or which they do not
own. They are steps of the model, set the history variable `broken`, and are its last:

* A request aligned above the end of the block `RemoveFree` takes. The unsigned aligned end
  wraps below zero (`PhysicalMemory.cpp:218`), and the comparison after it takes the block for
  a usable one. In the code the block of pages 1 to 14, which start-up leaves between the D3D
  page and the page directory, is such a block for every alignment of 64 KiB or more: a request
  that should fail for want of memory returns pages that do not exist. `Alignable` says of a
  request that its block is not such a one; it is no guard of any action.
* A claim of more instance memory than is left (`GrowInstance`): the range of pages to give back
  runs backwards, and the free list gets a block with a wrapped size (`VMManager.cpp:592`).
* A free of a range that was reserved and never committed, with no page table (`MissingTables`):
  the zero pde names page 0, which D3D owns and which goes on the free list
  (`VMManager.cpp:1662`).

The invariants say what holds until such a call; `RemoveFreeExact` also says that every request
of the first kind, in any state, gets pages that do not exist.

A guard page is counted in `PtesUsed` of its page table and never given back, so a title that
makes and drops guarded stacks leaves one more each time. `MaxLeaks` is how many a table can
count besides all of its entries: 1023 with the 11 bits and 1024 entries of the code, one with
the field of five values (0 to 4) and three entries of the runs. Nothing in the code stops a
title there. `ManyStacks` says whether this one goes on: the run `mm_stacks` has `TRUE`, in
which the field wraps and a page table is freed under ptes in use; the run `mm` has `FALSE`,
so that the other properties can be checked on tables that stay. Without that bound no
property that speaks of ptes is left.

The loops over page directory entries and pages (`AllocatePT`, `DeallocatePT`, the commit and
the free of a range) are instances of `Loop`, a function from the number of turns to the state
after them.
`VMAssumption` has the layout: the regions in their order, `PtesUsed` wide enough for a table,
and fewer page tables for the contiguous region than contiguous pages (16 against 16384 in the
code), without which start-up itself could run out of pages for them; and no request, rounded
up, reaches the modulus of page numbers.

## Runs

| Run | Property | Shows |
|---|---|---|
| `dpc_queue` | `TypeOK` | types, and the lock's owner is the thread in the queue loop |
| | `InsertedIffQueued` | `Inserted` and the list agree until a nullptr is written; nothing is linked twice |
| | `QueuedIsPending` | no lost wake-up of the DPC loop |
| | `ActiveHasRunner` | the flag that turns software interrupts away has a thread behind it |
| | `QueuedDpcRuns` | a queued DPC leaves the queue unless a nullptr is written |
| `timers` | `TypeOK` | types, and the unsigned batch counts do not wrap |
| | `NoTimerLost` | `Inserted` exactly for timers in the table or in the hands of the lock's owner |
| | `TableConsistent` | right bucket, sorted, bucket time a lower bound (an assertion of the code) |
| | `ScannedBucketsDone` | a scan leaves nothing behind that was due when it began |
| | `NeverEarly` | no timer expires before its due time |
| `waits` | `TypeOK` | types, semaphores never above the limit |
| | `WaitListIntegrity` | linked exactly while waiting, once |
| | `SetReleasesWaiter` | an event set for a linked waiter releases it |
| `apc` | `TypeOK` | types; the count of critical regions never goes up from zero |
| | `QueuesExact` | an APC is linked once, on its thread, and `Inserted` says so |
| | `KernelApcNotForgotten` | a queued kernel APC always has a flag, an executor or a critical region that leads back to it |
| | `KernelApcRuns` | a wait runs the kernel APCs queued to it |
| | `UserApcRunsByList` | an alertable wait runs user APCs when the option is off |
| `ob` | `TypeOK` | types; no count below zero |
| | `RefCountExact` | the count is what refers to the object, and the two known leaks |
| | `HandleTableSound` | free chain and entries partition the table, `HandleCount` agrees |
| | `NamesSound` | one object per name, live directory, entered only while open or permanent |
| | `DriveMapFresh` | the cache gives what the search would give |
| | `RetryEnds` | a retry has a thread behind it that will end it |
| | `ImplementsLifetime` | refinement of `ObLifetime` |
| `mm` | `TypeOK` | types, counters within memory |
| | `FreeListExact` | list sorted, merged, counted, and free exactly the pages nobody uses |
| | `PagesOwnedOnce` | one user per page, and the usage counters agree |
| | `TablesOutlivePtes` | no page table goes while a pte in it is used |
| | `AreasSound` | areas cover their region, free ones merged, no pte in a free one |
| | `QuerySizeRight` | the size found from the ptes is the size allocated |
| | `RemoveFreeExact` | `RemoveFree` on every free list reached: pages as asked for, no room, or (not `Alignable`) pages that do not exist |
| | `ReservedExact` | the byte count of reservations, failures included |
| | `CallersHavePages` | `IsMappable` suffices unless the call makes a page table |
| `mm_stacks` | `TablesOutlivePtes` | refuted: see below |
| `ob_nohandle` | `NoDropAfterDestroy` | refuted: see below |
| `apc_flags` | `UserApcRuns` | refuted: see below |
| `dpc_nested` | `NoNestedExecution` | refuted: see below |
| `timers_missed` | `NoMissedTimer` | refuted: see below |
| `waits_lost_wakeup` | `NoLostWakeup` | refuted: see below |

Deadlock is checked in the runs of `KeDpc`. In the others it is off: a bounded clock, threads
that end or wait for a signal nobody sends, a full leak bound, a starved allocation and a broken
memory manager may stop.

### Disagreements between code and comments

* **`dpc_nested`.** `CallSoftwareInterrupt` means to "avoid calling DPCs again if the current
  one has queued yet another one", but the flag it tests belongs to all executors, and the
  first to finish a routine clears it for the others.
* **`timers_missed`.** `KiClockIsr` examines every tick so as not to "miss timers that might
  have expired already", but hands the range over in a DPC. If that DPC is still queued from
  the last interrupt, the new range is dropped. The run has `TimerTryLock = FALSE`; with the
  option on there are more ways.
* **`waits_lost_wakeup`.** The second check in `KeWaitForSingleObject` is there so that a
  `KeSetEvent` in between is not missed. `KeSetEvent` stores the signal after it has released
  the lock, so it still can be.
* **`mm_stacks`.** `PtesUsed` is the "Number of used pte's", but every guarded stack leaves one
  more behind, until the field wraps and a page table is freed with ptes in use.
* **`ob_nohandle`.** Without a host handle `IopParseDevice` returns early ("How to free object
  resource?"), and `IoCreateFile` drops the file object in two places.
* **`apc_flags`.** `NtWaitForMultipleObjectsEx` has to wait for user APCs itself. With
  `satisfy_wait_apc_flags`, on by default, it waits for a flag which `KiInsertQueueApc` sets
  only for a thread in an alertable `KeWait...`, and the host waits never say that they are one.

Other behaviour that contradicts what the code says of itself is in the models as steps, without
a run that refutes a property of it: the drain that loses the objects behind a cleared one
(`ResetQueue`), the three calls that break the memory manager, and the two halves of setting the
system time (`KeSetSystemTime` shifts absolute timers and never assigns `KeSystemTime`;
`KiClockIsr` assigns it first, so the difference is zero and no timer is shifted). The hazards
in `PROJECT.json` have each at its line.

## Fairness

* `KeDpc!FairSpec`: weak fairness for the DPC loop and for the rest of every kernel call (host
  threads are scheduled), strong fairness for the return of DPC routines: a routine ends,
  however many kernel calls it makes on the way, each of which takes the thread away from the
  point of return. Inserting, removing and overwriting are not fair.
* `KiWait!FairSpec`: strong fairness for the rest of every call, since it competes for
  `KiWaitListMtx`, a host mutex that does not starve a thread for ever. Calls themselves are
  not fair: nobody has to signal anything.
* `KiApc!Spec`: weak fairness for the kernel steps of every thread (host threads are scheduled,
  the lock is held for a bounded time), strong fairness for the return of an APC routine, as in
  `KeDpc`. Nothing a title decides is fair: it need not queue, wait or leave a critical region,
  and an object need not be signalled.
* `ObManager` and `VMManager` have safety properties only. `RetryEnds` is the safety half of "the
  retry succeeds": the thread that will remove the handle is at work.
* `KiTimer` has no liveness property yet. With the losses `timers_missed` shows, "every timer
  expires" holds only through a later turn of the table.

## Proofs

TLAPS proves, for all values of the constants:

* `KeDpcProofs`: `TypeCorrect`, `InsertedIffQueuedThm`, `QueuedIsPendingThm`,
  `ActiveHasRunnerThm`. `TypeOK` includes that the lock's owner is in the queue loop, which
  makes the clearing of `IsDpcPending` safe: it is cleared by the owner, with the queue empty,
  and an inserter is then either not yet in the queue or still at `setPending`.
  `InsertedIffQueued` rests on the lemmas of `ListLemmas` on appending to and removing from a
  sequence without repetitions, and on lemmas that say what each operation on the links does to
  the sequence they lead through; its induction is over the steps before the first nullptr.
  The other three hold whatever a title writes. For `QueuedIsPending` that needs `HeadOK`, which
  survives every write: an inserted object whose `Blink` is the head is the one the head leads to,
  and a head whose `Blink` is itself leads to no object. So a removal from an empty queue leaves
  it empty (`RemoveKeepsHead`, `HeadStep`), and only an insertion fills it.
* `KiWaitProofs`: `TypeCorrect` and `WaitListIntegrityThm`. Neither is inductive alone. The
  inductive invariant `IInv` adds `CallOK` (a thread inside a call has an object of the right
  kind, a count it is about to store is within the limit, it is `Waiting` before it links its
  block, and in the second check it is last in the list, as nobody else can link while it holds
  the lock) and `LockOK`
  (the lock's owner is the thread at a locked location). One lemma per group of actions shows
  the step, and the lemmas `Link`, `Unlink` and `Unwait` show what linking and unlinking do to
  `WaitListIntegrity`.

* `KiApcProofs`: `ApcTypes`, `ApcQueues` and `KernelApcsKept`. The inductive invariant `IInv`
  adds `StackOK` (guest code, or the end of a thread, is at the bottom of a stack, a thread that
  is linking an APC does so in its top frame, and a thread whose lists have been emptied is not
  queueable any more) and `InsertOK` (a thread about to link an APC names the APC's own thread;
  the KAPC of `NtQueueApcThread` is fresh from the pool, in no list and in nobody else's
  hands). Without the last part two threads could link the same user APC twice. The flags are
  cleared before the list is looked at, so `KernelApcNotForgotten` is kept by the frame of
  `KiExecuteApc` that still has to look.
* `KiTimerProofs` begins with one lemma per helper of the timer table. `Good` is a table with
  every timer in its bucket, sorted, each bucket's time a lower bound; `Touches` says that a
  helper leaves all timers but one where they are. Insertion is the lemma `BucketInsert`: where
  the search from the tail stops, everything before is no later and everything after is later.
  Its theorems are `TimerTypes`, `TimersKept`, `TableInOrder`, `NoTimerEarly` and
  `NothingLeftBehind`. `IInv` adds `LockOK` (the owner of `KiTimerMtx` is the thread inside),
  `TransitOK` (timers are outside the table only in the hands of the owner, those
  `KeSetSystemTime` has picked for expiry are due), `DueByOK` (the time an expiration works
  with has been reached) and `CountsOK` (the batch counts are used up only while the noted
  routines are being called). `NoTimerEarly` is an action property that follows from them.
  `NothingLeftBehind` needs `ScanInv` on top: what a routine is about to insert is due later than
  the scan goes by, because a due time computed now is later than now. That holds as long as
  the sum does not wrap, which is `WidthAssumption`: interrupt times start near zero and count
  100 ns in 64 bits, due times are signed 64-bit numbers, periods 32-bit numbers.
* `ObManagerProofs`: `ObTypes`, `ReferencesExact`, `HandlesSound`, `NamesAreSound`,
  `DriveLettersFresh`, `RetriesEnd` and `LifetimeImplemented`, every property of the run `ob`.
  The five invariants need each other: a handle is safe to close because its reference is
  counted, a name is dropped once because `HandleCount` is right, the count is exact because a
  name is dropped once. `IInv` is their conjunction with `ShapeOK` (a piece of a call that uses
  an object without a reference of its own is followed by the one that drops the caller's),
  `NewOK` (an object that is not yet in the table or a directory has one reference, that of the
  call that makes it), `CloseOK` and `FreeOK` (a handle about to be closed is open, an object
  about to be freed has no references and is not a link any more, and each is done once),
  `HeadersOK` (free memory is blank, a referenced link has a target, a named object has the
  attached flag) and `NativeOK` (a host handle belongs to a registered object or is about to be
  removed). From `IInv` follows what every action starts with: whatever a handle, a path or the
  first item of a list leads to is `InUse`, that is referenced and not in the making
  (`NamedInUse`, `HeadInUse`, `FindSafe`).

  `Refs` adds up seven sets. `Parts` names them, `WorkCount`, `TableCount`, `EntriesCount` and
  `LinksCount` say how each changes when one item, entry, name or link does, and `ObjectStep`
  needs only `Balanced`, an equation between the counts of one object before and after, for
  every action. The names are handled by operators on a header function (`NamesIn`, `DriveIn`),
  with one lemma for each of: names kept, one detached, one entered.

  All of them assume `HostHandle`: with `ob_nohandle` a file object is dropped twice, and neither
  the counts nor the refinement hold. The failing open on the host is in the model and in the
  theorems.

  `LifetimeImplemented` is the refinement: each lemma about an action also shows `Evolves` for
  every object, which is the disjunction of the steps of `ObLifetime` in terms of `Refs`.

* `VMPagesProofs`: `InsertFreeExact`, `RemoveFreeTakes`, `RemoveFreeFails` and `RemoveFreeWraps`
  say what the two operations do to any coalesced list: a request is refused only for want of
  room, gets pages as asked for if it is `Alignable`, and otherwise always gets the page numbers
  just below the modulus. Both replace a stretch of
  the list by none, one or two blocks; `SpliceBlocks` shows when the result is coalesced and
  which pages it holds. That a request fails only for want of room rests on `RunInBlock`: as
  blocks are never adjacent, a run of free pages lies in one of them, so `Coalesced` is what
  makes the search complete, not only tidy. A refusal needs no condition on the alignment: a
  block whose aligned end wraps is never refused.

  The rest of the module is about pages in use. `PagesOK(m, L, G)` says that of the pages that are
  not free each is named by one pte or one page directory entry, or is in `L`, the pages a call
  has in its hands; that the page frames and the statistics agree (`Owners`, `UsageOK`); and that
  `PtesUsed` of a table counts at least its ptes in use and the guard pages `G`, and at most
  `MaxLeaks` more (`CountsOK`). There is one lemma for each thing that is done to pages (a page
  becomes a page table, a run or a page is mapped, pages are freed while ptes still name them,
  the ptes are zeroed, an empty table is freed), and for every loop one that says what it leaves
  behind (`AllocatePTIs`, `CommitSystemPagesIs` and so on).
* `VMManagerProofs`: `VMTypesOK`, `VMFreeListExact`, `VMPagesOwnedOnce`, `VMTablesOutlivePtes`,
  `VMAreasSound`, `VMQuerySizeRight`, `VMReservedExact`, `VMRemoveFreeExact` and the action
  property `VMCallersHavePages`: every property of the run `mm`. None of the invariants is
  inductive alone: a page can be freed because its area says whose it is, a page table because
  its count covers the guard pages too, an area can be found because the areas tile their region.
  The inductive invariant `VMInv` is `CoreOK`: types, the free list (`FreeOK`), the areas
  (`AreasOK`), the reserved pages, and, until a caller has been starved, `PagesOK` with nothing
  in anybody's hands, what an area in use says of its ptes (`UsedAreasOK`: which are mapped, to
  which pages, and that exactly the last one ends it), no device in the user region, no end mark
  at a zero pte; and `InstanceOK`: what is left of the instance memory is one area, which
  `ClaimGpuMemory` cuts.

  `ConstructAreas` and `DestructAreas` show that carving and merging leave a tiling. `AreaMade`
  and `AreaFreed` turn a change of pages and one of areas into `CoreOK`, so that each call needs
  one lemma that puts its steps together. Start-up is such a lemma too (`InitOK`): its two
  allocations are found room for.

  `VMCallersHavePages` comes out of the same lemmas: each shows `Explained`, that a caller is left
  without a page only if a page directory entry has been filled. If none was, the state
  after `AllocatePT` is the state before (`TablesExplain`), where `IsMappable` has counted.

  What is proved of every step is `VMSound == broken \/ VMInv(vm)`: a call keeps `VMInv` or breaks
  the manager. `UnalignableOutside` ties the two together: an allocation that does not set
  `broken` had an `Alignable` block. The theorems assume `~ManyStacks`; without it `PtesUsed`
  wraps, as `mm_stacks` shows, and `TablesOutlivePtes` is false. `VMTablesOutlivePtes` thus says
  that the count is right up to `MaxLeaks` guard pages in one page table, and not beyond.

A loop is dealt with by an induction over a set: `StepByStep` says that a set of numbers that
holds the first and with each the next holds all, which follows from the existence of a least
number outside. The library's own induction theorems take an operator as a parameter, which the
installed provers cannot instantiate. `Loop` is a function on an interval, so what is needed is
that for one bounded set at a time, and the loops of `VMManager` are within reach.

The inductive invariants, `VMInv` too, were checked with TLC on the instances of the runs.

Assumptions are those named in the modules (`DpcAssumption` and its like): the null values are
not threads or objects, the kinds of object are disjoint, the bounds are naturals,
threads and pool slots are finite (`ObAssumption`), page numbers are smaller than the word they
are computed in (`VMAssumption`), and `WidthAssumption` above. The hypotheses
`HostHandle` (`ObManagerProofs`) and `~ManyStacks` (`VMManagerProofs`) stand in the theorems
that need them.

Only model-checked:

* Liveness: `QueuedDpcRuns`, `KernelApcRuns` and the other properties under fairness. TLAPS
  1.4.5 does not reason about `ENABLED`.
* The refuted properties, which are TLC counterexamples.

Every other safety property of a passing run, and the refinement, is a theorem.

## Not modelled, and why

* Timeouts, waits for several objects and mutants: next in the plan.
* Thread suspension: `SuspendThread` of the host stops a thread anywhere, with kernel locks
  held; what follows is a matter of the host.
* `ERWLOCK` and device queues: as compiled they exclude nobody, and their comments say so.
* The pool, protections and persistence of the memory manager, the debug and Chihiro layouts;
  names outside `\??`, opens relative to a handle or with QueryOnly or DeleteOnly, link targets
  below a device (the parse branch of `ObpResolveLinkTarget`), and host handles passed as objects.
* Of `VMManager`: device mappings of RAM pages, which `MapDeviceMemory` accepts; the area of size
  zero that `CarveVMARange` splits off when a range ends with its region (an assertion in a
  debug build); the iterator `MapMemoryBlock` steps below the first area of a region, which is
  undefined behaviour. `Places` has the areas a search can end at.
* Host faults: reading a wait block whose stack frame is gone, calling a cleared routine
  after the check, unlinking through an overwritten pointer. The models stop where the
  process would.
* Torn reads of the 64-bit clocks: their own module in the plan; the readers retry until
  they get a consistent value, so `KiTimer` reads them in one step.
* `timer_exp_*` options (off by default), `KiCheckTimerTable` (reads only), logging, tracing.
* Handles forwarded to the host (`GetHandleInformation`), graphics, sound, input, user
  interface, file formats, cryptography.

The repository has some 228,000 lines. Most are vendored headers, translation to Direct3D,
register-level device models, per-title patches, instruction emulation and user interface:
data conversion with no protocol between its steps. The models cover the kernel where
threads meet or where long sequences of calls build up state.

## Plan

1. Done: `KeDpc`, `KiTimerTable`, `KiTimer`, `KiWait`, `KiApc`, `ObManager` with `ObLifetime`,
   `PhysicalMemory`, `VMManager`; proofs of every safety property of all of them and of the
   refinement of `ObLifetime`.
2. `KeWaitForMultipleObjects` and timeouts in `KiWait`: are all blocks unlinked when a wait
   returns, does a timed wait return, and can `KiUnlinkThread` and `KiTimerExpiration` deadlock
   on the two mutexes.
3. Abstract specifications: a DPC queue as a set of requests with at-least-once execution, an
   event as a set of waiters and a flag.
