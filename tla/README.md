# Verification of the NT executive's synchronization and lifetime primitives

NasuTek Odyssey is a ReactOS-derived operating system: an NT-compatible kernel
(`src/ntoskrnl`), its HAL, boot loader and drivers, and a Win32 user mode. This
project verifies the part of the kernel on which the rest stands and that is
hardest to test: the lock-free and nearly lock-free primitives of the executive
(`ntoskrnl/ex`), of the kernel (`ke`) and of the I/O manager, and, on top of them,
the reference counts on which the object manager (`ob`) builds the life of every
object. Each keeps its state in one or two machine words, or in a few lists and
counts that several locks guard in turn; each is correct, or not, because of the
order in which the steps of several processors happen to interleave.

## Inventory

| Component | State | Operations | What is hard | What makes it correct |
|---|---|---|---|---|
| Rundown protection, `ex/rundown.c`, inline paths in `include/internal/ex.h` | one word: a reference count, or bit 0 and the address of a wait block; the block's count and event | acquire, release (one or many), wait, completed, reinitialize | references move from the word to the stack of the waiter while others release | nobody has a reference when the wait returns; nobody is granted one meanwhile; the waiter is woken and its block is not touched afterwards |
| Push locks, `ex/pushlock.c`, `ex.h` | one word: four bits and a share count or the address of the newest wait block; a chain of blocks | acquire shared/exclusive, try, convert, release (three kinds), wake, wait-on | the chain is pushed, walked, linked backwards and cut by different threads; the share count moves into a block | shared/exclusive exclusion; no waiter forgotten; no wake-up lost; no dead block in the chain; calls return |
| Handle tables, entry lock, `ex/handle.c`, block/unblock in `ex/pushlock.c` | the lock bit of each object pointer; one list of wait blocks per table | create, lock, unlock, destroy; block, unblock | all entries share one list; a thread may find its own block in another's hands | one owner per entry; no lost wake-up; no dead block |
| Handle tables, free lists | FirstFree, LastFree, the link in each entry, NextHandleNeedingPool, four locks | allocate, free, move, grow | a compare-exchange pop (ABA), the two lists, the full table | an entry is given out once; none is lost |
| Handle tables, tree | TableCode with its level bits, tables of tables | grow, look up, free | lookups read four words without a lock while levels are added | a lookup finds its entry; entries never move; freeing is complete |
| Remove locks, `io/iomgr/remlock.c` | Removed, IoCount, an event; tracking blocks | initialize, acquire, release, release-and-wait | the count and the flag are separate words; two decrements | the wait ends when the device is unused, and it ends; the tracking blocks match |
| Executive resources, `ex/resource.c` | flags, ActiveEntries, the counts of waiters, the owner entry, a table of owners that grows; a semaphore and an event | acquire shared (plain, starving or waiting for exclusive), exclusive, convert, release (own, for an owner pointer), set owner pointer, queries | the lock is given away before the new owner runs; the table is replaced while a query reads it; recursion | shared/exclusive exclusion; counts and entries exact; every wake-up has its waiter; the unlocked query answers right |
| Kernel queues and worker threads, `ke/queue.c`, `ke/wait.c`, `ex/work.c` | two lists and a count of active threads; DynamicThreadCount, the manager's flags | insert, remove, block and unblock elsewhere, exit; queue a work item, balance | the count is kept by code that knows nothing of the queue; a wait may end by an APC or a timeout; items wait for items | the count is exact; no entry lies there while a thread may take it; every item is run, once |
| Guarded and fast mutexes, gates, `ke_x.h`, `ex.h`, `ke/wait.c`, `ke/gate.c` | one count with bits, an owner, a gate or event | acquire, try, release | a woken thread is overtaken; the signal may come before the waiter | exclusion; no wake-up lost |
| Callback objects, `ex/callback.c` | a list of registrations with Busy and UnregisterWaiting, one event for all objects | register, unregister, notify, dereference | the lock is dropped around each call; the event is shared | nothing called or walked over after it is removed; the unregistration returns |
| Notify routines, `ps/psnotify.c`, callback blocks and fast references, `ex/callback.c`, `ex.h` | slots: a pointer with references taken in advance; a rundown structure per block | add, remove, run | the refill after the last reference races with the removal | references add up; no freed block used; a removal returns |
| Security descriptors, `ob/obsdcach.c`, `ob/obsecure.c` | a hashed list of headers with counts; a fast reference per object | query, set, assign, deassign | headers are shared by objects, found while they go, exchanged while others count | references add up; nothing freed that is referred to, or read after it is freed; the cache has each descriptor once |
| Life of objects, `ob/oblife.c`, `obref.c`, `obhandle.c`, `obname.c`, `obdir.c` | pointer, handle and name counts, the directory, the reaper list | create, insert, open, reference, close, permanent and temporary, name check, deferred deletion | counts kept under four different locks, or none; failure after each step of an insertion | counts exact; deleted once, and in the end; the name goes with the last handle, not before |
| Process, LPC, I/O, memory, cache, configuration, security managers; keyed events | processes, ports, IRPs, pages, hives | - | life cycles across components | not modelled: see `PROJECT.json` (keyed events are UNIMPLEMENTED) |

How they interact: a handle table uses push locks for its four locks
(`HandleTableLock`) and their block/unblock half for entries; push locks and
rundown protection use events and gates of the dispatcher (`KeSetEvent`,
`KeWaitForSingleObject`); processes and threads use all of them; drivers call the
remove locks around every request. Callback blocks are protected by rundown
structures, the descriptor cache by a push lock, objects and their directories by
resources; deferred deletion runs on a worker thread, and worker threads take their
items from a kernel queue. The scheduler is outside the models: an event is a bit
that `KeSetEvent` sets and that a wait needs, with its list of waiters where the
order of the two matters.

`PROJECT.json` lists every component, those that are not modelled with the reason,
and under "hazards" each place where the code could go wrong in a way a test would
hardly reach, with the properties that would show it.

## Modules

    RundownSpec <-- implements -- Rundown <-- RundownProofs
    RWLock      <-- implements -- PushLock     <-- MCPushLock, MCPushLockLive, MCLocks
                               -- Resource     <-- MCResource <-- ResourceProofs
                               -- GuardedMutex <-- MCLocks <-- LocksProofs
                               -- FastMutex    <-- MCLocks <-- LocksProofs
    HandleLock     <-- MCLocks <-- LocksProofs
    HandleTable    <-- MCHandleTable <-- HandleTableProofs   uses its locks as RWLock promises
    HandleTree     <-- MCHandleTable <-- HandleTableProofs
    RemoveLock     <-- RemoveLockProofs, MCRemoveLock
    KQueue      <-- WorkQueue  <-- MCWorkQueue, WorkQueueProofs
    CallbackObject <-- MCReferences <-- ReferencesProofs
    NotifyRoutine  <-- MCReferences <-- ReferencesProofs     uses rundown as RundownSpec promises
    SdCache        <-- MCReferences <-- ReferencesProofs     uses its locks as RWLock promises
    ObjectLife     <-- MCObjectLife <-- ObjectLifeProofs     uses its locks as RWLock promises

Totals has the sum over a function, with which NotifyRoutine and SdCache count
references and Resource the wake-ups of sharers; it is a cardinality, so that the prover's theorems about finite sets apply.
An MC module bounds the calls and gives the constants their values. MCLocks,
MCHandleTable and MCReferences each hold several components side by side; `kind` (or
`users`), chosen in the initial state, says which of them the threads use, so that one
run explores each of them by itself and asks the same question of all.

Conventions. A thread's place in a routine is `pc` (in Rundown `upc` for users and
`wpc` for waiters); locals that outlive a step are variables indexed by the thread.
**Each read of a shared word that the code relies on later, each interlocked
operation and each event operation is one step.** Work on data no other thread can
reach at that moment (a wait block before it is published, the chain while the
thread owns the Waking bit, a list under its spin lock) belongs to the interlocked
step after it. Where a loop reads a word, computes and tries again with the value
that a failed exchange returned, its last round alone matters and the loop is one
step; where the code goes on with a stale value it is not. What a thread holds
(`held`, `hold`, `open`) is a history no code guard reads. A definition commented
"Mutant:" is a plausible mistake in the definition after it; no specification uses
it, and each checked property is broken by one.

* **RundownSpec / Rundown.** The word is a record of the active bit, the pointer and
  the count (half the value). References are tokens `<<user, slot>>`. Actions: the
  inline fast path (masked read and one compare-exchange), the exported loops with
  one or several references, the release into the wait block
  (`ReleaseToBlock`) and `KeSetEvent` (`ReleaseSignal`), the wait
  (`WaitFast`, `WaitSlow`, `WaitInstall`, `WaitWake`), `RundownCompleted`,
  `ReInitialize`. `MayRunDown` states the one obligation of callers: one thread at a
  time runs a structure down (the code asserts that it finds no active rundown).
  The refinement mapping takes the active bit and the waiters' places to the phase
  of an abstract gate (open, closing, down).
* **RWLock / PushLock.** The word has the bits Locked, Waiting, Waking,
  MultipleShared and a share count or a pointer. `LastFrom` finds the oldest block as
  the code does, by Next up to a block with a Last pointer; `Linked` and `Optimize`
  set Previous and Last; `WakeLocked`/`WakeUnlocked`/`Signal`/`SignalGate` are
  `ExfWakePushLock`; the `Release...` and `Unlock...` actions are the three release
  routines. A sharer's walk to the share count in `ReleaseCounted` is one step with
  its decrement: the blocks it passes cannot leave while it holds the lock. `hold`
  is the state of RWLock under the identity mapping.
* **HandleLock.** Entries are free, locked or unlocked. `Block`/`Push` are
  `ExBlockPushLock`, `Recheck` is the second look, `PrepareWait`/`Wait` the untimed
  wait, `Unblock`/`Wake`/`Signal`/`WakeDone` are `ExfUnblockPushLock`. No caller in
  the repository passes a timeout, so timed waits are left out. ExChangeHandle and
  ExEnumHandleTable are Lock followed by Unlock. `BeingFreed` keeps an entry from being
  created again until `ExDestroyHandle` has woken the waiters, because only then does
  it reach the free list.
* **HandleTable.** A handle is the index of its entry. The push locks are abstracted to
  what RWLock promises: who has one is read off the places of the threads. An open
  entry's access mask overlays `NextFreeTableEntry`; it is the value `Access`, no
  entry. Nothing in the kernel sets StrictFIFO, so only that branch's assertion appears.
* **HandleTree.** Offsets are computed in bytes as the code does, with the sizes of a
  32-bit build (pointers of 4, entries of 8 bytes). The n-th low level table made is
  named n, so the right answer for a handle is a quotient and a remainder.
* **RemoveLock.** `Debug` selects a checked lock. The time limit and the high
  watermark, which only report, are left out. `BeginRemoval` requires that the device
  is not removed yet: a driver removes it once.
* **Resource.** What the code does between acquiring and releasing the spin lock of
  the resource is one step, each access outside it another. Owners are threads and
  owner pointers; an exclusive owner that has been chosen but has not run yet is
  `Pending`. `held` counts recursion; `hold`, which maps to RWLock, is read off it.
* **KQueue / WorkQueue.** The operators of KQueue are what a stretch under the
  dispatcher lock does to a queue, a set of serving threads and their places, so that
  WorkQueue's actions compose them (a worker that blocks activates another and then
  sleeps). APCs and timeouts end a wait without an entry; thread exit and waits of
  work items for each other change the count as `ke/wait.c` and `ke/thrdobj.c` do.
  `Detect` and `Manage` are the balance manager, with the count it looks at and the
  thread it makes in separate steps.
* **GuardedMutex / FastMutex.** The count word, the gate or synchronization event with
  its list of waiters, and a `pc`; both map to RWLock with an owner only.
* **CallbackObject.** A section under the spin lock is one step; the calls of
  functions, which are made without it, lie between steps. `ExpCallbackEvent` is one
  event for all objects.
* **NotifyRoutine.** A slot is a block and the references left in the word. `Families`
  chooses between the three kinds of routine, whose removal loops differ.
* **SdCache.** The lists of all hash buckets are one list ordered by hash. A thread
  drops references one after the other as its routine does (`todo`). `ask` keeps what
  the caller asked for and, on a new try, the header to which the overwritten parameter
  points: a pointer without a reference, read in `Set` (`Reads`), where a freed header
  yields any descriptor.
* **ObjectLife.** `todo` is a thread's list of what is left of its routine and its
  callers', so that dereferences that follow a release happen in the order of the
  code. The object lock and the shared lock of the directory are held for one step
  each; the exclusive one (`Lock`) from an insertion to the first handle. There is
  one directory, and a handle is a number in a count per object: which table it is in
  does not matter here.

## Runs

Passing runs:

| Run | Instance | Shows |
|---|---|---|
| rundown | 2 users, 2 references each, 2 waiters | the refinement of RundownSpec, DownMeansUnreferenced, NoGrantWhileActive, BlockOutlivesReleasers, and that a waiter that has installed its block returns (WaiterReturns) |
| pushlock | 3 threads, all routines, any number of calls | exclusion (refinement of RWLock), WakeUpIsDue (with one waker at a time), NobodyForgotten, NoDeadBlock, ShareCountExact (with the assertions of the code) |
| locks | 4 threads: 5 acquires of a guarded mutex, 6 of a fast mutex, or 4 of a push lock, exclusively; 3 threads, 2 entries, 3 calls of an entry lock | exclusion of both mutexes (LocksExclude), MutexesExact (counts, woken bit, gate and event agree with those who own, wait or are about to be woken), EntryLocksExact (one owner, no dead block, no lost wake-up), and that every call returns (CallsReturn) |
| resource | 3 users and a thread that releases for an owner pointer, 4 calls | exclusion (refinement of RWLock), ResourceExact (the counts, the owner table and the answer of the unlocked query agree with owners, waiters and wake-ups on their way), CallsReturn |
| removelock | 3 threads, 2 requests each, 2 tags, checked lock | GoneMeansUnused, CountExact, BlocksExact, and that a removal ends (RemovalEnds) |
| handletable | 3 threads that allocate, or 1 that allocates and 2 that free, 2 tables of 3; 2 readers, tables of 2, 3 and 3 | no entry given out twice, or free and in use (OneOwner); none lost while nobody frees (NoneLostByCreators), up to the full table; lookups exact while the tree grows (LookupExact); all of it freed (NoLeak) |
| workqueue | 1 static and 2 dynamic workers, 1 client, 2 items of which one waits for the other | CountExact, NobodyIdle, ItemsExact (none lost or run twice), DynamicExact, EveryItemRuns |
| references | 3 threads: 5 calls on notify routines (of processes or of images, 2 slots, 2 routines, 3 blocks), 4 calls on security descriptors (2 objects, 3 descriptors, 3 headers), or any number on callback objects (2 objects, 3 registrations) | FastRefsExact, NoReferenceDangles (nothing is freed that a word or a thread refers to), CacheExact, CallbackCounts, CalledWhileListed |
| objectlife | 2 threads: 5 calls on one object, or 2 calls on two of one name | CountsExact, DeletedOnce, ReaperAlone, OpenStaysNamed, and that names and objects go in the end (NothingLingers) |

Runs that TLC must refute, each a disagreement of the code with its own comments or
assertions ("findings" in `PROJECT.json`):

| Run | What the code does |
|---|---|
| pushlock_shared_spin | the inner loops of the shared release retry with a stale OldValue (`pushlock.c:1062`, `:926`) and never return |
| handletable_twice | a freed entry goes to FirstFree when its lock **is** taken (`handle.c:310`), so a pop can succeed with a stale link and give an entry out twice |
| sdcache_retry | a set that has to be tried again sets the other thread's descriptor, because `obsecure.c:167` overwrites the parameter |

Other disagreements that the modules can express and TLC refutes, but that are not kept
as runs. Each can be seen again by making the property the INVARIANT or PROPERTY of a
configuration of the module named.

* `RetryReadsLive` (MCReferences, in place of SetAsAsked in `MCSdRetry.cfg`): the line
  that sdcache_retry is about also keeps a pointer to which the thread has no reference.
  It drops those it has (`obsecure.c:184`) and reads through the pointer on the next pass
  (`:141`), when a further set may have replaced that descriptor and freed its header.
  TLC finds it with one object made and three sets.
* `BlockRemains` (MCRemoveLock): a checked remove lock may have no tracking block left
  when the removal has waited, though `remlock.c:265` says "A block must be remaining".
* `UnregisterReturns` (CallbackObject, under `FairSpec`):
  ExUnregisterCallback clears the event (`callback.c:659`) after it has dropped the
  lock, and may wipe out the signal it then waits for.
* `NeverUsedUp` (NotifyRoutine): between the last reference of a slot and its refill
  another thread finds none and reaches `ASSERT(FALSE)` (`callback.c:140`).
* The equation in `RefsExact` without its condition on the family (NotifyRoutine):
  PsSetCreateProcessNotifyRoutine keeps a reference to every other routine it passes
  (`psnotify.c:54`), whose removal then waits for ever.
* `[][KeepsOpen]_vars` with two objects of one name (MCObjectLife, BothCalls = 5): a
  second name check of a closed object removes another object that has taken its name
  (`obname.c:208`).
* `NoneLeaked` (MCObjectLife): the unlocked comparison of pointer and handle count
  (`obref.c:220`) may call a sound object misbehaving and keep the reference.

The choice of list in `handle.c:310` also lets an entry be pushed on FirstFree while
`ExpMoveFreeHandles` moves the freed ones: the exchange of `:656` then fails, the
routine reaches its `ASSERT(FALSE)` (`:664`), and without assertions the moved entries
are lost. This is why NoneLost is stated only while no thread frees. With
one allocator there is no one to pop an entry behind its back, and with no thread that
frees there is no entry to come back; handletable shows that the rest of the algorithm
is sound in these two cases. NoReferenceDangles, and its theorem, are about references that are counted or
about to be under the lock of the object, not about the pointer of RetryReadsLive, which
is neither. In the same way OpenStaysNamed and the count of the name
are stated of one object, since with two of one name the check described above takes
the wrong one; FastRefsExact allows the notify routines of processes more references
than there are, since they leak; the reference that a misread count leaks is kept in a history
(`leaked`) that CountsExact includes; and the push lock of the run locks is only taken
exclusively, since sharers may spin.

Bounds, and why they are enough to be interesting. Two users with two references
each and two waiters let references move to a block, a second round begin, and a
thread of the first round still be inside its call; the theorems cover the rest.
Three threads on a push lock give an owner and two waiters, hence a chain with a Last pointer that differs from the head; four give a
middle block. Two entries in HandleLock make a wake-up for one entry hit the waiters
of the other, and three threads an owner and two waiters or a waker. Tables of 3
entries fill and empty, and two of them make growth both succeed and fail. In
HandleTree 2, 3 and 3 are coprime enough to tell the divisors apart, every slot is
used and the last growth is refused. Sizes of the code are scaled down so that their
limits are reached: the owner table of a resource has 2 entries and grows by 1 (3 and 4
in the code), there is 1 dynamic thread at a time (16), 2 or 1 references in advance
(7), 2 slots (8). Two items of which one
waits for the other need the thread that the manager makes, and a third thread takes
its place after it has timed out; MaxInterrupts lets a wait end twice without an
entry. Three headers let two threads make the same descriptor while an object has
another one. Five calls on one object are enough to create it, open it, make it
permanent and temporary, and close it while another thread looks it up; two creations
of one name collide or open what is there, and a failure at each step of an insertion is a disjunct of its own.
`MaxCalls` and the constants named `...Calls` bound the calls (of each thread in
pushlock_shared_spin and removelock, in all elsewhere). Symmetry is used in runs of
safety only.

Deadlock is checked in rundown, pushlock, handletable and workqueue. In the others
stopping is right: when the calls are used up, and in handletable_twice, where a thread
may hold a corrupt handle for which there is no entry.

## Fairness

* A thread inside a routine keeps running (weak fairness of its steps): the scheduler
  runs every ready thread, and none of these steps waits except for an event.
* Owners release what they hold. The routines promise nothing otherwise. In Rundown
  this is strong fairness, since a user may acquire more in between.
* Functions that are called back return, and a work item ends once the one it waits for
  has run.
* The balance manager's timer expires, so that it makes its pass; the worker thread
  that reaps objects runs. Nothing is assumed of when dynamic threads time out. APCs
  that interrupt a wait are finitely many (`MaxInterrupts`).
* A compare-exchange may lose again and again to arriving threads, neither push locks
  nor entry locks are fair, and requests that arrive late are counted for a moment
  before the remove lock refuses them. So the liveness runs bound the number of
  acquires instead of assuming a fair lock.

## Proofs

**RundownProofs**, for every finite set of users and references and any set of
waiters (`SlotsAssumption`, `BlockAssumption`). `DownMeansUnreferenced` is not
inductive: it needs to know that the word counts the references while the gate is open
(`WordCounts`), that the block has taken over the count once it is installed
(`BlockCounts`), that a loaded block address is still the word's (`CallsAreValid`), that
one thread only is about to set the event (`SignalIsDue`) and that the event is due when
the references are gone (`WakeUpIsDue`). Their conjunction `IInv` is inductive
(`InductiveInvariant`); each action has a lemma. From it
follow `TypeCorrect`, `RundownSafety`, `BlockSafety`, `AssertionSafety`, the action
property `GrantSafety`, and `Implements`: every step of Rundown is a step of
RundownSpec or a stutter. The lemmas on cardinalities of disjoint unions and
differences carry the arithmetic of the counts.

**RemoveLockProofs**, for every finite set of requests, any tags, checked or plain
(`UsersAssumption`, `TagAssumption`). The invariant `CountInv`: the count equals the
device's share plus the requests that are in it; there is one remover and requests are
refused only when there is one; once the event is set or about to be (`Signaled`) the
device is out of the count and nobody uses it (`Quiet`); and `WakeUpIsDue`. `Quiet` is
the strengthening that matters: it says that a late request that signals cannot let the
removal go while another is in. `RemovalSafety`, `CountSafety` and `WakeUpSafety` follow.
`BlockSafety` says that a release that finds no tracking block with its tag finds
LowMemoryCount above zero. Counting blocks does not prove it, since releases with equal
tags free each other's blocks: `BlockInv` says that there is a matching, an injection
of the blocks into the requests that should have one, that respects the tags.

**WorkQueueProofs**, for any finite set of workers (`WorkersAssumption`), a queue that
lets at least one be active (`MaximumAssumption`), any items whatever they wait for
(`NeedsAssumption`, `EntryAssumption`), and workers that are static or dynamic and no
clients (`WorkerAssumption`). `CountExact` and `NobodyIdle` need each other: an insertion
gives its entry to a waiter only if the count is below the limit, so an inexact count
would leave an entry lying. Both need that the list of waiters has exactly the threads
whose place is the wait, each once (`WaitersExact`). `Good` is types, waiters and count
of any queue, serving set and places, so that its lemmas (`Stop`, `Start`, `Wake`,
`Sleep`, `Enter`, `Move`, `ActivateStep`) apply between the parts of one step; `QInv` is
`Good` of the variables with `NobodyIdle`; `ThreadInv` is `DynamicExact` with the fact
that only dynamic threads are ever late. Their conjunction `Inv` is inductive, with a
lemma per action. `CountSafety`, `IdleSafety` and `DynamicSafety` follow. `ItemInv`
(`Placed`: each item that is owed is once in the list or in the hands of one worker, a
waiter that has been given one included) is proved in the same way, on lists and hands
of any kind, and gives `ItemSafety`.

**LocksProofs**, for any finite set of threads (`ThreadsAssumption`,
`EntryAssumption`). `FInv` and `GInv` of the mutexes say that the list of sleepers has
exactly the threads that wait, each once, and that the word counts owner, waiters and
wake-ups on their way; `GInv` also what a release has left behind (`GPlaces`), so that
taking one waiter off the count cannot borrow from another bit. They give
`MutexInvariance`, `MutexSafety` (MutexesExact) and, with a step of RWLock or a stutter
for each action, `MutexRefinement` (LocksExclude). An entry lock keeps no count, only a
list through the stacks of those who wait. `EInv` says that there are sequences, one for
the table and one for each thread that has taken the list, that the pointers spell out
and in which each thread that waits is once, and that who is on the list of the table is
due to be woken: `EntryInvariance`, `EntrySafety` (EntryLocksExact).

**HandleTableProofs**, for any number of threads and tables of any size
(`TreeAssumption`, `NullAssumption`, `SizeAssumption`,
`RolesAssumption`). `TreeInv`: the tables are made in the order of the handles, so the
tree is a function of their number (`ShapeInv`), and a level that a reader has seen still
has a place for its handle (`SeenInv`). With lemmas on quotients and remainders this
gives `TreeInvariance`, `LookupSafety` (LookupExact) and `FreeSafety` (NoLeak). `HInv` of
the free lists says that there is a map of the entries to places (one of the lists, the
list being moved, a block being added, the hands of one thread, open, lost) of which
every list is exactly one class; `IsList` characterises a list by its closed sets, so
that no recursion is needed. The role of a thread decides who may take an entry off a
list: `ListInvariance`, `OwnerSafety` (OneOwner), `LossSafety` (NoneLostByCreators).

**ReferencesProofs** has two parts. The first is about callbacks and notify routines, for
any number of threads, objects, registrations, slots and blocks
(`CallbackAssumption`, `ConstantsAssumption`). `CallbackInv` says who answers for a
registration: the handle, or the one thread that registers or unregisters it; it is in
the list from its insertion until that thread has removed it, when nobody is in a call of
it, and counts for its object as long as somebody answers for it: `CallbackInvariance`,
`CallbackSafety` (CallbackCounts), `CalledSafety` (CalledWhileListed). `NotifyInv` says
that a block in use is in one slot or belongs to one thread (`OwnInv`, `SlotInv`) and
that the references add up (`RefsExact`): `NotifyInvariance`. The sums over slots and
threads are reduced to the slot and the thread that a step changes (`TotalChange` and the
lemmas after it).

The second part is about security descriptors, for any number of threads, objects,
headers, descriptors and hashes, and of references taken in advance (`SdAssumption`). A step that moves
references between a word, the hands of a thread and the count of a header is balanced
(`WordBalance`, `HeldBalance`), so `RefsExact` is inductive by itself; that
what is referred to is not freed is more. A thread on the slow path reads a header and counts it
only afterwards, under the lock of its object. `LockedInv` says why the header is still
there: the word has it, or the thread that exchanged it has yet to pass that lock
(`Covered`). With `AgainInv` (a header being made is nobody else's) and `LifeInv` it
makes `SdInv` inductive: `SdInvariance`, and with NotifyInvariance `RefSafety`
(FastRefsExact), `ReferenceSafety` (NoReferenceDangles) and `CacheSafety` (CacheExact).

**ResourceProofs**, for any finite sets of threads and owner pointers, any number of calls
and any sizes of the owner table (`OwnerAssumption`, `TableAssumption`,
`UsersAssumption`). ResourceExact says what the counts and the entries are, not why the
next step keeps them so. A release gives the resource to a thread that is still asleep,
by counting it as an owner; that thread writes its name into the first entry later, and
without the lock. `CountInv` therefore counts, beside the owners, the new owners at each
place on their way (`New`, of which there is at most one, and then nobody else is
counted) and the sharers who have been woken, by a semaphore that is yet to be released
(`Giving`), by one that has been (`Tokens`), or who have yet to find an entry
(`Settlers`). `EntriesInv` says that
whoever is named in an entry is entitled to it (it holds the resource as often as the
entry says, or waits to share it, or is the new owner) and is in no other: that is what
makes it safe to take a free entry, and to take the first one when nobody is counted.
`WakeInv` keeps event and semaphore there before anybody sleeps on them; `TableInv` says
that the table grows only when it is in use, so that the slots of the model are enough;
`QueryInv` what the query that reads without the lock may conclude: an entry of the
calling thread changes by its own steps only. Their conjunction `ResourceInv` is
inductive (`ResourceInvariance`), with a lemma for each action and for each branch of
the release, and gives `ResourceSafety` (ResourceExact). `ResourceExclusion`
(MutualExclusion) is the refinement of RWLock: whatever `ResourceInv` lets a thread
acquire, RWLock does (`LockStep`).

**ObjectLifeProofs**, for any finite sets of threads and objects, any names and any number
of calls (`ConstantsAssumption`). The counts of an object are sums over what all threads
have left to do, so the lemmas on `Hits` and `Among` come first: a routine replaces the
step at the head of its thread's `todo` by others, and a count changes by what these
count for less what that one did. `ObjectInv` has the equations: references
(`RefsInv`), handles (`HandlesInv`), and that an object without references is in
the hands of exactly one, a thread, the reaper list or the reaper (`DeleteInv`). They are
not inductive by themselves, since a routine may use an object by a reference of its
caller: `FitInv` says that each such step is followed, in the same thread, by the one
that gives that reference back, so the object is live until then. `NamesInv` is the
count of the name, while no other object has it (`AloneInv`), and `QueueInv` says that
the work item is queued, running or about to be queued exactly when the reaper list is
not at rest. `LifeInv` is inductive: `LifeInvariance`, `LifeCountsExact` (CountsExact),
`LifeDeletedOnce` (DeletedOnce), `LifeReaperAlone` (ReaperAlone), and the action property
`LifeStaysNamed` (OpenStaysNamed).

Only model-checked:

* Liveness (WaiterReturns, CallsReturn, RemovalEnds, EveryItemRuns, NothingLingers): the
  prover has no fairness.
* The push lock: WakeUpIsDue, NobodyForgotten, NoDeadBlock, ShareCountExact and its
  refinement of RWLock. What they say of the wait list is computed by recursive functions
  along the pointers of the blocks. What such a function yields for a list of any length
  needs an induction over data, for which the prover has no rule it can apply; the list
  would have to be described without recursion first.
* All findings.

## Not modelled

`PROJECT.json` gives the reason for each component. Within the modelled files:
cache-aware rundown protection is UNIMPLEMENTED; ExDupHandleTable, the sweep and the
global list of handle tables, quota charges and handle tracing are left out; spinning
before a wait (CONFIG_SMP) is a wait that does not sleep; a timed wait for a push lock
has no caller. ExReinitializeResourceLite and ExDeleteResourceLite, KeInsertHeadQueue,
KeRundownQueue and threads that change queues are left out. ObjectLife has no unnamed
handles, duplication or inheritance, handle database per process, exclusive objects,
paths of several components, parse procedures or type lists, and no failure of
ObAssignSecurity after the insertion, which the code asserts away. IRQL changes and critical
regions do not change the interleavings of these models. The memory is sequentially
consistent: every word the algorithms decide on is changed by interlocked operations.

Noted by reading, without a run: the simple unlock of a push lock asserts `Waking &&
!Waiting` (`pushlock.c:1131`), a state the lock is never in; ExReinitializeResourceLite
clears the OwnerCount of entry 0 of the table, whose word is TableSize; `work.c:542` says
that dynamic threads are used for the critical queue only, but the deadlock detection
(`work.c:346`) makes them for every queue;
KeInsertByKeyDeviceQueue never sets Inserted; ObpIncrementHandleCount would return with
the object lock held if the quota charge failed, which it never does here;
SeSetSecurityDescriptorInfo drops a reference to the object that it does not have when
there is no memory (`sd.c:1029`).

## Plan

Done in this order: RundownSpec and Rundown with proofs; RWLock and PushLock;
HandleLock; RemoveLock with proofs; HandleTable; HandleTree; Resource; KQueue and
WorkQueue with proofs; GuardedMutex and FastMutex; CallbackObject; NotifyRoutine;
SdCache; ObjectLife; proofs of the mutexes and the entry lock, of the handle table, of
callbacks, notify routines and the descriptor cache, of the life of objects and of the
executive resource. Left:

1. The proof of exclusion of PushLock for chains of any length. It needs a statement of
   the wait list without recursion, by closed sets as in HandleTable.
2. **HandleDup**: ExDupHandleTable, sweep and enumeration over HandleTable and HandleLock.
3. **LPC** (`lpc`): the rendezvous of ports, with the messages that a closed port leaves.
4. **IRP** (`io/iomgr/irp.c`): completion and cancellation of a request.
5. The rest of the object manager: handle duplication, exclusive objects, symbolic links.
