------------------------------ MODULE Resource ------------------------------
(***************************************************************************)
(* Executive resources, ntoskrnl/ex/resource.c: a recursive lock that is   *)
(* shared or exclusive, with an owner for every acquisition.               *)
(*                                                                         *)
(* The first owner is kept in the resource (OwnerEntry), the others in a   *)
(* table that grows when it is full.  Threads that must wait sleep on one  *)
(* event (exclusive) or on one semaphore (shared), both allocated when     *)
(* they are first needed.  Who releases the resource gives it away under   *)
(* the lock of the resource, counts and all, and only then, without the    *)
(* lock, wakes the threads it gave it to.                                  *)
(*                                                                         *)
(* A stretch of code under the spin lock of the resource is one step; so   *)
(* is every access outside it.  A wait that times out is started again and *)
(* changes nothing here: the priority it gives the owners is not modelled. *)
(***************************************************************************)
EXTENDS Integers, FiniteSets, Totals

CONSTANTS Threads,   \* the threads that use the resource
          Pointers,  \* the owner pointers of ExSetResourceOwnerPointer
          NoOwner,   \* OwnerThread = 0
          Pending,   \* OwnerThread = 1: given away, the new owner not yet awake
          FirstSize, \* the TableSize of the first owner table (3)
          Growth     \* how many entries an expansion adds (4)

Owners == Threads \cup Pointers

ASSUME OwnerAssumption == /\ NoOwner \notin Owners /\ Pending \notin Owners
                          /\ NoOwner # Pending
                          /\ Threads \cap Pointers = {}
                          /\ IsFiniteSet(Owners)

ASSUME TableAssumption == FirstSize \in Nat \ {0, 1} /\ Growth \in Nat \ {0}

VARIABLES res,    \* the ERESOURCE, but for its two dispatcher objects
          event,  \* ExclusiveWaiters: "none", "clear" or "set"
          sem,    \* SharedWaiters: its count, NoSemaphore while there is none
          pc,     \* where each thread is
          call,   \* the call it is in
          size,   \* ExpExpandResourceOwnerTable: OldSize
          batch,  \* how many sharers it is to wake; the answer of a query
          held    \* what each owner has been given and not released: a history

vars == <<res, event, sem, pc, call, size, batch, held>>

(* Slot 0 is OwnerEntry, slot i > 0 is OwnerTable[i]. *)
Slots == 0 .. (Cardinality(Owners) + FirstSize + Growth)

FreeEntry == [thread |-> NoOwner, count |-> 0]

NoSemaphore == Cardinality(Threads) + 1

NoCall == [op |-> "none", wait |-> FALSE]

Nothing == [mode |-> "none", n |-> 0]

(* ExInitializeResourceLite *)
Init == /\ res = [ActiveEntries |-> 0, ActiveCount |-> 0, Exclusive |-> FALSE,
                  owner |-> [s \in Slots |-> FreeEntry], TableSize |-> 0,
                  ExclusiveWaiters |-> 0, SharedWaiters |-> 0]
        /\ event = "none"
        /\ sem = NoSemaphore
        /\ pc = [t \in Threads |-> "idle"]
        /\ call = [t \in Threads |-> NoCall]
        /\ size = [t \in Threads |-> 0]
        /\ batch = [t \in Threads |-> 0]
        /\ held = [o \in Owners |-> Nothing]

Goto(t, l) == pc' = [pc EXCEPT ![t] = l]

Return(t) == Goto(t, "idle") /\ call' = [call EXCEPT ![t] = NoCall]

(* The call has succeeded: the owner has one acquisition more. *)
Succeed(t, mode) ==
    /\ held' = [held EXCEPT ![t] = [mode |-> mode, n |-> @.n + 1]]
    /\ Return(t)

Fail(t) == Return(t) /\ UNCHANGED <<res, held>>

(* The call c goes on, without the lock of the resource. *)
Leave(t, c, l) == Goto(t, l) /\ call' = [call EXCEPT ![t] = c]

-----------------------------------------------------------------------------
(* The owner table.                                                        *)

Table == 1 .. (res.TableSize - 1)

Thread(s) == res.owner[s].thread

First(S) == CHOOSE s \in S : \A r \in S : s <= r

SlotsOf(o) == {s \in {0} \cup Table : Thread(s) = o}

FreeSlots == {s \in Table : Thread(s) = NoOwner}

(* Mutant: OwnerEntry may be used whoever waits. *)
EligibleAlways(firstEntryIneligible) ==
    (IF Thread(0) = NoOwner THEN {0} ELSE {}) \cup FreeSlots

(* The free entries that ExpFindEntryForThread considers. *)
Eligible(firstEntryIneligible) ==
    (IF Thread(0) = NoOwner /\ ~firstEntryIneligible THEN {0} ELSE {}) \cup FreeSlots

(* ExpFindEntryForThread: the entry of the owner, or else a free one; with *)
(* neither it expands the table.  The index that a thread keeps of its     *)
(* entry (ResourceIndex) only shortens the search.                         *)
Candidates(o, ineligible) ==
    IF SlotsOf(o) # {} THEN SlotsOf(o) ELSE Eligible(ineligible)

(* ExpExpandResourceOwnerTable releases the lock to allocate the table, *)
Expand(t, c, l) ==
    /\ Leave(t, c, l)
    /\ size' = [size EXCEPT ![t] = res.TableSize]
    /\ UNCHANGED <<res, held>>

Unchanged(t) == res.TableSize = size[t]

(* and drops it if the table of the resource has changed meanwhile.        *)
(* (OldSize, too, tells the tables apart: they only grow.)                 *)
FinishExpand(t) ==
    /\ pc[t] \in {"expand", "expandSettle"}
    /\ IF Unchanged(t)
       THEN LET newSize == IF size[t] = 0 THEN FirstSize ELSE size[t] + Growth
            IN  res' = [res EXCEPT !.TableSize = newSize,
                                   !.owner = [s \in Slots |->
                                                 IF s = 0 \/ s < size[t] THEN res.owner[s]
                                                 ELSE FreeEntry]]
       ELSE UNCHANGED res
    /\ size' = [size EXCEPT ![t] = 0]
    /\ Goto(t, IF pc[t] = "expand" THEN "try" ELSE "settle")
    /\ UNCHANGED <<event, sem, call, batch, held>>

-----------------------------------------------------------------------------
(* The two dispatcher objects.                                             *)

(* ExpAllocateExclusiveWaiterEvent, ExpAllocateSharedWaiterSemaphore: the  *)
(* lock is released; the object is dropped if somebody else has set one.   *)
AllocateEvent(t) ==
    /\ pc[t] = "allocEvent"
    /\ event' = IF event = "none" THEN "clear" ELSE event
    /\ Goto(t, "try")
    /\ UNCHANGED <<res, sem, call, size, batch, held>>

(* Mutant: the semaphore is replaced by a new one. *)
NewSemaphoreAlways == 0

NewSemaphore == IF sem = NoSemaphore THEN 0 ELSE sem

AllocateSemaphore(t) ==
    /\ pc[t] = "allocSemaphore"
    /\ sem' = NewSemaphore
    /\ Goto(t, "try")
    /\ UNCHANGED <<res, event, call, size, batch, held>>

-----------------------------------------------------------------------------
(* Acquiring.                                                              *)

(* Mutant: the first entry tells whether the resource has an owner. *)
UnownedFirst == Thread(0) = NoOwner

Unowned == res.ActiveEntries = 0

(* Nobody owns the resource, so this thread does. *)
Take(t, exclusive) ==
    /\ res' = [res EXCEPT !.ActiveEntries = 1, !.ActiveCount = 1,
                          !.Exclusive = exclusive,
                          !.owner[0] = [thread |-> t, count |-> 1]]
    /\ Succeed(t, IF exclusive THEN "excl" ELSE "shared")

(* It owns the entry s already. *)
Recurse(t, s) ==
    /\ res' = [res EXCEPT !.owner[s].count = @ + 1]
    /\ Succeed(t, held[t].mode)

(* One more sharer. *)
Join(t, s) ==
    /\ res' = [res EXCEPT !.owner[s] = [thread |-> t, count |-> 1],
                          !.ActiveEntries = @ + 1]
    /\ Succeed(t, "shared")

(* A thread that waits to share the resource has an entry already. *)
QueueShared(t, c, s) ==
    \/ ~c.wait /\ Fail(t)
    \/ /\ c.wait /\ sem = NoSemaphore
       /\ Leave(t, c, "allocSemaphore") /\ UNCHANGED <<res, held>>
    \/ /\ c.wait /\ sem # NoSemaphore
       /\ res' = [res EXCEPT !.owner[s] = [thread |-> t, count |-> 1],
                             !.SharedWaiters = @ + 1]
       /\ Leave(t, c, "waitShared") /\ UNCHANGED held

OwnsExclusive(t) == res.Exclusive /\ Thread(0) = t

(* ExAcquireResourceExclusiveLite, from TryAcquire on. *)
TryExclusive(t, c) ==
    \/ Unowned /\ Take(t, TRUE)
    \/ /\ ~Unowned
       /\ \/ OwnsExclusive(t) /\ Recurse(t, 0)
          \/ ~OwnsExclusive(t) /\ ~c.wait /\ Fail(t)
          \/ /\ ~OwnsExclusive(t) /\ c.wait /\ event = "none"
             /\ Leave(t, c, "allocEvent") /\ UNCHANGED <<res, held>>
          \/ /\ ~OwnsExclusive(t) /\ c.wait /\ event # "none"
             /\ res' = [res EXCEPT !.ExclusiveWaiters = @ + 1]
             /\ Leave(t, c, "waitExclusive") /\ UNCHANGED held

(* ExTryToAcquireResourceExclusiveLite *)
TryToExclusive(t) ==
    \/ res.ActiveCount = 0 /\ Take(t, TRUE)
    \/ res.ActiveCount # 0 /\ OwnsExclusive(t) /\ Recurse(t, 0)
    \/ res.ActiveCount # 0 /\ ~OwnsExclusive(t) /\ Fail(t)

(* What the three shared acquires do with a resource that is owned         *)
(* exclusively: wait in an entry of the table (ExpFindFreeEntry).          *)
BehindExclusive(t, c) ==
    \/ Thread(0) = t /\ Recurse(t, 0) /\ UNCHANGED size
    \/ Thread(0) # t /\ FreeSlots = {} /\ Expand(t, c, "expand")
    \/ /\ Thread(0) # t /\ FreeSlots # {}
       /\ QueueShared(t, c, First(FreeSlots)) /\ UNCHANGED size

IsExclusiveWaiting == res.ExclusiveWaiters > 0

(* ExAcquireResourceSharedLite lets an exclusive waiter pass, and          *)
(* ExAcquireSharedStarveExclusive does not.                                *)
ExclusiveFirst(op) == op = "shared" /\ IsExclusiveWaiting

(* ExAcquireSharedWaitForExclusive lets it pass even if the caller shares  *)
(* the resource already; it waits without an entry.                        *)
BehindWaiters(t, c) ==
    \/ ~c.wait /\ Fail(t)
    \/ /\ c.wait /\ sem = NoSemaphore
       /\ Leave(t, c, "allocSemaphore") /\ UNCHANGED <<res, held>>
    \/ /\ c.wait /\ sem # NoSemaphore
       /\ res' = [res EXCEPT !.SharedWaiters = @ + 1]
       /\ Leave(t, c, "waitEntry") /\ UNCHANGED held

(* A resource that is shared. *)
AmongSharers(t, c) ==
    LET first == ExclusiveFirst(c.op)
        found == Candidates(t, first)
        slot == First(found)
    IN  \/ found = {} /\ Expand(t, c, "expand")
        \/ /\ found # {} /\ UNCHANGED size
           /\ \/ Thread(slot) = t /\ Recurse(t, slot)
              \/ Thread(slot) # t /\ ~first /\ Join(t, slot)
              \/ Thread(slot) # t /\ first /\ QueueShared(t, c, slot)

TryShared(t, c) ==
    \/ Unowned /\ Take(t, FALSE) /\ UNCHANGED size
    \/ /\ ~Unowned
       /\ \/ res.Exclusive /\ BehindExclusive(t, c)
          \/ /\ ~res.Exclusive
             /\ IF c.op = "waitFor" /\ IsExclusiveWaiting
                THEN BehindWaiters(t, c) /\ UNCHANGED size
                ELSE AmongSharers(t, c)

SharedOps == {"shared", "starve", "waitFor"}

(* The part of an acquire that runs under the lock: *)
Attempt(t, c) ==
    /\ \/ c.op = "exclusive" /\ TryExclusive(t, c) /\ UNCHANGED size
       \/ c.op = "tryTo" /\ TryToExclusive(t) /\ UNCHANGED size
       \/ c.op \in SharedOps /\ TryShared(t, c)
    /\ UNCHANGED <<event, sem, batch>>

(* the first time, when a thread calls an acquire routine, (A thread that  *)
(* shares the resource must not wait for itself, to own it exclusively or  *)
(* behind one that waits to.)                                              *)
Acquire(t, op, wait) ==
    /\ pc[t] = "idle"
    /\ wait /\ held[t].mode = "shared" => op \in {"shared", "starve"}
    /\ wait => op # "tryTo"
    /\ Attempt(t, [op |-> op, wait |-> wait])

(* and again, from TryAcquire, when something had to be allocated. *)
TryAcquire(t) == pc[t] = "try" /\ Attempt(t, call[t])

-----------------------------------------------------------------------------
(* ExpWaitForResource ends.                                                *)

(* The semaphore gives a sharer the resource, *)
WakeShared(t) ==
    /\ pc[t] \in {"waitShared", "waitEntry"}
    /\ sem # NoSemaphore /\ sem > 0
    /\ sem' = sem - 1
    /\ IF pc[t] = "waitShared" THEN Succeed(t, "shared")
       ELSE Goto(t, "settle") /\ UNCHANGED <<call, held>>
    /\ UNCHANGED <<res, event, size, batch>>

(* and one that had no entry takes one now. *)
Settle(t) ==
    /\ pc[t] = "settle"
    /\ LET found == Candidates(t, TRUE)
       IN  \/ found = {} /\ Expand(t, call[t], "expandSettle")
           \/ /\ found # {} /\ UNCHANGED size
              /\ res' = [res EXCEPT !.owner[First(found)] =
                                       [thread |-> t, count |-> 1]]
              /\ Succeed(t, "shared")
    /\ UNCHANGED <<event, sem, batch>>

(* The event gives it to one thread, which sets the owner without the lock. *)
WakeExclusive(t) ==
    /\ pc[t] = "waitExclusive"
    /\ event = "set"
    /\ event' = "clear"
    /\ Goto(t, "own")
    /\ UNCHANGED <<res, sem, call, size, batch, held>>

SetOwner(t) ==
    /\ pc[t] = "own"
    /\ res' = [res EXCEPT !.owner[0].thread = t]
    /\ Succeed(t, "excl")
    /\ UNCHANGED <<event, sem, size, batch>>

-----------------------------------------------------------------------------
(* Releasing.                                                              *)

(* Give the resource to every thread that waits to share it ... *)
GiveShared(t, r) ==
    /\ res' = [r EXCEPT !.Exclusive = FALSE,
                        !.ActiveEntries = @ + r.SharedWaiters,
                        !.SharedWaiters = 0]
    /\ batch' = [batch EXCEPT ![t] = r.SharedWaiters]
    /\ Goto(t, "releaseSemaphore")

(* ... or to one that waits to own it. *)
GiveExclusive(t, r) ==
    /\ res' = [r EXCEPT !.Exclusive = TRUE, !.ActiveEntries = 1,
                        !.owner[0] = [thread |-> Pending, count |-> 1],
                        !.ExclusiveWaiters = @ - 1]
    /\ Goto(t, "setEvent")
    /\ UNCHANGED batch

(* Whom the last acquisition of an owner that leaves goes to. *)
SharersFirst(r) == r.SharedWaiters > 0 /\ r.Exclusive

(* The last owner has left. *)
GiveAway(t, r) ==
    \/ SharersFirst(r) /\ GiveShared(t, r)
    \/ ~SharersFirst(r) /\ r.ExclusiveWaiters > 0 /\ GiveExclusive(t, r)
    \/ /\ ~SharersFirst(r) /\ r.ExclusiveWaiters = 0
       /\ res' = [r EXCEPT !.Exclusive = FALSE, !.ActiveCount = 0]
       /\ UNCHANGED <<batch, pc>>

(* An owner without a single entry ends in KeBugCheckEx (RESOURCE_NOT_OWNED). *)
SlotToRelease(o) == IF res.Exclusive THEN {0} ELSE SlotsOf(o)

(* ExReleaseResourceForThreadLite, by any thread; ExReleaseResourceLite is *)
(* the call for oneself.                                                   *)
Release(t, o) ==
    /\ pc[t] = "idle"
    /\ o = t \/ o \in Pointers
    /\ held[o].n > 0
    /\ \E s \in SlotToRelease(o) :
          IF res.owner[s].count = 1
          THEN LET r == [res EXCEPT !.owner[s] = FreeEntry, !.ActiveEntries = @ - 1]
               IN  IF r.ActiveEntries = 0 THEN GiveAway(t, r)
                   ELSE res' = r /\ UNCHANGED <<pc, batch>>
          ELSE /\ res' = [res EXCEPT !.owner[s].count = @ - 1]
               /\ UNCHANGED <<pc, batch>>
    /\ held' = [held EXCEPT ![o] = IF @.n = 1 THEN Nothing
                                   ELSE [mode |-> @.mode, n |-> @.n - 1]]
    /\ UNCHANGED <<event, sem, call, size>>

(* KeReleaseSemaphore, after the lock has been released. *)
ReleaseSemaphore(t) ==
    /\ pc[t] = "releaseSemaphore"
    /\ sem' = sem + batch[t]
    /\ batch' = [batch EXCEPT ![t] = 0]
    /\ Return(t)
    /\ UNCHANGED <<res, event, size, held>>

(* KeSetEventBoostPriority, likewise.  If a thread is asleep it is made    *)
(* the owner here and now; the event is set if all are just starting to    *)
(* wait, or have timed out and are about to wait again.                    *)
SetEvent(t) ==
    /\ pc[t] = "setEvent"
    /\ \/ event' = "set" /\ Goto(t, "idle") /\ UNCHANGED res
       \/ \E w \in Threads :
             /\ pc[w] = "waitExclusive"
             /\ pc' = [pc EXCEPT ![t] = "idle", ![w] = "own"]
             /\ res' = [res EXCEPT !.owner[0].thread = w]
             /\ UNCHANGED event
    /\ UNCHANGED <<sem, call, size, batch, held>>

(* ExConvertExclusiveToSharedLite, by the owner. *)
ConvertTo(t, r) ==
    IF r.SharedWaiters > 0 THEN GiveShared(t, r)
    ELSE res' = [r EXCEPT !.Exclusive = FALSE] /\ UNCHANGED <<batch, pc>>

Convert(t) ==
    /\ pc[t] = "idle"
    /\ held[t].mode = "excl"
    /\ ConvertTo(t, res)
    /\ held' = [held EXCEPT ![t].mode = "shared"]
    /\ UNCHANGED <<event, sem, call, size>>

(* ExSetResourceOwnerPointer: what the thread has becomes the pointer's.   *)
SetOwnerPointer(t, p) ==
    /\ pc[t] = "idle"
    /\ held[t].n > 0
    /\ \/ /\ res.Exclusive
          /\ res' = [res EXCEPT !.owner[0].thread = p]
       \/ /\ ~res.Exclusive /\ SlotsOf(p) = {}
          /\ res' = [res EXCEPT !.owner[First(SlotsOf(t))].thread = p]
       \/ /\ ~res.Exclusive /\ SlotsOf(p) # {}
          /\ LET from == First(SlotsOf(t))
                 to == First(SlotsOf(p))
             IN  res' = [res EXCEPT !.owner[to].count = @ + res.owner[from].count,
                                    !.owner[from] = FreeEntry,
                                    !.ActiveEntries = @ - 1]
    /\ held' = [held EXCEPT ![t] = Nothing,
                            ![p] = [mode |-> held[t].mode, n |-> @.n + held[t].n]]
    /\ UNCHANGED <<event, sem, pc, call, size, batch>>

-----------------------------------------------------------------------------
(* ExIsResourceAcquiredSharedLite: how often has the caller acquired the   *)
(* resource?  Its first three reads are made without the lock.             *)

Query(t) ==
    /\ pc[t] = "idle"
    /\ batch' = [batch EXCEPT ![t] = 0]
    /\ Goto(t, IF res.ActiveEntries = 0 THEN "answer" ELSE "queryFirst")
    /\ UNCHANGED <<res, event, sem, call, size, held>>

QueryFirst(t) ==
    /\ pc[t] = "queryFirst"
    /\ IF Thread(0) = t
       THEN batch' = [batch EXCEPT ![t] = res.owner[0].count] /\ Goto(t, "answer")
       ELSE Goto(t, "queryFlag") /\ UNCHANGED batch
    /\ UNCHANGED <<res, event, sem, call, size, held>>

QueryFlag(t) ==
    /\ pc[t] = "queryFlag"
    /\ Goto(t, IF res.Exclusive THEN "answer" ELSE "queryTable")
    /\ UNCHANGED <<res, event, sem, call, size, batch, held>>

Search(t) == SlotsOf(t) \ {0}

QueryTable(t) ==
    /\ pc[t] = "queryTable"
    /\ batch' = [batch EXCEPT ![t] = IF Search(t) = {} THEN 0
                                     ELSE res.owner[First(Search(t))].count]
    /\ Goto(t, "answer")
    /\ UNCHANGED <<res, event, sem, call, size, held>>

Answer(t) ==
    /\ pc[t] = "answer"
    /\ Return(t)
    /\ batch' = [batch EXCEPT ![t] = 0]
    /\ UNCHANGED <<res, event, sem, size, held>>

-----------------------------------------------------------------------------
Ops == {"exclusive", "tryTo"} \cup SharedOps

Begin(t) == \E op \in Ops, wait \in BOOLEAN : Acquire(t, op, wait)

BeginRelease(t) == \E o \in Owners : Release(t, o)

Other(t) == Convert(t) \/ Query(t) \/ \E p \in Pointers : SetOwnerPointer(t, p)

Continue(t) == \/ TryAcquire(t) \/ FinishExpand(t)
               \/ AllocateEvent(t) \/ AllocateSemaphore(t)
               \/ WakeShared(t) \/ Settle(t) \/ WakeExclusive(t) \/ SetOwner(t)
               \/ ReleaseSemaphore(t) \/ SetEvent(t)
               \/ QueryFirst(t) \/ QueryFlag(t) \/ QueryTable(t) \/ Answer(t)

Next == \E t \in Threads : Begin(t) \/ BeginRelease(t) \/ Other(t) \/ Continue(t)

Spec == Init /\ [][Next]_vars

-----------------------------------------------------------------------------
(* Properties.                                                             *)

In(L) == {t \in Threads : pc[t] \in L}

(* The wake-ups that are on their way: to sharers, and to a new owner. *)
SharedWakeUps == (IF sem = NoSemaphore THEN 0 ELSE sem)
                   + Total([t \in In({"releaseSemaphore"}) |-> batch[t]])
ExclusiveWakeUps == (IF event = "set" THEN 1 ELSE 0) + Cardinality(In({"setEvent"}))

(* No wake-up is lost and none is invented: a thread that sleeps is either *)
(* counted as a waiter, or the resource has been given to it (or to        *)
(* another in its stead) and a wake-up is on its way.                      *)
WakeUpsExact ==
    /\ res.ExclusiveWaiters + ExclusiveWakeUps = Cardinality(In({"waitExclusive"}))
    /\ res.SharedWaiters + SharedWakeUps = Cardinality(In({"waitShared", "waitEntry"}))

Holders == {o \in Owners : held[o].n > 0}

(* ActiveEntries counts the owners, those that have yet to wake up or to   *)
(* find an entry included; ActiveCount and the exclusive flag agree.  What *)
(* the routines assert of the three counts follows from it.                *)
ActiveExact ==
    LET new == ExclusiveWakeUps + Cardinality(In({"own"}))
    IN  /\ res.ActiveEntries = Cardinality(Holders) + SharedWakeUps
                                 + Cardinality(In({"settle", "expandSettle"})) + new
        /\ res.ActiveCount = (IF res.ActiveEntries = 0 THEN 0 ELSE 1)
        /\ res.Exclusive = (new = 1 \/ \E o \in Owners : held[o].mode = "excl")
        /\ res.Exclusive => res.ActiveEntries = 1

(* Every owner has one entry, with the count of its acquisitions, so that  *)
(* no release ends in KeBugCheckEx; a thread that waits to share has one   *)
(* in the table, and nobody else has any.                                  *)
EntriesExact ==
    /\ \A o \in Owners \ In({"own"}) :
          LET mine == {s \in Slots : Thread(s) = o}
          IN  IF o \in Holders
              THEN \E s \in {0} \cup Table : /\ mine = {s}
                                             /\ res.owner[s].count = held[o].n
                                             /\ held[o].mode = "excl" => s = 0
              ELSE IF o \in In({"waitShared"})
              THEN \E s \in Table : mine = {s} /\ res.owner[s].count = 1
              ELSE mine = {}
    /\ \A s \in Slots \ {0} : Thread(s) # Pending

(* Nobody is stranded: whoever waits, waits for an owner that will give    *)
(* the resource away to somebody when it leaves.                           *)
NobodyStranded ==
    /\ res.ActiveEntries = 0 => res.SharedWaiters = 0 /\ res.ExclusiveWaiters = 0
    /\ res.SharedWaiters > 0 => res.Exclusive \/ res.ExclusiveWaiters > 0

(* The counts of the resource, whichever interleaving of routines, grants  *)
(* and wake-ups has led to them.                                           *)
CountsExact == WakeUpsExact /\ ActiveExact /\ NobodyStranded

(* ExIsResourceAcquiredSharedLite returns the number of times the caller   *)
(* has acquired the resource, though it reads the resource while others    *)
(* change it.                                                              *)
AnswerExact == \A t \in In({"answer"}) : batch[t] = held[t].n

RW == INSTANCE RWLock WITH Threads <- Owners, hold <- [o \in Owners |-> held[o].mode]

(* A resource is a shared/exclusive lock: one exclusive owner and nobody   *)
(* beside it, until it releases, converts, or passes the resource on.      *)
MutualExclusion == RW!Spec
=============================================================================
