----------------------------- MODULE RemoveLock -----------------------------
(***************************************************************************)
(* Remove locks: ntoskrnl/io/iomgr/remlock.c.                              *)
(*                                                                         *)
(* A driver takes the lock of a device around every request and, when the  *)
(* device is removed, releases it and waits for the requests in flight.    *)
(* The count starts at one for the device itself.  A checked lock (Debug)  *)
(* also keeps a tracking block with the tag of every request, and counts   *)
(* the ones it had no memory for.                                          *)
(*                                                                         *)
(* Removed is written and read without a lock: every access to it, every   *)
(* interlocked operation and every use of the event is a step of its own.  *)
(* The list of blocks has a spin lock, so a walk over it is one step.      *)
(***************************************************************************)
EXTENDS Integers, FiniteSets, Sequences, SequencesExt

CONSTANTS Users,     \* the requests, each handled by a thread of its own
          Tags,      \* the tags they pass
          NoTag,     \* no tag
          Debug      \* is the lock a checked one?

ASSUME UsersAssumption == IsFiniteSet(Users)
ASSUME TagAssumption == NoTag \notin Tags /\ Debug \in BOOLEAN

VARIABLES removed,   \* Common.Removed
          ioCount,   \* Common.IoCount
          event,     \* Common.RemoveEvent, a synchronization event
          blocks,    \* Dbg.Blocks: the tags, newest first
          lowMemory, \* Dbg.LowMemoryCount
          pc,        \* where each user is
          tag        \* the tag its request was given

vars == <<removed, ioCount, event, blocks, lowMemory, pc, tag>>

(* The count starts with one for the device. *)
InitialCount == 1

(* IoInitializeRemoveLockEx *)
Init == /\ removed = FALSE
        /\ ioCount = InitialCount
        /\ event = FALSE
        /\ blocks = << >>
        /\ lowMemory = 0
        /\ pc = [u \in Users |-> "idle"]
        /\ tag = [u \in Users |-> NoTag]

Goto(u, l) == pc' = [pc EXCEPT ![u] = l]

Return(u) == Goto(u, "idle") /\ tag' = [tag EXCEPT ![u] = NoTag]

-----------------------------------------------------------------------------
(* IoAcquireRemoveLockEx.                                                  *)

(* The count comes first. *)
Acquire(u) ==
    /\ pc[u] = "idle"
    /\ \E g \in Tags : tag' = [tag EXCEPT ![u] = g]
    /\ ioCount' = ioCount + 1
    /\ Goto(u, "check")
    /\ UNCHANGED <<removed, event, blocks, lowMemory>>

(* Who finds the device removed is refused. *)
MayEnter(r) == ~r

CheckRemoved(u) ==
    /\ pc[u] = "check"
    /\ Goto(u, IF ~MayEnter(removed) THEN "undo"
               ELSE IF Debug THEN "track" ELSE "held")
    /\ UNCHANGED <<removed, ioCount, event, blocks, lowMemory, tag>>

(* The tracking block is queued, or there is no memory for it. *)
Track(u) ==
    /\ pc[u] = "track"
    /\ \/ blocks' = <<tag[u]>> \o blocks /\ UNCHANGED lowMemory
       \/ lowMemory' = lowMemory + 1 /\ UNCHANGED blocks
    /\ Goto(u, "held")
    /\ UNCHANGED <<removed, ioCount, event, tag>>

(* Mutant: the event is set when one user is left. *)
IsLastButOne(n) == n = 1

(* The one that brings the count to zero sets the event. *)
IsLast(n) == n = 0

(* Mutant: a refused user stays in the count. *)
Kept(n) == n

TakenBack(n) == n - 1

(* A refused user takes its count back, and signals if it is the last. *)
Undo(u) ==
    /\ pc[u] = "undo"
    /\ ioCount' = TakenBack(ioCount)
    /\ IF IsLast(TakenBack(ioCount)) THEN Goto(u, "signal") /\ UNCHANGED tag ELSE Return(u)
    /\ UNCHANGED <<removed, event, blocks, lowMemory>>

-----------------------------------------------------------------------------
(* IoReleaseRemoveLockEx.                                                  *)

(* A checked lock first frees the newest block with the tag. *)
Release(u) ==
    /\ pc[u] = "held"
    /\ IF ~Debug THEN Goto(u, "drop") /\ UNCHANGED blocks
       ELSE IF Contains(blocks, tag[u])
       THEN /\ blocks' = RemoveFirst(blocks, tag[u])
            /\ Goto(u, "drop")
       ELSE Goto(u, "missing") /\ UNCHANGED blocks
    /\ UNCHANGED <<removed, ioCount, event, lowMemory, tag>>

(* Mutant: a request without a block is not counted off. *)
MissingKept(n) == n

(* A request without a block is one there was no memory for.  If there is  *)
(* no such request the assertion fails and the counter stays at zero.      *)
MissingLess(n) == IF n > 0 THEN n - 1 ELSE n

Missing(u) ==
    /\ pc[u] = "missing"
    /\ lowMemory' = MissingLess(lowMemory)
    /\ Goto(u, "drop")
    /\ UNCHANGED <<removed, ioCount, event, blocks, tag>>

(* The count; the one that brings it to zero goes on to set the event. *)
Drop(u) ==
    /\ pc[u] = "drop"
    /\ ioCount' = ioCount - 1
    /\ IF IsLast(ioCount - 1) THEN Goto(u, "signal") /\ UNCHANGED tag ELSE Return(u)
    /\ UNCHANGED <<removed, event, blocks, lowMemory>>

(* KeSetEvent, for a release or a refused acquire. *)
Signal(u) ==
    /\ pc[u] = "signal"
    /\ event' = TRUE
    /\ Return(u)
    /\ UNCHANGED <<removed, ioCount, blocks, lowMemory>>

-----------------------------------------------------------------------------
(* IoReleaseRemoveLockAndWaitEx, which a driver calls once, for the        *)
(* request that removes the device.                                        *)

BeginRemoval(u) ==
    /\ pc[u] = "held"
    /\ ~removed
    /\ removed' = TRUE
    /\ Goto(u, "first")
    /\ UNCHANGED <<ioCount, event, blocks, lowMemory, tag>>

(* The count of the request ... *)
FirstDrop(u) ==
    /\ pc[u] = "first"
    /\ ioCount' = ioCount - 1
    /\ Goto(u, "second")
    /\ UNCHANGED <<removed, event, blocks, lowMemory, tag>>

(* Mutant: nobody is waited for when one user is left. *)
MustWaitForMore(n) == n > 1

MustWait(n) == n > 0

(* ... and the one of the device. *)
SecondDrop(u) ==
    /\ pc[u] = "second"
    /\ ioCount' = ioCount - 1
    /\ Goto(u, IF MustWait(ioCount - 1) THEN "wait" ELSE "last")
    /\ UNCHANGED <<removed, event, blocks, lowMemory, tag>>

Wait(u) ==
    /\ pc[u] = "wait"
    /\ event
    /\ event' = FALSE
    /\ Goto(u, "last")
    /\ UNCHANGED <<removed, ioCount, blocks, lowMemory, tag>>

(* A checked lock frees the one block that should be left, whose pointer   *)
(* stays in the lock.  With none left the assertion fails (BlockRemains).  *)
LastBlock(u) ==
    /\ pc[u] = "last"
    /\ ~Debug \/ blocks # << >>
    /\ Goto(u, "gone")
    /\ UNCHANGED <<removed, ioCount, event, blocks, lowMemory, tag>>

-----------------------------------------------------------------------------
(* A step of a call in progress, or the release that ends a request. *)
Continue(u) == \/ CheckRemoved(u) \/ Track(u) \/ Undo(u)
               \/ Release(u) \/ Missing(u) \/ Drop(u) \/ Signal(u)
               \/ FirstDrop(u) \/ SecondDrop(u) \/ Wait(u) \/ LastBlock(u)

Next == \E u \in Users : Acquire(u) \/ BeginRemoval(u) \/ Continue(u)

Spec == Init /\ [][Next]_vars

-----------------------------------------------------------------------------
(* Properties.                                                             *)

Removing == {"first", "second", "wait", "last", "gone"}
PCs == Removing \cup {"idle", "check", "track", "undo", "held", "missing",
                      "drop", "signal"}

(* The users that have the lock, up to the decrement that ends it. *)
Using == {u \in Users : pc[u] \in {"track", "held", "missing", "drop"}}

(* IoReleaseRemoveLockAndWaitEx waits "for the others to remove lock":     *)
(* once its wait is over no request is using the device.                   *)
GoneMeansUnused ==
    (\E u \in Users : pc[u] \in {"last", "gone"}) => Using = {}

(* The users that are in the count, and what the device adds to it. *)
Counted == Using \cup {u \in Users : pc[u] \in {"check", "undo", "first"}}
DeviceCount == IF \E u \in Users : pc[u] \in {"wait", "last", "gone"}
               THEN 0 ELSE 1

(* The count is exact at every step of every thread, so the assertions on  *)
(* it hold: it is positive after an acquire and after the first decrement  *)
(* of the removal, and zero only once the device is removed.               *)
CountExact ==
    /\ ioCount = DeviceCount + Cardinality(Counted)
    /\ ioCount = 0 => removed
    /\ \A u \in Users : pc[u] = "second" => ioCount > 0

(* No wake-up is lost: when nobody is in the count any more, the event of  *)
(* the thread that waits is set, or someone is about to set it.            *)
WakeUpIsDue ==
    (\E u \in Users : pc[u] = "wait") /\ Counted = {} =>
       event \/ \E u \in Users : pc[u] = "signal"

(* The strengthening with which the properties above are inductive.  There *)
(* is one remover, and only once there is one is anyone refused; when the  *)
(* event is set, or about to be, the device is out of the count and nobody *)
(* uses it, and nobody will.                                               *)
Types == /\ removed \in BOOLEAN
         /\ ioCount \in Nat
         /\ event \in BOOLEAN
         /\ pc \in [Users -> PCs]

OneRemover == /\ removed <=> \E u \in Users : pc[u] \in Removing
              /\ \A u, v \in Users :
                    pc[u] \in Removing /\ pc[v] \in Removing => u = v
              /\ \A u \in Users : pc[u] = "undo" => removed

Signaled == event \/ \E u \in Users : pc[u] \in {"signal", "last", "gone"}

Quiet == Signaled => DeviceCount = 0 /\ Using = {}

CountInv == /\ Types
            /\ ioCount = DeviceCount + Cardinality(Counted)
            /\ OneRemover
            /\ Quiet
            /\ WakeUpIsDue

Tracked == {u \in Users : pc[u] \in {"held", "first", "second", "wait", "last"}}
Missed == {u \in Users : pc[u] = "missing"}

(* Every request that uses a checked lock has a block, or is one there was *)
(* no memory for, even when requests with one tag have taken each other's  *)
(* block: a release that finds no block finds the counter above zero, and  *)
(* its assertion holds.                                                    *)
BlocksExact ==
    /\ lowMemory >= Cardinality(Missed)
    /\ Debug /\ (\A u \in Users : pc[u] # "gone") =>
         Len(blocks) + lowMemory = Cardinality(Tracked) + Cardinality(Missed)

(* "A block must be remaining" when the removal has waited. *)
BlockRemains ==
    \A u \in Users : Debug /\ pc[u] = "last" => blocks # << >>
=============================================================================
