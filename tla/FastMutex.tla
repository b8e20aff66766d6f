----------------------------- MODULE FastMutex -----------------------------
(***************************************************************************)
(* Fast mutexes: the inline routines of ntoskrnl/include/internal/ex.h,    *)
(* the contended acquire in ke/wait.c, and the synchronization event they  *)
(* use.  Count is 1 while the mutex is free; each acquire takes one off.   *)
(* A release that finds it was not alone passes the mutex on through the   *)
(* event.  A waiter has APCs disabled and no timeout: nothing but the      *)
(* event ends its wait.                                                    *)
(***************************************************************************)
EXTENDS Integers, Sequences, FiniteSets

CONSTANTS Threads, NoThread

VARIABLES Count, Owner,
          Event,    \* SignalState, and the list of threads that wait
          pc

vars == <<Count, Owner, Event, pc>>

(* ExInitializeFastMutex *)
Init == /\ Count = 1
        /\ Owner = NoThread
        /\ Event = [signaled |-> FALSE, list |-> <<>>]
        /\ pc = [t \in Threads |-> "idle"]

Goto(t, l) == pc' = [pc EXCEPT ![t] = l]

(* InterlockedDecrement leaves 0: nobody holds it or waits for it. *)
Alone(c) == c = 1

(* _ExAcquireFastMutex, _ExAcquireFastMutexUnsafe *)
Acquire(t) ==
    /\ pc[t] = "idle"
    /\ Count' = Count - 1
    /\ Goto(t, IF Alone(Count) THEN "own" ELSE "wait")
    /\ UNCHANGED <<Owner, Event>>

(* What the compare-exchange of 1 with 0 leaves. *)
Tried(c) == IF c = 1 THEN 0 ELSE c

(* _ExTryToAcquireFastMutex *)
TryToAcquire(t) ==
    /\ pc[t] = "idle"
    /\ Count' = Tried(Count)
    /\ IF Count = 1 THEN Goto(t, "own") ELSE UNCHANGED pc
    /\ UNCHANGED <<Owner, Event>>

(* KiAcquireFastMutex: whoever passes the event has the mutex. *)
Wait(t) ==
    /\ pc[t] = "wait"
    /\ IF Event.signaled
       THEN Event' = [Event EXCEPT !.signaled = FALSE] /\ Goto(t, "own")
       ELSE Event' = [Event EXCEPT !.list = Append(@, t)] /\ Goto(t, "waiting")
    /\ UNCHANGED <<Count, Owner>>

SetOwner(t) ==
    /\ pc[t] = "own"
    /\ Owner' = t
    /\ Goto(t, "owner")
    /\ UNCHANGED <<Count, Event>>

-----------------------------------------------------------------------------
(* _ExReleaseFastMutex, _ExReleaseFastMutexUnsafe *)

ClearOwner(t) ==
    /\ pc[t] = "owner"
    /\ Owner' = NoThread
    /\ Goto(t, "release")
    /\ UNCHANGED <<Count, Event>>

(* Mutant: the last waiter is overlooked. *)
SomeoneWaitsMany(c) == c + 1 < 0

(* InterlockedIncrement leaves 0 or less. *)
SomeoneWaits(c) == c + 1 <= 0

Release(t) ==
    /\ pc[t] = "release"
    /\ Count' = Count + 1
    /\ Goto(t, IF SomeoneWaits(Count) THEN "signal" ELSE "idle")
    /\ UNCHANGED <<Owner, Event>>

(* The event when its first waiter has been taken off the list. *)
PassedOn(e) == [e EXCEPT !.list = Tail(@)]

(* KeSetEventBoostPriority *)
SetEvent(t) ==
    /\ pc[t] = "signal"
    /\ IF Event.list = <<>>
       THEN /\ Event' = [Event EXCEPT !.signaled = TRUE]
            /\ Goto(t, "idle")
       ELSE /\ Event' = PassedOn(Event)
            /\ pc' = [pc EXCEPT ![t] = "idle", ![Head(Event.list)] = "own"]
    /\ UNCHANGED <<Count, Owner>>

-----------------------------------------------------------------------------
Inside(t) == Wait(t) \/ SetOwner(t) \/ Release(t) \/ SetEvent(t)

Next == \E t \in Threads : Acquire(t) \/ TryToAcquire(t) \/ ClearOwner(t) \/ Inside(t)

Spec == Init /\ [][Next]_vars

-----------------------------------------------------------------------------
(* Properties.                                                             *)

Owners == {t \in Threads : pc[t] \in {"own", "owner", "release"}}

Waiters == {t \in Threads : pc[t] \in {"wait", "waiting"}}

Signalers == {t \in Threads : pc[t] = "signal"}

(* A fast mutex is an exclusive lock, though the one who releases it is    *)
(* out before the one who gets it is in.                                   *)
RW == INSTANCE RWLock WITH hold <- [t \in Threads |-> IF t \in Owners THEN "excl" ELSE "none"]

MutualExclusion == RW!Spec

(* The mutex is free, or somebody has it, or it is on its way: in the      *)
(* hands of a release that has not set the event yet, or in the event.     *)
OneHolder ==
    Cardinality(Owners) + Cardinality(Signalers) + (IF Event.signaled THEN 1 ELSE 0)
       = IF Count = 1 THEN 0 ELSE 1

(* Count is off 1 by those who have the mutex or wait for it. *)
CountExact == Count = 1 - Cardinality(Owners) - Cardinality(Waiters)

(* A set event is for a thread that has still to come and look at it, and  *)
(* whoever is asleep is on the list: nobody sleeps beside a set event.     *)
NobodyAsleep ==
    /\ Event.signaled => Event.list = <<>> /\ \E t \in Threads : pc[t] = "wait"
    /\ {t \in Threads : pc[t] = "waiting"} = {Event.list[i] : i \in DOMAIN Event.list}

(* The count and the event agree with the threads. *)
HoldersExact == OneHolder /\ CountExact /\ NobodyAsleep
=============================================================================
