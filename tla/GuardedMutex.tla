---------------------------- MODULE GuardedMutex ----------------------------
(***************************************************************************)
(* Guarded mutexes: the inline routines of ntoskrnl/include/internal/      *)
(* ke_x.h, the contended acquire in ke/wait.c, and gates, ke/gate.c.       *)
(*                                                                         *)
(* Count has a bit that is set while the mutex is free, a bit that says    *)
(* that a waiter has been woken, and the number of other waiters.  A       *)
(* compare-exchange that fails is tried again with the value it found, so  *)
(* that each loop is one step, its last.  A waiter has APCs disabled:      *)
(* nothing but the signal ends its wait at the gate.                       *)
(***************************************************************************)
EXTENDS Naturals, Sequences, FiniteSets

CONSTANTS Threads, NoThread

VARIABLES Count, Owner,
          Gate,     \* SignalState, and the list of threads that wait
          pc,
          woken,    \* has this thread been at the gate? (BitsToRemove)
          OldValue  \* the count a releasing thread has left

vars == <<Count, Owner, Gate, pc, woken, OldValue>>

(* _KeInitializeGuardedMutex *)
Free == [lock |-> TRUE, woken |-> FALSE, waiters |-> 0]

Init == /\ Count = Free
        /\ Owner = NoThread
        /\ Gate = [signaled |-> FALSE, list |-> <<>>]
        /\ pc = [t \in Threads |-> "idle"]
        /\ woken = [t \in Threads |-> FALSE]
        /\ OldValue = [t \in Threads |-> Free]

Goto(t, l) == pc' = [pc EXCEPT ![t] = l]

-----------------------------------------------------------------------------
(* _KeAcquireGuardedMutex, _KeAcquireGuardedMutexUnsafe: reset the lock    *)
(* bit, or contend for it.                                                 *)
Acquire(t) ==
    /\ pc[t] = "idle"
    /\ Count' = [Count EXCEPT !.lock = FALSE]
    /\ Goto(t, IF Count.lock THEN "own" ELSE "contend")
    /\ UNCHANGED <<Owner, Gate, woken, OldValue>>

(* _KeTryToAcquireGuardedMutex, when it succeeds. *)
TryToAcquire(t) ==
    /\ pc[t] = "idle"
    /\ Count.lock
    /\ Count' = [Count EXCEPT !.lock = FALSE]
    /\ Goto(t, "own")
    /\ UNCHANGED <<Owner, Gate, woken, OldValue>>

(* KiAcquireGuardedMutex.                                                  *)

(* Mutant: who has been woken is given the mutex. *)
MayTakeWoken(c, w) == c.lock \/ w

MayTake(c, w) == c.lock

(* A free mutex is taken.  Who has been woken flips that bit, too. *)
Taken(c, w) == [c EXCEPT !.lock = FALSE, !.woken = IF w THEN ~@ ELSE @]

ContendTake(t) ==
    /\ pc[t] = "contend"
    /\ MayTake(Count, woken[t])
    /\ Count' = Taken(Count, woken[t])
    /\ Goto(t, "own")
    /\ woken' = [woken EXCEPT ![t] = FALSE]
    /\ UNCHANGED <<Owner, Gate, OldValue>>

(* Otherwise another waiter is counted.  Adding GM_LOCK_WAITER_WOKEN to    *)
(* the bit that is set carries over into the number of waiters.            *)
Added(c, w) == [c EXCEPT !.woken   = IF w THEN ~@ ELSE @,
                         !.waiters = IF w /\ ~c.woken THEN @ ELSE @ + 1]

ContendWait(t) ==
    /\ pc[t] = "contend"
    /\ ~MayTake(Count, woken[t])
    /\ Count' = Added(Count, woken[t])
    /\ Goto(t, "gate")
    /\ UNCHANGED <<Owner, Gate, woken, OldValue>>

(* KeWaitForGate: pass, or join the list. *)
WaitForGate(t) ==
    /\ pc[t] = "gate"
    /\ IF Gate.signaled
       THEN /\ Gate' = [Gate EXCEPT !.signaled = FALSE]
            /\ Goto(t, "contend")
            /\ woken' = [woken EXCEPT ![t] = TRUE]
       ELSE /\ Gate' = [Gate EXCEPT !.list = Append(@, t)]
            /\ Goto(t, "waiting")
            /\ UNCHANGED woken
    /\ UNCHANGED <<Count, Owner, OldValue>>

SetOwner(t) ==
    /\ pc[t] = "own"
    /\ Owner' = t
    /\ Goto(t, "owner")
    /\ UNCHANGED <<Count, Gate, woken, OldValue>>

-----------------------------------------------------------------------------
(* _KeReleaseGuardedMutex, _KeReleaseGuardedMutexUnsafe.                   *)

ClearOwner(t) ==
    /\ pc[t] = "owner"
    /\ Owner' = NoThread
    /\ Goto(t, "release")
    /\ UNCHANGED <<Count, Gate, woken, OldValue>>

NeedsWake(c) == c.waiters > 0 /\ ~c.woken

Release(t) ==
    LET new == [Count EXCEPT !.lock = TRUE]
    IN  /\ pc[t] = "release"
        /\ Count' = new
        /\ IF NeedsWake(Count)
           THEN OldValue' = [OldValue EXCEPT ![t] = new] /\ Goto(t, "wake")
           ELSE Goto(t, "idle") /\ UNCHANGED OldValue
        /\ UNCHANGED <<Owner, Gate, woken>>

OneWoken(c) == [c EXCEPT !.woken = TRUE, !.waiters = @ - 1]

(* If the count is no longer what the release has left, somebody has the   *)
(* mutex or has had it, and has seen to the waiters.                       *)
Wake(t) ==
    /\ pc[t] = "wake"
    /\ IF Count = OldValue[t]
       THEN Count' = OneWoken(Count) /\ Goto(t, "signal")
       ELSE UNCHANGED Count /\ Goto(t, "idle")
    /\ OldValue' = [OldValue EXCEPT ![t] = Free]
    /\ UNCHANGED <<Owner, Gate, woken>>

(* KeSignalGateBoostPriority *)
SignalGate(t) ==
    LET w == Head(Gate.list)
    IN  /\ pc[t] = "signal"
        /\ IF Gate.signaled \/ Gate.list = <<>>
           THEN /\ Gate' = [Gate EXCEPT !.signaled = TRUE]
                /\ Goto(t, "idle")
                /\ UNCHANGED woken
           ELSE /\ Gate' = [Gate EXCEPT !.list = Tail(@)]
                /\ pc' = [pc EXCEPT ![t] = "idle", ![w] = "contend"]
                /\ woken' = [woken EXCEPT ![w] = TRUE]
        /\ UNCHANGED <<Count, Owner, OldValue>>

-----------------------------------------------------------------------------
Inside(t) == \/ ContendTake(t) \/ ContendWait(t) \/ WaitForGate(t) \/ SetOwner(t)
             \/ Release(t) \/ Wake(t) \/ SignalGate(t)

Next == \E t \in Threads : Acquire(t) \/ TryToAcquire(t) \/ ClearOwner(t) \/ Inside(t)

Spec == Init /\ [][Next]_vars

-----------------------------------------------------------------------------
(* Properties.                                                             *)

(* A guarded mutex is an exclusive lock: from the step that resets the     *)
(* lock bit to the one that sets it again its owner is alone.              *)
Owners == {t \in Threads : pc[t] \in {"own", "owner", "release"}}

RW == INSTANCE RWLock WITH hold <- [t \in Threads |-> IF t \in Owners THEN "excl" ELSE "none"]

MutualExclusion == RW!Spec

(* Those whom a signal has let pass the gate, and those who are to. *)
Passed == {t \in Threads : pc[t] = "contend" /\ woken[t]}

AtGate == {t \in Threads : pc[t] \in {"gate", "waiting"}}

(* Count knows everyone who is at the gate or has passed it and not got    *)
(* the mutex, whoever wakes them: the woken bit stands for one.            *)
CountExact == Count.waiters + (IF Count.woken THEN 1 ELSE 0) = Cardinality(AtGate \cup Passed)

(* The woken bit is set for exactly one wake-up: one that is about to be   *)
(* sent, one left at the gate for a thread that has still to come there,   *)
(* or a thread that has passed.                                            *)
Signalers == {t \in Threads : pc[t] = "signal"}

WakeUpIsDue ==
    /\ Cardinality(Signalers) + Cardinality(Passed) + (IF Gate.signaled THEN 1 ELSE 0)
          = IF Count.woken THEN 1 ELSE 0
    /\ Gate.signaled => \A t \in Threads : pc[t] # "waiting"

(* A free mutex with waiters has woken one, or is just about to. *)
NobodyForgotten ==
    Count.lock /\ Count.waiters > 0 =>
       Count.woken \/ \E t \in Threads : pc[t] = "wake" /\ OldValue[t] = Count

(* The count, the bits and the gate agree with the threads, from which the *)
(* ASSERTs of the code follow.                                             *)
WaitersExact == CountExact /\ WakeUpIsDue /\ NobodyForgotten
=============================================================================
