------------------------------- MODULE KQueue -------------------------------
(***************************************************************************)
(* Kernel queue objects, ntoskrnl/ke/queue.c, and the places that keep a   *)
(* queue's count of active threads: ke/wait.c, ke/thrdobj.c.               *)
(*                                                                         *)
(* A queue has a list of entries and a list of threads that wait for one.  *)
(* It remembers the threads that serve it (Thread->Queue) and counts those *)
(* of them that are not waiting, for anything: while they are fewer than   *)
(* MaximumCount, entries are given out.  All of this happens under the     *)
(* dispatcher lock; each operator below is what one stretch under the lock *)
(* does.  SignalState is the length of the list of entries.                *)
(***************************************************************************)
EXTENDS Naturals, Sequences, SequencesExt, FiniteSets

CONSTANTS Workers,       \* the threads that serve the queue
          Entries,       \* what is queued
          NoEntry,
          MaximumCount,
          MaxInterrupts  \* bound: how often a wait ends without an entry

ASSUME MaximumAssumption == MaximumCount \in Nat \ {0}

ASSUME EntryAssumption == NoEntry \notin Entries

ASSUME WorkersAssumption == IsFiniteSet(Workers)

VARIABLES queue,   \* the KQUEUE: its two lists and CurrentCount
          serving, \* the threads with Thread->Queue = Queue
          WrQueue, \* does Thread->WaitReason say WrQueue?
          pc,      \* where each worker is
          item,    \* the entry it has been given
          interrupts \* how many kernel APCs and timeouts are to come

qvars == <<queue, serving, WrQueue, pc, item, interrupts>>

(* The threads that serve the queue and do not wait. *)
Active == {t \in serving : pc[t] \notin {"waiting", "blocked"}}

(* KeInitializeQueue *)
QInit == /\ queue = [entries |-> <<>>, waiters |-> <<>>, CurrentCount |-> 0]
         /\ serving = {}
         /\ WrQueue = [t \in Workers |-> FALSE]
         /\ item = [t \in Workers |-> NoEntry]
         /\ interrupts = MaxInterrupts

(* May one of the threads be given something?  Entries are given out in    *)
(* the order they came, to the thread that came last.                      *)
Waiting(q) == q.CurrentCount < MaximumCount /\ q.waiters # <<>>

(* Mutant: a thread that comes back is still counted. *)
StillActive(q) == q

Inactive(q) == [q EXCEPT !.CurrentCount = @ - 1]

(* KiUnlinkThread: a thread waits no longer, and is active; *)
Activate(q) == [q EXCEPT !.CurrentCount = @ + 1]

(* if it was for the queue that it waited, it leaves its list. *)
Without(ws, w) == RemoveAt(ws, CHOOSE i \in 1 .. Len(ws) : ws[i] = w)

Unlink(q, w) == [Activate(q) EXCEPT !.waiters = Without(@, w)]

(* Mutant: the entry waits for the next thread that comes back. *)
NotReady(q) == FALSE

Ready(q) == Waiting(q) /\ q.entries # <<>>

(* Mutant: the entry is given away and kept. *)
GiveACopy(q) == Unlink(q, Last(q.waiters))

Give(q) == [Unlink(q, Last(q.waiters)) EXCEPT !.entries = Tail(@)]

(* KiActivateWaiterQueue: the active thread t stops, to go on at l; one    *)
(* that waits gets an entry in its place.                                  *)
KiActivateWaiterQueue(t, l) ==
    LET q == Inactive(queue)
        w == Last(q.waiters)
    IN  IF Ready(q)
        THEN /\ queue' = Give(q)
             /\ pc' = [pc EXCEPT ![t] = l, ![w] = "woken"]
             /\ item' = [item EXCEPT ![w] = Head(q.entries)]
        ELSE /\ queue' = q
             /\ pc' = [pc EXCEPT ![t] = l]
             /\ UNCHANGED item

(* A wait ends without an entry. *)
Interrupt == interrupts > 0 /\ interrupts' = interrupts - 1

(* Does the insert come from a thread that is still in KeRemoveQueue, in   *)
(* an APC?  (Or from one that found its entry there without waiting.)      *)
FromWithin(c) == c \in serving /\ WrQueue[c]

(* KiInsertQueue, on a thread or in a DPC that has interrupted it. *)
KiInsertQueue(c, e) ==
    LET w == Last(queue.waiters)
    IN  IF Waiting(queue) /\ ~FromWithin(c)
        THEN /\ queue' = Unlink(queue, w)
             /\ WrQueue' = [WrQueue EXCEPT ![w] = FALSE]
             /\ pc' = [pc EXCEPT ![w] = "woken"]
             /\ item' = [item EXCEPT ![w] = e]
        ELSE /\ queue' = [queue EXCEPT !.entries = Append(@, e)]
             /\ UNCHANGED <<WrQueue, pc, item>>

(* One pass of the loop of KeRemoveQueue, in which t is not active.  With  *)
(* nothing to take it waits, unless it has a kernel APC to run.            *)
CanTake(q) == q.CurrentCount < MaximumCount /\ q.entries # <<>>

RemovePass(t, q) ==
    \/ /\ CanTake(q)
       /\ queue' = [Activate(q) EXCEPT !.entries = Tail(@)]
       /\ item' = [item EXCEPT ![t] = Head(q.entries)]
       /\ pc' = [pc EXCEPT ![t] = "taken"]
       /\ UNCHANGED interrupts
    \/ /\ ~CanTake(q)
       /\ Interrupt
       /\ queue' = Activate(q)
       /\ pc' = [pc EXCEPT ![t] = "apc"]
       /\ UNCHANGED item
    \/ /\ ~CanTake(q)
       /\ queue' = [q EXCEPT !.waiters = Append(@, t)]
       /\ pc' = [pc EXCEPT ![t] = "waiting"]
       /\ UNCHANGED <<item, interrupts>>

(* KeRemoveQueue.  Who has not served the queue is not counted as active.  *)
(* KxQueueThreadWait sets the wait reason at every pass.                   *)
KeRemoveQueue(t) ==
    /\ RemovePass(t, IF t \in serving THEN Inactive(queue) ELSE queue)
    /\ serving' = serving \cup {t}
    /\ WrQueue' = [WrQueue EXCEPT ![t] = TRUE]

(* After the APC it starts over, *)
RemoveAgain(t) ==
    /\ RemovePass(t, Inactive(queue))
    /\ WrQueue' = [WrQueue EXCEPT ![t] = TRUE]
    /\ UNCHANGED serving

(* or finds its time over, and nothing to take. *)
RemoveLate(t) ==
    /\ ~CanTake(Inactive(queue))
    /\ pc' = [pc EXCEPT ![t] = "expired"]
    /\ WrQueue' = [WrQueue EXCEPT ![t] = TRUE]
    /\ UNCHANGED <<queue, serving, item, interrupts>>

(* The wait is ended by an APC or by the timer. *)
EndWait(t, l) ==
    /\ Interrupt
    /\ queue' = Unlink(queue, t)
    /\ pc' = [pc EXCEPT ![t] = l]
    /\ UNCHANGED <<serving, WrQueue, item>>

(* A worker waits for something else, as in KeWaitForSingleObject, *)
Block(t) ==
    /\ KiActivateWaiterQueue(t, "blocked")
    /\ WrQueue' = [WrQueue EXCEPT ![t] = FALSE]
    /\ UNCHANGED <<serving, interrupts>>

(* and gets it. *)
Unblock(t) ==
    /\ queue' = Activate(queue)
    /\ pc' = [pc EXCEPT ![t] = "running"]
    /\ UNCHANGED <<serving, WrQueue, item, interrupts>>

(* KeTerminateThread *)
Terminate(t) ==
    /\ KiActivateWaiterQueue(t, "none")
    /\ serving' = serving \ {t}
    /\ UNCHANGED interrupts
    /\ WrQueue' = [WrQueue EXCEPT ![t] = FALSE]

-----------------------------------------------------------------------------
(* CurrentCount counts the threads that serve the queue and do not wait,   *)
(* whichever way they stopped waiting: given an entry, interrupted by an   *)
(* APC, timed out, or because what they waited for elsewhere has happened. *)
CountExact == queue.CurrentCount = Cardinality(Active)

(* The threads never all wait while an entry is in the list: one is        *)
(* active, and takes the entry when it comes back or gives it on when it   *)
(* stops.  (It need not be the first to be active: an insert from within   *)
(* KeRemoveQueue passes over threads that could be given the entry.)       *)
NobodyIdle == queue.entries # <<>> /\ queue.waiters # <<>> => Active # {}
=============================================================================
