------------------------------ MODULE WorkQueue ------------------------------
(***************************************************************************)
(* Worker threads, ntoskrnl/ex/work.c: one of the three work queues, the   *)
(* threads that serve it, and the balance manager, which adds a dynamic    *)
(* thread when items are queued and no one makes progress.                 *)
(*                                                                         *)
(* A work item may, when it runs, wait for another to have run (Needs).    *)
(* Each unlocked access is a step of its own.  WorkItemsProcessed is       *)
(* modelled by whether it has changed since the last pass of the manager,  *)
(* QueueDepthLastPass by whether it is zero.  Nothing ever disables a      *)
(* queue or sets the shutdown event.                                       *)
(***************************************************************************)
EXTENDS KQueue

CONSTANTS Static, Dynamic, \* the built-in threads, and those to be made
          Clients,         \* other threads that queue work
          Needs,           \* the item that each item waits for
          MaxDynamic       \* 16

ASSUME WorkerAssumption == /\ Workers = Static \cup Dynamic
                           /\ Static \cap Dynamic = {}
                           /\ Clients \cap Workers = {}

ASSUME DynamicAssumption == MaxDynamic \in Nat

ASSUME NeedsAssumption == Needs \in [Entries -> Entries \cup {NoEntry}]

VARIABLES work,     \* the EX_WORK_QUEUE, but for its KQUEUE
          manager,  \* where the balance manager is
          event,    \* ExpThreadSetManagerEvent
          checking, \* who is at the end of ExQueueWorkItem
          owed,     \* the items that have been queued and not begun
          done      \* the items that have run

vars == <<qvars, work, manager, event, checking, owed, done>>

(* ExpInitializeWorkerThreads.  The critical queue alone has               *)
(* MakeThreadsAsNecessary.                                                 *)
Init == /\ QInit
        /\ pc = [t \in Workers |-> IF t \in Static THEN "created" ELSE "none"]
        /\ work \in [MakeThreadsAsNecessary : BOOLEAN, DynamicThreadCount : {0},
                     processed : {FALSE}, depth : {FALSE}]
        /\ manager = "wait"
        /\ event = FALSE
        /\ checking = {}
        /\ owed = {}
        /\ done = {}

-----------------------------------------------------------------------------
(* ExpWorkerThreadEntryPoint.                                              *)

(* The worker goes to the queue for the first time, or comes back. *)
GetItem(t) ==
    /\ pc[t] \in {"created", "return"}
    /\ KeRemoveQueue(t)
    /\ UNCHANGED <<work, manager, event, owed, done>>

EndApc(t) ==
    /\ pc[t] = "apc"
    /\ RemoveAgain(t) \/ (t \in Dynamic /\ RemoveLate(t))
    /\ UNCHANGED <<work, manager, event, owed, done>>

(* It has got an item.  If it had to wait, the wait reason is reset now. *)
Begin(t) ==
    /\ pc[t] \in {"taken", "woken"}
    /\ WrQueue' = [WrQueue EXCEPT ![t] = pc[t] = "taken"]
    /\ work' = [work EXCEPT !.processed = TRUE]
    /\ pc' = [pc EXCEPT ![t] = "running"]
    /\ owed' = owed \ {item[t]}
    /\ UNCHANGED <<queue, serving, item, interrupts, manager, event, done>>

(* The worker routine waits for another item, *)
WaitForItem(t) ==
    /\ pc[t] = "running"
    /\ Needs[item[t]] \notin done \cup {NoEntry}
    /\ Block(t)
    /\ UNCHANGED <<work, manager, event, owed, done>>

Resume(t) ==
    /\ pc[t] = "blocked"
    /\ Needs[item[t]] \in done
    /\ Unblock(t)
    /\ UNCHANGED <<work, manager, event, owed, done>>

(* and ends. *)
Finish(t) ==
    /\ pc[t] = "running"
    /\ Needs[item[t]] \in done \cup {NoEntry}
    /\ done' = done \cup {item[t]}
    /\ item' = [item EXCEPT ![t] = NoEntry]
    /\ pc' = [pc EXCEPT ![t] = "return"]
    /\ UNCHANGED <<queue, serving, WrQueue, interrupts, work, manager, event, owed>>

(* A dynamic thread that was too late leaves, unless it has IRPs pending. *)
Leave(t) ==
    /\ pc[t] \in {"late", "expired"}
    /\ WrQueue' = [WrQueue EXCEPT ![t] = pc[t] = "expired"]
    /\ \/ pc' = [pc EXCEPT ![t] = "return"] /\ UNCHANGED work
       \/ /\ pc' = [pc EXCEPT ![t] = "leaving"]
          /\ work' = [work EXCEPT !.DynamicThreadCount = @ - 1]
    /\ UNCHANGED <<queue, serving, item, interrupts, manager, event, owed, done>>

Exit(t) ==
    /\ pc[t] = "leaving"
    /\ Terminate(t)
    /\ UNCHANGED <<work, manager, event, owed, done>>

Work(t) == \/ GetItem(t) \/ EndApc(t) \/ Begin(t)
           \/ WaitForItem(t) \/ Resume(t) \/ Finish(t)
           \/ Leave(t) \/ Exit(t)

(* A DPC, or the insert that a routine or an APC makes, holds its thread up. *)
WorkOn(t) == t \notin checking /\ Work(t) /\ UNCHANGED checking

(* The wait for an item is interrupted, or after ten minutes is over. *)
Apc(t) ==
    /\ pc[t] = "waiting"
    /\ EndWait(t, "apc")
    /\ UNCHANGED <<work, manager, event, checking, owed, done>>

Timeout(t) ==
    /\ t \in Dynamic /\ pc[t] = "waiting"
    /\ EndWait(t, "late")
    /\ UNCHANGED <<work, manager, event, checking, owed, done>>

-----------------------------------------------------------------------------
(* ExQueueWorkItem.                                                        *)

(* An item can be queued again once its routine has been called. *)
QueueItem(c, e) ==
    /\ c \in Clients \cup Active
    /\ c \notin checking
    /\ e \notin owed
    /\ KiInsertQueue(c, e)
    /\ owed' = owed \cup {e}
    /\ checking' = checking \cup {c}
    /\ UNCHANGED <<serving, interrupts, work, manager, event, done>>

(* Mutant: there is no limit. *)
MoreAndMore == /\ work.MakeThreadsAsNecessary
               /\ queue.entries # <<>>
               /\ queue.CurrentCount < MaximumCount

MoreThreads == /\ work.MakeThreadsAsNecessary
               /\ queue.entries # <<>>
               /\ queue.CurrentCount < MaximumCount
               /\ work.DynamicThreadCount < MaxDynamic

(* Is another thread needed? *)
Request(c) ==
    /\ c \in checking
    /\ checking' = checking \ {c}
    /\ event' = (event \/ MoreThreads)
    /\ UNCHANGED <<qvars, work, manager, owed, done>>

-----------------------------------------------------------------------------
(* ExpWorkerThreadBalanceManager.                                          *)

(* ExpCreateWorkerThread *)
Create(l) ==
    LET unused == {t \in Dynamic : pc[t] = "none"}
    IN  /\ unused # {}
        /\ pc' = [pc EXCEPT ![CHOOSE t \in unused : TRUE] = "created"]
        /\ manager' = l

Skip(l) == manager' = l /\ UNCHANGED pc

(* Nothing has been done of what was queued at the last pass. *)
Stalled == work.depth /\ ~work.processed /\ work.DynamicThreadCount < MaxDynamic

(* ExpDetectWorkerThreadDeadlock, when the timer expires, every second. *)
Detect ==
    /\ manager = "wait"
    /\ IF Stalled THEN Create("countDetect") ELSE Skip("pass")
    /\ UNCHANGED <<queue, serving, WrQueue, item, interrupts, work, event,
                   checking, owed, done>>

Pass ==
    /\ manager = "pass"
    /\ work' = [work EXCEPT !.processed = FALSE]
    /\ manager' = "depth"
    /\ UNCHANGED <<qvars, event, checking, owed, done>>

(* Mutant: the depth is not recorded. *)
DepthUnread == FALSE

(* KeReadStateQueue *)
SignalState == queue.entries # <<>>

Depth ==
    /\ manager = "depth"
    /\ work' = [work EXCEPT !.depth = SignalState]
    /\ manager' = "wait"
    /\ UNCHANGED <<qvars, event, checking, owed, done>>

Notified ==
    /\ manager = "wait" /\ event
    /\ event' = FALSE
    /\ manager' = "check"
    /\ UNCHANGED <<qvars, work, checking, owed, done>>

(* ExpCheckDynamicThreadCount *)
Check ==
    /\ manager = "check"
    /\ IF MoreThreads THEN Create("countCheck") ELSE Skip("wait")
    /\ UNCHANGED <<queue, serving, WrQueue, item, interrupts, work, event,
                   checking, owed, done>>

(* The new thread is counted only when it has been made. *)
CountUp ==
    /\ manager \in {"countDetect", "countCheck"}
    /\ work' = [work EXCEPT !.DynamicThreadCount = @ + 1]
    /\ manager' = IF manager = "countDetect" THEN "pass" ELSE "wait"
    /\ UNCHANGED <<qvars, event, checking, owed, done>>

Manage == Pass \/ Depth \/ Notified \/ Check \/ CountUp

-----------------------------------------------------------------------------
Next == \/ \E t \in Workers : WorkOn(t) \/ Apc(t) \/ Timeout(t)
        \/ \E c \in Clients \cup Workers : Request(c) \/ \E e \in Entries : QueueItem(c, e)
        \/ Detect \/ Manage

Spec == Init /\ [][Next]_vars

-----------------------------------------------------------------------------
(* Properties.                                                             *)

(* An item that has been queued is in the list or with a worker that is    *)
(* about to run it, once and in one place only, whichever hands it takes   *)
(* on the way; no other item is.                                           *)
ItemsExact ==
    /\ IsInjective(queue.entries)
    /\ \A e \in Entries :
          LET given == {t \in Workers : pc[t] \in {"taken", "woken"} /\ item[t] = e}
              listed == e \in ToSet(queue.entries)
          IN  IF e \in owed THEN listed # (given # {}) /\ Cardinality(given) <= 1
              ELSE ~listed /\ given = {}

Counting == manager \in {"countDetect", "countCheck"}

Alive == {t \in Dynamic : pc[t] \notin {"none", "leaving"}}

(* DynamicThreadCount counts the dynamic threads, but for the one that the *)
(* manager has just made, and they are never more than MaxDynamic.         *)
DynamicExact ==
    /\ work.DynamicThreadCount + (IF Counting THEN 1 ELSE 0) = Cardinality(Alive)
    /\ Cardinality(Alive) <= MaxDynamic
=============================================================================
