---------------------------- MODULE MCWorkQueue ----------------------------
(***************************************************************************)
(* TLC instance of WorkQueue: MaxCalls items are queued.  They need at     *)
(* most as many threads as there may be.                                   *)
(***************************************************************************)
EXTENDS WorkQueue, TLC

CONSTANTS MaxCalls, i1, i2

(* i1 waits for i2. *)
Chain == i1 :> i2 @@ i2 :> NoEntry

VARIABLE calls      \* how many more items may be queued

lvars == <<vars, calls>>

LInit == Init /\ calls = MaxCalls

Call(c) == /\ calls > 0 /\ calls' = calls - 1
           /\ \E e \in Entries :
                 /\ Needs[e] # NoEntry => \A t \in Workers : item[t] # e
                 /\ QueueItem(c, e)

Step == \/ \E t \in Workers : WorkOn(t) \/ Apc(t) \/ Timeout(t)
        \/ \E c \in Clients \cup Workers : Request(c)
        \/ Detect \/ Manage

LNext == (\E c \in Clients \cup Workers : Call(c)) \/ (Step /\ UNCHANGED calls)

LSpec == LInit /\ [][LNext]_lvars

(* The threads that can run do run, and the manager, whose timer expires   *)
(* when nothing else wakes it.  A thread that is interrupted again and     *)
(* again when it could take an item never does: APCs come to an end.       *)
(* Nothing is assumed of when dynamic threads time out, or of who queues   *)
(* work.                                                                   *)
LFairSpec ==
    /\ LSpec
    /\ \A t \in Workers : WF_lvars(WorkOn(t) /\ UNCHANGED calls)
    /\ \A c \in Clients \cup Workers : WF_lvars(Request(c) /\ UNCHANGED calls)
    /\ WF_lvars((Detect \/ Manage) /\ UNCHANGED calls)

(* Every item that is queued is run, even if the workers that have items   *)
(* wait for items that are still queued: the manager notices and makes     *)
(* another worker.                                                         *)
EveryItemRuns == \A e \in Entries : e \in owed ~> e \notin owed
=============================================================================
