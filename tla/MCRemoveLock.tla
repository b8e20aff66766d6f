---------------------------- MODULE MCRemoveLock ----------------------------
(***************************************************************************)
(* TLC instance of RemoveLock.  Requests that arrive late are counted for  *)
(* a moment before they are refused, and enough of them could keep the     *)
(* count above zero for ever; each user makes at most MaxCalls requests.   *)
(***************************************************************************)
EXTENDS RemoveLock

CONSTANT MaxCalls

VARIABLE calls      \* how many requests each user can still make

lvars == <<vars, calls>>

LInit == Init /\ calls = [u \in Users |-> MaxCalls]

LAcquire(u) == /\ calls[u] > 0
               /\ Acquire(u)
               /\ calls' = [calls EXCEPT ![u] = @ - 1]

LRemove(u) == BeginRemoval(u) /\ UNCHANGED calls

LContinue(u) == Continue(u) /\ UNCHANGED calls

LNext == \E u \in Users : LAcquire(u) \/ LRemove(u) \/ LContinue(u)

(* A request that has the lock releases it, and a thread inside a routine  *)
(* keeps running.                                                          *)
LFairSpec == /\ LInit
             /\ [][LNext]_lvars
             /\ \A u \in Users : WF_lvars(LContinue(u))

(* IoReleaseRemoveLockAndWaitEx waits "for the others to remove lock", and *)
(* is woken: whatever arrives while it removes the device, its wait ends.  *)
RemovalEnds == \A u \in Users : pc[u] = "first" ~> pc[u] \in {"last", "gone"}
=============================================================================
