--------------------------- MODULE MCPushLockLive ---------------------------
(***************************************************************************)
(* TLC instance of PushLock for liveness: each thread calls an acquire     *)
(* routine at most MaxCalls times.  Push locks are not fair (a thread that *)
(* is woken competes with the ones that arrive), so it is with finitely    *)
(* many calls that every one of them must return.                          *)
(***************************************************************************)
EXTENDS PushLock

CONSTANT MaxCalls

VARIABLE calls      \* how many acquires each thread has left

lvars == <<vars, calls>>

LInit == Init /\ calls = [t \in Threads |-> MaxCalls]

LBegin(t) == /\ calls[t] > 0
             /\ Begin(t)
             /\ calls' = [calls EXCEPT ![t] = @ - 1]

LRelease(t) == BeginRelease(t) /\ UNCHANGED calls

LContinue(t) == Continue(t) /\ UNCHANGED calls

LNext == \E t \in Threads : LBegin(t) \/ LRelease(t) \/ LContinue(t)

LSpec == LInit /\ [][LNext]_lvars

(* A thread inside a routine keeps running, and an owner releases. *)
LFairSpec ==
    /\ LSpec
    /\ \A t \in Threads : WF_lvars(LRelease(t)) /\ WF_lvars(LContinue(t))

(* Every call returns: no thread sleeps for ever, and no loop of a         *)
(* compare-exchange goes round for ever.                                   *)
CallsReturn == \A t \in Threads : pc[t] # "idle" ~> pc[t] = "idle"
=============================================================================
