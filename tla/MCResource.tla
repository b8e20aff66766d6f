----------------------------- MODULE MCResource -----------------------------
(***************************************************************************)
(* TLC instance of Resource: Users make MaxCalls acquires between them and *)
(* the other threads only release what has been passed on to an owner      *)
(* pointer.  The resource starves exclusive waiters when it is asked to,   *)
(* so it is with finitely many calls that every one of them must return.   *)
(***************************************************************************)
EXTENDS Resource

CONSTANTS Users, MaxCalls

ASSUME UsersAssumption == Users \subseteq Threads /\ MaxCalls \in Nat

VARIABLE calls      \* how many acquires, and other calls, are left

lvars == <<vars, calls>>

LInit == Init /\ calls = MaxCalls

LBegin(t) == /\ calls > 0 /\ calls' = calls - 1
             /\ Begin(t)

LOther(t) == /\ calls > 0 /\ calls' = calls - 1
             /\ Other(t)

LRelease(t) == BeginRelease(t) /\ UNCHANGED calls

LContinue(t) == Continue(t) /\ UNCHANGED calls

LNext == \/ \E t \in Users : LBegin(t) \/ LOther(t)
         \/ \E t \in Threads : LRelease(t) \/ LContinue(t)

(* A thread inside a routine keeps running, and an owner releases. *)
LFairSpec ==
    /\ LInit /\ [][LNext]_lvars
    /\ \A t \in Threads : WF_lvars(LRelease(t)) /\ WF_lvars(LContinue(t))

(* The counts and the owner table of a resource agree with its owners, its *)
(* waiters and the wake-ups under way, and so does what the query that     *)
(* looks at the table without the lock answers.                            *)
ResourceExact == CountsExact /\ EntriesExact /\ AnswerExact

(* Every call returns: whoever waits for the resource gets it. *)
CallsReturn == \A t \in Threads : pc[t] # "idle" ~> pc[t] = "idle"
=============================================================================
