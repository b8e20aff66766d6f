--------------------------- MODULE MCObjectLife ---------------------------
(***************************************************************************)
(* TLC instance of ObjectLife.  The threads make OneCalls calls if they    *)
(* use one object only, and BothCalls calls if they create two of the same *)
(* name, which one of them can have in the directory at a time.            *)
(***************************************************************************)
EXTENDS ObjectLife

CONSTANTS OneCalls, BothCalls

SameName == [o \in Objects |-> 1]

VARIABLES used,     \* the objects the threads use
          calls     \* how many calls are to come

lvars == <<vars, used, calls>>

LInit == /\ Init
         /\ \/ used = Objects /\ calls = BothCalls
            \/ used = {CHOOSE o \in Objects : TRUE} /\ calls = OneCalls

LCall(t) == /\ calls > 0 /\ calls' = calls - 1
            /\ Call(t)
            /\ \A o \in Objects \ used : ~ header'[o].live
            /\ UNCHANGED used

LInside(t) == Inside(t) /\ UNCHANGED <<used, calls>>

LReaper == Reaper /\ UNCHANGED <<used, calls>>

LNext == LReaper \/ \E t \in Threads : LCall(t) \/ LInside(t)

(* Threads in the routines, and the worker thread, go on. *)
LFairSpec == /\ LInit /\ [][LNext]_lvars
             /\ WF_lvars(LReaper) /\ \A t \in Threads : WF_lvars(LInside(t))

(* The counts of an object agree with the handles, the directory and the   *)
(* threads in the middle of a routine, through every failure; that of its  *)
(* name as long as no other object gets the name.                          *)
CountsExact == /\ RefsExact /\ HandlesExact
               /\ used # Objects => NamesExact

(* A named object that has a handle, or is permanent, is not taken from    *)
(* its directory, whoever closes another handle to it meanwhile.           *)
OpenStaysNamed == [][used # Objects => KeepsOpen]_lvars

(* A temporary object without handles leaves its directory, and one that   *)
(* nothing points to is deleted.                                           *)
NothingLingers == NamesGo /\ ObjectsGo
=============================================================================
