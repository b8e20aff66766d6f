---------------------------- MODULE RundownSpec ----------------------------
(***************************************************************************)
(* What rundown protection (ntoskrnl/ex/rundown.c) promises its callers,   *)
(* without the word, the compare-exchanges and the wait block that         *)
(* implement it.  References to the protected structure are handed out     *)
(* while the gate is open; a rundown closes the gate, and it is over only  *)
(* when the last reference is gone.  Rundown implements this module.       *)
(***************************************************************************)
CONSTANT Refs           \* the references that can be outstanding

VARIABLES phase,        \* "open", "closing" or "down"
          held          \* the references that are outstanding

vars == <<phase, held>>

TypeOK == /\ phase \in {"open", "closing", "down"}
          /\ held \subseteq Refs

Init == phase = "open" /\ held = {}

(* References are granted only while the gate is open. *)
Acquire(S) == /\ phase = "open"
              /\ S \cap held = {}
              /\ held' = held \cup S
              /\ UNCHANGED phase

Release(S) == /\ S \subseteq held
              /\ held' = held \ S
              /\ UNCHANGED phase

(* A rundown that finds references outstanding closes the gate. *)
Close == /\ phase = "open"
         /\ phase' = "closing"
         /\ UNCHANGED held

(* The structure is down only when nobody refers to it any more. *)
Finish == /\ phase \in {"open", "closing"}
          /\ held = {}
          /\ phase' = "down"
          /\ UNCHANGED held

Reopen == /\ phase = "down"
          /\ phase' = "open"
          /\ UNCHANGED held

Next == \/ \E S \in SUBSET Refs : Acquire(S) \/ Release(S)
        \/ Close \/ Finish \/ Reopen

Spec == Init /\ [][Next]_vars
=============================================================================
