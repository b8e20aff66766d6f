------------------------------- MODULE RWLock -------------------------------
(***************************************************************************)
(* What a shared/exclusive lock promises, whatever its implementation: one *)
(* exclusive owner at a time and none beside sharers.  PushLock and        *)
(* Resource implement this module.                                         *)
(***************************************************************************)
CONSTANT Threads

VARIABLE hold           \* what each thread holds

Modes == {"none", "shared", "excl"}

TypeOK == hold \in [Threads -> Modes]

Init == hold = [t \in Threads |-> "none"]

Holders(m) == {t \in Threads : hold[t] = m}

AcquireShared(t) == /\ hold[t] = "none"
                    /\ Holders("excl") = {}
                    /\ hold' = [hold EXCEPT ![t] = "shared"]

AcquireExclusive(t) == /\ hold[t] = "none"
                       /\ Holders("excl") \cup Holders("shared") = {}
                       /\ hold' = [hold EXCEPT ![t] = "excl"]

(* A sharer becomes the owner only when it is the last one. *)
Convert(t) == /\ Holders("shared") = {t}
              /\ hold' = [hold EXCEPT ![t] = "excl"]

(* An owner becomes a sharer. *)
Downgrade(t) == /\ hold[t] = "excl"
                /\ hold' = [hold EXCEPT ![t] = "shared"]

(* What one owner holds becomes another's, who may share it already. *)
Transfer(t, u) == /\ hold[t] # "none"
                  /\ hold[u] \in {"none", "shared"}
                  /\ hold' = [hold EXCEPT ![t] = "none", ![u] = hold[t]]

Release(t) == /\ hold[t] # "none"
              /\ hold' = [hold EXCEPT ![t] = "none"]

Next == \E t \in Threads :
           \/ AcquireShared(t) \/ AcquireExclusive(t) \/ Convert(t)
           \/ Downgrade(t) \/ Release(t) \/ \E u \in Threads : Transfer(t, u)

Spec == Init /\ [][Next]_hold
=============================================================================
