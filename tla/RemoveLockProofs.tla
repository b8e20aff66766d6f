-------------------------- MODULE RemoveLockProofs --------------------------
(***************************************************************************)
(* Proofs about RemoveLock, for any finite set of users.                   *)
(*                                                                         *)
(* CountInv is inductive.  The heart of it is the count: ioCount is the    *)
(* number of users in it, plus one until the remover has taken the device  *)
(* out.  Who brings it to zero is thus the last of them, after the device  *)
(* is out, which is when nobody uses the device any more.                  *)
(*                                                                         *)
(* BlockInv is inductive on top of it.  Requests with one tag free each    *)
(* other's blocks, so no block is any request's own; what holds is that    *)
(* the blocks can be matched with requests of their tags, one each.  A     *)
(* request whose tag is in no block is left over by every matching, and so *)
(* there is a request that had no memory for its block.                    *)
(***************************************************************************)
EXTENDS RemoveLock, FiniteSetTheorems, SequenceTheorems, WellFoundedInduction, TLAPS

(* The places where a user uses the device, and where it is in the count. *)
UsingPCs == {"track", "held", "missing", "drop"}
CountedPCs == UsingPCs \cup {"check", "undo", "first"}

(* One step of one thread changes what is counted by at most that thread.  *)
LEMMA CountStep ==
    ASSUME Types, NEW u \in Users, NEW l \in PCs, pc' = [pc EXCEPT ![u] = l]
    PROVE  /\ IsFiniteSet(Counted) /\ Cardinality(Counted) \in Nat
           /\ u \in Counted <=> pc[u] \in CountedPCs
           /\ Counted' = IF l \in CountedPCs THEN Counted \cup {u}
                                             ELSE Counted \ {u}
           /\ Cardinality(Counted') =
                IF l \in CountedPCs
                THEN IF pc[u] \in CountedPCs THEN Cardinality(Counted)
                                             ELSE Cardinality(Counted) + 1
                ELSE IF pc[u] \in CountedPCs THEN Cardinality(Counted) - 1
                                             ELSE Cardinality(Counted)
           /\ Cardinality(Counted) = 0 <=> Counted = {}
           /\ Cardinality(Counted') = 0 <=> Counted' = {}
           /\ Cardinality(Counted) = 1 /\ pc[u] \in CountedPCs => Counted = {u}
<1>1. Counted \in SUBSET Users
  BY DEF Counted, Using
<1>2. IsFiniteSet(Counted) /\ Cardinality(Counted) \in Nat
  BY <1>1, UsersAssumption, FS_Subset, FS_CardinalityType
<1>3. u \in Counted <=> pc[u] \in CountedPCs
  BY DEF Counted, Using, CountedPCs, UsingPCs
<1>4. Counted' = IF l \in CountedPCs THEN Counted \cup {u} ELSE Counted \ {u}
  BY DEF Counted, Using, CountedPCs, UsingPCs, Types
<1>5. /\ IsFiniteSet(Counted \cup {u}) /\ IsFiniteSet(Counted \ {u})
      /\ Cardinality(Counted \cup {u}) =
           IF u \in Counted THEN Cardinality(Counted) ELSE Cardinality(Counted) + 1
      /\ Cardinality(Counted \ {u}) =
           IF u \in Counted THEN Cardinality(Counted) - 1 ELSE Cardinality(Counted)
  BY <1>2, FS_AddElement, FS_RemoveElement
<1>6. IsFiniteSet(Counted')
  BY <1>4, <1>5
<1>7. /\ Cardinality(Counted) = 0 <=> Counted = {}
      /\ Cardinality(Counted') = 0 <=> Counted' = {}
  BY <1>2, <1>6, FS_EmptySet
<1>8. Cardinality(Counted) = 1 /\ pc[u] \in CountedPCs => Counted = {u}
  BY <1>2, <1>3, FS_Singleton
<1> QED
  BY <1>2, <1>3, <1>4, <1>5, <1>7, <1>8

(* The users of the device are in the count. *)
LEMMA UsingCounted == Using \subseteq Counted
BY DEF Using, Counted

(* A lock that was just initialized satisfies the invariant. *)
LEMMA InitCountInv == Init => CountInv
<1> SUFFICES ASSUME Init PROVE CountInv
  OBVIOUS
<1>1. Types
  BY DEF Init, Types, PCs, Removing, InitialCount
<1>2. Counted = {} /\ Using = {} /\ DeviceCount = 1
  BY DEF Init, Counted, Using, DeviceCount
<1>3. ioCount = DeviceCount + Cardinality(Counted)
  BY <1>2, FS_EmptySet DEF Init, InitialCount
<1>4. OneRemover /\ Quiet /\ WakeUpIsDue
  BY DEF Init, OneRemover, Removing, Quiet, Signaled, WakeUpIsDue
<1> QED
  BY <1>1, <1>3, <1>4 DEF CountInv

(* An acquire counts its user, before it looks at Removed. *)
LEMMA AcquireInv ==
    ASSUME CountInv, NEW u \in Users, Acquire(u) PROVE CountInv'
<1> USE DEF CountInv, Acquire, Goto
<1>1. Types'
  BY DEF Types, PCs
<1>2. /\ Cardinality(Counted) \in Nat
      /\ Cardinality(Counted') = Cardinality(Counted) + 1
      /\ Counted' # {}
  <2>1. "check" \in PCs /\ pc' = [pc EXCEPT ![u] = "check"]
    BY DEF PCs
  <2> QED
    BY <2>1, CountStep DEF CountedPCs, UsingPCs
<1>3. DeviceCount' = DeviceCount
  BY DEF DeviceCount, Types
<1>4. ioCount' = DeviceCount' + Cardinality(Counted')
  BY <1>2, <1>3 DEF DeviceCount
<1>5. OneRemover'
  BY DEF OneRemover, Removing, Types
<1>6. Quiet'
  BY <1>3 DEF Quiet, Signaled, Using, Types
<1>7. WakeUpIsDue'
  BY <1>2 DEF WakeUpIsDue
<1> QED
  BY <1>1, <1>4, <1>5, <1>6, <1>7

(* A step inside the lock: its user stays in the count, and comes to use   *)
(* the device only if it was not removed.                                  *)
LEMMA InsideInv ==
    ASSUME CountInv, NEW u \in Users,
           NEW l \in {"undo", "track", "held", "missing", "drop"},
           pc[u] \in UsingPCs \cup {"check"},
           pc[u] = "check" => (l = "undo" <=> removed),
           pc[u] # "check" => l # "undo",
           pc' = [pc EXCEPT ![u] = l],
           UNCHANGED <<removed, ioCount, event>>
    PROVE  CountInv'
<1> USE DEF CountInv, UsingPCs
<1>1. l \in PCs
  BY DEF PCs
<1>2. Types'
  BY <1>1 DEF Types
<1>3. /\ Cardinality(Counted') = Cardinality(Counted)
      /\ Counted' = Counted
  BY <1>1, CountStep DEF CountedPCs
<1>4. DeviceCount' = DeviceCount
  BY DEF DeviceCount, Types
<1>5. OneRemover'
  BY DEF OneRemover, Removing, Types
<1>6. Quiet'
  <2>1. Signaled' <=> Signaled
    BY DEF Signaled, Types
  <2>2. DeviceCount = 0 => removed
    BY DEF DeviceCount, OneRemover, Removing
  <2>3. removed => Using' \subseteq Using
    BY DEF Using, Types
  <2> QED
    BY <1>4, <2>1, <2>2, <2>3 DEF Quiet
<1>7. WakeUpIsDue'
  BY <1>3 DEF WakeUpIsDue, Types
<1> QED
  BY <1>2, <1>3, <1>4, <1>5, <1>6, <1>7

(* A user leaves the count.  The last one finds the device out of it, and  *)
(* is about to set the event.                                              *)
LEMMA LeaveInv ==
    ASSUME CountInv, NEW u \in Users,
           pc[u] \in {"undo", "drop"},
           ioCount' = ioCount - 1,
           pc' = [pc EXCEPT ![u] = IF ioCount - 1 = 0 THEN "signal" ELSE "idle"],
           UNCHANGED <<removed, event>>
    PROVE  CountInv'
<1> USE DEF CountInv
<1> DEFINE l == IF ioCount - 1 = 0 THEN "signal" ELSE "idle"
<1>1. l \in PCs /\ l \notin CountedPCs /\ pc[u] \in CountedPCs
  BY DEF PCs, CountedPCs, UsingPCs
<1>2. /\ Cardinality(Counted) \in Nat
      /\ Cardinality(Counted') = Cardinality(Counted) - 1
      /\ Counted' = Counted \ {u}
      /\ u \in Counted
      /\ Cardinality(Counted) # 0
      /\ Cardinality(Counted) = 1 => Counted = {u}
      /\ Cardinality(Counted') = 0 <=> Counted' = {}
  <2>1. pc' = [pc EXCEPT ![u] = l]
    OBVIOUS
  <2> QED
    BY <1>1, <2>1, CountStep
<1>3. DeviceCount' = DeviceCount /\ DeviceCount \in {0, 1}
  BY DEF DeviceCount, Types
<1>4. Types'
  BY <1>1, <1>2, <1>3 DEF Types
<1>5. ioCount' = DeviceCount' + Cardinality(Counted')
  BY <1>2, <1>3
<1>6. OneRemover'
  BY DEF OneRemover, Removing, Types
<1>7. Quiet'
  <2>1. Using' \subseteq Using
    BY DEF Using, Types
  <2>2. CASE ioCount - 1 = 0
    <3>1. DeviceCount = 0 /\ Counted = {u}
      BY <1>2, <1>3, <2>2
    <3>2. Using' = {}
      BY <1>2, <3>1 DEF Using, Counted
    <3> QED
      BY <1>3, <3>1, <3>2 DEF Quiet
  <2>3. CASE ioCount - 1 # 0
    <3>1. Signaled' => Signaled
      BY <2>3 DEF Signaled, Types
    <3> QED
      BY <1>3, <2>1, <3>1 DEF Quiet
  <2> QED
    BY <2>2, <2>3
<1>8. WakeUpIsDue'
  <2> SUFFICES ASSUME \E w \in Users : pc'[w] = "wait", Counted' = {}
               PROVE  event' \/ \E w \in Users : pc'[w] = "signal"
    BY DEF WakeUpIsDue
  <2>1. DeviceCount = 0
    BY <1>3 DEF DeviceCount
  <2>2. ioCount - 1 = 0
    BY <1>2, <1>3, <2>1
  <2> QED
    BY <2>2 DEF Types
<1> QED
  BY <1>4, <1>5, <1>6, <1>7, <1>8

(* KeSetEvent. *)
LEMMA SignalInv ==
    ASSUME CountInv, NEW u \in Users, Signal(u) PROVE CountInv'
<1> USE DEF CountInv, Signal, Return, Goto
<1>1. "idle" \in PCs /\ pc' = [pc EXCEPT ![u] = "idle"]
  BY DEF PCs
<1>2. Types'
  BY <1>1 DEF Types
<1>3. Counted' = Counted
  <2>1. pc[u] \notin CountedPCs /\ "idle" \notin CountedPCs
    BY DEF CountedPCs, UsingPCs
  <2>2. u \notin Counted /\ Counted' = Counted \ {u}
    BY <1>1, <2>1, CountStep
  <2> QED
    BY <2>2
<1>4. DeviceCount' = DeviceCount
  BY DEF DeviceCount, Types
<1>5. OneRemover'
  BY DEF OneRemover, Removing, Types
<1>6. Quiet'
  <2>1. Signaled
    BY DEF Signaled
  <2>2. Using' = Using
    BY DEF Using, Types
  <2> QED
    BY <1>4, <2>1, <2>2 DEF Quiet
<1>7. WakeUpIsDue'
  BY DEF WakeUpIsDue
<1> QED
  BY <1>2, <1>3, <1>4, <1>5, <1>6, <1>7

(* The remover announces itself; it is the only one. *)
LEMMA BeginRemovalInv ==
    ASSUME CountInv, NEW u \in Users, BeginRemoval(u) PROVE CountInv'
<1> USE DEF CountInv, BeginRemoval, Goto
<1>1. "first" \in PCs /\ pc' = [pc EXCEPT ![u] = "first"]
  BY DEF PCs, Removing
<1>2. Types'
  BY <1>1 DEF Types
<1>3. Counted' = Counted
  <2>1. pc[u] \in CountedPCs /\ "first" \in CountedPCs
    BY DEF CountedPCs, UsingPCs
  <2>2. u \in Counted /\ Counted' = Counted \cup {u}
    BY <1>1, <2>1, CountStep
  <2> QED
    BY <2>2
<1>4. DeviceCount' = DeviceCount
  BY DEF DeviceCount, Types
<1>5. OneRemover'
  BY DEF OneRemover, Removing, Types
<1>6. Quiet'
  <2>1. Signaled' <=> Signaled
    BY DEF Signaled, Types
  <2>2. Using' \subseteq Using
    BY DEF Using, Types
  <2> QED
    BY <1>4, <2>1, <2>2 DEF Quiet
<1>7. WakeUpIsDue'
  BY <1>3 DEF WakeUpIsDue, Types
<1> QED
  BY <1>2, <1>3, <1>4, <1>5, <1>6, <1>7

(* It leaves the count; the device is still in it. *)
LEMMA FirstDropInv ==
    ASSUME CountInv, NEW u \in Users, FirstDrop(u) PROVE CountInv'
<1> USE DEF CountInv, FirstDrop, Goto
<1>1. "second" \in PCs /\ pc' = [pc EXCEPT ![u] = "second"]
  BY DEF PCs, Removing
<1>2. /\ Cardinality(Counted) \in Nat
      /\ Cardinality(Counted') = Cardinality(Counted) - 1
      /\ Cardinality(Counted) # 0
  BY <1>1, CountStep DEF CountedPCs, UsingPCs
<1>3. DeviceCount' = DeviceCount /\ DeviceCount = 1
  BY DEF DeviceCount, Types, OneRemover, Removing
<1>4. Types'
  BY <1>1, <1>2, <1>3 DEF Types
<1>5. OneRemover'
  BY DEF OneRemover, Removing, Types
<1>6. Quiet'
  <2>1. Signaled' <=> Signaled
    BY DEF Signaled, Types
  <2> QED
    BY <1>3, <2>1 DEF Quiet
<1>7. WakeUpIsDue'
  BY <1>3 DEF WakeUpIsDue, Types, DeviceCount
<1> QED
  BY <1>2, <1>3, <1>4, <1>5, <1>6, <1>7

(* It takes the device out of the count, and waits unless it is the last. *)
LEMMA SecondDropInv ==
    ASSUME CountInv, NEW u \in Users, SecondDrop(u) PROVE CountInv'
<1> USE DEF CountInv, SecondDrop, Goto, MustWait
<1> DEFINE l == IF ioCount - 1 > 0 THEN "wait" ELSE "last"
<1>1. l \in PCs /\ pc' = [pc EXCEPT ![u] = l] /\ l \notin CountedPCs
  BY DEF PCs, Removing, CountedPCs, UsingPCs
<1>2. /\ Cardinality(Counted) \in Nat
      /\ Cardinality(Counted') = Cardinality(Counted)
      /\ Counted' = Counted
      /\ Cardinality(Counted) = 0 <=> Counted = {}
  <2>1. pc[u] \notin CountedPCs
    BY DEF CountedPCs, UsingPCs
  <2>2. u \notin Counted /\ Counted' = Counted \ {u}
    BY <1>1, <2>1, CountStep
  <2>3. /\ Cardinality(Counted) \in Nat
        /\ Cardinality(Counted) = 0 <=> Counted = {}
    BY <1>1, CountStep
  <2> QED
    BY <2>2, <2>3
<1>3. DeviceCount = 1
  BY DEF DeviceCount, OneRemover, Removing
<1>4. DeviceCount' = 0
  BY DEF DeviceCount, Types
<1>5. Types'
  BY <1>1, <1>2, <1>3 DEF Types
<1>6. ioCount' = DeviceCount' + Cardinality(Counted')
  BY <1>2, <1>3, <1>4
<1>7. OneRemover'
  BY DEF OneRemover, Removing, Types
<1>8. Using' = Using
  BY DEF Using, Types
<1>9. Quiet'
  <2>1. ~Signaled
    BY <1>3 DEF Quiet
  <2>2. CASE ioCount - 1 > 0
    <3>1. Signaled' => Signaled
      BY <2>2 DEF Signaled, Types
    <3> QED
      BY <2>1, <3>1 DEF Quiet
  <2>3. CASE ~(ioCount - 1 > 0)
    <3>1. Counted = {}
      BY <1>2, <1>3, <2>3
    <3> QED
      BY <1>4, <1>8, <3>1, UsingCounted DEF Quiet
  <2> QED
    BY <2>2, <2>3
<1>10. WakeUpIsDue'
  <2>1. ioCount - 1 > 0 => Counted # {}
    BY <1>2, <1>3
  <2>2. ~(ioCount - 1 > 0) => \A w \in Users : pc'[w] # "wait"
    BY DEF Types, OneRemover, Removing
  <2> QED
    BY <1>2, <2>1, <2>2 DEF WakeUpIsDue
<1> QED
  BY <1>5, <1>6, <1>7, <1>9, <1>10

(* Its wait ends, and it is done: nothing that is counted changes. *)
LEMMA LastInv ==
    ASSUME CountInv, NEW u \in Users, Wait(u) \/ LastBlock(u) PROVE CountInv'
<1> USE DEF CountInv, Wait, LastBlock, Goto
<1>1. PICK l \in {"last", "gone"} : pc' = [pc EXCEPT ![u] = l]
  OBVIOUS
<1>2. l \in PCs /\ l \notin CountedPCs /\ pc[u] \in {"wait", "last"}
  BY DEF PCs, Removing, CountedPCs, UsingPCs
<1>3. Types'
  BY <1>1, <1>2 DEF Types
<1>4. Counted' = Counted
  <2>1. pc[u] \notin CountedPCs
    BY <1>2 DEF CountedPCs, UsingPCs
  <2>2. u \notin Counted /\ Counted' = Counted \ {u}
    BY <1>1, <1>2, <2>1, CountStep
  <2> QED
    BY <2>2
<1>5. DeviceCount = 0 /\ DeviceCount' = 0
  BY <1>1, <1>2 DEF DeviceCount, Types
<1>6. OneRemover'
  BY <1>1, <1>2 DEF OneRemover, Removing, Types
<1>7. Quiet'
  <2>1. Signaled
    BY DEF Signaled
  <2>2. Using' = Using
    BY <1>1, <1>2 DEF Using, Types
  <2> QED
    BY <1>5, <2>1, <2>2 DEF Quiet
<1>8. WakeUpIsDue'
  <2>1. \A w \in Users : pc'[w] # "wait"
    BY <1>1, <1>2 DEF Types, OneRemover, Removing
  <2> QED
    BY <2>1 DEF WakeUpIsDue
<1> QED
  BY <1>3, <1>4, <1>5, <1>6, <1>7, <1>8

(* Every step keeps the invariant. *)
LEMMA NextCountInv == CountInv /\ [Next]_vars => CountInv'
<1> SUFFICES ASSUME CountInv, [Next]_vars PROVE CountInv'
  OBVIOUS
<1>1. CASE UNCHANGED vars
  BY <1>1 DEF vars, CountInv, Types, OneRemover, Quiet, Signaled, WakeUpIsDue,
              DeviceCount, Using, Counted
<1>2. ASSUME NEW u \in Users, Acquire(u) PROVE CountInv'
  BY <1>2, AcquireInv
<1>3. ASSUME NEW u \in Users, CheckRemoved(u) PROVE CountInv'
  BY <1>3, InsideInv DEF CheckRemoved, MayEnter, Goto, UsingPCs
<1>4. ASSUME NEW u \in Users, Track(u) PROVE CountInv'
  BY <1>4, InsideInv DEF Track, Goto, UsingPCs
<1>5. ASSUME NEW u \in Users, Release(u) PROVE CountInv'
  BY <1>5, InsideInv DEF Release, Goto, UsingPCs
<1>6. ASSUME NEW u \in Users, Missing(u) PROVE CountInv'
  BY <1>6, InsideInv DEF Missing, Goto, UsingPCs
<1>7. ASSUME NEW u \in Users, Undo(u) PROVE CountInv'
  BY <1>7, LeaveInv DEF Undo, TakenBack, IsLast, Return, Goto
<1>8. ASSUME NEW u \in Users, Drop(u) PROVE CountInv'
  BY <1>8, LeaveInv DEF Drop, IsLast, Return, Goto
<1>9. ASSUME NEW u \in Users, Signal(u) PROVE CountInv'
  BY <1>9, SignalInv
<1>10. ASSUME NEW u \in Users, BeginRemoval(u) PROVE CountInv'
  BY <1>10, BeginRemovalInv
<1>11. ASSUME NEW u \in Users, FirstDrop(u) PROVE CountInv'
  BY <1>11, FirstDropInv
<1>12. ASSUME NEW u \in Users, SecondDrop(u) PROVE CountInv'
  BY <1>12, SecondDropInv
<1>13. ASSUME NEW u \in Users, Wait(u) \/ LastBlock(u) PROVE CountInv'
  BY <1>13, LastInv
<1> QED
  BY <1>1, <1>2, <1>3, <1>4, <1>5, <1>6, <1>7, <1>8, <1>9, <1>10, <1>11,
     <1>12, <1>13 DEF Next, Continue

(* The inductive invariant holds, for any finite set of users: the count   *)
(* of IoAcquireRemoveLockEx and IoReleaseRemoveLockEx is exact.            *)
THEOREM CountInvariant == Spec => []CountInv
BY InitCountInv, NextCountInv, PTL DEF Spec

(* When the wait of IoReleaseRemoveLockAndWaitEx is over, no request is    *)
(* using the device.                                                       *)
THEOREM RemovalSafety == Spec => []GoneMeansUnused
<1>1. CountInv => GoneMeansUnused
  BY DEF CountInv, Quiet, Signaled, GoneMeansUnused
<1> QED
  BY <1>1, CountInvariant, PTL

(* The assertions on IoCount hold: it is exact, zero only once the device  *)
(* is removed, and positive after the remover's first decrement.           *)
THEOREM CountSafety == Spec => []CountExact
<1>1. CountInv => CountExact
  <2> SUFFICES ASSUME CountInv PROVE CountExact
    OBVIOUS
  <2>1. Cardinality(Counted) \in Nat
    <3>1. Counted \in SUBSET Users
      BY DEF Counted, Using
    <3> QED
      BY <3>1, UsersAssumption, FS_Subset, FS_CardinalityType
  <2>2. ioCount = 0 => removed
    <3>1. ioCount = 0 => DeviceCount = 0
      BY <2>1 DEF CountInv, DeviceCount
    <3> QED
      BY <3>1 DEF CountInv, DeviceCount, OneRemover, Removing
  <2>3. \A u \in Users : pc[u] = "second" => ioCount > 0
    <3>1. \A u \in Users : pc[u] = "second" => DeviceCount = 1
      BY DEF CountInv, DeviceCount, OneRemover, Removing
    <3> QED
      BY <2>1, <3>1 DEF CountInv
  <2> QED
    BY <2>2, <2>3 DEF CountExact, CountInv
<1> QED
  BY <1>1, CountInvariant, PTL

(* The remover's wake-up is never lost. *)
THEOREM WakeUpSafety == Spec => []WakeUpIsDue
<1>1. CountInv => WakeUpIsDue
  BY DEF CountInv
<1> QED
  BY <1>1, CountInvariant, PTL

-----------------------------------------------------------------------------
(* The tracking blocks.                                                    *)

(* A matching of the blocks with users that have their tags. *)
IsMatching(f, bs, S, tg) ==
    /\ f \in [1 .. Len(bs) -> S]
    /\ \A i, j \in 1 .. Len(bs) : f[i] = f[j] => i = j
    /\ \A i \in 1 .. Len(bs) : tg[f[i]] = bs[i]

Matched(bs, S, tg) == \E f : IsMatching(f, bs, S, tg)

BlockTypes == /\ blocks \in Seq(Tags \cup {NoTag})
              /\ tag \in [Users -> Tags \cup {NoTag}]
              /\ lowMemory \in Nat

(* Nobody has removed the device and forgotten the last block. *)
Live == Debug /\ \A u \in Users : pc[u] # "gone"

BlockInv == /\ BlockTypes
            /\ ~Debug => \A u \in Users : pc[u] \notin {"track", "missing"}
            /\ BlocksExact
            /\ Live => Matched(blocks, Tracked, tag)

(* A non-empty set of natural numbers has a least one. *)
LEMMA LeastNumber ==
    ASSUME NEW S \in SUBSET Nat, S # {}
    PROVE  \E x \in S : \A y \in S : x <= y
<1> DEFINE R == OpToRel(<, Nat)
<1>1. \E x \in S : \A y \in S : ~ (<<y, x>> \in R)
  BY NatLessThanWellFounded, WFMin
<1>2. \A x, y \in Nat : <<y, x>> \in R <=> y < x
  BY DEF OpToRel
<1> HIDE DEF R
<1>3. PICK x \in S : \A y \in S : ~ (<<y, x>> \in R)
  BY <1>1
<1>4. ASSUME NEW y \in S PROVE x <= y
  <2>1. ~(y < x) /\ x \in Nat /\ y \in Nat
    BY <1>2, <1>3
  <2> QED
    BY <2>1
<1> QED
  BY <1>4

(* What RemoveFirst takes out of a list. *)
LEMMA RemoveFirstShape ==
    ASSUME NEW S, NEW bs \in Seq(S), NEW g, Contains(bs, g)
    PROVE  \E i \in 1 .. Len(bs) :
              /\ bs[i] = g
              /\ RemoveFirst(bs, g) \in Seq(S)
              /\ Len(RemoveFirst(bs, g)) = Len(bs) - 1
              /\ \A j \in 1 .. Len(bs) - 1 :
                    RemoveFirst(bs, g)[j] = IF j < i THEN bs[j] ELSE bs[j + 1]
<1> DEFINE I == {i \in 1 .. Len(bs) : bs[i] = g}
<1>1. I \in SUBSET Nat /\ I # {}
  BY DEF Contains
<1>2. PICK i \in I : \A y \in I : i <= y
  BY <1>1, LeastNumber
<1>3. Min(I) \in I
  BY <1>2 DEF Min
<1>4. SelectInSeq(bs, LAMBDA v : v = g) = Min(I)
  BY <1>1 DEF SelectInSeq
<1>5. RemoveFirst(bs, g) = RemoveAt(bs, Min(I))
  BY <1>4 DEF RemoveFirst, Contains
<1>6. PICK k \in 1 .. Len(bs) : bs[k] = g /\ RemoveFirst(bs, g) = RemoveAt(bs, k)
  BY <1>3, <1>5
<1> DEFINE l == SubSeq(bs, 1, k - 1)
           r == SubSeq(bs, k + 1, Len(bs))
<1>7. Len(bs) \in Nat /\ k \in Nat /\ k >= 1 /\ k <= Len(bs)
  OBVIOUS
<1>8. l \in Seq(S) /\ Len(l) = k - 1 /\ \A j \in 1 .. k - 1 : l[j] = bs[j]
  BY <1>7
<1>9. /\ r \in Seq(S) /\ Len(r) = Len(bs) - k
      /\ \A j \in 1 .. Len(bs) - k : r[j] = bs[k + j]
  BY <1>7
<1>10. RemoveFirst(bs, g) = l \o r
  BY <1>6 DEF RemoveAt
<1> HIDE DEF l, r
<1>11. /\ l \o r \in Seq(S)
       /\ Len(l \o r) = Len(l) + Len(r)
       /\ \A j \in 1 .. Len(l) + Len(r) :
             (l \o r)[j] = IF j <= Len(l) THEN l[j] ELSE r[j - Len(l)]
  BY <1>8, <1>9, ConcatProperties
<1>12. Len(l) + Len(r) = Len(bs) - 1
  BY <1>7, <1>8, <1>9
<1>13. ASSUME NEW j \in 1 .. Len(bs) - 1
       PROVE  (l \o r)[j] = IF j < k THEN bs[j] ELSE bs[j + 1]
  <2>1. (l \o r)[j] = IF j <= Len(l) THEN l[j] ELSE r[j - Len(l)]
    BY <1>11, <1>12
  <2>2. CASE j < k
    BY <1>7, <1>8, <2>1, <2>2
  <2>3. CASE ~(j < k)
    <3>1. j - (k - 1) \in 1 .. Len(bs) - k /\ k + (j - (k - 1)) = j + 1
      BY <1>7, <2>3
    <3> QED
      BY <1>7, <1>8, <1>9, <2>1, <2>3, <3>1
  <2> QED
    BY <2>2, <2>3
<1> QED
  BY <1>6, <1>10, <1>11, <1>12, <1>13

(* A matching is one among more users, and if their tags stay. *)
LEMMA MatchedMore ==
    ASSUME NEW bs, NEW S, NEW R, NEW tg, NEW th, Matched(bs, S, tg),
           S \subseteq R, \A u \in S : th[u] = tg[u]
    PROVE  Matched(bs, R, th)
<1>1. PICK f : IsMatching(f, bs, S, tg)
  BY DEF Matched
<1>2. f \in [1 .. Len(bs) -> R]
  BY <1>1 DEF IsMatching
<1>3. \A i \in 1 .. Len(bs) : th[f[i]] = bs[i]
  BY <1>1 DEF IsMatching
<1>4. IsMatching(f, bs, R, th)
  BY <1>1, <1>2, <1>3 DEF IsMatching
<1> QED
  BY <1>4 DEF Matched

(* A new block is matched with the user that adds it. *)
LEMMA MatchedPushed ==
    ASSUME NEW T, NEW bs \in Seq(T), NEW S, NEW u, u \notin S, NEW tg, tg[u] \in T,
           Matched(bs, S, tg)
    PROVE  Matched(<<tg[u]>> \o bs, S \cup {u}, tg)
<1> DEFINE cs == <<tg[u]>> \o bs
<1>1. PICK f : IsMatching(f, bs, S, tg)
  BY DEF Matched
<1>2. /\ Len(bs) \in Nat /\ Len(cs) = Len(bs) + 1 /\ cs[1] = tg[u]
      /\ \A i \in 2 .. Len(bs) + 1 : cs[i] = bs[i - 1]
  <2>1. <<tg[u]>> \in Seq(T) /\ Len(<<tg[u]>>) = 1 /\ <<tg[u]>>[1] = tg[u] /\ Len(bs) \in Nat
    OBVIOUS
  <2>2. /\ Len(cs) = Len(<<tg[u]>>) + Len(bs)
        /\ \A i \in 1 .. Len(<<tg[u]>>) + Len(bs) :
              cs[i] = IF i <= Len(<<tg[u]>>) THEN <<tg[u]>>[i] ELSE bs[i - Len(<<tg[u]>>)]
    BY <2>1, ConcatProperties
  <2> QED
    BY <2>1, <2>2
<1> DEFINE h == [i \in 1 .. Len(bs) + 1 |-> IF i = 1 THEN u ELSE f[i - 1]]
<1> HIDE DEF cs
<1>3. ASSUME NEW i \in 1 .. Len(bs) + 1, i # 1
      PROVE  i - 1 \in 1 .. Len(bs) /\ h[i] = f[i - 1] /\ h[i] \in S /\ cs[i] = bs[i - 1]
  <2>1. i - 1 \in 1 .. Len(bs) /\ i \in 2 .. Len(bs) + 1
    BY <1>2, <1>3
  <2> QED
    BY <1>1, <1>2, <1>3, <2>1 DEF IsMatching
<1>4. h[1] = u /\ 1 \in 1 .. Len(bs) + 1
  BY <1>2
<1>5. h \in [1 .. Len(cs) -> S \cup {u}]
  BY <1>2, <1>3
<1>6. ASSUME NEW i \in 1 .. Len(cs), NEW j \in 1 .. Len(cs), h[i] = h[j] PROVE i = j
  <2> i \in 1 .. Len(bs) + 1 /\ j \in 1 .. Len(bs) + 1
    BY <1>2
  <2>1. CASE i = 1 \/ j = 1
    BY <1>3, <1>4, <1>6, <2>1
  <2>2. CASE i # 1 /\ j # 1
    <3>1. f[i - 1] = f[j - 1] /\ i - 1 \in 1 .. Len(bs) /\ j - 1 \in 1 .. Len(bs)
      BY <1>3, <1>6, <2>2
    <3>2. i - 1 = j - 1
      BY <1>1, <3>1 DEF IsMatching
    <3> QED
      BY <1>2, <3>2
  <2> QED
    BY <2>1, <2>2
<1>7. ASSUME NEW i \in 1 .. Len(cs) PROVE tg[h[i]] = cs[i]
  <2> i \in 1 .. Len(bs) + 1
    BY <1>2
  <2>1. CASE i = 1
    BY <1>2, <1>4, <2>1
  <2>2. CASE i # 1
    BY <1>1, <1>3, <2>2 DEF IsMatching
  <2> QED
    BY <2>1, <2>2
<1> HIDE DEF h
<1>8. IsMatching(h, cs, S \cup {u}, tg)
  BY <1>5, <1>6, <1>7 DEF IsMatching
<1> QED
  BY <1>8 DEF Matched, cs

(* When u frees a block of its tag, the user that was matched with it is   *)
(* matched with u's, if u had one.                                         *)
LEMMA MatchedFreed ==
    ASSUME NEW T, NEW bs \in Seq(T), NEW S, NEW u, NEW tg,
           NEW g, tg[u] = g, Matched(bs, S, tg), Contains(bs, g)
    PROVE  Matched(RemoveFirst(bs, g), S \ {u}, tg)
<1> DEFINE cs == RemoveFirst(bs, g)
<1>1. PICK f : IsMatching(f, bs, S, tg)
  BY DEF Matched
<1>2. PICK k \in 1 .. Len(bs) :
              /\ bs[k] = g
              /\ cs \in Seq(T)
              /\ Len(cs) = Len(bs) - 1
              /\ \A j \in 1 .. Len(bs) - 1 : cs[j] = IF j < k THEN bs[j] ELSE bs[j + 1]
  BY RemoveFirstShape
<1> DEFINE at(j) == IF j < k THEN j ELSE j + 1
           h == [j \in 1 .. Len(cs) |-> IF f[at(j)] = u THEN f[k] ELSE f[at(j)]]
<1> HIDE DEF cs
<1>3. Len(bs) \in Nat /\ k \in Nat
  OBVIOUS
<1>4. ASSUME NEW j \in 1 .. Len(cs)
      PROVE  /\ at(j) \in 1 .. Len(bs) /\ at(j) # k /\ cs[j] = bs[at(j)]
  BY <1>2, <1>3
<1>5. ASSUME NEW i \in 1 .. Len(cs), NEW j \in 1 .. Len(cs), at(i) = at(j) PROVE i = j
  BY <1>2, <1>3, <1>5
<1> HIDE DEF at
<1>6. \A j \in 1 .. Len(cs) : h[j] = IF f[at(j)] = u THEN f[k] ELSE f[at(j)]
  OBVIOUS
<1>7. h \in [1 .. Len(cs) -> S \ {u}]
  <2>1. ASSUME NEW j \in 1 .. Len(cs) PROVE h[j] \in S \ {u}
    <3>1. f[k] \in S /\ f[at(j)] \in S /\ f[k] # f[at(j)]
      BY <1>1, <1>4 DEF IsMatching
    <3> QED
      BY <1>6, <3>1
  <2> QED
    BY <2>1
<1> HIDE DEF h
<1>8. ASSUME NEW i \in 1 .. Len(cs), NEW j \in 1 .. Len(cs), h[i] = h[j] PROVE i = j
  <2>1. /\ f[at(i)] = f[at(j)] => at(i) = at(j)
        /\ f[at(i)] # f[k] /\ f[at(j)] # f[k]
    BY <1>1, <1>4 DEF IsMatching
  <2>2. at(i) = at(j)
    BY <1>6, <1>8, <2>1
  <2> QED
    BY <1>5, <2>2
<1>9. ASSUME NEW i \in 1 .. Len(cs) PROVE tg[h[i]] = cs[i]
  <2>1. tg[f[at(i)]] = bs[at(i)] /\ tg[f[k]] = tg[u] /\ cs[i] = bs[at(i)]
    BY <1>1, <1>2, <1>4 DEF IsMatching
  <2> QED
    BY <1>6, <2>1
<1>10. IsMatching(h, cs, S \ {u}, tg)
  BY <1>7, <1>8, <1>9 DEF IsMatching
<1> QED
  BY <1>10 DEF Matched, cs

(* A user whose tag is in no block is not matched. *)
LEMMA MatchedLeftOver ==
    ASSUME NEW bs, NEW S, NEW u, NEW tg, Matched(bs, S, tg), ~Contains(bs, tg[u])
    PROVE  Matched(bs, S \ {u}, tg)
<1>1. PICK f : IsMatching(f, bs, S, tg)
  BY DEF Matched
<1>2. f \in [1 .. Len(bs) -> S \ {u}]
  BY <1>1 DEF IsMatching, Contains
<1>3. IsMatching(f, bs, S \ {u}, tg)
  BY <1>1, <1>2 DEF IsMatching
<1> QED
  BY <1>3 DEF Matched

(* There are at most as many blocks as users they are matched with. *)
LEMMA MatchedFew ==
    ASSUME NEW bs, Len(bs) \in Nat, NEW S \in SUBSET Users, NEW tg, Matched(bs, S, tg)
    PROVE  Len(bs) <= Cardinality(S)
<1>1. PICK f : IsMatching(f, bs, S, tg)
  BY DEF Matched
<1>2. f \in Injection(1 .. Len(bs), S)
  BY <1>1 DEF IsMatching, Injection, IsInjective
<1>3. IsFiniteSet(S)
  BY UsersAssumption, FS_Subset
<1>4. Cardinality(1 .. Len(bs)) <= Cardinality(S)
  BY <1>2, <1>3, FS_Injection
<1>5. Cardinality(1 .. Len(bs)) = Len(bs)
  <2>1. PICK n \in Nat : n = Len(bs)
    OBVIOUS
  <2>2. Cardinality(1 .. n) = IF 1 > n THEN 0 ELSE n - 1 + 1
    BY FS_Interval
  <2>3. Cardinality(1 .. n) = n
    BY <2>2
  <2> QED
    BY <2>1, <2>3
<1> QED
  BY <1>4, <1>5

(* One more or less among the users. *)
LEMMA UserCount ==
    ASSUME NEW S \in SUBSET Users, NEW u
    PROVE  /\ Cardinality(S) \in Nat
           /\ Cardinality(S \cup {u}) = IF u \in S THEN Cardinality(S) ELSE Cardinality(S) + 1
           /\ Cardinality(S \ {u}) = IF u \in S THEN Cardinality(S) - 1 ELSE Cardinality(S)
           /\ S = {} => Cardinality(S) = 0
BY UsersAssumption, FS_Subset, FS_CardinalityType, FS_AddElement, FS_RemoveElement, FS_EmptySet

(* Nobody looks in vain for a block of a removed device, or of a lock that *)
(* is not a checked one.                                                   *)
LEMMA NobodyMissed ==
    ASSUME CountInv', ~Debug => \A u \in Users : pc'[u] \notin {"track", "missing"}
    PROVE  ~Live' => Missed' = {} /\ Cardinality(Missed') = 0
<1> SUFFICES ASSUME ~Live' PROVE Missed' = {}
  BY FS_EmptySet
<1>1. CASE ~Debug
  BY <1>1 DEF Missed
<1>2. CASE \E u \in Users : pc'[u] = "gone"
  <2>1. Using' = {}
    BY <1>2 DEF CountInv, Quiet, Signaled
  <2> QED
    BY <2>1 DEF Missed, Using
<1> QED
  BY <1>1, <1>2 DEF Live

(* The steps that leave the blocks, and those who have one, alone. *)
LEMMA QuietBlocks ==
    ASSUME BlockInv, CountInv', UNCHANGED <<blocks, lowMemory>>,
           tag' \in [Users -> Tags \cup {NoTag}],
           ~Debug => \A u \in Users : pc'[u] \notin {"track", "missing"},
           Live' => Live /\ Tracked' = Tracked /\ Missed' = Missed,
           \A u \in Tracked : tag'[u] = tag[u]
    PROVE  BlockInv'
<1> USE DEF BlockInv
<1>1. BlockTypes'
  BY DEF BlockTypes
<1>2. BlocksExact'
  <2>1. CASE Live'
    BY <2>1 DEF BlocksExact, Live
  <2>2. CASE ~Live'
    <3>1. Cardinality(Missed') = 0
      BY <2>2, NobodyMissed
    <3> QED
      BY <1>1, <2>2, <3>1 DEF BlocksExact, Live, BlockTypes
  <2> QED
    BY <2>1, <2>2
<1>3. Live' => Matched(blocks, Tracked, tag)'
  <2> SUFFICES ASSUME Live' PROVE Matched(blocks', Tracked', tag')
    OBVIOUS
  <2>1. Matched(blocks, Tracked, tag)
    OBVIOUS
  <2>2. Matched(blocks, Tracked, tag')
    BY <2>1, MatchedMore
  <2> QED
    BY <2>2
<1> QED
  BY <1>1, <1>2, <1>3

(* The places of those who have a block, unless there was no memory. *)
TrackedPCs == {"held", "first", "second", "wait", "last"}

(* A user moves, and is among those who have a block after it if it was    *)
(* among them before.                                                      *)
LEMMA QuietMove ==
    ASSUME BlockInv, CountInv, CountInv', UNCHANGED <<blocks, lowMemory>>,
           NEW u \in Users, NEW l \in PCs, NEW g \in Tags \cup {NoTag},
           pc' = [pc EXCEPT ![u] = l], tag' = [tag EXCEPT ![u] = g],
           l # "missing", pc[u] \notin {"missing", "gone"}, l = "track" => Debug,
           pc[u] \in TrackedPCs => g = tag[u],
           Debug => (l \in TrackedPCs \cup {"gone"} <=> pc[u] \in TrackedPCs)
    PROVE  BlockInv'
<1> USE DEF BlockInv
<1>1. pc \in [Users -> PCs] /\ tag \in [Users -> Tags \cup {NoTag}]
  BY DEF CountInv, Types, BlockTypes
<1>2. tag' \in [Users -> Tags \cup {NoTag}]
  BY <1>1
<1>3. ~Debug => \A v \in Users : pc'[v] \notin {"track", "missing"}
  BY <1>1
<1>4. ASSUME Live' PROVE Live /\ Tracked' = Tracked /\ Missed' = Missed
  <2>1. l # "gone" /\ Debug
    BY <1>1, <1>4 DEF Live
  <2>2. l \in TrackedPCs <=> pc[u] \in TrackedPCs
    BY <2>1
  <2>4. Live
    BY <1>1, <1>4 DEF Live
  <2>5. Tracked' = Tracked
    BY <1>1, <2>2 DEF Tracked, TrackedPCs
  <2>6. Missed' = Missed
    BY <1>1 DEF Missed
  <2> QED
    BY <2>4, <2>5, <2>6
<1>5. \A v \in Tracked : tag'[v] = tag[v]
  BY <1>1 DEF Tracked, TrackedPCs
<1> QED
  BY <1>2, <1>3, <1>4, <1>5, QuietBlocks

(* Acquire, Undo, Drop, Signal and the steps of the remover. *)
LEMMA OtherBlocks ==
    ASSUME BlockInv, CountInv, CountInv', NEW u \in Users,
           \/ Acquire(u) \/ CheckRemoved(u) \/ Undo(u) \/ Drop(u) \/ Signal(u)
           \/ BeginRemoval(u) \/ FirstDrop(u) \/ SecondDrop(u) \/ Wait(u) \/ LastBlock(u)
           \/ (Release(u) /\ ~Debug)
    PROVE  BlockInv'
<1>1. /\ tag \in [Users -> Tags \cup {NoTag}] /\ tag[u] \in Tags \cup {NoTag}
      /\ tag' = tag => tag' = [tag EXCEPT ![u] = tag[u]]
  BY DEF BlockInv, BlockTypes
<1>2. CASE Acquire(u)
  <2>1. PICK g \in Tags : tag' = [tag EXCEPT ![u] = g]
    BY <1>2 DEF Acquire
  <2>2. /\ pc[u] = "idle" /\ pc' = [pc EXCEPT ![u] = "check"] /\ "check" \in PCs
        /\ UNCHANGED <<blocks, lowMemory>>
    BY <1>2 DEF Acquire, Goto, PCs
  <2>3. "check" \notin TrackedPCs \cup {"gone"} /\ pc[u] \notin TrackedPCs /\ g \in Tags \cup {NoTag}
    BY <2>2 DEF TrackedPCs
  <2> QED
    BY <2>1, <2>2, <2>3, QuietMove
<1>3. CASE CheckRemoved(u)
  <2>1. PICK l \in {"undo", "track", "held"} :
             /\ pc[u] = "check" /\ pc' = [pc EXCEPT ![u] = l] /\ (l = "track" => Debug)
             /\ (l = "held" => ~Debug)
             /\ UNCHANGED <<blocks, lowMemory>> /\ tag' = tag
    BY <1>3 DEF CheckRemoved, Goto
  <2>2. l \in PCs
    BY DEF PCs
  <2>3. /\ pc[u] \notin TrackedPCs /\ (Debug => l \notin TrackedPCs \cup {"gone"})
        /\ l # "missing"
    BY <2>1 DEF TrackedPCs
  <2> QED
    BY <1>1, <2>1, <2>2, <2>3, QuietMove
<1>4. CASE Undo(u) \/ Drop(u) \/ Signal(u)
  <2>1. PICK l \in {"signal", "idle"}, g \in {NoTag, tag[u]} :
             pc' = [pc EXCEPT ![u] = l] /\ tag' = [tag EXCEPT ![u] = g]
    BY <1>1, <1>4 DEF Undo, Drop, Signal, Goto, Return
  <2>2. /\ l \in PCs /\ g \in Tags \cup {NoTag} /\ l \notin TrackedPCs \cup {"gone"}
        /\ pc[u] \in {"undo", "drop", "signal"} /\ UNCHANGED <<blocks, lowMemory>>
    BY <1>1, <1>4 DEF PCs, TrackedPCs, Undo, Drop, Signal
  <2> QED
    BY <2>1, <2>2, QuietMove DEF TrackedPCs
<1>5. CASE BeginRemoval(u) \/ FirstDrop(u) \/ SecondDrop(u) \/ Wait(u) \/ LastBlock(u)
  <2>1. PICK l \in {"first", "second", "wait", "last", "gone"} :
             pc' = [pc EXCEPT ![u] = l] /\ tag' = [tag EXCEPT ![u] = tag[u]]
    BY <1>1, <1>5 DEF BeginRemoval, FirstDrop, SecondDrop, Wait, LastBlock, Goto
  <2>2. /\ l \in PCs /\ l \in TrackedPCs \cup {"gone"}
        /\ pc[u] \in TrackedPCs /\ UNCHANGED <<blocks, lowMemory>>
    BY <1>5 DEF PCs, Removing, TrackedPCs, BeginRemoval, FirstDrop, SecondDrop, Wait, LastBlock
  <2>3. pc[u] \notin {"missing", "gone"} /\ l \notin {"missing", "track"}
    BY <2>2 DEF TrackedPCs
  <2> QED
    BY <1>1, <2>1, <2>2, <2>3, QuietMove
<1>6. CASE Release(u) /\ ~Debug
  BY <1>1, <1>6, QuietMove DEF Release, Goto, PCs, TrackedPCs
<1> QED
  BY <1>2, <1>3, <1>4, <1>5, <1>6

(* A request is tracked: it has a new block, or is counted as one there    *)
(* was no memory for.                                                      *)
LEMMA TrackBlocks ==
    ASSUME BlockInv, CountInv, CountInv', NEW u \in Users, Track(u)
    PROVE  BlockInv'
<1> USE DEF BlockInv
<1>1. /\ pc \in [Users -> PCs] /\ tag \in [Users -> Tags \cup {NoTag}]
      /\ blocks \in Seq(Tags \cup {NoTag}) /\ lowMemory \in Nat /\ Len(blocks) \in Nat
      /\ pc[u] = "track" /\ pc' = [pc EXCEPT ![u] = "held"] /\ tag' = tag
      /\ Debug
  BY DEF CountInv, Types, BlockTypes, Track, Goto
<1>2. Tracked' = Tracked \cup {u} /\ u \notin Tracked /\ Missed' = Missed
      /\ Tracked \in SUBSET Users /\ Missed \in SUBSET Users
  BY <1>1 DEF Tracked, Missed
<1>3. /\ Cardinality(Tracked) \in Nat /\ Cardinality(Missed) \in Nat
      /\ Cardinality(Tracked') = Cardinality(Tracked) + 1
  BY <1>2, UserCount
<1>4. Live' => Live
  BY <1>1 DEF Live
<1>5. /\ Live => Len(blocks) + lowMemory = Cardinality(Tracked) + Cardinality(Missed)
      /\ lowMemory >= Cardinality(Missed)
  BY DEF BlocksExact, Live
<1>6. CASE blocks' = <<tag[u]>> \o blocks /\ UNCHANGED lowMemory
  <2>1. tag[u] \in Tags \cup {NoTag}
    BY <1>1
  <2>2. blocks' \in Seq(Tags \cup {NoTag}) /\ Len(blocks') = Len(blocks) + 1
    <3>1. <<tag[u]>> \in Seq(Tags \cup {NoTag}) /\ Len(<<tag[u]>>) = 1
      BY <2>1
    <3> QED
      BY <1>1, <1>6, <3>1, ConcatProperties
  <2>3. Live => Matched(blocks', Tracked', tag')
    BY <1>1, <1>2, <1>6, <2>1, MatchedPushed
  <2>4. BlocksExact'
    <3>1. lowMemory' = lowMemory /\ Cardinality(Missed') = Cardinality(Missed)
      BY <1>2, <1>6
    <3>2. Len(blocks') = Len(blocks) + 1 /\ Len(blocks) \in Nat /\ lowMemory \in Nat
      BY <1>1, <2>2
    <3>3. Live' => Len(blocks') + lowMemory' = Cardinality(Tracked') + Cardinality(Missed')
      BY <1>3, <1>4, <3>1, <3>2, <1>5
    <3>4. lowMemory' >= Cardinality(Missed')
      BY <3>1, <1>5
    <3> QED
      BY <3>3, <3>4 DEF BlocksExact, Live
  <2> QED
    BY <1>1, <1>4, <1>6, <2>2, <2>3, <2>4 DEF BlockTypes
<1>7. CASE lowMemory' = lowMemory + 1 /\ UNCHANGED blocks
  <2>1. Live => Matched(blocks', Tracked', tag')
    BY <1>1, <1>2, <1>7, MatchedMore
  <2>2. BlocksExact'
    <3>1. Live' => Len(blocks') + lowMemory' = Cardinality(Tracked') + Cardinality(Missed')
      BY <1>1, <1>2, <1>3, <1>4, <1>7, <1>5
    <3>2. lowMemory' >= Cardinality(Missed')
      BY <1>1, <1>2, <1>3, <1>7, <1>5
    <3> QED
      BY <3>1, <3>2 DEF BlocksExact, Live
  <2> QED
    BY <1>1, <1>4, <1>7, <2>1, <2>2 DEF BlockTypes
<1> QED
  BY <1>6, <1>7 DEF Track

(* A release frees a block with its tag.  If there is none, the blocks are *)
(* matched with the other requests, and there was no memory for one.       *)
LEMMA ReleaseBlocks ==
    ASSUME BlockInv, CountInv, CountInv', NEW u \in Users, Release(u), Debug
    PROVE  BlockInv'
<1> USE DEF BlockInv
<1>1. /\ pc \in [Users -> PCs] /\ tag \in [Users -> Tags \cup {NoTag}]
      /\ blocks \in Seq(Tags \cup {NoTag}) /\ lowMemory \in Nat /\ Len(blocks) \in Nat
      /\ pc[u] = "held" /\ tag' = tag /\ lowMemory' = lowMemory
  BY DEF CountInv, Types, BlockTypes, Release
<1>2. u \in Tracked /\ u \notin Missed /\ Tracked \in SUBSET Users /\ Missed \in SUBSET Users
  BY <1>1 DEF Tracked, Missed
<1>3. Live
  <2>1. u \in Using
    BY <1>1 DEF Using
  <2>2. \A v \in Users : pc[v] # "gone"
    BY <2>1 DEF CountInv, Quiet, Signaled
  <2> QED
    BY <2>2 DEF Live
<1>4. /\ Matched(blocks, Tracked, tag)
      /\ Len(blocks) + lowMemory = Cardinality(Tracked) + Cardinality(Missed)
      /\ lowMemory >= Cardinality(Missed)
  BY <1>3 DEF Live, BlocksExact
<1>5. CASE Contains(blocks, tag[u])
  <2>1. blocks' = RemoveFirst(blocks, tag[u]) /\ pc' = [pc EXCEPT ![u] = "drop"]
    BY <1>5 DEF Release, Goto
  <2>2. Tracked' = Tracked \ {u} /\ Missed' = Missed
    BY <1>1, <2>1 DEF Tracked, Missed
  <2>3. /\ Cardinality(Tracked) \in Nat /\ Cardinality(Missed) \in Nat
        /\ Cardinality(Tracked') = Cardinality(Tracked) - 1
    BY <1>2, <2>2, UserCount
  <2>4. Matched(blocks', Tracked', tag')
    BY <1>1, <1>4, <1>5, <2>1, <2>2, MatchedFreed
  <2>5. blocks' \in Seq(Tags \cup {NoTag}) /\ Len(blocks') = Len(blocks) - 1
    BY <1>1, <1>5, <2>1, RemoveFirstShape
  <2>6. BlocksExact'
    <3>1. /\ Cardinality(Missed') = Cardinality(Missed) /\ lowMemory' = lowMemory
          /\ Len(blocks') = Len(blocks) - 1 /\ Len(blocks) \in Nat /\ lowMemory \in Nat
          /\ Len(blocks) + lowMemory = Cardinality(Tracked) + Cardinality(Missed)
      BY <1>1, <1>4, <2>2, <2>5
    <3>2. Len(blocks') + lowMemory' = Cardinality(Tracked') + Cardinality(Missed')
      BY <2>3, <3>1
    <3>3. lowMemory' >= Cardinality(Missed')
      BY <1>4, <3>1
    <3> QED
      BY <3>2, <3>3 DEF BlocksExact
  <2> QED
    BY <1>1, <2>1, <2>4, <2>5, <2>6 DEF BlockTypes
<1>6. CASE ~Contains(blocks, tag[u])
  <2>1. blocks' = blocks /\ pc' = [pc EXCEPT ![u] = "missing"]
    BY <1>6 DEF Release, Goto
  <2>2. Tracked' = Tracked \ {u} /\ Missed' = Missed \cup {u}
    BY <1>1, <2>1 DEF Tracked, Missed
  <2>3. /\ Cardinality(Tracked) \in Nat /\ Cardinality(Missed) \in Nat
        /\ Cardinality(Tracked') = Cardinality(Tracked) - 1
        /\ Cardinality(Missed') = Cardinality(Missed) + 1
    BY <1>2, <2>2, UserCount
  <2>4. Matched(blocks, Tracked', tag)
    BY <1>4, <1>6, <2>2, MatchedLeftOver
  <2>5. Len(blocks) <= Cardinality(Tracked')
    BY <1>1, <1>2, <2>2, <2>4, MatchedFew
  <2>6. BlocksExact'
    <3>1. Len(blocks') + lowMemory' = Cardinality(Tracked') + Cardinality(Missed')
      BY <1>1, <1>4, <2>1, <2>3
    <3>2. lowMemory' >= Cardinality(Missed')
      BY <1>1, <2>1, <2>3, <2>5, <3>1
    <3> QED
      BY <3>1, <3>2 DEF BlocksExact
  <2> QED
    BY <1>1, <2>1, <2>4, <2>6 DEF BlockTypes
<1> QED
  BY <1>5, <1>6

(* A request without a block counts one off those there was no memory for: *)
(* there is one.                                                           *)
LEMMA MissingBlocks ==
    ASSUME BlockInv, CountInv, CountInv', NEW u \in Users, Missing(u)
    PROVE  BlockInv'
<1> USE DEF BlockInv
<1>1. /\ pc \in [Users -> PCs] /\ tag \in [Users -> Tags \cup {NoTag}]
      /\ lowMemory \in Nat /\ Len(blocks) \in Nat
      /\ pc[u] = "missing" /\ pc' = [pc EXCEPT ![u] = "drop"] /\ tag' = tag
      /\ blocks' = blocks
      /\ lowMemory' = IF lowMemory > 0 THEN lowMemory - 1 ELSE lowMemory
  BY DEF CountInv, Types, BlockTypes, Missing, Goto, MissingLess
<1>2. Tracked' = Tracked /\ Missed' = Missed \ {u} /\ u \in Missed /\ Missed \in SUBSET Users
  BY <1>1 DEF Tracked, Missed
<1>3. /\ Cardinality(Missed) \in Nat /\ Cardinality(Missed') \in Nat
      /\ Cardinality(Missed') = Cardinality(Missed) - 1
  BY <1>2, UserCount
<1>4. lowMemory > 0 /\ lowMemory' = lowMemory - 1
  BY <1>1, <1>3 DEF BlocksExact
<1>5. Live' => Live
  BY <1>1 DEF Live
<1>6. BlocksExact'
  <2>1. /\ Live => Len(blocks) + lowMemory = Cardinality(Tracked) + Cardinality(Missed)
        /\ lowMemory >= Cardinality(Missed)
    BY DEF BlocksExact, Live
  <2>2. Cardinality(Tracked) \in Nat
    <3>1. Tracked \in SUBSET Users
      BY DEF Tracked
    <3> QED
      BY <3>1, UserCount
  <2>3. Live' => Len(blocks') + lowMemory' = Cardinality(Tracked') + Cardinality(Missed')
    BY <1>1, <1>2, <1>3, <1>4, <1>5, <2>1, <2>2
  <2>4. lowMemory' >= Cardinality(Missed')
    BY <1>1, <1>3, <1>4, <2>1
  <2> QED
    BY <2>3, <2>4 DEF BlocksExact, Live
<1> QED
  BY <1>1, <1>2, <1>4, <1>5, <1>6 DEF BlockTypes

(* A lock that was just initialized has no blocks. *)
LEMMA InitBlockInv == Init => BlockInv
<1> SUFFICES ASSUME Init PROVE BlockInv
  OBVIOUS
<1>1. BlockTypes /\ \A u \in Users : pc[u] \notin {"track", "missing"}
  BY DEF Init, BlockTypes
<1>2. Tracked = {} /\ Missed = {} /\ blocks = << >> /\ lowMemory = 0 /\ Len(blocks) = 0
  BY DEF Init, Tracked, Missed
<1>3. BlocksExact
  BY <1>2, FS_EmptySet DEF BlocksExact
<1>4. Matched(blocks, Tracked, tag)
  <2>1. 1 .. Len(blocks) = {}
    BY <1>2
  <2>2. IsMatching([i \in {} |-> NoTag], blocks, Tracked, tag)
    BY <2>1 DEF IsMatching
  <2> QED
    BY <2>2 DEF Matched
<1> QED
  BY <1>1, <1>3, <1>4 DEF BlockInv

(* Every step keeps the invariant of the blocks. *)
LEMMA NextBlockInv == BlockInv /\ CountInv /\ CountInv' /\ [Next]_vars => BlockInv'
<1> SUFFICES ASSUME BlockInv, CountInv, CountInv', [Next]_vars PROVE BlockInv'
  OBVIOUS
<1>1. CASE UNCHANGED vars
  BY <1>1 DEF vars, BlockInv, BlockTypes, BlocksExact, Live, Tracked, Missed
<1>2. ASSUME NEW u \in Users, Acquire(u) \/ BeginRemoval(u) \/ Continue(u) PROVE BlockInv'
  BY <1>2, OtherBlocks, TrackBlocks, ReleaseBlocks, MissingBlocks DEF Continue
<1> QED
  BY <1>1, <1>2 DEF Next

(* A release that finds no block with its tag finds LowMemoryCount above   *)
(* zero, whichever of the blocks with its tag others have freed.           *)
THEOREM BlockSafety == Spec => []BlocksExact
<1>1. Init => CountInv /\ BlockInv
  BY InitCountInv, InitBlockInv
<1>2. CountInv /\ BlockInv /\ [Next]_vars => CountInv' /\ BlockInv'
  BY NextCountInv, NextBlockInv
<1>3. BlockInv => BlocksExact
  BY DEF BlockInv
<1> QED
  BY <1>1, <1>2, <1>3, PTL DEF Spec
=============================================================================
