--------------------------- MODULE ResourceProofs ---------------------------
(***************************************************************************)
(* Proofs about Resource as MCResource instantiates it, for any number of  *)
(* threads, owner pointers and calls and any sizes of the owner table.     *)
(*                                                                         *)
(* The counts of the resource say nothing of who owns it, and the owner    *)
(* table nothing of who is about to: ResourceInv ties both to what every   *)
(* thread is doing.  At its heart are two facts.  A resource that has been *)
(* given to a new exclusive owner has no other, from the release that gave *)
(* it away until that thread has set its name in the first entry without   *)
(* the lock.  And whoever has an entry of the table is entitled to it, so  *)
(* that an entry that is free, or the resource itself when nobody is       *)
(* counted, can be taken without harm to anybody.                          *)
(***************************************************************************)
EXTENDS MCResource, FiniteSetTheorems, FunctionTheorems, WellFoundedInduction, TLAPS

-----------------------------------------------------------------------------
(* The invariant.                                                          *)

(* The terms of the sums that WakeUpsExact and ActiveExact state. *)
Sleepers == Cardinality(In({"waitExclusive"}))
Sharers == Cardinality(In({"waitShared", "waitEntry"}))
Settlers == Cardinality(In({"settle", "expandSettle"}))
Setters == Cardinality(In({"setEvent"}))
NewOwners == Cardinality(In({"own"}))
Having == Cardinality(Holders)
Signal == IF event = "set" THEN 1 ELSE 0
Tokens == IF sem = NoSemaphore THEN 0 ELSE sem
Giving == Total([t \in In({"releaseSemaphore"}) |-> batch[t]])

(* The new exclusive owners, who do not have the resource yet. *)
New == Signal + Setters + NewOwners

ExclusiveHeld == \E o \in Owners : held[o].mode = "excl"

EntryTypes == [thread : Owners \cup {NoOwner, Pending}, count : Nat]

ResTypes == [ActiveEntries : Nat, ActiveCount : Nat, Exclusive : BOOLEAN,
             owner : [Slots -> EntryTypes], TableSize : Nat,
             ExclusiveWaiters : Nat, SharedWaiters : Nat]

Modes == {"none", "shared", "excl"}

HeldTypes == [mode : Modes, n : Nat]

(* Where a thread may hold the resource, and where it does not. *)
FreePCs == {"idle", "queryFirst", "queryFlag", "queryTable", "answer",
            "releaseSemaphore", "setEvent"}
BusyPCs == {"try", "expand", "expandSettle", "allocEvent", "allocSemaphore",
            "waitShared", "waitEntry", "settle", "waitExclusive", "own"}
PCs == FreePCs \cup BusyPCs

Types ==
    /\ res \in ResTypes
    /\ event \in {"none", "clear", "set"}
    /\ sem \in Nat
    /\ pc \in [Threads -> PCs]
    /\ size \in [Threads -> Nat]
    /\ batch \in [Threads -> Nat]
    /\ held \in [Owners -> HeldTypes]

HeldInv ==
    /\ \A o \in Owners : held[o].n = 0 <=> held[o].mode = "none"
    /\ \A t \in Threads : pc[t] \in BusyPCs => held[t].n = 0

CountInv ==
    /\ res.ExclusiveWaiters + Signal + Setters = Sleepers
    /\ res.SharedWaiters + Tokens + Giving = Sharers
    /\ res.ActiveEntries = Having + Tokens + Giving + Settlers + New
    /\ res.ActiveCount = (IF res.ActiveEntries = 0 THEN 0 ELSE 1)
    /\ res.Exclusive <=> New = 1 \/ ExclusiveHeld
    /\ res.Exclusive => res.ActiveEntries = 1
    /\ New <= 1
    /\ res.ActiveEntries = 0 => res.SharedWaiters = 0 /\ res.ExclusiveWaiters = 0
    /\ res.SharedWaiters > 0 => res.Exclusive \/ res.ExclusiveWaiters > 0

(* The event and the semaphore are there before anybody sleeps on them,    *)
(* and one thread at a time wakes sharers, at least one.                   *)
WakeInv ==
    /\ sem = NoSemaphore => Sharers = 0
    /\ event = "none" => Sleepers = 0
    /\ \A t \in Threads : pc[t] = "releaseSemaphore" => batch[t] > 0
    /\ \A t, u \in Threads : pc[t] = "releaseSemaphore" /\ pc[u] = "releaseSemaphore" => t = u

(* o may have the entry s: it holds the resource as often as the entry     *)
(* says, or waits to share it, or is the new owner.                        *)
Entitled(o, s) ==
    \/ /\ held[o].n > 0 /\ res.owner[s].count = held[o].n
       /\ held[o].mode = "excl" => s = 0
    \/ o \in Threads /\ pc[o] = "waitShared" /\ s # 0 /\ res.owner[s].count = 1
    \/ o \in Threads /\ pc[o] = "own" /\ s = 0

HasEntry(o) == held[o].n > 0 \/ (o \in Threads /\ pc[o] = "waitShared")

EntriesInv ==
    /\ \A s \in Slots : Thread(s) \in Owners =>
          (s = 0 \/ s < res.TableSize) /\ Entitled(Thread(s), s)
    /\ \A s, r \in Slots : Thread(s) \in Owners /\ Thread(r) = Thread(s) => s = r
    /\ \A o \in Owners : HasEntry(o) => \E s \in Slots : Thread(s) = o
    /\ \A s \in Slots \ {0} : Thread(s) # Pending

(* The entry that has been given to a new owner counts one acquisition. *)
GivenInv == New = 1 => res.owner[0].count = 1

(* The table grows only when all of it is in use. *)
TableInv ==
    /\ res.TableSize <= Cardinality(Owners) + FirstSize + Growth + 1
    /\ \A t \in Threads : pc[t] \in {"expand", "expandSettle"}
                             => size[t] <= Cardinality(Owners) + 1

(* What the query knows when it goes on. *)
Knows(t) ==
    /\ pc[t] \in {"queryFirst", "queryFlag", "queryTable"} => batch[t] = 0
    /\ pc[t] \in {"queryFlag", "queryTable"} => Thread(0) # t
    /\ pc[t] = "answer" => batch[t] = held[t].n

QueryInv == \A t \in Threads : Knows(t)

ResourceInv == /\ Types /\ HeldInv /\ CountInv /\ WakeInv
               /\ EntriesInv /\ GivenInv /\ TableInv /\ QueryInv

-----------------------------------------------------------------------------
(* Numbers and sets.                                                       *)

(* A set of numbers has a least one, and First is it. *)
LEMMA FirstIn ==
    ASSUME NEW N \in SUBSET Nat, N # {}
    PROVE  First(N) \in N
<1> DEFINE R == OpToRel(<, Nat)
<1>1. \E x \in N : \A y \in N : ~ (<<y, x>> \in R)
  BY NatLessThanWellFounded, WFMin
<1>2. \A x, y \in Nat : <<y, x>> \in R <=> y < x
  BY DEF OpToRel
<1> HIDE DEF R
<1>3. PICK x \in N : \A y \in N : ~ (<<y, x>> \in R)
  BY <1>1
<1>4. ASSUME NEW y \in N PROVE x <= y
  <2>1. ~(y < x) /\ x \in Nat /\ y \in Nat
    BY <1>2, <1>3
  <2> QED
    BY <2>1
<1>5. \E k \in N : \A j \in N : k <= j
  BY <1>4
<1> QED
  BY <1>5 DEF First

(* A finite set with one more element, and with one less. *)
LEMMA OneMore ==
    ASSUME NEW A, IsFiniteSet(A), NEW x
    PROVE  /\ Cardinality(A) \in Nat
           /\ x \notin A => Cardinality(A \cup {x}) = Cardinality(A) + 1
           /\ x \in A => /\ Cardinality(A \ {x}) = Cardinality(A) - 1
                         /\ Cardinality(A) >= 1
<1>1. Cardinality(A) \in Nat
  BY FS_CardinalityType
<1>2. x \notin A => Cardinality(A \cup {x}) = Cardinality(A) + 1
  BY FS_AddElement
<1>3. ASSUME x \in A
      PROVE  Cardinality(A \ {x}) = Cardinality(A) - 1 /\ Cardinality(A) >= 1
  <2>1. Cardinality(A \ {x}) = Cardinality(A) - 1
    BY <1>3, FS_RemoveElement
  <2>2. IsFiniteSet(A \ {x})
    BY FS_Subset
  <2>3. Cardinality(A \ {x}) \in Nat
    BY <2>2, FS_CardinalityType
  <2> QED
    BY <1>1, <2>1, <2>3
<1> QED
  BY <1>1, <1>2, <1>3

(* The threads and owners are finitely many, and slot 0 is one. *)
LEMMA Sizes ==
    /\ IsFiniteSet(Threads) /\ Threads \subseteq Owners /\ Pointers \subseteq Owners
    /\ Cardinality(Owners) \in Nat /\ Cardinality(Threads) \in Nat
    /\ NoSemaphore \in Nat
    /\ 0 \in Slots /\ Slots \subseteq Nat
    /\ Slots = 0 .. (Cardinality(Owners) + FirstSize + Growth)
<1>1. IsFiniteSet(Threads) /\ Threads \subseteq Owners /\ Pointers \subseteq Owners
  BY OwnerAssumption, FS_Subset DEF Owners
<1>2. Cardinality(Owners) \in Nat /\ Cardinality(Threads) \in Nat
  BY <1>1, OwnerAssumption, FS_CardinalityType
<1>3. FirstSize \in Nat /\ Growth \in Nat
  BY TableAssumption
<1> QED
  BY <1>1, <1>2, <1>3 DEF Slots, NoSemaphore

(* How the number of threads at some place changes when t moves to b. *)
LEMMA InMove ==
    ASSUME NEW L, NEW t \in Threads, NEW b, DOMAIN pc = Threads,
           pc' = [pc EXCEPT ![t] = b]
    PROVE  /\ Cardinality(In(L)) \in Nat /\ Cardinality(In(L)') \in Nat
           /\ pc[t] \in L => Cardinality(In(L)) >= 1
           /\ (pc[t] \in L <=> b \in L) => Cardinality(In(L)') = Cardinality(In(L))
           /\ pc[t] \in L /\ b \notin L => Cardinality(In(L)') = Cardinality(In(L)) - 1
           /\ pc[t] \notin L /\ b \in L => Cardinality(In(L)') = Cardinality(In(L)) + 1
<1>1. IsFiniteSet(In(L))
  BY Sizes, FS_Subset DEF In
<1>2. (pc[t] \in L <=> b \in L) => In(L)' = In(L)
  BY DEF In
<1>3. pc[t] \in L /\ b \notin L => In(L)' = In(L) \ {t}
  BY DEF In
<1>4. pc[t] \notin L /\ b \in L => In(L)' = In(L) \cup {t} /\ t \notin In(L)
  BY DEF In
<1>5. pc[t] \in L => t \in In(L)
  BY DEF In
<1>6. Cardinality(In(L)') \in Nat
  <2>1. IsFiniteSet(In(L)')
    BY Sizes, FS_Subset DEF In
  <2> QED
    BY <2>1, FS_CardinalityType
<1> QED
  BY <1>1, <1>2, <1>3, <1>4, <1>5, <1>6, OneMore

(* The terms of the sums are numbers. *)
LEMMA InNumber ==
    ASSUME NEW L PROVE Cardinality(In(L)) \in Nat
<1>1. IsFiniteSet(In(L))
  BY Sizes, FS_Subset DEF In
<1> QED
  BY <1>1, FS_CardinalityType

(* The pairs of one argument that Total counts. *)
LEMMA PairsOfOne ==
    ASSUME NEW x, NEW n \in Nat
    PROVE  Cardinality({x} \X (1 .. n)) = n
<1>1. IsFiniteSet({x}) /\ Cardinality({x}) = 1
  BY FS_Singleton
<1>2. IsFiniteSet(1 .. n) /\ Cardinality(1 .. n) = n
  BY FS_Interval
<1>3. Cardinality({x} \X (1 .. n)) = Cardinality({x}) * Cardinality(1 .. n)
  BY <1>1, <1>2, FS_Product
<1>4. 1 * n = n
  OBVIOUS
<1> QED
  BY <1>1, <1>2, <1>3, <1>4

(* The sum of one value, and of none. *)
LEMMA TotalOne ==
    ASSUME NEW f, NEW x, NEW n \in Nat, DOMAIN f = {x}, f[x] = n
    PROVE  Total(f) = n
<1>1. UNION {{y} \X (1 .. f[y]) : y \in DOMAIN f} = {x} \X (1 .. n)
  OBVIOUS
<1> QED
  BY <1>1, PairsOfOne DEF Total

LEMMA TotalNone ==
    ASSUME NEW f, DOMAIN f = {}
    PROVE  Total(f) = 0
<1>1. UNION {{y} \X (1 .. f[y]) : y \in DOMAIN f} = {}
  OBVIOUS
<1> QED
  BY <1>1, FS_EmptySet DEF Total

(* One thread, or none, gives the resource to sharers. *)
LEMMA GivingOne ==
    ASSUME WakeInv, Types
    PROVE  /\ Giving \in Nat
           /\ Giving = 0 <=> \A t \in Threads : pc[t] # "releaseSemaphore"
           /\ \A t \in Threads : pc[t] = "releaseSemaphore" => Giving = batch[t]
<1> DEFINE S == In({"releaseSemaphore"})
           f == [t \in S |-> batch[t]]
<1>1. ASSUME NEW t \in Threads, pc[t] = "releaseSemaphore"
      PROVE  Giving = batch[t] /\ batch[t] \in Nat /\ batch[t] > 0
  <2>1. S = {t}
    BY <1>1 DEF WakeInv, In
  <2>2. DOMAIN f = {t} /\ f[t] = batch[t]
    BY <2>1
  <2>3. batch[t] \in Nat /\ batch[t] > 0
    BY <1>1 DEF WakeInv, Types
  <2> HIDE DEF f
  <2>4. Total(f) = batch[t]
    BY <2>2, <2>3, TotalOne
  <2> QED
    BY <2>3, <2>4 DEF Giving, f
<1>2. ASSUME \A t \in Threads : pc[t] # "releaseSemaphore" PROVE Giving = 0
  <2>1. S = {}
    BY <1>2 DEF In
  <2>2. DOMAIN f = {}
    BY <2>1
  <2> HIDE DEF f
  <2>3. Total(f) = 0
    BY <2>2, TotalNone
  <2> QED
    BY <2>3 DEF Giving, f
<1> QED
  BY <1>1, <1>2

-----------------------------------------------------------------------------
(* How the sums change.                                                    *)

(* The places of a thread that the sums count. *)
Counted == {"waitExclusive", "waitShared", "waitEntry", "settle", "expandSettle",
            "setEvent", "own", "releaseSemaphore"}

LEMMA Numbers ==
    ASSUME Types, WakeInv
    PROVE  /\ Sleepers \in Nat /\ Sharers \in Nat /\ Settlers \in Nat /\ Setters \in Nat
           /\ NewOwners \in Nat /\ Having \in Nat /\ Signal \in Nat /\ Tokens \in Nat
           /\ Giving \in Nat /\ New \in Nat
<1>1. /\ Sleepers \in Nat /\ Sharers \in Nat /\ Settlers \in Nat /\ Setters \in Nat
      /\ NewOwners \in Nat
  BY InNumber DEF Sleepers, Sharers, Settlers, Setters, NewOwners
<1>2. Having \in Nat
  <2>1. IsFiniteSet(Holders)
    BY OwnerAssumption, FS_Subset DEF Holders
  <2> QED
    BY <2>1, FS_CardinalityType DEF Having
<1>3. Signal \in Nat /\ Tokens \in Nat
  BY DEF Types, Signal, Tokens
<1>4. Giving \in Nat
  BY GivingOne
<1> QED
  BY <1>1, <1>2, <1>3, <1>4 DEF New

(* A step between places that are not counted leaves the sums alone. *)
LEMMA PlainMove ==
    ASSUME NEW t \in Threads, NEW b, DOMAIN pc = Threads, pc' = [pc EXCEPT ![t] = b],
           pc[t] \notin Counted, b \notin Counted
    PROVE  /\ Sleepers' = Sleepers /\ Sharers' = Sharers /\ Settlers' = Settlers
           /\ Setters' = Setters /\ NewOwners' = NewOwners
<1>1. \A L \in SUBSET Counted : Cardinality(In(L)') = Cardinality(In(L))
  BY InMove
<1> QED
  BY <1>1 DEF Counted, Sleepers, Sharers, Settlers, Setters, NewOwners

(* Who gives the resource to sharers stays the same. *)
LEMMA GivingKept ==
    ASSUME \A u \in Threads : /\ pc'[u] = "releaseSemaphore" <=> pc[u] = "releaseSemaphore"
                              /\ pc[u] = "releaseSemaphore" => batch'[u] = batch[u]
    PROVE  Giving' = Giving
<1>1. In({"releaseSemaphore"})' = In({"releaseSemaphore"})
  BY DEF In
<1>2. [t \in In({"releaseSemaphore"}) |-> batch[t]]' = [t \in In({"releaseSemaphore"}) |-> batch[t]]
  BY <1>1 DEF In
<1> QED
  BY <1>2 DEF Giving, Total

(* How the number of holders changes with what o holds. *)
LEMMA HavingMove ==
    ASSUME NEW o \in Owners,
           \A x \in Owners \ {o} : held'[x].n > 0 <=> held[x].n > 0
    PROVE  /\ (held'[o].n > 0 <=> held[o].n > 0) => Having' = Having
           /\ held'[o].n > 0 /\ ~(held[o].n > 0) => Having' = Having + 1
           /\ ~(held'[o].n > 0) /\ held[o].n > 0 => Having' = Having - 1
<1>1. IsFiniteSet(Holders)
  BY OwnerAssumption, FS_Subset DEF Holders
<1>2. (held'[o].n > 0 <=> held[o].n > 0) => Holders' = Holders
  BY DEF Holders
<1>3. held'[o].n > 0 /\ ~(held[o].n > 0) => Holders' = Holders \cup {o} /\ o \notin Holders
  BY DEF Holders
<1>4. ~(held'[o].n > 0) /\ held[o].n > 0 => Holders' = Holders \ {o} /\ o \in Holders
  BY DEF Holders
<1> QED
  BY <1>1, <1>2, <1>3, <1>4, OneMore DEF Having

(* What the number of holders says of them. *)
LEMMA HavingFew ==
    /\ \A o \in Owners : held[o].n > 0 => Having >= 1
    /\ \A o, x \in Owners : held[o].n > 0 /\ held[x].n > 0 /\ o # x => Having >= 2
    /\ Having = 0 \/ \E o \in Owners : held[o].n > 0
<1>1. IsFiniteSet(Holders)
  BY OwnerAssumption, FS_Subset DEF Holders
<1>2. ASSUME NEW o \in Owners, held[o].n > 0 PROVE Having >= 1 /\ o \in Holders
  BY <1>1, <1>2, OneMore DEF Having, Holders
<1>3. ASSUME NEW o \in Owners, NEW x \in Owners, held[o].n > 0, held[x].n > 0, o # x
      PROVE  Having >= 2
  <2>1. o \in Holders /\ x \in Holders \ {o} /\ IsFiniteSet(Holders \ {o})
    BY <1>1, <1>2, <1>3, FS_Subset
  <2>2. Cardinality(Holders \ {o}) >= 1 /\ Cardinality(Holders \ {o}) \in Nat
    BY <2>1, OneMore
  <2>3. Cardinality(Holders \ {o}) = Cardinality(Holders) - 1 /\ Cardinality(Holders) \in Nat
    BY <1>1, <2>1, OneMore
  <2> QED
    BY <2>2, <2>3 DEF Having
<1>4. (\A o \in Owners : ~(held[o].n > 0)) => Having = 0
  BY FS_EmptySet DEF Having, Holders
<1> QED
  BY <1>2, <1>3, <1>4

(* The place of one thread counts. *)
LEMMA InFew ==
    ASSUME NEW t \in Threads
    PROVE  /\ pc[t] = "waitExclusive" => Sleepers >= 1
           /\ pc[t] \in {"waitShared", "waitEntry"} => Sharers >= 1
           /\ pc[t] \in {"settle", "expandSettle"} => Settlers >= 1
           /\ pc[t] = "setEvent" => Setters >= 1
           /\ pc[t] = "own" => NewOwners >= 1
<1>1. ASSUME NEW L, pc[t] \in L PROVE Cardinality(In(L)) >= 1
  <2>1. IsFiniteSet(In(L))
    BY Sizes, FS_Subset DEF In
  <2>2. t \in In(L)
    BY <1>1 DEF In
  <2> QED
    BY <2>1, <2>2, OneMore
<1> QED
  BY <1>1 DEF Sleepers, Sharers, Settlers, Setters, NewOwners

-----------------------------------------------------------------------------
(* What the invariant says of the owners.                                  *)

(* A resource that is owned exclusively by o has no other owner, and o has *)
(* the first entry.                                                        *)
LEMMA Alone ==
    ASSUME ResourceInv, res.Exclusive, NEW o \in Owners, held[o].n > 0
    PROVE  /\ held[o].mode = "excl" /\ Thread(0) = o /\ Having = 1
           /\ res.owner[0].count = held[o].n
           /\ Tokens = 0 /\ Giving = 0 /\ Settlers = 0 /\ New = 0
           /\ \A x \in Owners : held[x].n > 0 => x = o
           /\ res.ActiveEntries = 1
<1>1. Types /\ HeldInv /\ CountInv /\ WakeInv /\ EntriesInv
  BY DEF ResourceInv
<1>2. /\ Having \in Nat /\ Tokens \in Nat /\ Giving \in Nat /\ Settlers \in Nat /\ New \in Nat
  BY <1>1, Numbers
<1>3. Having >= 1
  BY HavingFew
<1>4. /\ Having = 1 /\ Tokens = 0 /\ Giving = 0 /\ Settlers = 0 /\ New = 0
      /\ res.ActiveEntries = 1
  BY <1>1, <1>2, <1>3 DEF CountInv
<1>5. \A x \in Owners : held[x].n > 0 => x = o
  BY <1>4, HavingFew
<1>6. ExclusiveHeld
  BY <1>1, <1>4 DEF CountInv
<1>7. held[o].mode = "excl"
  <2>1. PICK x \in Owners : held[x].mode = "excl"
    BY <1>6 DEF ExclusiveHeld
  <2>2. held[x].n # 0 /\ held[x].n \in Nat
    BY <1>1, <2>1 DEF HeldInv, Types, HeldTypes
  <2> QED
    BY <1>5, <2>1, <2>2
<1>8. PICK s \in Slots : Thread(s) = o
  BY <1>1 DEF EntriesInv, HasEntry
<1>9. Entitled(o, s)
  BY <1>1, <1>8 DEF EntriesInv
<1>10. ~(o \in Threads /\ pc[o] \in BusyPCs)
  BY <1>1 DEF HeldInv
<1>11. s = 0 /\ res.owner[0].count = held[o].n
  BY <1>7, <1>9, <1>10 DEF Entitled, BusyPCs
<1> QED
  BY <1>4, <1>5, <1>7, <1>8, <1>11

(* In a resource that is not owned exclusively nobody is an exclusive      *)
(* owner, or about to be.                                                  *)
LEMMA Together ==
    ASSUME ResourceInv, ~res.Exclusive
    PROVE  New = 0 /\ ~ExclusiveHeld
<1>1. New \in Nat
  BY Numbers DEF ResourceInv
<1> QED
  BY <1>1 DEF ResourceInv, CountInv

(* Nobody holds a resource that has been given to a new owner, or that     *)
(* nobody is counted for.                                                  *)
LEMMA Vacant ==
    ASSUME ResourceInv, res.ActiveEntries = 0 \/ New = 1
    PROVE  /\ \A o \in Owners : held[o].n = 0 /\ held[o].mode = "none"
           /\ Having = 0 /\ Tokens = 0 /\ Giving = 0 /\ Settlers = 0
           /\ New = 1 \/ (New = 0 /\ Thread(0) \notin Owners /\ ~res.Exclusive)
           /\ Thread(0) \in Owners => Thread(0) \in Threads /\ pc[Thread(0)] = "own"
<1>1. Types /\ HeldInv /\ CountInv /\ WakeInv /\ EntriesInv
  BY DEF ResourceInv
<1>2. /\ Having \in Nat /\ Tokens \in Nat /\ Giving \in Nat /\ Settlers \in Nat /\ New \in Nat
      /\ NewOwners \in Nat /\ Signal \in Nat /\ Setters \in Nat
  BY <1>1, Numbers
<1>3. /\ Having = 0 /\ Tokens = 0 /\ Giving = 0 /\ Settlers = 0 /\ New \in {0, 1}
      /\ New = 0 => res.ActiveEntries = 0 /\ ~res.Exclusive
  BY <1>1, <1>2 DEF CountInv
<1>4. \A o \in Owners : held[o].n = 0 /\ held[o].mode = "none"
  <2> SUFFICES ASSUME NEW o \in Owners PROVE held[o].n = 0 /\ held[o].mode = "none"
    OBVIOUS
  <2>1. held[o].n \in Nat
    BY <1>1 DEF Types, HeldTypes
  <2>2. held[o].n = 0
    BY <1>3, <2>1, HavingFew
  <2> QED
    BY <1>1, <2>2 DEF HeldInv
<1>5. ASSUME Thread(0) \in Owners PROVE Thread(0) \in Threads /\ pc[Thread(0)] = "own"
  <2>1. Entitled(Thread(0), 0)
    BY <1>1, <1>5, Sizes DEF EntriesInv
  <2> QED
    BY <1>4, <1>5, <2>1 DEF Entitled
<1>6. New = 0 => Thread(0) \notin Owners
  <2> SUFFICES ASSUME New = 0, Thread(0) \in Owners PROVE FALSE
    OBVIOUS
  <2>1. NewOwners >= 1
    BY <1>5, InFew
  <2> QED
    BY <1>2, <2>1 DEF New
<1> QED
  BY <1>3, <1>4, <1>5, <1>6

(* The entries of o that its calls look for. *)
LEMMA OwnEntry ==
    ASSUME ResourceInv, NEW o \in Owners
    PROVE  /\ SlotsOf(o) = {s \in Slots : Thread(s) = o}
           /\ \A s, r \in SlotsOf(o) : s = r
           /\ HasEntry(o) <=> \E s \in SlotsOf(o) : ~(o \in Threads /\ pc[o] = "own")
           /\ \A s \in SlotsOf(o) : Entitled(o, s)
<1>1. Types /\ HeldInv /\ EntriesInv /\ TableInv
  BY DEF ResourceInv
<1>2. {0} \cup Table \subseteq Slots
  <2>1. res.TableSize \in Nat /\ FirstSize \in Nat /\ Growth \in Nat
    BY <1>1, TableAssumption DEF Types, ResTypes
  <2> QED
    BY <1>1, <2>1, Sizes DEF Table, TableInv
<1>3. SlotsOf(o) = {s \in Slots : Thread(s) = o}
  <2>1. ASSUME NEW s \in Slots, Thread(s) = o PROVE s \in {0} \cup Table
    <3>1. s \in Nat /\ (s = 0 \/ s < res.TableSize) /\ res.TableSize \in Nat
      BY <1>1, <2>1, Sizes DEF EntriesInv, Types, ResTypes
    <3> QED
      BY <3>1 DEF Table
  <2> QED
    BY <1>2, <2>1 DEF SlotsOf
<1>4. \A s, r \in SlotsOf(o) : s = r
  BY <1>1, <1>3 DEF EntriesInv
<1>5. \A s \in SlotsOf(o) : Entitled(o, s)
  BY <1>1, <1>3 DEF EntriesInv
<1>6. HasEntry(o) => \E s \in SlotsOf(o) : ~(o \in Threads /\ pc[o] = "own")
  BY <1>1, <1>3 DEF EntriesInv, HasEntry, HeldInv, BusyPCs
<1>7. ASSUME NEW s \in SlotsOf(o), ~(o \in Threads /\ pc[o] = "own") PROVE HasEntry(o)
  BY <1>5, <1>7 DEF Entitled, HasEntry
<1> QED
  BY <1>3, <1>4, <1>5, <1>6, <1>7

(* The free entries of the table. *)
LEMMA FreeEntries ==
    ASSUME ResourceInv
    PROVE  /\ \A s \in FreeSlots : /\ s \in Slots /\ s # 0 /\ s < res.TableSize
                                   /\ Thread(s) = NoOwner /\ NoOwner \notin Owners
           /\ FreeSlots # {} => First(FreeSlots) \in FreeSlots
           /\ \A b \in BOOLEAN : Eligible(b) # {} =>
                 /\ First(Eligible(b)) \in Eligible(b)
                 /\ First(Eligible(b)) \in FreeSlots
                    \/ (~b /\ First(Eligible(b)) = 0 /\ Thread(0) = NoOwner)
<1>1. Types /\ TableInv
  BY DEF ResourceInv
<1>2. res.TableSize \in Nat /\ FirstSize \in Nat /\ Growth \in Nat
  BY <1>1, TableAssumption DEF Types, ResTypes
<1>3. Table \subseteq Slots /\ Table \subseteq Nat /\ \A s \in Table : s # 0 /\ s < res.TableSize
  BY <1>1, <1>2, Sizes DEF Table, TableInv
<1>4. FreeSlots \subseteq Nat
  BY <1>3 DEF FreeSlots
<1>5. \A b \in BOOLEAN : Eligible(b) \subseteq Nat
  BY <1>4 DEF Eligible
<1>6. \A b \in BOOLEAN : Eligible(b) # {} => First(Eligible(b)) \in Eligible(b)
  BY <1>5, FirstIn
<1>7. FreeSlots # {} => First(FreeSlots) \in FreeSlots
  BY <1>4, FirstIn
<1>8. \A b \in BOOLEAN : \A s \in Eligible(b) :
         s \in FreeSlots \/ (~b /\ s = 0 /\ Thread(0) = NoOwner)
  BY DEF Eligible
<1>9. NoOwner \notin Owners
  BY OwnerAssumption
<1>10. \A s \in FreeSlots : /\ s \in Slots /\ s # 0 /\ s < res.TableSize
                            /\ Thread(s) = NoOwner
  BY <1>3 DEF FreeSlots
<1> QED
  BY <1>6, <1>7, <1>8, <1>9, <1>10

(* A table without a free entry is no larger than the number of owners. *)
LEMMA TableFull ==
    ASSUME ResourceInv, FreeSlots = {}
    PROVE  res.TableSize <= Cardinality(Owners) + 1
<1>1. Types /\ TableInv /\ EntriesInv
  BY DEF ResourceInv
<1>2. res.TableSize \in Nat /\ FirstSize \in Nat /\ Growth \in Nat
  BY <1>1, TableAssumption DEF Types, ResTypes
<1>3. Table \subseteq Slots /\ \A s \in Table : s # 0
  BY <1>1, <1>2, Sizes DEF Table, TableInv
<1>4. \A s \in Table : Thread(s) \in Owners
  <2> SUFFICES ASSUME NEW s \in Table PROVE Thread(s) \in Owners
    OBVIOUS
  <2>1. Thread(s) \in Owners \cup {NoOwner, Pending}
    BY <1>1, <1>3 DEF Types, ResTypes, EntryTypes, Thread
  <2>2. Thread(s) # Pending
    BY <1>1, <1>3 DEF EntriesInv
  <2>3. Thread(s) # NoOwner
    BY DEF FreeSlots
  <2> QED
    BY <2>1, <2>2, <2>3
<1> DEFINE f == [s \in Table |-> Thread(s)]
<1>5. f \in Injection(Table, Owners)
  BY <1>1, <1>3, <1>4 DEF EntriesInv, Injection, IsInjective
<1>6. CASE res.TableSize = 0
  BY <1>6, Sizes
<1>7. CASE res.TableSize # 0
  <2> DEFINE k == res.TableSize - 1
  <2>1. k \in Nat /\ Table = 1 .. k /\ res.TableSize = k + 1
    BY <1>2, <1>7 DEF Table
  <2>2. Cardinality(Table) = k /\ IsFiniteSet(Table)
    <3> HIDE DEF k
    <3> QED
      BY <2>1, FS_Interval
  <2>3. Cardinality(Table) <= Cardinality(Owners)
    BY <1>5, OwnerAssumption, FS_Injection
  <2> QED
    BY <2>1, <2>2, <2>3, Sizes
<1> QED
  BY <1>6, <1>7

-----------------------------------------------------------------------------
(* How the entries change.                                                 *)

(* What entitles everybody but o to an entry stays. *)
OthersKept(o) ==
    \A x \in Owners \ {o} :
       /\ held'[x] = held[x]
       /\ x \in Threads => /\ pc'[x] = "waitShared" <=> pc[x] = "waitShared"
                           /\ pc[x] = "own" => pc'[x] = "own"

LEMMA OtherEntitled ==
    ASSUME NEW o, NEW x \in Owners \ {o}, NEW s, OthersKept(o), Entitled(x, s),
           res'.owner[s] = res.owner[s]
    PROVE  Entitled(x, s)'
BY DEF OthersKept, Entitled

LEMMA OtherHas ==
    ASSUME NEW o, NEW x \in Owners \ {o}, OthersKept(o)
    PROVE  HasEntry(x)' <=> HasEntry(x)
BY DEF OthersKept, HasEntry

(* t, who has no other, takes the entry s, which is nobody else's. *)
LEMMA EntryTaken ==
    ASSUME EntriesInv, NEW t \in Owners, NEW s \in Slots, s = 0 \/ s < res.TableSize,
           \A r \in Slots : r # s => res'.owner[r] = res.owner[r],
           res'.owner[s].thread = t, res'.TableSize = res.TableSize,
           Thread(s) \notin Owners \ {t}, \A r \in Slots : Thread(r) = t => r = s,
           OthersKept(t), Entitled(t, s)'
    PROVE  EntriesInv'
<1>1. \A r \in Slots : r # s => Thread(r)' = Thread(r) /\ Thread(r) # t
  BY DEF Thread
<1>2. Thread(s)' = t
  BY DEF Thread
<1>3. ASSUME NEW r \in Slots, Thread(r)' \in Owners
      PROVE  (r = 0 \/ r < res'.TableSize) /\ Entitled(Thread(r), r)'
  <2>1. CASE r = s
    BY <1>2, <2>1
  <2>2. CASE r # s
    <3>1. Entitled(Thread(r), r) /\ (r = 0 \/ r < res.TableSize) /\ Thread(r) \in Owners \ {t}
      BY <1>1, <1>3, <2>2 DEF EntriesInv
    <3>2. \A x \in Owners \ {t} : Entitled(x, r) => Entitled(x, r)'
      BY <2>2, OtherEntitled
    <3>3. \A x \in Owners \ {t} : x = Thread(r) => Entitled(x, r)'
      BY <3>1, <3>2
    <3> QED
      BY <1>1, <2>2, <3>1, <3>3
  <2> QED
    BY <2>1, <2>2
<1>4. ASSUME NEW r \in Slots, NEW q \in Slots, Thread(r)' \in Owners, Thread(q)' = Thread(r)'
      PROVE  r = q
  BY <1>1, <1>2, <1>4 DEF EntriesInv
<1>5. ASSUME NEW x \in Owners, HasEntry(x)' PROVE \E r \in Slots : Thread(r)' = x
  <2>1. CASE x = t
    BY <1>2, <2>1
  <2>2. CASE x # t
    <3>1. HasEntry(x)
      BY <1>5, <2>2, OtherHas
    <3>2. PICK r \in Slots : Thread(r) = x
      BY <3>1 DEF EntriesInv
    <3>3. r # s
      BY <2>2, <3>2
    <3> QED
      BY <1>1, <3>2, <3>3
  <2> QED
    BY <2>1, <2>2
<1>6. \A r \in Slots \ {0} : Thread(r)' # Pending
  BY <1>1, <1>2, OwnerAssumption DEF EntriesInv
<1> QED
  BY <1>3, <1>4, <1>5, <1>6 DEF EntriesInv

(* Nobody's entry changes hands; what o holds, or the count of its entry,  *)
(* does.                                                                   *)
LEMMA EntriesSame ==
    ASSUME EntriesInv, NEW o \in Owners,
           \A s \in Slots : /\ res'.owner[s].thread = res.owner[s].thread
                            /\ Thread(s) # o => res'.owner[s] = res.owner[s],
           res'.TableSize = res.TableSize, OthersKept(o),
           \A s \in Slots : Thread(s) = o => Entitled(o, s)',
           HasEntry(o)' => HasEntry(o)
    PROVE  EntriesInv'
<1>1. \A r \in Slots : Thread(r)' = Thread(r)
  BY DEF Thread
<1>2. ASSUME NEW r \in Slots, Thread(r)' \in Owners
      PROVE  (r = 0 \/ r < res'.TableSize) /\ Entitled(Thread(r), r)'
  <2>1. Entitled(Thread(r), r) /\ (r = 0 \/ r < res.TableSize) /\ Thread(r) \in Owners
    BY <1>1, <1>2 DEF EntriesInv
  <2>2. \A x \in Owners \ {o} : x = Thread(r) => Entitled(x, r)'
    BY <2>1, OtherEntitled
  <2>3. \A x \in Owners : x = Thread(r) => Entitled(x, r)'
    BY <2>2
  <2> QED
    BY <1>1, <2>1, <2>3
<1>3. ASSUME NEW x \in Owners, HasEntry(x)' PROVE \E r \in Slots : Thread(r)' = x
  <2>1. HasEntry(x)
    BY <1>3, OtherHas
  <2> QED
    BY <1>1, <2>1 DEF EntriesInv
<1> QED
  BY <1>1, <1>2, <1>3 DEF EntriesInv

(* o leaves its entry. *)
LEMMA EntryFreed ==
    ASSUME EntriesInv, NEW o \in Owners,
           \A s \in Slots : Thread(s) \in Owners \ {o} => res'.owner[s] = res.owner[s],
           \A s \in Slots : \/ res'.owner[s] = res.owner[s] /\ Thread(s) # o
                            \/ res'.owner[s].thread = NoOwner
                            \/ res'.owner[s].thread = Pending /\ s = 0,
           \A s \in Slots : s < res.TableSize => s < res'.TableSize,
           OthersKept(o), ~HasEntry(o)'
    PROVE  EntriesInv'
<1>1. \A r \in Slots : Thread(r)' \in Owners => /\ res'.owner[r] = res.owner[r]
                                                /\ Thread(r)' = Thread(r) /\ Thread(r) # o
  BY OwnerAssumption DEF Thread
<1>2. ASSUME NEW r \in Slots, Thread(r)' \in Owners
      PROVE  (r = 0 \/ r < res'.TableSize) /\ Entitled(Thread(r), r)'
  <2>1. Entitled(Thread(r), r) /\ (r = 0 \/ r < res.TableSize) /\ Thread(r) \in Owners
    BY <1>1, <1>2 DEF EntriesInv
  <2>2. \A x \in Owners \ {o} : x = Thread(r) => Entitled(x, r)'
    BY <1>1, <1>2, <2>1, OtherEntitled
  <2> QED
    BY <1>1, <1>2, <2>1, <2>2
<1>3. ASSUME NEW x \in Owners, HasEntry(x)' PROVE \E r \in Slots : Thread(r)' = x
  <2>1. HasEntry(x) /\ x # o
    BY <1>3, OtherHas
  <2>2. PICK r \in Slots : Thread(r) = x
    BY <2>1 DEF EntriesInv
  <2>3. res'.owner[r] = res.owner[r]
    BY <2>1, <2>2
  <2> QED
    BY <2>2, <2>3 DEF Thread
<1>4. \A r \in Slots \ {0} : Thread(r)' # Pending
  <2> SUFFICES ASSUME NEW r \in Slots \ {0} PROVE res'.owner[r].thread # Pending
    BY DEF Thread
  <2>1. res.owner[r].thread # Pending
    BY DEF EntriesInv, Thread
  <2> QED
    BY <2>1, OwnerAssumption
<1>5. \A r, q \in Slots : Thread(r)' \in Owners /\ Thread(q)' = Thread(r)' => r = q
  BY <1>1 DEF EntriesInv
<1> QED
  BY <1>2, <1>3, <1>4, <1>5 DEF EntriesInv

(* Nobody else's holding changes. *)
LEMMA HeldKept ==
    ASSUME HeldInv, NEW t \in Owners, \A x \in Owners \ {t} : held'[x] = held[x],
           held'[t].n = 0 <=> held'[t].mode = "none",
           \A u \in Threads : pc'[u] \in BusyPCs =>
              IF u = t THEN held'[t].n = 0 ELSE pc[u] \in BusyPCs
    PROVE  HeldInv'
<1>1. \A x \in Owners : held'[x].n = 0 <=> held'[x].mode = "none"
  BY DEF HeldInv
<1>2. ASSUME NEW u \in Threads, pc'[u] \in BusyPCs PROVE held'[u].n = 0
  <2>1. CASE u = t
    BY <1>2, <2>1
  <2>2. CASE u # t
    <3>1. held'[u] = held[u] /\ pc[u] \in BusyPCs
      BY <1>2, <2>2, Sizes
    <3> QED
      BY <3>1 DEF HeldInv
  <2> QED
    BY <2>1, <2>2
<1> QED
  BY <1>1, <1>2 DEF HeldInv

(* What the queries of the other threads know stays true. *)
LEMMA QueryKept ==
    ASSUME QueryInv, NEW t \in Threads,
           \A u \in Threads \ {t} : /\ held'[u] = held[u] /\ batch'[u] = batch[u]
                                    /\ pc'[u] = pc[u] \/ pc'[u] \in BusyPCs
                                    /\ Thread(0)' = u => Thread(0) = u \/ pc'[u] \in BusyPCs,
           Knows(t)'
    PROVE  QueryInv'
<1> SUFFICES ASSUME NEW u \in Threads \ {t} PROVE Knows(u)'
  BY DEF QueryInv
<1>1. Knows(u)
  BY DEF QueryInv
<1> QED
  BY <1>1 DEF Knows, BusyPCs

-----------------------------------------------------------------------------
(* Steps that leave the resource as it is.                                 *)

(* The counts do not change, nor does who holds the resource. *)
LEMMA CountKept ==
    ASSUME CountInv,
           /\ res'.ExclusiveWaiters = res.ExclusiveWaiters
           /\ res'.SharedWaiters = res.SharedWaiters
           /\ res'.ActiveEntries = res.ActiveEntries
           /\ res'.ActiveCount = res.ActiveCount /\ res'.Exclusive = res.Exclusive,
           /\ Sleepers' = Sleepers /\ Sharers' = Sharers /\ Settlers' = Settlers
           /\ Setters' = Setters /\ NewOwners' = NewOwners /\ Giving' = Giving
           /\ Signal' = Signal /\ Tokens' = Tokens /\ Having' = Having,
           ExclusiveHeld' <=> ExclusiveHeld
    PROVE  CountInv' /\ New' = New
<1>1. New' = New
  BY DEF New
<1> QED
  BY <1>1 DEF CountInv

(* t goes on between places that are not counted; it may have allocated   *)
(* the event or the semaphore.                                             *)
LEMMA QuietAlloc ==
    ASSUME ResourceInv, NEW t \in Threads, NEW b \in PCs, pc' = [pc EXCEPT ![t] = b],
           pc[t] \notin Counted, b \notin Counted, UNCHANGED <<res, held>>,
           event' \in {"none", "clear", "set"}, sem' \in Nat, Signal' = Signal, Tokens' = Tokens,
           event' = "none" => event = "none", sem' = NoSemaphore => sem = NoSemaphore,
           batch' \in [Threads -> Nat], \A u \in Threads \ {t} : batch'[u] = batch[u],
           size' \in [Threads -> Nat], b \in BusyPCs => held[t].n = 0, TableInv', Knows(t)'
    PROVE  ResourceInv'
<1>1. Types /\ HeldInv /\ CountInv /\ WakeInv /\ EntriesInv /\ GivenInv /\ QueryInv
  BY DEF ResourceInv
<1>2. Types'
  BY <1>1 DEF Types
<1>3. HeldInv'
  BY <1>1 DEF HeldInv, Types
<1>4. /\ Sleepers' = Sleepers /\ Sharers' = Sharers /\ Settlers' = Settlers
      /\ Setters' = Setters /\ NewOwners' = NewOwners
  BY <1>1, PlainMove DEF Types
<1>5. \A u \in Threads : u # t => pc'[u] = pc[u]
  BY <1>1 DEF Types
<1>6. pc'[t] = b
  BY <1>1 DEF Types
<1>7. Giving' = Giving
  BY <1>5, <1>6, GivingKept DEF Counted
<1>8. Signal' = Signal /\ Tokens' = Tokens /\ Having' = Having /\ ExclusiveHeld' = ExclusiveHeld
  BY DEF Having, Holders, ExclusiveHeld
<1>9. CountInv' /\ New' = New
  BY <1>1, <1>4, <1>7, <1>8, CountKept
<1>10. WakeInv'
  BY <1>1, <1>4, <1>5, <1>6 DEF WakeInv, Counted
<1>11. EntriesInv'
  <2>1. OthersKept(t)
    BY <1>5 DEF OthersKept
  <2>2. \A s \in Slots : Thread(s) = t => Entitled(t, s)'
    <3> SUFFICES ASSUME NEW s \in Slots, Thread(s) = t PROVE Entitled(t, s)'
      OBVIOUS
    <3>1. Entitled(t, s)
      BY <1>1, Sizes DEF EntriesInv
    <3> QED
      BY <3>1 DEF Entitled, Counted
  <2>3. HasEntry(t)' => HasEntry(t)
    BY <1>6 DEF HasEntry, Counted
  <2> QED
    BY <1>1, <2>1, <2>2, <2>3, Sizes, EntriesSame
<1>12. GivenInv'
  BY <1>1, <1>9 DEF GivenInv
<1>13. QueryInv'
  BY <1>1, <1>5, QueryKept DEF Thread
<1> QED
  BY <1>2, <1>3, <1>9, <1>10, <1>11, <1>12, <1>13 DEF ResourceInv

LEMMA Quiet ==
    ASSUME ResourceInv, NEW t \in Threads, NEW b \in PCs, pc' = [pc EXCEPT ![t] = b],
           pc[t] \notin Counted, b \notin Counted, UNCHANGED <<res, held, event, sem>>,
           batch' \in [Threads -> Nat], \A u \in Threads \ {t} : batch'[u] = batch[u],
           size' \in [Threads -> Nat], b \in BusyPCs => held[t].n = 0, TableInv', Knows(t)'
    PROVE  ResourceInv'
<1>1. Signal' = Signal /\ Tokens' = Tokens
  BY DEF Signal, Tokens
<1>2. event' \in {"none", "clear", "set"} /\ sem' \in Nat
  BY DEF ResourceInv, Types
<1> QED
  BY <1>1, <1>2, QuietAlloc

-----------------------------------------------------------------------------
(* Acquiring: the ways out of an attempt.                                  *)

(* What others hold stays the same. *)
OnlyModeOf(t) == \A x \in Owners \ {t} : held'[x].mode = held[x].mode

(* The steps that RWLock has. *)
Allowed ==
    \/ \A o \in Owners : held'[o].mode = held[o].mode
    \/ \E t \in Owners : /\ held[t].mode = "none" /\ ~ExclusiveHeld
                         /\ held'[t].mode = "shared" /\ OnlyModeOf(t)
    \/ \E t \in Owners : /\ \A o \in Owners : held[o].mode = "none"
                         /\ held'[t].mode = "excl" /\ OnlyModeOf(t)
    \/ \E t \in Owners : /\ held[t].mode = "excl" /\ held'[t].mode = "shared"
                         /\ OnlyModeOf(t)
    \/ \E t \in Owners : /\ held[t].mode # "none" /\ held'[t].mode = "none"
                         /\ OnlyModeOf(t)
    \/ \E t, p \in Owners : /\ t # p /\ held[t].mode # "none"
                            /\ held[p].mode \in {"none", "shared"}
                            /\ held'[t].mode = "none" /\ held'[p].mode = held[t].mode
                            /\ \A x \in Owners \ {t, p} : held'[x].mode = held[x].mode

(* Types of what the acquires change. *)
LEMMA HeldStep ==
    ASSUME Types, NEW t \in Threads, NEW mode \in Modes, Succeed(t, mode)
    PROVE  /\ held' \in [Owners -> HeldTypes]
           /\ held'[t] = [mode |-> mode, n |-> held[t].n + 1]
           /\ held[t].n \in Nat /\ held'[t].n = held[t].n + 1 /\ held'[t].mode = mode
           /\ \A x \in Owners \ {t} : held'[x] = held[x]
           /\ pc' = [pc EXCEPT ![t] = "idle"] /\ pc' \in [Threads -> PCs]
           /\ pc'[t] = "idle" /\ \A u \in Threads \ {t} : pc'[u] = pc[u]
<1>1. held[t] \in HeldTypes /\ t \in Owners
  BY Sizes DEF Types
<1>2. held[t].n \in Nat
  BY <1>1 DEF HeldTypes
<1>3. held' = [held EXCEPT ![t] = [mode |-> mode, n |-> held[t].n + 1]]
  BY <1>1 DEF Succeed, Types
<1>4. [mode |-> mode, n |-> held[t].n + 1] \in HeldTypes
  BY <1>2 DEF HeldTypes
<1>5. pc' = [pc EXCEPT ![t] = "idle"] /\ "idle" \in PCs
  BY DEF Succeed, Return, Goto, PCs, FreePCs
<1> QED
  BY <1>1, <1>2, <1>3, <1>4, <1>5 DEF Types

(* A thread that has just succeeded knows nothing yet of its queries. *)
LEMMA IdleKnows == ASSUME NEW t, pc'[t] = "idle" PROVE Knows(t)'
BY DEF Knows

(* Nobody owns the resource, and t takes it. *)
LEMMA TakeInv ==
    ASSUME ResourceInv, NEW t \in Threads, pc[t] \in {"idle", "try"}, NEW ex \in BOOLEAN,
           res.ActiveEntries = 0, Take(t, ex), UNCHANGED <<size, event, sem, batch>>
    PROVE  ResourceInv' /\ Allowed
<1> DEFINE mode == IF ex THEN "excl" ELSE "shared"
<1>1. Types /\ HeldInv /\ CountInv /\ WakeInv /\ EntriesInv /\ GivenInv /\ TableInv /\ QueryInv
  BY DEF ResourceInv
<1>2. t \in Owners /\ 0 \in Slots
  BY Sizes
<1>3. mode \in Modes /\ mode # "none" /\ (mode = "excl" <=> ex)
  BY DEF Modes
<1>4. Succeed(t, mode)
  BY DEF Take
<1> HIDE DEF mode
<1>5. /\ held' \in [Owners -> HeldTypes]
      /\ held[t].n \in Nat /\ held'[t].n = held[t].n + 1 /\ held'[t].mode = mode
      /\ \A x \in Owners \ {t} : held'[x] = held[x]
      /\ pc' = [pc EXCEPT ![t] = "idle"] /\ pc' \in [Threads -> PCs]
      /\ pc'[t] = "idle" /\ \A u \in Threads \ {t} : pc'[u] = pc[u]
  BY <1>1, <1>3, <1>4, HeldStep
<1>6. /\ \A o \in Owners : held[o].n = 0 /\ held[o].mode = "none"
      /\ Having = 0 /\ Tokens = 0 /\ Giving = 0 /\ Settlers = 0
      /\ New = 1 \/ (New = 0 /\ Thread(0) \notin Owners)
  BY Vacant
<1>7. New = 0 /\ Thread(0) \notin Owners
  BY <1>1, <1>6 DEF CountInv
<1>8. /\ res'.ActiveEntries = 1 /\ res'.ActiveCount = 1 /\ res'.Exclusive = ex
      /\ res'.owner = [res.owner EXCEPT ![0] = [thread |-> t, count |-> 1]]
      /\ res'.TableSize = res.TableSize /\ res'.ExclusiveWaiters = res.ExclusiveWaiters
      /\ res'.SharedWaiters = res.SharedWaiters /\ res' \in ResTypes
  BY <1>1, <1>2 DEF Take, Types, ResTypes, EntryTypes
<1>9. /\ res'.owner[0] = [thread |-> t, count |-> 1]
      /\ \A r \in Slots : r # 0 => res'.owner[r] = res.owner[r]
  BY <1>1, <1>2, <1>8 DEF Types, ResTypes
<1>10. Types'
  BY <1>1, <1>5, <1>8 DEF Types
<1>11. held'[t].n = 1
  BY <1>2, <1>5, <1>6
<1>12. HeldInv'
  <2>1. pc'[t] \notin BusyPCs
    BY <1>5 DEF BusyPCs
  <2> QED
    BY <1>1, <1>2, <1>3, <1>5, <1>11, <2>1, HeldKept
<1>13. /\ Sleepers' = Sleepers /\ Sharers' = Sharers /\ Settlers' = Settlers
       /\ Setters' = Setters /\ NewOwners' = NewOwners
  BY <1>1, <1>5, PlainMove DEF Types, Counted
<1>14. Giving' = Giving /\ Signal' = Signal /\ Tokens' = Tokens
  BY <1>5, GivingKept DEF Signal, Tokens
<1>15. Having' = 1
  BY <1>2, <1>5, <1>6, <1>11, HavingMove
<1>16. New' = 0
  BY <1>7, <1>13, <1>14 DEF New
<1>17. ExclusiveHeld' <=> ex
  BY <1>2, <1>3, <1>5, <1>6 DEF ExclusiveHeld
<1>18. CountInv'
  BY <1>1, <1>6, <1>7, <1>8, <1>13, <1>14, <1>15, <1>16, <1>17 DEF CountInv
<1>19. WakeInv'
  BY <1>1, <1>5, <1>13 DEF WakeInv
<1>20. EntriesInv'
  <2>1. OthersKept(t)
    BY <1>5 DEF OthersKept
  <2>2. Entitled(t, 0)'
    BY <1>9, <1>11 DEF Entitled
  <2>3. \A r \in Slots : Thread(r) # t
    BY <1>1, <1>2, <1>6 DEF EntriesInv, Entitled
  <2> QED
    BY <1>1, <1>2, <1>7, <1>8, <1>9, <2>1, <2>2, <2>3, EntryTaken
<1>21. GivenInv'
  BY <1>16 DEF GivenInv
<1>22. TableInv'
  BY <1>1, <1>5, <1>8 DEF TableInv
<1>23. QueryInv'
  BY <1>1, <1>5, <1>9, Sizes, IdleKnows, QueryKept DEF Thread
<1>24. Allowed
  <2>1. ~ExclusiveHeld /\ held[t].mode = "none" /\ OnlyModeOf(t)
    BY <1>2, <1>5, <1>6 DEF ExclusiveHeld, OnlyModeOf
  <2>2. CASE ex
    BY <1>2, <1>3, <1>5, <1>6, <2>1, <2>2 DEF Allowed
  <2>3. CASE ~ex
    <3>1. held'[t].mode = "shared"
      BY <1>5, <2>3 DEF mode
    <3> QED
      BY <1>2, <2>1, <3>1 DEF Allowed
  <2> QED
    BY <2>2, <2>3
<1> QED
  BY <1>10, <1>12, <1>18, <1>19, <1>20, <1>21, <1>22, <1>23, <1>24 DEF ResourceInv

(* t, who has the entry s, acquires the resource once more. *)
LEMMA RecurseInv ==
    ASSUME ResourceInv, NEW t \in Threads, pc[t] \in {"idle", "try"}, NEW s \in Slots,
           Thread(s) = t, Recurse(t, s), UNCHANGED <<size, event, sem, batch>>
    PROVE  ResourceInv' /\ Allowed
<1> DEFINE mode == held[t].mode
<1>1. Types /\ HeldInv /\ CountInv /\ WakeInv /\ EntriesInv /\ GivenInv /\ TableInv /\ QueryInv
  BY DEF ResourceInv
<1>2. t \in Owners /\ 0 \in Slots
  BY Sizes
<1>3. mode \in Modes
  BY <1>1, <1>2 DEF Types, HeldTypes
<1>4. Succeed(t, mode)
  BY DEF Recurse
<1> HIDE DEF mode
<1>5. /\ held' \in [Owners -> HeldTypes]
      /\ held[t].n \in Nat /\ held'[t].n = held[t].n + 1 /\ held'[t].mode = mode
      /\ \A x \in Owners \ {t} : held'[x] = held[x]
      /\ pc' = [pc EXCEPT ![t] = "idle"] /\ pc' \in [Threads -> PCs]
      /\ pc'[t] = "idle" /\ \A u \in Threads \ {t} : pc'[u] = pc[u]
  BY <1>1, <1>3, <1>4, HeldStep
<1>6. /\ held[t].n > 0 /\ res.owner[s].count = held[t].n
      /\ mode = "excl" => s = 0
  <2>1. Entitled(t, s)
    BY <1>1, <1>2 DEF EntriesInv
  <2> QED
    BY <2>1 DEF Entitled, mode
<1>7. /\ res'.ActiveEntries = res.ActiveEntries /\ res'.ActiveCount = res.ActiveCount
      /\ res'.Exclusive = res.Exclusive
      /\ res'.owner = [res.owner EXCEPT ![s].count = res.owner[s].count + 1]
      /\ res'.TableSize = res.TableSize /\ res'.ExclusiveWaiters = res.ExclusiveWaiters
      /\ res'.SharedWaiters = res.SharedWaiters /\ res' \in ResTypes
  BY <1>1, <1>2 DEF Recurse, Types, ResTypes, EntryTypes
<1>8. /\ res'.owner[s].count = res.owner[s].count + 1
      /\ res'.owner[s].thread = res.owner[s].thread
      /\ \A r \in Slots : r # s => res'.owner[r] = res.owner[r]
  BY <1>1, <1>2, <1>7 DEF Types, ResTypes, EntryTypes
<1>9. Types'
  BY <1>1, <1>5, <1>7 DEF Types
<1>10. held'[t].n > 0 /\ held'[t].n # 0
  BY <1>5
<1>11. HeldInv'
  <2>1. mode # "none"
    BY <1>1, <1>2, <1>5, <1>6 DEF HeldInv, mode
  <2>2. pc'[t] \notin BusyPCs
    BY <1>5 DEF BusyPCs
  <2> QED
    BY <1>1, <1>2, <1>5, <1>10, <2>1, <2>2, HeldKept
<1>12. /\ Sleepers' = Sleepers /\ Sharers' = Sharers /\ Settlers' = Settlers
       /\ Setters' = Setters /\ NewOwners' = NewOwners
  BY <1>1, <1>5, PlainMove DEF Types, Counted
<1>13. Giving' = Giving /\ Signal' = Signal /\ Tokens' = Tokens
  BY <1>5, GivingKept DEF Signal, Tokens
<1>14. Having' = Having
  BY <1>2, <1>5, <1>6, <1>10, HavingMove
<1>15. ExclusiveHeld' <=> ExclusiveHeld
  BY <1>2, <1>5 DEF ExclusiveHeld, mode
<1>16. CountInv' /\ New' = New
  BY <1>1, <1>7, <1>12, <1>13, <1>14, <1>15, CountKept
<1>17. WakeInv'
  BY <1>1, <1>5, <1>12 DEF WakeInv
<1>18. EntriesInv'
  <2>1. OthersKept(t)
    BY <1>5 DEF OthersKept
  <2>2. \A r \in Slots : Thread(r) = t => r = s
    BY <1>1, <1>2 DEF EntriesInv
  <2>3. Entitled(t, s)'
    BY <1>5, <1>6, <1>8, <1>10 DEF Entitled
  <2>4. HasEntry(t)
    BY <1>6 DEF HasEntry
  <2> QED
    BY <1>1, <1>2, <1>7, <1>8, <2>1, <2>2, <2>3, <2>4, EntriesSame
<1>19. New # 1
  BY <1>2, <1>6, Vacant
<1>20. GivenInv'
  BY <1>16, <1>19 DEF GivenInv
<1>21. TableInv'
  BY <1>1, <1>5, <1>7 DEF TableInv
<1>22. res'.owner[0].thread = res.owner[0].thread
  BY <1>2, <1>8
<1>23. QueryInv'
  BY <1>1, <1>5, <1>22, Sizes, IdleKnows, QueryKept DEF Thread
<1>24. Allowed
  BY <1>2, <1>5 DEF Allowed, mode
<1> QED
  BY <1>9, <1>11, <1>16, <1>17, <1>18, <1>20, <1>21, <1>23, <1>24 DEF ResourceInv

(* t takes an entry that is free, and shares the resource. *)
LEMMA JoinInv ==
    ASSUME ResourceInv, NEW t \in Threads, pc[t] \in {"idle", "try"}, NEW s \in Slots,
           s = 0 \/ s < res.TableSize, Thread(s) = NoOwner, SlotsOf(t) = {},
           ~res.Exclusive, res.ActiveEntries # 0,
           Join(t, s), UNCHANGED <<size, event, sem, batch>>
    PROVE  ResourceInv' /\ Allowed
<1>1. Types /\ HeldInv /\ CountInv /\ WakeInv /\ EntriesInv /\ GivenInv /\ TableInv /\ QueryInv
  BY DEF ResourceInv
<1>2. t \in Owners /\ 0 \in Slots
  BY Sizes
<1>3. "shared" \in Modes /\ Succeed(t, "shared")
  BY DEF Modes, Join
<1>4. /\ held' \in [Owners -> HeldTypes]
      /\ held[t].n \in Nat /\ held'[t].n = held[t].n + 1 /\ held'[t].mode = "shared"
      /\ \A x \in Owners \ {t} : held'[x] = held[x]
      /\ pc' = [pc EXCEPT ![t] = "idle"] /\ pc' \in [Threads -> PCs]
      /\ pc'[t] = "idle" /\ \A u \in Threads \ {t} : pc'[u] = pc[u]
  BY <1>1, <1>3, HeldStep
<1>5. \A r \in Slots : Thread(r) # t
  BY <1>2, OwnEntry
<1>6. held[t].n = 0 /\ held[t].mode = "none" /\ held'[t].n = 1
  <2>1. ~HasEntry(t)
    BY <1>2, OwnEntry
  <2>2. held[t].n = 0
    BY <1>4, <2>1 DEF HasEntry
  <2> QED
    BY <1>1, <1>2, <1>4, <2>2 DEF HeldInv
<1>7. /\ res'.ActiveEntries = res.ActiveEntries + 1 /\ res'.ActiveCount = res.ActiveCount
      /\ res'.Exclusive = res.Exclusive
      /\ res'.owner = [res.owner EXCEPT ![s] = [thread |-> t, count |-> 1]]
      /\ res'.TableSize = res.TableSize /\ res'.ExclusiveWaiters = res.ExclusiveWaiters
      /\ res'.SharedWaiters = res.SharedWaiters /\ res' \in ResTypes
  <2>1. res \in ResTypes /\ [thread |-> t, count |-> 1] \in EntryTypes
    BY <1>1, <1>2 DEF Types, EntryTypes
  <2>2. [res.owner EXCEPT ![s] = [thread |-> t, count |-> 1]] \in [Slots -> EntryTypes]
    BY <2>1 DEF ResTypes
  <2> DEFINE X == [res.owner EXCEPT ![s] = [thread |-> t, count |-> 1]]
  <2>3. res' = [res EXCEPT !.owner = X, !.ActiveEntries = res.ActiveEntries + 1]
    BY <2>1 DEF Join, ResTypes
  <2>4. X \in [Slots -> EntryTypes]
    BY <2>2
  <2> HIDE DEF X
  <2>5. /\ res'.ActiveEntries = res.ActiveEntries + 1 /\ res'.ActiveCount = res.ActiveCount
        /\ res'.Exclusive = res.Exclusive /\ res'.owner = X
        /\ res'.TableSize = res.TableSize /\ res'.ExclusiveWaiters = res.ExclusiveWaiters
        /\ res'.SharedWaiters = res.SharedWaiters
    BY <2>1, <2>3, <2>4 DEF ResTypes
  <2>6. res.ActiveEntries + 1 \in Nat
    BY <2>1 DEF ResTypes
  <2>7. res' \in ResTypes
    BY <2>1, <2>3, <2>4, <2>6 DEF ResTypes
  <2> QED
    BY <2>5, <2>7 DEF X
<1>8. /\ res'.owner[s] = [thread |-> t, count |-> 1]
      /\ \A r \in Slots : r # s => res'.owner[r] = res.owner[r]
  BY <1>1, <1>7 DEF Types, ResTypes
<1>9. Types'
  BY <1>1, <1>4, <1>7 DEF Types
<1>10. HeldInv'
  <2>1. pc'[t] \notin BusyPCs
    BY <1>4 DEF BusyPCs
  <2> QED
    BY <1>1, <1>2, <1>4, <1>6, <2>1, HeldKept
<1>11. /\ Sleepers' = Sleepers /\ Sharers' = Sharers /\ Settlers' = Settlers
       /\ Setters' = Setters /\ NewOwners' = NewOwners
  BY <1>1, <1>4, PlainMove DEF Types, Counted
<1>12. Giving' = Giving /\ Signal' = Signal /\ Tokens' = Tokens
  BY <1>4, GivingKept DEF Signal, Tokens
<1>13. Having' = Having + 1
  BY <1>2, <1>4, <1>6, HavingMove
<1>14. New = 0 /\ ~ExclusiveHeld
  BY Together
<1>15. New' = 0
  BY <1>11, <1>12, <1>14 DEF New
<1>16. ~ExclusiveHeld'
  BY <1>2, <1>4, <1>14 DEF ExclusiveHeld
<1>17. /\ Having \in Nat /\ Tokens \in Nat /\ Giving \in Nat /\ Settlers \in Nat
       /\ res.ActiveEntries \in Nat
  BY <1>1, Numbers DEF Types, ResTypes
<1>18. CountInv'
  BY <1>1, <1>7, <1>11, <1>12, <1>13, <1>14, <1>15, <1>16, <1>17 DEF CountInv
<1>19. WakeInv'
  BY <1>1, <1>4, <1>11 DEF WakeInv
<1>20. EntriesInv'
  <2>1. OthersKept(t)
    BY <1>4 DEF OthersKept
  <2>2. Entitled(t, s)'
    BY <1>4, <1>6, <1>8 DEF Entitled
  <2>3. NoOwner \notin Owners
    BY OwnerAssumption
  <2> QED
    BY <1>1, <1>2, <1>5, <1>7, <1>8, <2>1, <2>2, <2>3, EntryTaken
<1>21. GivenInv'
  BY <1>15 DEF GivenInv
<1>22. TableInv'
  BY <1>1, <1>4, <1>7 DEF TableInv
<1>23. res'.owner[0].thread = res.owner[0].thread \/ res'.owner[0].thread = t
  BY <1>2, <1>8
<1>24. QueryInv'
  BY <1>1, <1>4, <1>23, Sizes, IdleKnows, QueryKept DEF Thread
<1>25. Allowed
  BY <1>2, <1>4, <1>6, <1>14 DEF Allowed, OnlyModeOf
<1> QED
  BY <1>9, <1>10, <1>18, <1>19, <1>20, <1>21, <1>22, <1>24, <1>25 DEF ResourceInv

(* A call that ends, or goes on without the lock, without an effect. *)
LEMMA FailInv ==
    ASSUME ResourceInv, NEW t \in Threads, pc[t] \in {"idle", "try"},
           Fail(t), UNCHANGED <<size, event, sem, batch>>
    PROVE  ResourceInv'
<1>1. pc' = [pc EXCEPT ![t] = "idle"] /\ UNCHANGED <<res, held>>
  BY DEF Fail, Return, Goto
<1>2. Types /\ TableInv
  BY DEF ResourceInv
<1>3. pc'[t] = "idle" /\ \A u \in Threads \ {t} : pc'[u] = pc[u]
  BY <1>1, <1>2 DEF Types
<1>4. TableInv'
  BY <1>1, <1>2, <1>3 DEF TableInv
<1>5. Knows(t)'
  BY <1>3, IdleKnows
<1>6. "idle" \in PCs /\ "idle" \notin Counted /\ "idle" \notin BusyPCs /\ pc[t] \notin Counted
  BY DEF PCs, FreePCs, Counted, BusyPCs
<1> QED
  BY <1>1, <1>2, <1>4, <1>5, <1>6, Quiet DEF Types

LEMMA LeaveInv ==
    ASSUME ResourceInv, NEW t \in Threads, pc[t] \in {"idle", "try"}, NEW c,
           NEW l \in {"allocEvent", "allocSemaphore"}, Leave(t, c, l), held[t].n = 0,
           UNCHANGED <<res, held, size, event, sem, batch>>
    PROVE  ResourceInv'
<1>1. pc' = [pc EXCEPT ![t] = l]
  BY DEF Leave, Goto
<1>2. Types /\ TableInv
  BY DEF ResourceInv
<1>3. pc'[t] = l /\ \A u \in Threads \ {t} : pc'[u] = pc[u]
  BY <1>1, <1>2 DEF Types
<1>4. TableInv'
  BY <1>2, <1>3 DEF TableInv
<1>5. Knows(t)'
  BY <1>3 DEF Knows
<1>6. l \in PCs /\ l \notin Counted /\ pc[t] \notin Counted
  BY DEF PCs, BusyPCs, Counted
<1> QED
  BY <1>1, <1>2, <1>4, <1>5, <1>6, Quiet DEF Types

(* The table is full. *)
LEMMA ExpandInv ==
    ASSUME ResourceInv, NEW t \in Threads, pc[t] \in {"idle", "try"}, NEW c,
           FreeSlots = {}, Expand(t, c, "expand"), held[t].n = 0,
           UNCHANGED <<event, sem, batch>>
    PROVE  ResourceInv'
<1>1. /\ pc' = [pc EXCEPT ![t] = "expand"] /\ UNCHANGED <<res, held>>
      /\ size' = [size EXCEPT ![t] = res.TableSize]
  BY DEF Expand, Leave, Goto
<1>2. Types /\ TableInv
  BY DEF ResourceInv
<1>3. pc'[t] = "expand" /\ \A u \in Threads \ {t} : pc'[u] = pc[u]
  BY <1>1, <1>2 DEF Types
<1>4. /\ size'[t] = res.TableSize /\ \A u \in Threads \ {t} : size'[u] = size[u]
      /\ size' \in [Threads -> Nat]
  BY <1>1, <1>2 DEF Types, ResTypes
<1>5. res.TableSize <= Cardinality(Owners) + 1
  BY TableFull
<1>6. TableInv'
  BY <1>1, <1>2, <1>3, <1>4, <1>5 DEF TableInv
<1>7. Knows(t)'
  BY <1>3 DEF Knows
<1>8. "expand" \in PCs /\ "expand" \notin Counted /\ pc[t] \notin Counted
  BY DEF PCs, BusyPCs, Counted
<1> QED
  BY <1>1, <1>2, <1>4, <1>6, <1>7, <1>8, Quiet DEF Types

(* How the sums change when t goes from one place to another. *)
One(l, L) == IF l \in L THEN 1 ELSE 0

LEMMA Move ==
    ASSUME Types, NEW t \in Threads, NEW b, pc' = [pc EXCEPT ![t] = b]
    PROVE  /\ Sleepers' = Sleepers + One(b, {"waitExclusive"}) - One(pc[t], {"waitExclusive"})
           /\ Sharers' = Sharers + One(b, {"waitShared", "waitEntry"})
                            - One(pc[t], {"waitShared", "waitEntry"})
           /\ Settlers' = Settlers + One(b, {"settle", "expandSettle"})
                             - One(pc[t], {"settle", "expandSettle"})
           /\ Setters' = Setters + One(b, {"setEvent"}) - One(pc[t], {"setEvent"})
           /\ NewOwners' = NewOwners + One(b, {"own"}) - One(pc[t], {"own"})
           /\ pc'[t] = b /\ \A u \in Threads \ {t} : pc'[u] = pc[u]
<1>1. ASSUME NEW L
      PROVE  Cardinality(In(L)') = Cardinality(In(L)) + One(b, L) - One(pc[t], L)
  <2> DEFINE p == Cardinality(In(L)')
             n == Cardinality(In(L))
  <2>1. /\ n \in Nat /\ p \in Nat
        /\ (pc[t] \in L <=> b \in L) => p = n
        /\ pc[t] \in L /\ b \notin L => p = n - 1
        /\ pc[t] \notin L /\ b \in L => p = n + 1
    BY InMove DEF Types
  <2> HIDE DEF p, n
  <2>2. p = n + One(b, L) - One(pc[t], L)
    BY <2>1 DEF One
  <2> QED
    BY <2>2 DEF p, n
<1>2. pc'[t] = b /\ \A u \in Threads \ {t} : pc'[u] = pc[u]
  BY DEF Types
<1> QED
  BY <1>1, <1>2 DEF Sleepers, Sharers, Settlers, Setters, NewOwners

(* From a place that is not counted, and to one. *)
LEMMA MoveIn ==
    ASSUME Types, WakeInv, NEW t \in Threads, NEW b, pc' = [pc EXCEPT ![t] = b],
           pc[t] \notin Counted
    PROVE  /\ Sleepers' = IF b = "waitExclusive" THEN Sleepers + 1 ELSE Sleepers
           /\ Sharers' = IF b \in {"waitShared", "waitEntry"} THEN Sharers + 1 ELSE Sharers
           /\ Settlers' = IF b \in {"settle", "expandSettle"} THEN Settlers + 1 ELSE Settlers
           /\ Setters' = IF b = "setEvent" THEN Setters + 1 ELSE Setters
           /\ NewOwners' = IF b = "own" THEN NewOwners + 1 ELSE NewOwners
           /\ pc'[t] = b /\ \A u \in Threads \ {t} : pc'[u] = pc[u]
<1>1. \A L \in SUBSET Counted : One(pc[t], L) = 0
  BY DEF One
<1>2. /\ One(pc[t], {"waitExclusive"}) = 0 /\ One(pc[t], {"waitShared", "waitEntry"}) = 0
      /\ One(pc[t], {"settle", "expandSettle"}) = 0 /\ One(pc[t], {"setEvent"}) = 0
      /\ One(pc[t], {"own"}) = 0
  BY <1>1 DEF Counted
<1>3. /\ Sleepers \in Nat /\ Sharers \in Nat /\ Settlers \in Nat /\ Setters \in Nat
      /\ NewOwners \in Nat
  BY Numbers
<1>4. /\ Sleepers' = Sleepers + One(b, {"waitExclusive"}) - 0
      /\ Sharers' = Sharers + One(b, {"waitShared", "waitEntry"}) - 0
      /\ Settlers' = Settlers + One(b, {"settle", "expandSettle"}) - 0
      /\ Setters' = Setters + One(b, {"setEvent"}) - 0
      /\ NewOwners' = NewOwners + One(b, {"own"}) - 0
      /\ pc'[t] = b /\ \A u \in Threads \ {t} : pc'[u] = pc[u]
  BY <1>2, Move
<1> QED
  BY <1>3, <1>4 DEF One

LEMMA MoveOut ==
    ASSUME Types, WakeInv, NEW t \in Threads, NEW b, pc' = [pc EXCEPT ![t] = b],
           b \notin Counted
    PROVE  /\ Sleepers' = IF pc[t] = "waitExclusive" THEN Sleepers - 1 ELSE Sleepers
           /\ Sharers' = IF pc[t] \in {"waitShared", "waitEntry"} THEN Sharers - 1 ELSE Sharers
           /\ Settlers' = IF pc[t] \in {"settle", "expandSettle"} THEN Settlers - 1
                          ELSE Settlers
           /\ Setters' = IF pc[t] = "setEvent" THEN Setters - 1 ELSE Setters
           /\ NewOwners' = IF pc[t] = "own" THEN NewOwners - 1 ELSE NewOwners
           /\ pc'[t] = b /\ \A u \in Threads \ {t} : pc'[u] = pc[u]
<1>1. \A L \in SUBSET Counted : One(b, L) = 0
  BY DEF One
<1>2. /\ One(b, {"waitExclusive"}) = 0 /\ One(b, {"waitShared", "waitEntry"}) = 0
      /\ One(b, {"settle", "expandSettle"}) = 0 /\ One(b, {"setEvent"}) = 0
      /\ One(b, {"own"}) = 0
  BY <1>1 DEF Counted
<1>3. /\ Sleepers \in Nat /\ Sharers \in Nat /\ Settlers \in Nat /\ Setters \in Nat
      /\ NewOwners \in Nat
  BY Numbers
<1>4. /\ Sleepers' = Sleepers + 0 - One(pc[t], {"waitExclusive"})
      /\ Sharers' = Sharers + 0 - One(pc[t], {"waitShared", "waitEntry"})
      /\ Settlers' = Settlers + 0 - One(pc[t], {"settle", "expandSettle"})
      /\ Setters' = Setters + 0 - One(pc[t], {"setEvent"})
      /\ NewOwners' = NewOwners + 0 - One(pc[t], {"own"})
      /\ pc'[t] = b /\ \A u \in Threads \ {t} : pc'[u] = pc[u]
  <2>1. /\ Sleepers' = Sleepers + One(b, {"waitExclusive"}) - One(pc[t], {"waitExclusive"})
        /\ Sharers' = Sharers + One(b, {"waitShared", "waitEntry"})
                         - One(pc[t], {"waitShared", "waitEntry"})
        /\ Settlers' = Settlers + One(b, {"settle", "expandSettle"})
                          - One(pc[t], {"settle", "expandSettle"})
        /\ Setters' = Setters + One(b, {"setEvent"}) - One(pc[t], {"setEvent"})
        /\ NewOwners' = NewOwners + One(b, {"own"}) - One(pc[t], {"own"})
        /\ pc'[t] = b /\ \A u \in Threads \ {t} : pc'[u] = pc[u]
    BY Move
  <2> QED
    BY <1>2, <2>1, Zenon
<1> QED
  BY <1>3, <1>4 DEF One

(* t waits to own the resource. *)
LEMMA WaitExclusiveInv ==
    ASSUME ResourceInv, NEW t \in Threads, pc[t] \in {"idle", "try"}, NEW c,
           event # "none", res.ActiveEntries # 0, held[t].n = 0,
           res' = [res EXCEPT !.ExclusiveWaiters = @ + 1],
           Leave(t, c, "waitExclusive"), UNCHANGED <<held, size, event, sem, batch>>
    PROVE  ResourceInv'
<1>1. Types /\ HeldInv /\ CountInv /\ WakeInv /\ EntriesInv /\ GivenInv /\ TableInv /\ QueryInv
  BY DEF ResourceInv
<1>2. t \in Owners /\ 0 \in Slots
  BY Sizes
<1>3. pc' = [pc EXCEPT ![t] = "waitExclusive"]
  BY DEF Leave, Goto
<1>4. /\ Sleepers' = Sleepers + 1 /\ Sharers' = Sharers /\ Settlers' = Settlers
      /\ Setters' = Setters /\ NewOwners' = NewOwners
      /\ pc'[t] = "waitExclusive" /\ \A u \in Threads \ {t} : pc'[u] = pc[u]
  <2>1. pc[t] \notin Counted
    BY DEF Counted
  <2> QED
    BY <1>1, <1>3, <2>1, MoveIn
<1>5. /\ res'.ActiveEntries = res.ActiveEntries /\ res'.ActiveCount = res.ActiveCount
      /\ res'.Exclusive = res.Exclusive /\ res'.owner = res.owner
      /\ res'.TableSize = res.TableSize /\ res'.ExclusiveWaiters = res.ExclusiveWaiters + 1
      /\ res'.SharedWaiters = res.SharedWaiters
  BY <1>1 DEF Types, ResTypes
<1>6. res.ExclusiveWaiters \in Nat /\ res.SharedWaiters \in Nat /\ res' \in ResTypes
  BY <1>1 DEF Types, ResTypes
<1>7. Types'
  <2>1. pc' \in [Threads -> PCs]
    BY <1>1, <1>3 DEF Types, PCs, BusyPCs
  <2> QED
    BY <1>1, <1>6, <2>1 DEF Types
<1>8. HeldInv'
  BY <1>1, <1>2, <1>4, HeldKept DEF HeldInv
<1>9. Giving' = Giving /\ Signal' = Signal /\ Tokens' = Tokens
  BY <1>4, GivingKept DEF Signal, Tokens
<1>10. Having' = Having /\ ExclusiveHeld' = ExclusiveHeld
  BY DEF Having, Holders, ExclusiveHeld
<1>11. New' = New
  BY <1>4, <1>9 DEF New
<1>12. Sleepers \in Nat /\ Signal \in Nat /\ Setters \in Nat
  BY <1>1, Numbers
<1>13. CountInv'
  BY <1>1, <1>4, <1>5, <1>6, <1>9, <1>10, <1>11, <1>12 DEF CountInv
<1>14. WakeInv'
  BY <1>1, <1>4 DEF WakeInv
<1>15. EntriesInv'
  <2>1. OthersKept(t)
    BY <1>4 DEF OthersKept
  <2>2. \A s \in Slots : Thread(s) # t
    BY <1>1, <1>2 DEF EntriesInv, Entitled
  <2>3. ~HasEntry(t)'
    BY <1>4 DEF HasEntry
  <2> QED
    BY <1>1, <1>2, <1>5, <2>1, <2>2, <2>3, EntriesSame
<1>16. GivenInv'
  BY <1>1, <1>5, <1>11 DEF GivenInv
<1>17. TableInv'
  BY <1>1, <1>4, <1>5 DEF TableInv
<1>18. QueryInv'
  <2>1. Knows(t)'
    BY <1>4 DEF Knows
  <2> QED
    BY <1>1, <1>4, <1>5, <2>1, Sizes, QueryKept DEF Thread
<1> QED
  BY <1>7, <1>8, <1>13, <1>14, <1>15, <1>16, <1>17, <1>18 DEF ResourceInv

(* t waits to share the resource, without an entry. *)
LEMMA WaitEntryInv ==
    ASSUME ResourceInv, NEW t \in Threads, pc[t] \in {"idle", "try"}, NEW c,
           sem # NoSemaphore, res.ActiveEntries # 0, res.ExclusiveWaiters > 0, held[t].n = 0,
           res' = [res EXCEPT !.SharedWaiters = @ + 1],
           Leave(t, c, "waitEntry"), UNCHANGED <<held, size, event, sem, batch>>
    PROVE  ResourceInv'
<1>1. Types /\ HeldInv /\ CountInv /\ WakeInv /\ EntriesInv /\ GivenInv /\ TableInv /\ QueryInv
  BY DEF ResourceInv
<1>2. t \in Owners /\ 0 \in Slots
  BY Sizes
<1>3. pc' = [pc EXCEPT ![t] = "waitEntry"]
  BY DEF Leave, Goto
<1>4. /\ Sleepers' = Sleepers /\ Sharers' = Sharers + 1 /\ Settlers' = Settlers
      /\ Setters' = Setters /\ NewOwners' = NewOwners
      /\ pc'[t] = "waitEntry" /\ \A u \in Threads \ {t} : pc'[u] = pc[u]
  <2>1. pc[t] \notin Counted
    BY DEF Counted
  <2> QED
    BY <1>1, <1>3, <2>1, MoveIn
<1>5. /\ res'.ActiveEntries = res.ActiveEntries /\ res'.ActiveCount = res.ActiveCount
      /\ res'.Exclusive = res.Exclusive /\ res'.owner = res.owner
      /\ res'.TableSize = res.TableSize /\ res'.ExclusiveWaiters = res.ExclusiveWaiters
      /\ res'.SharedWaiters = res.SharedWaiters + 1
  BY <1>1 DEF Types, ResTypes
<1>6. res.ExclusiveWaiters \in Nat /\ res.SharedWaiters \in Nat /\ res' \in ResTypes
  BY <1>1 DEF Types, ResTypes
<1>7. Types'
  <2>1. pc' \in [Threads -> PCs]
    BY <1>1, <1>3 DEF Types, PCs, BusyPCs
  <2> QED
    BY <1>1, <1>6, <2>1 DEF Types
<1>8. HeldInv'
  BY <1>1, <1>2, <1>4, HeldKept DEF HeldInv
<1>9. Giving' = Giving /\ Signal' = Signal /\ Tokens' = Tokens
  BY <1>4, GivingKept DEF Signal, Tokens
<1>10. Having' = Having /\ ExclusiveHeld' = ExclusiveHeld
  BY DEF Having, Holders, ExclusiveHeld
<1>11. New' = New
  BY <1>4, <1>9 DEF New
<1>12. Sharers \in Nat /\ Tokens \in Nat /\ Giving \in Nat
  BY <1>1, Numbers
<1>13. CountInv'
  BY <1>1, <1>4, <1>5, <1>6, <1>9, <1>10, <1>11, <1>12 DEF CountInv
<1>14. WakeInv'
  BY <1>1, <1>4 DEF WakeInv
<1>15. EntriesInv'
  <2>1. OthersKept(t)
    BY <1>4 DEF OthersKept
  <2>2. \A s \in Slots : Thread(s) # t
    BY <1>1, <1>2 DEF EntriesInv, Entitled
  <2>3. ~HasEntry(t)'
    BY <1>4 DEF HasEntry
  <2> QED
    BY <1>1, <1>2, <1>5, <2>1, <2>2, <2>3, EntriesSame
<1>16. GivenInv'
  BY <1>1, <1>5, <1>11 DEF GivenInv
<1>17. TableInv'
  BY <1>1, <1>4, <1>5 DEF TableInv
<1>18. QueryInv'
  <2>1. Knows(t)'
    BY <1>4 DEF Knows
  <2> QED
    BY <1>1, <1>4, <1>5, <2>1, Sizes, QueryKept DEF Thread
<1> QED
  BY <1>7, <1>8, <1>13, <1>14, <1>15, <1>16, <1>17, <1>18 DEF ResourceInv

(* t waits to share the resource, in the entry s. *)
LEMMA WaitSharedInv ==
    ASSUME ResourceInv, NEW t \in Threads, pc[t] \in {"idle", "try"}, NEW c,
           NEW s \in FreeSlots, sem # NoSemaphore, res.ActiveEntries # 0,
           res.Exclusive \/ res.ExclusiveWaiters > 0, held[t].n = 0,
           res' = [res EXCEPT !.owner[s] = [thread |-> t, count |-> 1], !.SharedWaiters = @ + 1],
           Leave(t, c, "waitShared"), UNCHANGED <<held, size, event, sem, batch>>
    PROVE  ResourceInv'
<1>1. Types /\ HeldInv /\ CountInv /\ WakeInv /\ EntriesInv /\ GivenInv /\ TableInv /\ QueryInv
  BY DEF ResourceInv
<1>2. /\ t \in Owners /\ 0 \in Slots /\ s \in Slots /\ s # 0 /\ s < res.TableSize
      /\ Thread(s) = NoOwner /\ NoOwner \notin Owners
  BY Sizes, FreeEntries
<1>3. pc' = [pc EXCEPT ![t] = "waitShared"]
  BY DEF Leave, Goto
<1>4. /\ Sleepers' = Sleepers /\ Sharers' = Sharers + 1 /\ Settlers' = Settlers
      /\ Setters' = Setters /\ NewOwners' = NewOwners
      /\ pc'[t] = "waitShared" /\ \A u \in Threads \ {t} : pc'[u] = pc[u]
  <2>1. pc[t] \notin Counted
    BY DEF Counted
  <2> QED
    BY <1>1, <1>3, <2>1, MoveIn
<1> DEFINE X == [res.owner EXCEPT ![s] = [thread |-> t, count |-> 1]]
<1>5. /\ X \in [Slots -> EntryTypes] /\ X[s] = [thread |-> t, count |-> 1]
      /\ \A r \in Slots : r # s => X[r] = res.owner[r]
  <2>1. res.owner \in [Slots -> EntryTypes] /\ [thread |-> t, count |-> 1] \in EntryTypes
    BY <1>1, <1>2 DEF Types, ResTypes, EntryTypes
  <2> QED
    BY <1>2, <2>1
<1>6. res' = [res EXCEPT !.owner = X, !.SharedWaiters = res.SharedWaiters + 1]
  BY <1>1 DEF Types, ResTypes
<1> HIDE DEF X
<1>7. /\ res'.ActiveEntries = res.ActiveEntries /\ res'.ActiveCount = res.ActiveCount
      /\ res'.Exclusive = res.Exclusive /\ res'.owner = X
      /\ res'.TableSize = res.TableSize /\ res'.ExclusiveWaiters = res.ExclusiveWaiters
      /\ res'.SharedWaiters = res.SharedWaiters + 1
  BY <1>1, <1>6 DEF Types, ResTypes
<1>8. res.ExclusiveWaiters \in Nat /\ res.SharedWaiters \in Nat
  BY <1>1 DEF Types, ResTypes
<1>9. Types'
  <2>1. pc' \in [Threads -> PCs]
    BY <1>1, <1>3 DEF Types, PCs, BusyPCs
  <2>2. res.SharedWaiters + 1 \in Nat
    BY <1>8
  <2>3. res' \in ResTypes
    BY <1>1, <1>5, <1>6, <2>2 DEF Types, ResTypes
  <2> QED
    BY <1>1, <2>1, <2>3 DEF Types
<1>10. HeldInv'
  BY <1>1, <1>2, <1>4, HeldKept DEF HeldInv
<1>11. Giving' = Giving /\ Signal' = Signal /\ Tokens' = Tokens
  BY <1>4, GivingKept DEF Signal, Tokens
<1>12. Having' = Having /\ ExclusiveHeld' = ExclusiveHeld
  BY DEF Having, Holders, ExclusiveHeld
<1>13. New' = New
  BY <1>4, <1>11 DEF New
<1>14. Sharers \in Nat /\ Tokens \in Nat /\ Giving \in Nat
  BY <1>1, Numbers
<1>15. CountInv'
  BY <1>1, <1>4, <1>7, <1>8, <1>11, <1>12, <1>13, <1>14 DEF CountInv
<1>16. WakeInv'
  BY <1>1, <1>4 DEF WakeInv
<1>17. EntriesInv'
  <2>1. OthersKept(t)
    BY <1>4 DEF OthersKept
  <2>2. \A r \in Slots : Thread(r) # t
    BY <1>1, <1>2 DEF EntriesInv, Entitled
  <2>3. Entitled(t, s)'
    BY <1>2, <1>4, <1>5, <1>7 DEF Entitled
  <2> QED
    BY <1>1, <1>2, <1>5, <1>7, <2>1, <2>2, <2>3, EntryTaken
<1>18. GivenInv'
  BY <1>1, <1>2, <1>5, <1>7, <1>13 DEF GivenInv
<1>19. TableInv'
  BY <1>1, <1>4, <1>7 DEF TableInv
<1>20. QueryInv'
  <2>1. Knows(t)'
    BY <1>4 DEF Knows
  <2>2. res'.owner[0] = res.owner[0]
    BY <1>2, <1>5, <1>7
  <2> QED
    BY <1>1, <1>4, <2>1, <2>2, Sizes, QueryKept DEF Thread
<1> QED
  BY <1>9, <1>10, <1>15, <1>16, <1>17, <1>18, <1>19, <1>20 DEF ResourceInv

(* The part of an acquire that runs under the lock. *)

(* A step that changes nothing of what is held. *)
LEMMA HeldAsBefore == ASSUME UNCHANGED held PROVE Allowed
BY DEF Allowed

(* A thread inside a call, and one that has no entry, holds nothing. *)
LEMMA TriesWithout ==
    ASSUME ResourceInv, NEW t \in Threads, pc[t] \in {"idle", "try"},
           pc[t] = "try" \/ SlotsOf(t) = {} \/ held[t].mode = "none"
    PROVE  held[t].n = 0
<1>1. Types /\ HeldInv /\ t \in Owners
  BY Sizes DEF ResourceInv
<1>2. held[t].n \in Nat
  BY <1>1 DEF Types, HeldTypes
<1>3. CASE pc[t] = "try"
  BY <1>1, <1>3 DEF HeldInv, BusyPCs
<1>4. CASE SlotsOf(t) = {}
  <2>1. ~HasEntry(t)
    BY <1>1, <1>4, OwnEntry
  <2> QED
    BY <1>2, <2>1 DEF HasEntry
<1>5. CASE held[t].mode = "none"
  BY <1>1, <1>5 DEF HeldInv
<1> QED
  BY <1>3, <1>4, <1>5

(* Acquire's guard, which still holds at TryAcquire. *)
MayWait(t, c) == c.wait /\ held[t].mode = "shared" => c.op \in {"shared", "starve"}

(* Who waits to own the resource holds nothing. *)
LEMMA WaitsWithout ==
    ASSUME ResourceInv, NEW t \in Threads, pc[t] \in {"idle", "try"}, NEW c,
           MayWait(t, c), c.wait, c.op \notin {"shared", "starve"},
           ~OwnsExclusive(t)
    PROVE  held[t].n = 0
<1>1. Types /\ HeldInv /\ t \in Owners /\ CountInv
  BY Sizes DEF ResourceInv
<1>2. held[t].mode \in Modes /\ held[t].mode # "shared" /\ held[t].n \in Nat
  BY <1>1 DEF Types, HeldTypes, MayWait
<1>3. ASSUME held[t].mode = "excl" PROVE FALSE
  <2>1. res.Exclusive
    BY <1>1, <1>3 DEF CountInv, ExclusiveHeld
  <2>2. held[t].n > 0
    BY <1>1, <1>2, <1>3 DEF HeldInv
  <2>3. Thread(0) = t
    BY <1>1, <2>1, <2>2, Alone
  <2> QED
    BY <2>1, <2>3 DEF OwnsExclusive
<1>4. held[t].mode = "none"
  BY <1>2, <1>3 DEF Modes
<1> QED
  BY <1>4, TriesWithout

LEMMA TryExclusiveInv ==
    ASSUME ResourceInv, NEW t \in Threads, pc[t] \in {"idle", "try"}, NEW c,
           MayWait(t, c), c.op = "exclusive", TryExclusive(t, c),
           UNCHANGED <<size, event, sem, batch>>
    PROVE  ResourceInv' /\ Allowed
<1>1. CASE Unowned /\ Take(t, TRUE)
  BY <1>1, TakeInv DEF Unowned
<1>2. CASE OwnsExclusive(t) /\ Recurse(t, 0)
  BY <1>2, Sizes, RecurseInv DEF OwnsExclusive
<1>3. CASE Fail(t)
  <2>1. UNCHANGED held
    BY <1>3 DEF Fail
  <2> QED
    BY <1>3, <2>1, FailInv, HeldAsBefore
<1>4. CASE /\ ~OwnsExclusive(t) /\ c.wait
           /\ Leave(t, c, "allocEvent") /\ UNCHANGED <<res, held>>
  <2>1. held[t].n = 0
    BY <1>4, WaitsWithout
  <2> QED
    BY <1>4, <2>1, LeaveInv, HeldAsBefore
<1>5. CASE /\ ~Unowned /\ ~OwnsExclusive(t) /\ c.wait /\ event # "none"
           /\ res' = [res EXCEPT !.ExclusiveWaiters = @ + 1]
           /\ Leave(t, c, "waitExclusive") /\ UNCHANGED held
  <2>1. held[t].n = 0
    BY <1>5, WaitsWithout
  <2> QED
    BY <1>5, <2>1, WaitExclusiveInv, HeldAsBefore DEF Unowned
<1> QED
  BY <1>1, <1>2, <1>3, <1>4, <1>5 DEF TryExclusive

LEMMA TryToExclusiveInv ==
    ASSUME ResourceInv, NEW t \in Threads, pc[t] \in {"idle", "try"},
           TryToExclusive(t), UNCHANGED <<size, event, sem, batch>>
    PROVE  ResourceInv' /\ Allowed
<1>1. CASE res.ActiveCount = 0 /\ Take(t, TRUE)
  <2>1. res.ActiveEntries = 0
    BY <1>1 DEF ResourceInv, CountInv
  <2> QED
    BY <1>1, <2>1, TakeInv
<1>2. CASE OwnsExclusive(t) /\ Recurse(t, 0)
  BY <1>2, Sizes, RecurseInv DEF OwnsExclusive
<1>3. CASE Fail(t)
  <2>1. UNCHANGED held
    BY <1>3 DEF Fail
  <2> QED
    BY <1>3, <2>1, FailInv, HeldAsBefore
<1> QED
  BY <1>1, <1>2, <1>3 DEF TryToExclusive

LEMMA QueueSharedInv ==
    ASSUME ResourceInv, NEW t \in Threads, pc[t] \in {"idle", "try"}, NEW c,
           NEW s \in FreeSlots, held[t].n = 0, res.ActiveEntries # 0,
           res.Exclusive \/ res.ExclusiveWaiters > 0,
           QueueShared(t, c, s), UNCHANGED <<size, event, sem, batch>>
    PROVE  ResourceInv' /\ Allowed
<1>1. CASE Fail(t)
  <2>1. UNCHANGED held
    BY <1>1 DEF Fail
  <2> QED
    BY <1>1, <2>1, FailInv, HeldAsBefore
<1>2. CASE Leave(t, c, "allocSemaphore") /\ UNCHANGED <<res, held>>
  BY <1>2, LeaveInv, HeldAsBefore
<1>3. CASE /\ sem # NoSemaphore
           /\ res' = [res EXCEPT !.owner[s] = [thread |-> t, count |-> 1],
                                 !.SharedWaiters = @ + 1]
           /\ Leave(t, c, "waitShared") /\ UNCHANGED held
  BY <1>3, WaitSharedInv, HeldAsBefore
<1> QED
  BY <1>1, <1>2, <1>3 DEF QueueShared

LEMMA BehindExclusiveInv ==
    ASSUME ResourceInv, NEW t \in Threads, pc[t] \in {"idle", "try"}, NEW c,
           res.Exclusive, res.ActiveEntries # 0,
           BehindExclusive(t, c), UNCHANGED <<event, sem, batch>>
    PROVE  ResourceInv' /\ Allowed
<1>1. CASE Thread(0) = t /\ Recurse(t, 0) /\ UNCHANGED size
  BY <1>1, Sizes, RecurseInv
<1>2. Thread(0) # t => held[t].n = 0
  <2>1. held[t].n \in Nat /\ t \in Owners
    BY Sizes DEF ResourceInv, Types, HeldTypes
  <2> QED
    BY <2>1, Alone
<1>3. CASE Thread(0) # t /\ FreeSlots = {} /\ Expand(t, c, "expand")
  <2>1. UNCHANGED held
    BY <1>3 DEF Expand
  <2> QED
    BY <1>2, <1>3, <2>1, ExpandInv, HeldAsBefore
<1>4. CASE Thread(0) # t /\ FreeSlots # {} /\ QueueShared(t, c, First(FreeSlots)) /\ UNCHANGED size
  <2>1. First(FreeSlots) \in FreeSlots
    BY <1>4, FreeEntries
  <2> QED
    BY <1>2, <1>4, <2>1, QueueSharedInv
<1> QED
  BY <1>1, <1>3, <1>4 DEF BehindExclusive

LEMMA BehindWaitersInv ==
    ASSUME ResourceInv, NEW t \in Threads, pc[t] \in {"idle", "try"}, NEW c,
           MayWait(t, c), c.op = "waitFor", IsExclusiveWaiting, ~res.Exclusive,
           res.ActiveEntries # 0, BehindWaiters(t, c), UNCHANGED <<size, event, sem, batch>>
    PROVE  ResourceInv' /\ Allowed
<1>1. CASE Fail(t)
  <2>1. UNCHANGED held
    BY <1>1 DEF Fail
  <2> QED
    BY <1>1, <2>1, FailInv, HeldAsBefore
<1>2. c.wait => held[t].n = 0
  BY WaitsWithout DEF OwnsExclusive
<1>3. CASE c.wait /\ Leave(t, c, "allocSemaphore") /\ UNCHANGED <<res, held>>
  BY <1>2, <1>3, LeaveInv, HeldAsBefore
<1>4. CASE /\ c.wait /\ sem # NoSemaphore
           /\ res' = [res EXCEPT !.SharedWaiters = @ + 1]
           /\ Leave(t, c, "waitEntry") /\ UNCHANGED held
  BY <1>2, <1>4, WaitEntryInv, HeldAsBefore DEF IsExclusiveWaiting
<1> QED
  BY <1>1, <1>3, <1>4 DEF BehindWaiters

LEMMA AmongSharersInv ==
    ASSUME ResourceInv, NEW t \in Threads, pc[t] \in {"idle", "try"}, NEW c,
           ~res.Exclusive, res.ActiveEntries # 0,
           AmongSharers(t, c), UNCHANGED <<event, sem, batch>>
    PROVE  ResourceInv' /\ Allowed
<1> DEFINE first == ExclusiveFirst(c.op)
           found == Candidates(t, first)
           slot == First(found)
<1>1. first \in BOOLEAN
  BY DEF ExclusiveFirst
<1>2. t \in Owners /\ NoOwner # t
  BY Sizes, OwnerAssumption
<1>3. CASE SlotsOf(t) # {}
  <2>1. found = SlotsOf(t)
    BY <1>3 DEF Candidates
  <2>2. SlotsOf(t) \in SUBSET Nat /\ SlotsOf(t) \subseteq Slots
    BY <1>2, OwnEntry, Sizes
  <2>3. slot \in SlotsOf(t)
    BY <1>3, <2>1, <2>2, FirstIn
  <2>4. slot \in Slots /\ Thread(slot) = t
    BY <2>2, <2>3 DEF SlotsOf
  <2>5. Recurse(t, slot) /\ UNCHANGED size
    BY <2>1, <2>3, <2>4 DEF AmongSharers
  <2> HIDE DEF slot
  <2> QED
    BY <2>4, <2>5, RecurseInv
<1>4. CASE SlotsOf(t) = {}
  <2>1. found = Eligible(first)
    BY <1>4 DEF Candidates
  <2>2. held[t].n = 0
    BY <1>4, TriesWithout
  <2>3. CASE found = {} /\ Expand(t, c, "expand")
    <3>1. FreeSlots = {}
      BY <2>1, <2>3 DEF Eligible
    <3>2. UNCHANGED held
      BY <2>3 DEF Expand
    <3> QED
      BY <2>2, <2>3, <3>1, <3>2, ExpandInv, HeldAsBefore
  <2>4. CASE found # {} /\ UNCHANGED size
    <3>1. slot \in FreeSlots \/ (~first /\ slot = 0 /\ Thread(0) = NoOwner)
      BY <1>1, <2>1, <2>4, FreeEntries
    <3>2. /\ slot \in Slots /\ (slot = 0 \/ slot < res.TableSize)
          /\ Thread(slot) = NoOwner
      BY <3>1, FreeEntries, Sizes
    <3>3. \/ ~first /\ Join(t, slot)
          \/ first /\ QueueShared(t, c, slot)
      BY <1>2, <2>4, <3>2 DEF AmongSharers
    <3>4. first => res.ExclusiveWaiters > 0
      BY DEF ExclusiveFirst, IsExclusiveWaiting
    <3> HIDE DEF slot, first, found
    <3>5. CASE ~first /\ Join(t, slot)
      BY <1>4, <2>4, <3>2, <3>5, JoinInv
    <3>6. CASE first /\ QueueShared(t, c, slot)
      BY <2>2, <2>4, <3>1, <3>4, <3>6, QueueSharedInv
    <3> QED
      BY <3>3, <3>5, <3>6
  <2> QED
    BY <2>3, <2>4 DEF AmongSharers
<1> QED
  BY <1>3, <1>4

LEMMA AttemptInv ==
    ASSUME ResourceInv, NEW t \in Threads, pc[t] \in {"idle", "try"}, NEW c,
           MayWait(t, c), Attempt(t, c)
    PROVE  ResourceInv' /\ Allowed
<1>1. UNCHANGED <<event, sem, batch>>
  BY DEF Attempt
<1>2. CASE c.op = "exclusive" /\ TryExclusive(t, c) /\ UNCHANGED size
  BY <1>1, <1>2, TryExclusiveInv
<1>3. CASE c.op = "tryTo" /\ TryToExclusive(t) /\ UNCHANGED size
  BY <1>1, <1>3, TryToExclusiveInv
<1>4. CASE c.op \in SharedOps /\ TryShared(t, c)
  <2>1. CASE Unowned /\ Take(t, FALSE) /\ UNCHANGED size
    BY <1>1, <2>1, TakeInv DEF Unowned
  <2>2. CASE ~Unowned /\ res.Exclusive /\ BehindExclusive(t, c)
    BY <1>1, <2>2, BehindExclusiveInv DEF Unowned
  <2>3. CASE /\ ~Unowned /\ ~res.Exclusive /\ c.op = "waitFor" /\ IsExclusiveWaiting
             /\ BehindWaiters(t, c) /\ UNCHANGED size
    BY <1>1, <2>3, BehindWaitersInv DEF Unowned
  <2>4. CASE ~Unowned /\ ~res.Exclusive /\ AmongSharers(t, c)
    BY <1>1, <2>4, AmongSharersInv DEF Unowned
  <2> QED
    BY <1>4, <2>1, <2>2, <2>3, <2>4 DEF TryShared
<1> QED
  BY <1>2, <1>3, <1>4 DEF Attempt

LEMMA AcquireInv ==
    ASSUME ResourceInv, NEW t \in Threads, Begin(t) \/ TryAcquire(t)
    PROVE  ResourceInv' /\ Allowed
<1>1. ASSUME NEW op, NEW wait, Acquire(t, op, wait) PROVE ResourceInv' /\ Allowed
  <2> DEFINE c == [op |-> op, wait |-> wait]
  <2>1. MayWait(t, c) /\ pc[t] \in {"idle", "try"} /\ Attempt(t, c)
    BY <1>1 DEF Acquire, MayWait
  <2> HIDE DEF c
  <2> QED
    BY <2>1, AttemptInv
<1>2. ASSUME TryAcquire(t) PROVE ResourceInv' /\ Allowed
  <2> DEFINE c == call[t]
  <2>1. pc[t] = "try" /\ Attempt(t, c)
    BY <1>2 DEF TryAcquire
  <2>2. held[t].n = 0 /\ t \in Owners
    BY <2>1, TriesWithout, Sizes
  <2>3. held[t].mode = "none"
    BY <2>2 DEF ResourceInv, HeldInv
  <2>4. MayWait(t, c)
    BY <2>3 DEF MayWait
  <2> HIDE DEF c
  <2> QED
    BY <2>1, <2>4, AttemptInv
<1> QED
  BY <1>1, <1>2 DEF Begin

-----------------------------------------------------------------------------
(* The table and the dispatcher objects.                                   *)

(* A sharer that is given an entry stays one of those that are. *)
LEMMA SettleMove ==
    ASSUME NEW t \in Threads, NEW b \in {"settle", "expandSettle"}, DOMAIN pc = Threads,
           pc[t] \in {"settle", "expandSettle"}, pc' = [pc EXCEPT ![t] = b]
    PROVE  /\ Sleepers' = Sleepers /\ Sharers' = Sharers /\ Settlers' = Settlers
           /\ Setters' = Setters /\ NewOwners' = NewOwners
<1>1. \A L : (pc[t] \in L <=> b \in L) => Cardinality(In(L)') = Cardinality(In(L))
  BY InMove
<1> QED
  BY <1>1 DEF Sleepers, Sharers, Settlers, Setters, NewOwners

LEMMA FinishExpandInv ==
    ASSUME ResourceInv, NEW t \in Threads, FinishExpand(t)
    PROVE  ResourceInv' /\ Allowed
<1> DEFINE b == IF pc[t] = "expand" THEN "try" ELSE "settle"
<1>1. Types /\ HeldInv /\ CountInv /\ WakeInv /\ EntriesInv /\ GivenInv /\ TableInv /\ QueryInv
  BY DEF ResourceInv
<1>2. t \in Owners /\ 0 \in Slots
  BY Sizes
<1>3. /\ pc[t] \in {"expand", "expandSettle"} /\ size' = [size EXCEPT ![t] = 0]
      /\ pc' = [pc EXCEPT ![t] = b] /\ UNCHANGED <<event, sem, call, batch, held>>
  BY DEF FinishExpand, Goto
<1>4. /\ Sleepers' = Sleepers /\ Sharers' = Sharers /\ Settlers' = Settlers
      /\ Setters' = Setters /\ NewOwners' = NewOwners
  <2>1. CASE pc[t] = "expand"
    <3>1. b \notin Counted /\ pc[t] \notin Counted
      BY <2>1 DEF Counted
    <3> QED
      BY <1>1, <1>3, <3>1, PlainMove DEF Types
  <2>2. CASE pc[t] = "expandSettle"
    BY <1>1, <1>3, <2>2, SettleMove DEF Types
  <2> QED
    BY <1>3, <2>1, <2>2
<1>5. /\ pc'[t] = b /\ \A u \in Threads \ {t} : pc'[u] = pc[u]
      /\ b \in {"try", "settle"} /\ pc' \in [Threads -> PCs]
  BY <1>1, <1>3 DEF Types, PCs, BusyPCs
<1> HIDE DEF b
<1>6. /\ \A u \in Threads \ {t} : size'[u] = size[u]
      /\ size' \in [Threads -> Nat]
  BY <1>1, <1>3 DEF Types
<1> DEFINE newSize == IF size[t] = 0 THEN FirstSize ELSE size[t] + Growth
           X == [s \in Slots |-> IF s = 0 \/ s < size[t] THEN res.owner[s] ELSE FreeEntry]
<1>7. X \in [Slots -> EntryTypes] /\ res.owner \in [Slots -> EntryTypes]
  <2>1. FreeEntry \in EntryTypes /\ res.owner \in [Slots -> EntryTypes]
    BY <1>1 DEF FreeEntry, EntryTypes, Types, ResTypes
  <2> QED
    BY <2>1
<1>8. /\ newSize \in Nat /\ newSize >= size[t] /\ size[t] \in Nat
      /\ newSize <= Cardinality(Owners) + FirstSize + Growth + 1
  <2>1. /\ FirstSize \in Nat /\ Growth \in Nat /\ size[t] \in Nat
        /\ size[t] <= Cardinality(Owners) + 1 /\ Cardinality(Owners) \in Nat
    BY <1>1, <1>3, TableAssumption, Sizes DEF Types, TableInv
  <2> QED
    BY <2>1
<1>9. \/ Unchanged(t) /\ res' = [res EXCEPT !.TableSize = newSize, !.owner = X]
      \/ UNCHANGED res
  BY DEF FinishExpand
<1>10. /\ \A s \in Slots : X[s] = res.owner[s] \/ (X[s].thread = NoOwner /\ s # 0 /\ ~(s < size[t]))
       /\ X[0] = res.owner[0]
  BY <1>2 DEF FreeEntry
<1> HIDE DEF X, newSize
<1>11. /\ res'.ActiveEntries = res.ActiveEntries /\ res'.ActiveCount = res.ActiveCount
       /\ res'.Exclusive = res.Exclusive /\ res'.ExclusiveWaiters = res.ExclusiveWaiters
       /\ res'.SharedWaiters = res.SharedWaiters /\ res' \in ResTypes
       /\ \/ res'.owner = X /\ res'.TableSize = newSize /\ res.TableSize = size[t]
          \/ res'.owner = res.owner /\ res'.TableSize = res.TableSize
  BY <1>1, <1>7, <1>8, <1>9 DEF Types, ResTypes, Unchanged
<1>12. Types'
  BY <1>1, <1>3, <1>5, <1>6, <1>11 DEF Types
<1>13. held[t].n = 0
  BY <1>1, <1>3 DEF HeldInv, BusyPCs
<1>14. HeldInv'
  BY <1>1, <1>2, <1>3, <1>5, <1>13, HeldKept DEF HeldInv
<1>15. Giving' = Giving /\ Signal' = Signal /\ Tokens' = Tokens
  BY <1>3, <1>5, GivingKept DEF Signal, Tokens
<1>16. Having' = Having /\ ExclusiveHeld' = ExclusiveHeld
  BY <1>3 DEF Having, Holders, ExclusiveHeld
<1>17. CountInv' /\ New' = New
  BY <1>1, <1>4, <1>11, <1>15, <1>16, CountKept
<1>18. WakeInv'
  BY <1>1, <1>3, <1>4, <1>5 DEF WakeInv
<1>19. \A s \in Slots : Thread(s) # t
  BY <1>1, <1>2, <1>3, <1>13 DEF EntriesInv, Entitled
<1>20. res.TableSize \in Nat
  BY <1>1 DEF Types, ResTypes
<1>21. EntriesInv'
  <2>1. OthersKept(t)
    BY <1>3, <1>5 DEF OthersKept
  <2>2. ~HasEntry(t)'
    BY <1>3, <1>5, <1>13 DEF HasEntry
  <2>3. \A s \in Slots : Thread(s) \in Owners => res'.owner[s] = res.owner[s]
    <3> SUFFICES ASSUME NEW s \in Slots, Thread(s) \in Owners PROVE res'.owner[s] = res.owner[s]
      OBVIOUS
    <3>1. s = 0 \/ s < res.TableSize
      BY <1>1 DEF EntriesInv
    <3> QED
      BY <1>10, <1>11, <3>1
  <2>4. \A s \in Slots : s < res.TableSize => s < res'.TableSize
    BY <1>8, <1>11, <1>20, Sizes
  <2>5. \A s \in Slots : res'.owner[s] = res.owner[s] \/ res'.owner[s].thread = NoOwner
    BY <1>10, <1>11
  <2> QED
    BY <1>1, <1>2, <1>19, <2>1, <2>2, <2>3, <2>4, <2>5, EntryFreed
<1>22. res'.owner[0] = res.owner[0]
  BY <1>10, <1>11
<1>23. GivenInv'
  BY <1>1, <1>17, <1>22 DEF GivenInv
<1>24. TableInv'
  <2>1. \A u \in Threads : pc'[u] \in {"expand", "expandSettle"} =>
           u # t /\ pc[u] \in {"expand", "expandSettle"} /\ size'[u] = size[u]
    BY <1>5, <1>6
  <2> QED
    BY <1>1, <1>8, <1>11, <2>1 DEF TableInv
<1>25. QueryInv'
  <2>1. Knows(t)'
    BY <1>5 DEF Knows
  <2> QED
    BY <1>1, <1>3, <1>5, <1>22, <2>1, Sizes, QueryKept DEF Thread
<1> QED
  BY <1>3, <1>12, <1>14, <1>17, <1>18, <1>21, <1>23, <1>24, <1>25, HeldAsBefore DEF ResourceInv

LEMMA AllocateInv ==
    ASSUME ResourceInv, NEW t \in Threads, AllocateEvent(t) \/ AllocateSemaphore(t)
    PROVE  ResourceInv' /\ Allowed
<1>1. Types /\ HeldInv /\ TableInv
  BY DEF ResourceInv
<1>2. /\ pc[t] \in {"allocEvent", "allocSemaphore"} /\ pc' = [pc EXCEPT ![t] = "try"]
      /\ UNCHANGED <<res, call, size, batch, held>>
  BY DEF AllocateEvent, AllocateSemaphore, Goto
<1>3. pc'[t] = "try" /\ \A u \in Threads \ {t} : pc'[u] = pc[u]
  BY <1>1, <1>2 DEF Types
<1>4. /\ event' \in {"none", "clear", "set"} /\ sem' \in Nat
      /\ event' = "none" => event = "none"
      /\ sem' = NoSemaphore => sem = NoSemaphore
      /\ Signal' = Signal /\ Tokens' = Tokens
  <2>1. sem \in Nat /\ event \in {"none", "clear", "set"} /\ NoSemaphore # 0
    BY <1>1, Sizes DEF Types, NoSemaphore
  <2>2. CASE AllocateEvent(t)
    BY <2>1, <2>2 DEF AllocateEvent, Signal, Tokens
  <2>3. CASE AllocateSemaphore(t)
    BY <2>1, <2>3 DEF AllocateSemaphore, NewSemaphore, Signal, Tokens
  <2> QED
    BY <2>2, <2>3
<1>5. TableInv'
  BY <1>1, <1>2, <1>3 DEF TableInv
<1>6. Knows(t)'
  BY <1>3 DEF Knows
<1>7. "try" \in PCs /\ "try" \notin Counted /\ pc[t] \notin Counted
  BY <1>2 DEF PCs, BusyPCs, Counted
<1>8. held[t].n = 0
  BY <1>1, <1>2 DEF HeldInv, BusyPCs
<1>9. batch' \in [Threads -> Nat] /\ size' \in [Threads -> Nat]
  BY <1>1, <1>2 DEF Types
<1>10. ResourceInv'
  BY <1>2, <1>4, <1>5, <1>6, <1>7, <1>8, <1>9, QuietAlloc
<1> QED
  BY <1>2, <1>10, HeldAsBefore

-----------------------------------------------------------------------------
(* The sharers wake up.                                                    *)

(* While wake-ups are on their way to sharers, or one of them looks for an *)
(* entry, nobody owns the resource exclusively.                            *)
LEMMA Sharing ==
    ASSUME ResourceInv, Tokens + Giving + Settlers >= 1
    PROVE  ~res.Exclusive /\ New = 0 /\ ~ExclusiveHeld
<1>1. Types /\ HeldInv /\ CountInv /\ WakeInv
  BY DEF ResourceInv
<1>2. /\ Having \in Nat /\ Tokens \in Nat /\ Giving \in Nat /\ Settlers \in Nat /\ New \in Nat
  BY <1>1, Numbers
<1>3. ASSUME res.Exclusive PROVE FALSE
  <2>1. Having = 0 /\ New = 0
    BY <1>1, <1>2, <1>3 DEF CountInv
  <2>2. PICK o \in Owners : held[o].mode = "excl"
    BY <1>1, <1>3, <2>1 DEF CountInv, ExclusiveHeld
  <2>3. held[o].n # 0 /\ held[o].n \in Nat
    BY <1>1, <2>2 DEF HeldInv, Types, HeldTypes
  <2> QED
    BY <2>1, <2>3, HavingFew
<1> QED
  BY <1>3, Together

(* The count of the semaphore is never mistaken for its absence. *)
LEMMA SemaphoreBound ==
    ASSUME ResourceInv
    PROVE  Sharers < NoSemaphore /\ Tokens + Giving < NoSemaphore
<1>1. Types /\ CountInv /\ WakeInv
  BY DEF ResourceInv
<1>2. Sharers <= Cardinality(Threads)
  <2>1. In({"waitShared", "waitEntry"}) \subseteq Threads
    BY DEF In
  <2> QED
    BY <2>1, Sizes, FS_Subset DEF Sharers
<1>3. /\ Sharers \in Nat /\ Tokens \in Nat /\ Giving \in Nat /\ res.SharedWaiters \in Nat
      /\ Cardinality(Threads) \in Nat
  BY <1>1, Numbers, Sizes DEF Types, ResTypes
<1>4. res.SharedWaiters + Tokens + Giving = Sharers
  BY <1>1 DEF CountInv
<1> QED
  BY <1>2, <1>3, <1>4 DEF NoSemaphore

(* A wake-up less, and an owner more or one that looks for an entry. *)
LEMMA OneOver ==
    ASSUME NEW h \in Nat, NEW k \in Nat, NEW g \in Nat, NEW l \in Nat, NEW w \in Nat,
           NEW c \in Nat, w + k + g = c
    PROVE  /\ (h + 1) + (k - 1) + g + l + 0 = h + k + g + l + 0
           /\ h + (k - 1) + g + (l + 1) + 0 = h + k + g + l + 0
           /\ w + (k - 1) + g = c - 1
OBVIOUS

LEMMA WakeSharedInv ==
    ASSUME ResourceInv, NEW t \in Threads, WakeShared(t)
    PROVE  ResourceInv' /\ Allowed
<1>1. Types /\ HeldInv /\ CountInv /\ WakeInv /\ EntriesInv /\ GivenInv /\ TableInv /\ QueryInv
  BY DEF ResourceInv
<1>2. t \in Owners /\ 0 \in Slots
  BY Sizes
<1>3. /\ pc[t] \in {"waitShared", "waitEntry"} /\ sem # NoSemaphore /\ sem > 0
      /\ sem' = sem - 1 /\ UNCHANGED <<res, event, size, batch>>
  BY DEF WakeShared
<1>4. /\ Tokens = sem /\ sem \in Nat /\ sem' \in Nat /\ sem' # NoSemaphore
      /\ Tokens' = Tokens - 1 /\ Tokens >= 1
  <2>1. Tokens = sem /\ sem \in Nat
    BY <1>1, <1>3 DEF Types, Tokens
  <2>2. sem < NoSemaphore
    <3>1. Giving \in Nat /\ Tokens \in Nat /\ NoSemaphore \in Nat
      BY <1>1, Numbers, Sizes
    <3> QED
      BY <2>1, <3>1, SemaphoreBound
  <2>3. sem' \in Nat /\ sem' # NoSemaphore
    BY <1>3, <2>1, <2>2, Sizes
  <2>4. Tokens' = sem'
    BY <2>3 DEF Tokens
  <2> QED
    BY <1>3, <2>1, <2>3, <2>4
<1>5. /\ Having \in Nat /\ Giving \in Nat /\ Settlers \in Nat /\ Sharers \in Nat
  BY <1>1, Numbers
<1>6. ~res.Exclusive /\ New = 0 /\ ~ExclusiveHeld
  <2>1. Tokens + Giving + Settlers >= 1
    BY <1>4, <1>5
  <2> QED
    BY <2>1, Sharing
<1>7. held[t].n = 0 /\ held[t].mode = "none"
  BY <1>1, <1>2, <1>3 DEF HeldInv, BusyPCs
<1>8. CASE pc[t] = "waitShared"
  <2>1. "shared" \in Modes /\ Succeed(t, "shared")
    BY <1>8 DEF Modes, WakeShared
  <2>2. /\ held' \in [Owners -> HeldTypes]
        /\ held[t].n \in Nat /\ held'[t].n = held[t].n + 1 /\ held'[t].mode = "shared"
        /\ \A x \in Owners \ {t} : held'[x] = held[x]
        /\ pc' = [pc EXCEPT ![t] = "idle"] /\ pc' \in [Threads -> PCs]
        /\ pc'[t] = "idle" /\ \A u \in Threads \ {t} : pc'[u] = pc[u]
    BY <1>1, <2>1, HeldStep
  <2>3. held'[t].n = 1
    BY <1>7, <2>2
  <2>4. Types'
    BY <1>1, <1>3, <1>4, <2>2 DEF Types
  <2>5. HeldInv'
    <3>1. pc'[t] \notin BusyPCs
      BY <2>2 DEF BusyPCs
    <3> QED
      BY <1>1, <1>2, <2>2, <2>3, <3>1, HeldKept
  <2>6. /\ Sleepers' = Sleepers /\ Sharers' = Sharers - 1 /\ Settlers' = Settlers
        /\ Setters' = Setters /\ NewOwners' = NewOwners
    <3>1. "idle" \notin Counted
      BY DEF Counted
    <3> QED
      BY <1>1, <1>8, <2>2, <3>1, MoveOut
  <2>7. Giving' = Giving /\ Signal' = Signal
    BY <1>3, <2>2, GivingKept DEF Signal
  <2>8. Having' = Having + 1
    BY <1>2, <1>7, <2>2, <2>3, HavingMove
  <2>9. New' = 0
    BY <1>6, <2>6, <2>7 DEF New
  <2>10. ~ExclusiveHeld'
    BY <1>2, <1>6, <2>2 DEF ExclusiveHeld
  <2>11. CountInv'
    <3>1. /\ Having' + Tokens' + Giving' + Settlers' + New'
               = Having + Tokens + Giving + Settlers + New
          /\ res.SharedWaiters + Tokens' + Giving' = Sharers'
      <4>1. res.SharedWaiters \in Nat /\ res.SharedWaiters + Tokens + Giving = Sharers
        BY <1>1 DEF CountInv, Types, ResTypes
      <4>2. /\ (Having + 1) + (Tokens - 1) + Giving + Settlers + 0
                  = Having + Tokens + Giving + Settlers + 0
            /\ res.SharedWaiters + (Tokens - 1) + Giving = Sharers - 1
        BY <1>4, <1>5, <4>1, OneOver
      <4> QED
        BY <1>4, <1>6, <2>6, <2>7, <2>8, <2>9, <4>2, Zenon
    <3> QED
      BY <1>1, <1>3, <1>6, <2>6, <2>7, <2>9, <2>10, <3>1 DEF CountInv
  <2>12. WakeInv'
    BY <1>1, <1>3, <1>4, <2>2, <2>6 DEF WakeInv
  <2>13. EntriesInv'
    <3>1. OthersKept(t)
      BY <2>2 DEF OthersKept
    <3>2. \A s \in Slots : Thread(s) = t => Entitled(t, s)'
      <4> SUFFICES ASSUME NEW s \in Slots, Thread(s) = t PROVE Entitled(t, s)'
        OBVIOUS
      <4>1. Entitled(t, s)
        BY <1>1, <1>2 DEF EntriesInv
      <4>2. res.owner[s].count = 1
        BY <1>7, <1>8, <4>1 DEF Entitled
      <4> QED
        BY <1>3, <2>2, <2>3, <4>2 DEF Entitled
    <3>3. HasEntry(t)
      BY <1>8 DEF HasEntry
    <3> QED
      BY <1>1, <1>2, <1>3, <3>1, <3>2, <3>3, EntriesSame
  <2>14. GivenInv'
    BY <2>9 DEF GivenInv
  <2>15. TableInv'
    BY <1>1, <1>3, <2>2 DEF TableInv
  <2>16. QueryInv'
    BY <1>1, <1>3, <2>2, Sizes, IdleKnows, QueryKept DEF Thread
  <2>17. Allowed
    BY <1>2, <1>6, <1>7, <2>2 DEF Allowed, OnlyModeOf
  <2> QED
    BY <2>4, <2>5, <2>11, <2>12, <2>13, <2>14, <2>15, <2>16, <2>17 DEF ResourceInv
<1>9. CASE pc[t] = "waitEntry"
  <2>1. pc' = [pc EXCEPT ![t] = "settle"] /\ UNCHANGED <<call, held>>
    BY <1>9 DEF WakeShared, Goto
  <2>2. /\ pc' \in [Threads -> PCs]
        /\ pc'[t] = "settle" /\ \A u \in Threads \ {t} : pc'[u] = pc[u]
    BY <1>1, <2>1 DEF Types, PCs, BusyPCs
  <2>3. Types'
    BY <1>1, <1>3, <1>4, <2>1, <2>2 DEF Types
  <2>4. HeldInv'
    BY <1>1, <1>2, <1>7, <2>1, <2>2, HeldKept DEF HeldInv
  <2>5. /\ Sleepers' = Sleepers /\ Sharers' = Sharers - 1 /\ Settlers' = Settlers + 1
        /\ Setters' = Setters /\ NewOwners' = NewOwners
    <3>1. /\ Sleepers' = Sleepers + 0 - 0 /\ Sharers' = Sharers + 0 - 1
          /\ Settlers' = Settlers + 1 - 0 /\ Setters' = Setters + 0 - 0
          /\ NewOwners' = NewOwners + 0 - 0
      <4>1. /\ One("settle", {"waitExclusive"}) = 0 /\ One("waitEntry", {"waitExclusive"}) = 0
            /\ One("settle", {"waitShared", "waitEntry"}) = 0
            /\ One("waitEntry", {"waitShared", "waitEntry"}) = 1
            /\ One("settle", {"settle", "expandSettle"}) = 1
            /\ One("waitEntry", {"settle", "expandSettle"}) = 0
            /\ One("settle", {"setEvent"}) = 0 /\ One("waitEntry", {"setEvent"}) = 0
            /\ One("settle", {"own"}) = 0 /\ One("waitEntry", {"own"}) = 0
        BY DEF One
      <4>2. /\ Sleepers' = Sleepers + One("settle", {"waitExclusive"})
                              - One(pc[t], {"waitExclusive"})
            /\ Sharers' = Sharers + One("settle", {"waitShared", "waitEntry"})
                             - One(pc[t], {"waitShared", "waitEntry"})
            /\ Settlers' = Settlers + One("settle", {"settle", "expandSettle"})
                              - One(pc[t], {"settle", "expandSettle"})
            /\ Setters' = Setters + One("settle", {"setEvent"}) - One(pc[t], {"setEvent"})
            /\ NewOwners' = NewOwners + One("settle", {"own"}) - One(pc[t], {"own"})
        BY <1>1, <2>1, Move
      <4> QED
        BY <1>9, <4>1, <4>2, Zenon
    <3>2. Sleepers \in Nat /\ Setters \in Nat /\ NewOwners \in Nat
      BY <1>1, Numbers
    <3> QED
      BY <1>5, <3>1, <3>2
  <2>6. Giving' = Giving /\ Signal' = Signal
    BY <1>3, <1>9, <2>2, GivingKept DEF Signal
  <2>7. Having' = Having /\ ExclusiveHeld' = ExclusiveHeld
    BY <2>1 DEF Having, Holders, ExclusiveHeld
  <2>8. New' = 0
    BY <1>6, <2>5, <2>6 DEF New
  <2>9. CountInv'
    <3>1. /\ Having' + Tokens' + Giving' + Settlers' + New'
               = Having + Tokens + Giving + Settlers + New
          /\ res.SharedWaiters + Tokens' + Giving' = Sharers'
      <4>1. res.SharedWaiters \in Nat /\ res.SharedWaiters + Tokens + Giving = Sharers
        BY <1>1 DEF CountInv, Types, ResTypes
      <4>2. /\ Having + (Tokens - 1) + Giving + (Settlers + 1) + 0
                  = Having + Tokens + Giving + Settlers + 0
            /\ res.SharedWaiters + (Tokens - 1) + Giving = Sharers - 1
        BY <1>4, <1>5, <4>1, OneOver
      <4> QED
        BY <1>4, <1>6, <2>5, <2>6, <2>7, <2>8, <4>2, Zenon
    <3> QED
      BY <1>1, <1>3, <1>6, <2>5, <2>6, <2>7, <2>8, <3>1 DEF CountInv
  <2>10. WakeInv'
    BY <1>1, <1>3, <1>4, <2>2, <2>5 DEF WakeInv
  <2>11. EntriesInv'
    <3>1. OthersKept(t)
      BY <2>1, <2>2 DEF OthersKept
    <3>2. \A s \in Slots : Thread(s) # t
      BY <1>1, <1>2, <1>7, <1>9 DEF EntriesInv, Entitled
    <3>3. ~HasEntry(t)'
      BY <1>7, <2>1, <2>2 DEF HasEntry
    <3> QED
      BY <1>1, <1>2, <1>3, <3>1, <3>2, <3>3, EntriesSame
  <2>12. GivenInv'
    BY <2>8 DEF GivenInv
  <2>13. TableInv'
    BY <1>1, <1>3, <2>2 DEF TableInv
  <2>14. QueryInv'
    <3>1. Knows(t)'
      BY <2>2 DEF Knows
    <3> QED
      BY <1>1, <1>3, <2>1, <2>2, <3>1, Sizes, QueryKept DEF Thread
  <2> QED
    BY <2>1, <2>3, <2>4, <2>9, <2>10, <2>11, <2>12, <2>13, <2>14, HeldAsBefore DEF ResourceInv
<1> QED
  BY <1>3, <1>8, <1>9

(* A sharer that was woken has no entry, nor does it hold the resource. *)
LEMMA SettlerInv ==
    ASSUME ResourceInv, NEW t \in Threads, pc[t] = "settle"
    PROVE  /\ held[t].n = 0 /\ held[t].mode = "none" /\ Settlers >= 1
           /\ \A s \in Slots : Thread(s) # t
           /\ Candidates(t, TRUE) = FreeSlots
           /\ ~res.Exclusive /\ New = 0 /\ ~ExclusiveHeld
<1>1. Types /\ HeldInv /\ WakeInv /\ EntriesInv /\ t \in Owners
  BY Sizes DEF ResourceInv
<1>2. held[t].n = 0 /\ held[t].mode = "none"
  BY <1>1 DEF HeldInv, BusyPCs
<1>3. \A s \in Slots : Thread(s) # t
  BY <1>1, <1>2 DEF EntriesInv, Entitled
<1>4. SlotsOf(t) = {}
  BY <1>1, <1>3, OwnEntry
<1>5. Candidates(t, TRUE) = FreeSlots
  BY <1>4 DEF Candidates, Eligible
<1>6. Settlers >= 1
  BY InFew
<1>7. Tokens + Giving + Settlers >= 1
  <2>1. Tokens \in Nat /\ Giving \in Nat /\ Settlers \in Nat
    BY <1>1, Numbers
  <2> QED
    BY <1>6, <2>1
<1> QED
  BY <1>2, <1>3, <1>5, <1>6, <1>7, Sharing

LEMMA SettleInv ==
    ASSUME ResourceInv, NEW t \in Threads, Settle(t)
    PROVE  ResourceInv' /\ Allowed
<1>1. Types /\ HeldInv /\ CountInv /\ WakeInv /\ EntriesInv /\ GivenInv /\ TableInv /\ QueryInv
  BY DEF ResourceInv
<1>2. t \in Owners /\ 0 \in Slots
  BY Sizes
<1>3. pc[t] = "settle" /\ UNCHANGED <<event, sem, batch>>
  BY DEF Settle
<1>4. /\ held[t].n = 0 /\ held[t].mode = "none" /\ Settlers >= 1
      /\ \A s \in Slots : Thread(s) # t
      /\ Candidates(t, TRUE) = FreeSlots
      /\ ~res.Exclusive /\ New = 0 /\ ~ExclusiveHeld
  BY <1>3, SettlerInv
<1>5. CASE FreeSlots = {}
  <2>1. /\ pc' = [pc EXCEPT ![t] = "expandSettle"] /\ UNCHANGED <<res, held>>
        /\ size' = [size EXCEPT ![t] = res.TableSize]
    BY <1>4, <1>5 DEF Settle, Expand, Leave, Goto
  <2>2. /\ Sleepers' = Sleepers /\ Sharers' = Sharers /\ Settlers' = Settlers
        /\ Setters' = Setters /\ NewOwners' = NewOwners
    BY <1>1, <1>3, <2>1, SettleMove DEF Types
  <2>3. /\ pc' \in [Threads -> PCs]
        /\ pc'[t] = "expandSettle" /\ \A u \in Threads \ {t} : pc'[u] = pc[u]
    BY <1>1, <2>1 DEF Types, PCs, BusyPCs
  <2>4. /\ size' \in [Threads -> Nat] /\ size'[t] = res.TableSize
        /\ \A u \in Threads \ {t} : size'[u] = size[u]
    BY <1>1, <2>1 DEF Types, ResTypes
  <2>5. Types'
    BY <1>1, <1>3, <2>1, <2>3, <2>4 DEF Types
  <2>6. HeldInv'
    BY <1>1, <1>2, <1>4, <2>1, <2>3, HeldKept DEF HeldInv
  <2>7. Giving' = Giving /\ Signal' = Signal /\ Tokens' = Tokens
    BY <1>3, <2>3, GivingKept DEF Signal, Tokens
  <2>8. Having' = Having /\ ExclusiveHeld' = ExclusiveHeld
    BY <2>1 DEF Having, Holders, ExclusiveHeld
  <2>9. CountInv' /\ New' = New
    BY <1>1, <2>1, <2>2, <2>7, <2>8, CountKept
  <2>10. WakeInv'
    BY <1>1, <1>3, <2>2, <2>3 DEF WakeInv
  <2>11. EntriesInv'
    <3>1. OthersKept(t)
      BY <2>1, <2>3 DEF OthersKept
    <3>2. ~HasEntry(t)'
      BY <1>4, <2>1, <2>3 DEF HasEntry
    <3> QED
      BY <1>1, <1>2, <1>4, <2>1, <3>1, <3>2, EntriesSame
  <2>12. GivenInv'
    BY <1>4, <2>9 DEF GivenInv
  <2>13. TableInv'
    <3>1. res.TableSize <= Cardinality(Owners) + 1
      BY <1>5, TableFull
    <3> QED
      BY <1>1, <2>1, <2>3, <2>4, <3>1 DEF TableInv
  <2>14. QueryInv'
    <3>1. Knows(t)'
      BY <2>3 DEF Knows
    <3> QED
      BY <1>1, <1>3, <2>1, <2>3, <3>1, Sizes, QueryKept DEF Thread
  <2> QED
    BY <2>1, <2>5, <2>6, <2>9, <2>10, <2>11, <2>12, <2>13, <2>14, HeldAsBefore DEF ResourceInv
<1>6. CASE FreeSlots # {}
  <2>1. PICK s \in Slots : /\ s = First(FreeSlots) /\ s # 0 /\ s < res.TableSize
                            /\ Thread(s) = NoOwner /\ NoOwner \notin Owners
    BY <1>6, FreeEntries
  <2>2. /\ res' = [res EXCEPT !.owner[s] = [thread |-> t, count |-> 1]]
        /\ UNCHANGED size /\ Succeed(t, "shared")
    BY <1>4, <1>6, <2>1 DEF Settle
  <2> DEFINE X == [res.owner EXCEPT ![s] = [thread |-> t, count |-> 1]]
  <2>3. /\ X \in [Slots -> EntryTypes] /\ X[s] = [thread |-> t, count |-> 1]
        /\ \A r \in Slots : r # s => X[r] = res.owner[r]
    <3>1. res.owner \in [Slots -> EntryTypes] /\ [thread |-> t, count |-> 1] \in EntryTypes
      BY <1>1, <1>2 DEF Types, ResTypes, EntryTypes
    <3> QED
      BY <2>1, <3>1
  <2>4. res' = [res EXCEPT !.owner = X]
    BY <1>1, <2>2 DEF Types, ResTypes
  <2> HIDE DEF X
  <2>5. /\ res'.ActiveEntries = res.ActiveEntries /\ res'.ActiveCount = res.ActiveCount
        /\ res'.Exclusive = res.Exclusive /\ res'.owner = X
        /\ res'.TableSize = res.TableSize /\ res'.ExclusiveWaiters = res.ExclusiveWaiters
        /\ res'.SharedWaiters = res.SharedWaiters /\ res' \in ResTypes
    BY <1>1, <2>3, <2>4 DEF Types, ResTypes
  <2>6. /\ held' \in [Owners -> HeldTypes]
        /\ held[t].n \in Nat /\ held'[t].n = held[t].n + 1 /\ held'[t].mode = "shared"
        /\ \A x \in Owners \ {t} : held'[x] = held[x]
        /\ pc' = [pc EXCEPT ![t] = "idle"] /\ pc' \in [Threads -> PCs]
        /\ pc'[t] = "idle" /\ \A u \in Threads \ {t} : pc'[u] = pc[u]
    <3>1. "shared" \in Modes
      BY DEF Modes
    <3> QED
      BY <1>1, <2>2, <3>1, HeldStep
  <2>7. held'[t].n = 1
    BY <1>4, <2>6
  <2>8. Types'
    BY <1>1, <1>3, <2>2, <2>5, <2>6 DEF Types
  <2>9. HeldInv'
    <3>1. pc'[t] \notin BusyPCs
      BY <2>6 DEF BusyPCs
    <3> QED
      BY <1>1, <1>2, <2>6, <2>7, <3>1, HeldKept
  <2>10. /\ Sleepers' = Sleepers /\ Sharers' = Sharers /\ Settlers' = Settlers - 1
         /\ Setters' = Setters /\ NewOwners' = NewOwners
    <3>1. "idle" \notin Counted
      BY DEF Counted
    <3> QED
      BY <1>1, <1>3, <2>6, <3>1, MoveOut
  <2>11. Giving' = Giving /\ Signal' = Signal /\ Tokens' = Tokens
    BY <1>3, <2>6, GivingKept DEF Signal, Tokens
  <2>12. Having' = Having + 1
    BY <1>2, <1>4, <2>6, <2>7, HavingMove
  <2>13. New' = 0
    BY <1>4, <2>10, <2>11 DEF New
  <2>14. ~ExclusiveHeld'
    BY <1>2, <1>4, <2>6 DEF ExclusiveHeld
  <2>15. CountInv'
    <3>1. Having' + Tokens' + Giving' + Settlers' + New' = Having + Tokens + Giving + Settlers + New
      <4>1. Having \in Nat /\ Tokens \in Nat /\ Giving \in Nat /\ Settlers \in Nat
        BY <1>1, Numbers
      <4>2. (Having + 1) + Tokens + Giving + (Settlers - 1) + 0
               = Having + Tokens + Giving + Settlers + 0
        BY <4>1
      <4> QED
        BY <1>4, <2>10, <2>11, <2>12, <2>13, <4>2, Zenon
    <3> QED
      BY <1>1, <1>4, <2>5, <2>10, <2>11, <2>13, <2>14, <3>1 DEF CountInv
  <2>16. WakeInv'
    BY <1>1, <1>3, <2>6, <2>10 DEF WakeInv
  <2>17. EntriesInv'
    <3>1. OthersKept(t)
      BY <2>6 DEF OthersKept
    <3>2. Entitled(t, s)'
      BY <2>3, <2>5, <2>6, <2>7 DEF Entitled
    <3> QED
      BY <1>1, <1>2, <1>4, <2>1, <2>3, <2>5, <3>1, <3>2, EntryTaken
  <2>18. GivenInv'
    BY <2>13 DEF GivenInv
  <2>19. TableInv'
    BY <1>1, <2>2, <2>5, <2>6 DEF TableInv
  <2>20. QueryInv'
    <3>1. res'.owner[0] = res.owner[0]
      BY <1>2, <2>1, <2>3, <2>5
    <3> QED
      BY <1>1, <1>3, <2>6, <3>1, Sizes, IdleKnows, QueryKept DEF Thread
  <2>21. Allowed
    BY <1>2, <1>4, <2>6 DEF Allowed, OnlyModeOf
  <2> QED
    BY <2>8, <2>9, <2>15, <2>16, <2>17, <2>18, <2>19, <2>20, <2>21 DEF ResourceInv
<1> QED
  BY <1>5, <1>6

-----------------------------------------------------------------------------
(* The new owner wakes up.                                                 *)

(* There is one new owner at a time. *)
LEMMA OwnersFew ==
    ASSUME NEW t \in Threads, NEW u \in Threads, pc[t] = "own", pc[u] = "own", t # u
    PROVE  NewOwners >= 2
<1> DEFINE S == In({"own"})
<1>1. IsFiniteSet(S) /\ t \in S /\ u \in S \ {t}
  BY Sizes, FS_Subset DEF In
<1> HIDE DEF S
<1>2. IsFiniteSet(S \ {t})
  BY <1>1, FS_Subset
<1>3. Cardinality(S \ {t}) >= 1 /\ Cardinality(S \ {t}) \in Nat
  BY <1>1, <1>2, OneMore
<1>4. Cardinality(S \ {t}) = Cardinality(S) - 1 /\ Cardinality(S) \in Nat
  BY <1>1, OneMore
<1>5. Cardinality(S) >= 2
  BY <1>3, <1>4
<1> QED
  BY <1>5 DEF NewOwners, S

(* A thread that has been given the resource, or is about to give it to    *)
(* one, is alone in that.                                                  *)
LEMMA Given ==
    ASSUME ResourceInv, Signal + Setters + NewOwners >= 1
    PROVE  /\ New = 1 /\ res.Exclusive /\ res.owner[0].count = 1
           /\ \A u \in Threads : pc[u] = "own" => NewOwners = 1 /\ Signal = 0 /\ Setters = 0
           /\ \A t, u \in Threads : pc[t] = "own" /\ pc[u] = "own" => t = u
           /\ Thread(0) \in Owners => Thread(0) \in Threads /\ pc[Thread(0)] = "own"
           /\ \A o \in Owners : held[o].n = 0 /\ held[o].mode = "none"
<1>1. Types /\ CountInv /\ WakeInv /\ GivenInv
  BY DEF ResourceInv
<1>2. Signal \in Nat /\ Setters \in Nat /\ NewOwners \in Nat
  BY <1>1, Numbers
<1>3. New = 1
  <2>1. New <= 1
    BY <1>1 DEF CountInv
  <2> QED
    BY <1>2, <2>1 DEF New
<1>4. res.Exclusive /\ res.owner[0].count = 1
  BY <1>1, <1>3 DEF CountInv, GivenInv
<1>5. Signal + Setters + NewOwners = 1
  BY <1>3 DEF New
<1>6. ASSUME NEW u \in Threads, pc[u] = "own" PROVE NewOwners = 1 /\ Signal = 0 /\ Setters = 0
  <2>1. NewOwners >= 1
    BY <1>6, InFew
  <2> QED
    BY <1>2, <1>5, <2>1
<1>7. ASSUME NEW t \in Threads, NEW u \in Threads, pc[t] = "own", pc[u] = "own" PROVE t = u
  <2>1. NewOwners = 1
    BY <1>6, <1>7
  <2> QED
    BY <1>7, <2>1, OwnersFew
<1> QED
  BY <1>3, <1>4, <1>6, <1>7, Vacant

LEMMA WakeExclusiveInv ==
    ASSUME ResourceInv, NEW t \in Threads, WakeExclusive(t)
    PROVE  ResourceInv' /\ Allowed
<1>1. Types /\ HeldInv /\ CountInv /\ WakeInv /\ EntriesInv /\ GivenInv /\ TableInv /\ QueryInv
  BY DEF ResourceInv
<1>2. t \in Owners /\ 0 \in Slots
  BY Sizes
<1>3. /\ pc[t] = "waitExclusive" /\ event = "set" /\ event' = "clear"
      /\ pc' = [pc EXCEPT ![t] = "own"] /\ UNCHANGED <<res, sem, call, size, batch, held>>
  BY DEF WakeExclusive, Goto
<1>4. /\ pc' \in [Threads -> PCs]
      /\ pc'[t] = "own" /\ \A u \in Threads \ {t} : pc'[u] = pc[u]
  BY <1>1, <1>3 DEF Types, PCs, BusyPCs
<1>5. Types'
  BY <1>1, <1>3, <1>4 DEF Types
<1>6. held[t].n = 0
  BY <1>1, <1>3 DEF HeldInv, BusyPCs
<1>7. HeldInv'
  BY <1>1, <1>2, <1>3, <1>4, <1>6, HeldKept DEF HeldInv
<1>8. Signal = 1 /\ Signal' = 0
  BY <1>3 DEF Signal
<1>9. /\ Sleepers \in Nat /\ Sharers \in Nat /\ Settlers \in Nat /\ Setters \in Nat
      /\ NewOwners \in Nat
  BY <1>1, Numbers
<1>10. /\ Sleepers' = Sleepers - 1 /\ Sharers' = Sharers /\ Settlers' = Settlers
       /\ Setters' = Setters /\ NewOwners' = NewOwners + 1
  <2>1. /\ One("own", {"waitExclusive"}) = 0 /\ One("waitExclusive", {"waitExclusive"}) = 1
        /\ One("own", {"waitShared", "waitEntry"}) = 0
        /\ One("waitExclusive", {"waitShared", "waitEntry"}) = 0
        /\ One("own", {"settle", "expandSettle"}) = 0
        /\ One("waitExclusive", {"settle", "expandSettle"}) = 0
        /\ One("own", {"setEvent"}) = 0 /\ One("waitExclusive", {"setEvent"}) = 0
        /\ One("own", {"own"}) = 1 /\ One("waitExclusive", {"own"}) = 0
    BY DEF One
  <2>2. /\ Sleepers' = Sleepers + One("own", {"waitExclusive"})
                          - One(pc[t], {"waitExclusive"})
        /\ Sharers' = Sharers + One("own", {"waitShared", "waitEntry"})
                         - One(pc[t], {"waitShared", "waitEntry"})
        /\ Settlers' = Settlers + One("own", {"settle", "expandSettle"})
                          - One(pc[t], {"settle", "expandSettle"})
        /\ Setters' = Setters + One("own", {"setEvent"}) - One(pc[t], {"setEvent"})
        /\ NewOwners' = NewOwners + One("own", {"own"}) - One(pc[t], {"own"})
    BY <1>1, <1>3, Move
  <2>3. /\ Sleepers' = Sleepers + 0 - 1 /\ Sharers' = Sharers + 0 - 0
        /\ Settlers' = Settlers + 0 - 0 /\ Setters' = Setters + 0 - 0
        /\ NewOwners' = NewOwners + 1 - 0
    BY <1>3, <2>1, <2>2, Zenon
  <2> QED
    BY <1>9, <2>3
<1>11. Giving' = Giving /\ Tokens' = Tokens
  BY <1>3, <1>4, GivingKept DEF Tokens
<1>12. Having' = Having /\ ExclusiveHeld' = ExclusiveHeld
  BY <1>3 DEF Having, Holders, ExclusiveHeld
<1>13. New = 1 /\ NewOwners = 0 /\ Setters = 0 /\ New' = New
  <2>1. Signal + Setters + NewOwners >= 1
    BY <1>8, <1>9
  <2>2. New = 1
    BY <2>1, Given
  <2>3. NewOwners = 0 /\ Setters = 0
    BY <1>8, <1>9, <2>2 DEF New
  <2>4. New' = 0 + 0 + (0 + 1)
    BY <1>8, <1>10, <2>3 DEF New
  <2> QED
    BY <2>2, <2>3, <2>4
<1>14. res.ExclusiveWaiters + Signal' + Setters' = Sleepers'
  <2>1. res.ExclusiveWaiters \in Nat /\ res.ExclusiveWaiters + 1 + 0 = Sleepers
    BY <1>1, <1>8, <1>13 DEF CountInv, Types, ResTypes
  <2>2. res.ExclusiveWaiters + 0 + 0 = Sleepers - 1
    BY <1>9, <2>1
  <2> QED
    BY <1>8, <1>10, <1>13, <2>2, Zenon
<1>15. CountInv'
  BY <1>1, <1>3, <1>10, <1>11, <1>12, <1>13, <1>14 DEF CountInv
<1>16. WakeInv'
  BY <1>1, <1>3, <1>4, <1>10 DEF WakeInv
<1>17. EntriesInv'
  <2>1. OthersKept(t)
    BY <1>3, <1>4 DEF OthersKept
  <2>2. \A s \in Slots : Thread(s) # t
    BY <1>1, <1>2, <1>3, <1>6 DEF EntriesInv, Entitled
  <2>3. ~HasEntry(t)'
    BY <1>3, <1>4, <1>6 DEF HasEntry
  <2> QED
    BY <1>1, <1>2, <1>3, <2>1, <2>2, <2>3, EntriesSame
<1>18. GivenInv'
  BY <1>1, <1>3, <1>13 DEF GivenInv
<1>19. TableInv'
  BY <1>1, <1>3, <1>4 DEF TableInv
<1>20. QueryInv'
  <2>1. Knows(t)'
    BY <1>4 DEF Knows
  <2> QED
    BY <1>1, <1>3, <1>4, <2>1, Sizes, QueryKept DEF Thread
<1> QED
  BY <1>3, <1>5, <1>7, <1>15, <1>16, <1>17, <1>18, <1>19, <1>20, HeldAsBefore DEF ResourceInv

LEMMA SetOwnerInv ==
    ASSUME ResourceInv, NEW t \in Threads, SetOwner(t)
    PROVE  ResourceInv' /\ Allowed
<1>1. Types /\ HeldInv /\ CountInv /\ WakeInv /\ EntriesInv /\ GivenInv /\ TableInv /\ QueryInv
  BY DEF ResourceInv
<1>2. t \in Owners /\ 0 \in Slots
  BY Sizes
<1>3. /\ pc[t] = "own" /\ UNCHANGED <<event, sem, size, batch>> /\ Succeed(t, "excl")
      /\ res' = [res EXCEPT !.owner[0].thread = t]
  BY DEF SetOwner
<1>4. Signal \in Nat /\ Setters \in Nat /\ NewOwners \in Nat /\ NewOwners >= 1
  BY <1>1, <1>3, Numbers, InFew
<1>5. Signal + Setters + NewOwners >= 1
  BY <1>4
<1>6. /\ New = 1 /\ res.Exclusive /\ res.owner[0].count = 1
      /\ NewOwners = 1 /\ Signal = 0 /\ Setters = 0
      /\ \A u \in Threads : pc[u] = "own" => u = t
      /\ Thread(0) \in Owners => Thread(0) \in Threads /\ pc[Thread(0)] = "own"
      /\ \A o \in Owners : held[o].n = 0 /\ held[o].mode = "none"
  BY <1>3, <1>5, Given
<1> DEFINE X == [res.owner EXCEPT ![0].thread = t]
<1>7. /\ X \in [Slots -> EntryTypes] /\ X[0].thread = t /\ X[0].count = res.owner[0].count
      /\ \A r \in Slots : r # 0 => X[r] = res.owner[r]
  <2>1. res.owner \in [Slots -> EntryTypes]
    BY <1>1 DEF Types, ResTypes
  <2> QED
    BY <1>2, <2>1 DEF EntryTypes
<1>8. res' = [res EXCEPT !.owner = X]
  BY <1>1, <1>3 DEF Types, ResTypes
<1> HIDE DEF X
<1>9. /\ res'.ActiveEntries = res.ActiveEntries /\ res'.ActiveCount = res.ActiveCount
      /\ res'.Exclusive = res.Exclusive /\ res'.owner = X
      /\ res'.TableSize = res.TableSize /\ res'.ExclusiveWaiters = res.ExclusiveWaiters
      /\ res'.SharedWaiters = res.SharedWaiters /\ res' \in ResTypes
  BY <1>1, <1>7, <1>8 DEF Types, ResTypes
<1>10. /\ held' \in [Owners -> HeldTypes]
       /\ held[t].n \in Nat /\ held'[t].n = held[t].n + 1 /\ held'[t].mode = "excl"
       /\ \A x \in Owners \ {t} : held'[x] = held[x]
       /\ pc' = [pc EXCEPT ![t] = "idle"] /\ pc' \in [Threads -> PCs]
       /\ pc'[t] = "idle" /\ \A u \in Threads \ {t} : pc'[u] = pc[u]
  <2>1. "excl" \in Modes
    BY DEF Modes
  <2> QED
    BY <1>1, <1>3, <2>1, HeldStep
<1>11. held'[t].n = 1
  BY <1>2, <1>6, <1>10
<1>12. Types'
  BY <1>1, <1>3, <1>9, <1>10 DEF Types
<1>13. HeldInv'
  <2>1. pc'[t] \notin BusyPCs
    BY <1>10 DEF BusyPCs
  <2> QED
    BY <1>1, <1>2, <1>10, <1>11, <2>1, HeldKept
<1>14. /\ Sleepers' = Sleepers /\ Sharers' = Sharers /\ Settlers' = Settlers
       /\ Setters' = Setters /\ NewOwners' = NewOwners - 1
  <2>1. "idle" \notin Counted
    BY DEF Counted
  <2> QED
    BY <1>1, <1>3, <1>10, <2>1, MoveOut
<1>15. Giving' = Giving /\ Signal' = Signal /\ Tokens' = Tokens
  BY <1>3, <1>10, GivingKept DEF Signal, Tokens
<1>16. Having' = Having + 1
  BY <1>2, <1>6, <1>10, <1>11, HavingMove
<1>17. New' = 0
  BY <1>6, <1>14, <1>15 DEF New
<1>18. ExclusiveHeld'
  BY <1>2, <1>10 DEF ExclusiveHeld
<1>19. CountInv'
  <2>1. Having' + Tokens' + Giving' + Settlers' + New' = Having + Tokens + Giving + Settlers + New
    <3>1. Having \in Nat /\ Tokens \in Nat /\ Giving \in Nat /\ Settlers \in Nat
      BY <1>1, Numbers
    <3>2. (Having + 1) + Tokens + Giving + Settlers + 0
             = Having + Tokens + Giving + Settlers + 1
      BY <3>1
    <3> QED
      BY <1>6, <1>14, <1>15, <1>16, <1>17, <3>2, Zenon
  <2> QED
    BY <1>1, <1>6, <1>9, <1>14, <1>15, <1>17, <1>18, <2>1 DEF CountInv
<1>20. WakeInv'
  BY <1>1, <1>3, <1>10, <1>14 DEF WakeInv
<1>21. EntriesInv'
  <2>1. OthersKept(t)
    BY <1>10 DEF OthersKept
  <2>2. Entitled(t, 0)'
    BY <1>6, <1>7, <1>9, <1>10, <1>11 DEF Entitled
  <2>3. \A r \in Slots : Thread(r) = t => r = 0
    BY <1>1, <1>2, <1>3, <1>6 DEF EntriesInv, Entitled
  <2>4. Thread(0) \notin Owners \ {t}
    BY <1>6
  <2> QED
    BY <1>1, <1>2, <1>7, <1>9, <2>1, <2>2, <2>3, <2>4, EntryTaken
<1>22. GivenInv'
  BY <1>17 DEF GivenInv
<1>23. TableInv'
  BY <1>1, <1>3, <1>9, <1>10 DEF TableInv
<1>24. QueryInv'
  BY <1>1, <1>3, <1>7, <1>9, <1>10, Sizes, IdleKnows, QueryKept DEF Thread
<1>25. Allowed
  BY <1>2, <1>6, <1>10 DEF Allowed, OnlyModeOf
<1> QED
  BY <1>12, <1>13, <1>19, <1>20, <1>21, <1>22, <1>23, <1>24, <1>25 DEF ResourceInv

-----------------------------------------------------------------------------
(* An owner releases the resource.                                         *)

(* What t does for o, who has the entry s, whatever becomes of the resource. *)
Releases(t, o, s) ==
    /\ pc[t] = "idle" /\ (o = t \/ o \in Pointers) /\ held[o].n > 0
    /\ s \in SlotToRelease(o)
    /\ held' = [held EXCEPT ![o] = IF @.n = 1 THEN Nothing
                                   ELSE [mode |-> @.mode, n |-> @.n - 1]]
    /\ UNCHANGED <<event, sem, call, size>>

(* The entry is o's only one and counts what it holds. *)
LEMMA ReleaseEntry ==
    ASSUME ResourceInv, NEW t \in Threads, NEW o \in Owners, NEW s, Releases(t, o, s)
    PROVE  /\ s \in Slots /\ Thread(s) = o /\ (s = 0 \/ s < res.TableSize)
           /\ \A r \in Slots : Thread(r) = o => r = s
           /\ res.owner[s].count = held[o].n /\ (held[o].mode = "excl" => s = 0)
           /\ New = 0 /\ Having >= 1
           /\ res.Exclusive <=> held[o].mode = "excl"
           /\ ~(o \in Threads /\ pc[o] \in BusyPCs)
           /\ \A u \in Threads : u = o => u = t
<1>1. Types /\ HeldInv /\ CountInv /\ WakeInv /\ EntriesInv
  BY DEF ResourceInv
<1>2. 0 \in Slots /\ held[o].n > 0 /\ s \in SlotToRelease(o)
  BY Sizes DEF Releases
<1>3. s \in Slots /\ Thread(s) = o
  <2>1. CASE res.Exclusive
    BY <1>2, <2>1, Alone DEF SlotToRelease
  <2>2. CASE ~res.Exclusive
    BY <1>2, <2>2, OwnEntry DEF SlotToRelease
  <2> QED
    BY <2>1, <2>2
<1>4. (s = 0 \/ s < res.TableSize) /\ Entitled(o, s) /\ \A r \in Slots : Thread(r) = o => r = s
  BY <1>1, <1>3 DEF EntriesInv
<1>5. ~(o \in Threads /\ pc[o] \in BusyPCs)
  BY <1>1, <1>2 DEF HeldInv
<1>6. res.owner[s].count = held[o].n /\ (held[o].mode = "excl" => s = 0)
  BY <1>4, <1>5 DEF Entitled, BusyPCs
<1>7. Having >= 1
  BY <1>2, HavingFew
<1>8. New = 0
  <2>1. New \in Nat /\ New <= 1
    BY <1>1, Numbers DEF CountInv
  <2>2. New # 1
    BY <1>2, Vacant
  <2> QED
    BY <2>1, <2>2
<1>9. res.Exclusive <=> held[o].mode = "excl"
  BY <1>1, <1>2, Alone DEF CountInv, ExclusiveHeld
<1>10. \A u \in Threads : u = o => u = t
  BY OwnerAssumption DEF Releases
<1> QED
  BY <1>3, <1>4, <1>5, <1>6, <1>7, <1>8, <1>9, <1>10

LEMMA ReleaseHeld ==
    ASSUME ResourceInv, NEW t \in Threads, NEW o \in Owners, NEW s, Releases(t, o, s)
    PROVE  /\ held' \in [Owners -> HeldTypes] /\ held[o].n \in Nat
           /\ \A x \in Owners \ {o} : held'[x] = held[x]
           /\ held[o].n = 1 => held'[o] = Nothing /\ held'[o].n = 0 /\ held'[o].mode = "none"
           /\ held[o].n # 1 => /\ held'[o].n = held[o].n - 1 /\ held'[o].n > 0
                               /\ held'[o].mode = held[o].mode
           /\ \A u \in Threads \ {t} : held'[u] = held[u]
           /\ Allowed
<1>1. Types /\ HeldInv
  BY DEF ResourceInv
<1>2. held \in [Owners -> HeldTypes] /\ held[o] \in HeldTypes /\ held[o].n \in Nat /\ held[o].n > 0
  BY <1>1 DEF Types, HeldTypes, Releases
<1> DEFINE less == [mode |-> held[o].mode, n |-> held[o].n - 1]
<1>3. held' = [held EXCEPT ![o] = IF held[o].n = 1 THEN Nothing ELSE less]
  BY <1>2 DEF Releases
<1>4. /\ Nothing \in HeldTypes /\ Nothing.n = 0 /\ Nothing.mode = "none"
      /\ less \in HeldTypes /\ less.n = held[o].n - 1 /\ less.mode = held[o].mode
  <2>1. held[o].n - 1 \in Nat
    BY <1>2
  <2> QED
    BY <1>2, <2>1 DEF HeldTypes, Nothing, Modes
<1> HIDE DEF less
<1>5. /\ held' \in [Owners -> HeldTypes] /\ \A x \in Owners \ {o} : held'[x] = held[x]
      /\ held[o].n = 1 => held'[o] = Nothing
      /\ held[o].n # 1 => held'[o] = less
  BY <1>2, <1>3, <1>4
<1>6. held[o].n # 1 => held[o].n - 1 > 0
  BY <1>2
<1>7. \A u \in Threads \ {t} : held'[u] = held[u]
  BY <1>5, ReleaseEntry, Sizes
<1>8. Allowed
  <2>1. held[o].mode # "none" /\ OnlyModeOf(o)
    BY <1>1, <1>2, <1>5 DEF HeldInv, OnlyModeOf
  <2>2. CASE held[o].n = 1
    <3>1. held'[o].mode = "none"
      BY <1>4, <1>5, <2>2
    <3> QED
      BY <2>1, <3>1 DEF Allowed
  <2>3. CASE held[o].n # 1
    <3>1. held'[o].mode = held[o].mode
      BY <1>4, <1>5, <2>3
    <3> QED
      BY <1>5, <3>1 DEF Allowed
  <2> QED
    BY <2>2, <2>3
<1> QED
  BY <1>2, <1>4, <1>5, <1>6, <1>7, <1>8

(* o keeps the resource: it had acquired it more than once. *)
LEMMA ReleaseOne ==
    ASSUME ResourceInv, NEW t \in Threads, NEW o \in Owners, NEW s, Releases(t, o, s),
           res.owner[s].count # 1, res' = [res EXCEPT !.owner[s].count = @ - 1],
           UNCHANGED <<pc, batch>>
    PROVE  ResourceInv' /\ Allowed
<1>1. Types /\ HeldInv /\ CountInv /\ WakeInv /\ EntriesInv /\ GivenInv /\ TableInv /\ QueryInv
  BY DEF ResourceInv
<1>2. /\ s \in Slots /\ Thread(s) = o /\ (s = 0 \/ s < res.TableSize)
      /\ \A r \in Slots : Thread(r) = o => r = s
      /\ res.owner[s].count = held[o].n /\ (held[o].mode = "excl" => s = 0)
      /\ New = 0 /\ Having >= 1
      /\ ~(o \in Threads /\ pc[o] \in BusyPCs)
  BY ReleaseEntry
<1>3. /\ held' \in [Owners -> HeldTypes] /\ held[o].n \in Nat
      /\ \A x \in Owners \ {o} : held'[x] = held[x]
      /\ held'[o].n = held[o].n - 1 /\ held'[o].n > 0
      /\ held'[o].mode = held[o].mode
      /\ \A u \in Threads \ {t} : held'[u] = held[u]
      /\ Allowed
  BY <1>2, ReleaseHeld
<1>4. /\ pc[t] = "idle" /\ held[o].n > 0 /\ UNCHANGED <<event, sem, call, size, pc, batch>>
  BY DEF Releases
<1> DEFINE X == [res.owner EXCEPT ![s].count = res.owner[s].count - 1]
<1>5. /\ X \in [Slots -> EntryTypes] /\ X[s].count = res.owner[s].count - 1
      /\ X[s].thread = res.owner[s].thread
      /\ \A r \in Slots : r # s => X[r] = res.owner[r]
  <2>1. res.owner \in [Slots -> EntryTypes]
    BY <1>1 DEF Types, ResTypes
  <2>2. res.owner[s].count - 1 \in Nat
    BY <1>2, <1>3, <1>4
  <2> QED
    BY <1>2, <2>1, <2>2 DEF EntryTypes
<1>6. res' = [res EXCEPT !.owner = X]
  BY <1>1, <1>2 DEF Types, ResTypes
<1> HIDE DEF X
<1>7. /\ res'.ActiveEntries = res.ActiveEntries /\ res'.ActiveCount = res.ActiveCount
      /\ res'.Exclusive = res.Exclusive /\ res'.owner = X
      /\ res'.TableSize = res.TableSize /\ res'.ExclusiveWaiters = res.ExclusiveWaiters
      /\ res'.SharedWaiters = res.SharedWaiters /\ res' \in ResTypes
  BY <1>1, <1>5, <1>6 DEF Types, ResTypes
<1>8. Types'
  BY <1>1, <1>3, <1>4, <1>7 DEF Types
<1>9. HeldInv'
  <2>1. held'[o].mode # "none" /\ held'[o].n # 0
    BY <1>1, <1>3, <1>4 DEF HeldInv
  <2> QED
    BY <1>1, <1>2, <1>3, <1>4, <2>1, HeldKept
<1>10. /\ Sleepers' = Sleepers /\ Sharers' = Sharers /\ Settlers' = Settlers
       /\ Setters' = Setters /\ NewOwners' = NewOwners
  BY <1>4 DEF Sleepers, Sharers, Settlers, Setters, NewOwners, In
<1>11. Giving' = Giving /\ Signal' = Signal /\ Tokens' = Tokens
  BY <1>4, GivingKept DEF Signal, Tokens
<1>12. Having' = Having
  BY <1>3, <1>4, HavingMove
<1>13. ExclusiveHeld' <=> ExclusiveHeld
  BY <1>3 DEF ExclusiveHeld
<1>14. CountInv' /\ New' = New
  BY <1>1, <1>7, <1>10, <1>11, <1>12, <1>13, CountKept
<1>15. WakeInv'
  BY <1>1, <1>4, <1>10 DEF WakeInv
<1>16. EntriesInv'
  <2>1. OthersKept(o)
    BY <1>3, <1>4 DEF OthersKept
  <2>2. Entitled(o, s)'
    BY <1>2, <1>3, <1>5, <1>7 DEF Entitled
  <2>3. HasEntry(o)
    BY <1>4 DEF HasEntry
  <2> QED
    BY <1>1, <1>2, <1>5, <1>7, <2>1, <2>2, <2>3, EntriesSame
<1>17. GivenInv'
  BY <1>2, <1>14 DEF GivenInv
<1>18. TableInv'
  BY <1>1, <1>4, <1>7 DEF TableInv
<1>19. res'.owner[0].thread = res.owner[0].thread
  BY <1>5, <1>7, Sizes
<1>20. QueryInv'
  <2>1. Knows(t)'
    BY <1>4 DEF Knows
  <2> QED
    BY <1>1, <1>3, <1>4, <1>19, <2>1, QueryKept DEF Thread
<1> QED
  BY <1>3, <1>8, <1>9, <1>14, <1>15, <1>16, <1>17, <1>18, <1>20 DEF ResourceInv

(* The resource without the entry s. *)
Left(s) == [res EXCEPT !.owner[s] = FreeEntry, !.ActiveEntries = @ - 1]

LEMMA LeftFields ==
    ASSUME Types, NEW s \in Slots, res.ActiveEntries # 0
    PROVE  /\ Left(s) \in ResTypes /\ Left(s).ActiveEntries = res.ActiveEntries - 1
           /\ Left(s).ActiveCount = res.ActiveCount /\ Left(s).Exclusive = res.Exclusive
           /\ Left(s).TableSize = res.TableSize
           /\ Left(s).ExclusiveWaiters = res.ExclusiveWaiters
           /\ Left(s).SharedWaiters = res.SharedWaiters
           /\ Left(s).owner[s] = FreeEntry
           /\ \A r \in Slots : r # s => Left(s).owner[r] = res.owner[r]
<1> DEFINE X == [res.owner EXCEPT ![s] = FreeEntry]
<1>1. /\ X \in [Slots -> EntryTypes] /\ X[s] = FreeEntry
      /\ \A r \in Slots : r # s => X[r] = res.owner[r]
  <2>1. res.owner \in [Slots -> EntryTypes] /\ FreeEntry \in EntryTypes
    BY DEF Types, ResTypes, EntryTypes, FreeEntry
  <2> QED
    BY <2>1
<1>2. Left(s) = [res EXCEPT !.owner = X, !.ActiveEntries = res.ActiveEntries - 1]
  BY DEF Left, Types, ResTypes
<1> HIDE DEF X
<1>3. /\ Left(s).ActiveEntries = res.ActiveEntries - 1
      /\ Left(s).ActiveCount = res.ActiveCount /\ Left(s).Exclusive = res.Exclusive
      /\ Left(s).TableSize = res.TableSize
      /\ Left(s).ExclusiveWaiters = res.ExclusiveWaiters
      /\ Left(s).SharedWaiters = res.SharedWaiters
      /\ Left(s).owner = X
  BY <1>2 DEF Types, ResTypes
<1>4. res.ActiveEntries - 1 \in Nat
  BY DEF Types, ResTypes
<1>5. Left(s) \in ResTypes
  BY <1>1, <1>2, <1>4 DEF Types, ResTypes
<1> QED
  BY <1>1, <1>3, <1>5

(* o has released its last acquisition. *)
LEMMA LastOut ==
    ASSUME ResourceInv, NEW t \in Threads, NEW o \in Owners, NEW s, Releases(t, o, s),
           res.owner[s].count = 1
    PROVE  /\ held' \in [Owners -> HeldTypes]
           /\ held'[o].n = 0 /\ held'[o].mode = "none"
           /\ \A x \in Owners \ {o} : held'[x] = held[x]
           /\ \A u \in Threads \ {t} : held'[u] = held[u]
           /\ Having' = Having - 1 /\ ~ExclusiveHeld' /\ Allowed
           /\ res.ActiveEntries # 0
<1>1. Types /\ HeldInv /\ CountInv /\ WakeInv
  BY DEF ResourceInv
<1>2. res.owner[s].count = held[o].n /\ Having >= 1 /\ held[o].n > 0
  <2>1. held[o].n > 0
    BY DEF Releases
  <2>2. res.owner[s].count = held[o].n /\ Having >= 1
    BY ReleaseEntry
  <2> QED
    BY <2>1, <2>2
<1>3. /\ held' \in [Owners -> HeldTypes]
      /\ held'[o].n = 0 /\ held'[o].mode = "none"
      /\ \A x \in Owners \ {o} : held'[x] = held[x]
      /\ \A u \in Threads \ {t} : held'[u] = held[u]
      /\ Allowed
  BY <1>2, ReleaseHeld
<1>4. Having' = Having - 1
  BY <1>2, <1>3, HavingMove
<1>5. ASSUME NEW x \in Owners, held'[x].mode = "excl" PROVE FALSE
  <2>1. x # o /\ held[x].mode = "excl"
    BY <1>3, <1>5
  <2>2. held[x].n # 0 /\ held[x].n \in Nat
    BY <1>1, <2>1 DEF HeldInv, Types, HeldTypes
  <2>3. res.Exclusive
    BY <1>1, <2>1 DEF CountInv, ExclusiveHeld
  <2> QED
    BY <1>2, <2>1, <2>2, <2>3, Alone
<1>6. res.ActiveEntries # 0
  <2>1. Having \in Nat /\ Tokens \in Nat /\ Giving \in Nat /\ Settlers \in Nat /\ New \in Nat
    BY <1>1, Numbers
  <2> QED
    BY <1>1, <1>2, <2>1 DEF CountInv
<1> QED
  BY <1>3, <1>4, <1>5, <1>6 DEF ExclusiveHeld

(* Others still have the resource. *)
LEMMA ReleaseLast ==
    ASSUME ResourceInv, NEW t \in Threads, NEW o \in Owners, NEW s, Releases(t, o, s),
           res.owner[s].count = 1, res' = Left(s), res'.ActiveEntries # 0,
           UNCHANGED <<pc, batch>>
    PROVE  ResourceInv' /\ Allowed
<1>1. Types /\ HeldInv /\ CountInv /\ WakeInv /\ EntriesInv /\ GivenInv /\ TableInv /\ QueryInv
  BY DEF ResourceInv
<1>2. /\ s \in Slots /\ Thread(s) = o
      /\ \A r \in Slots : Thread(r) = o => r = s
      /\ New = 0 /\ ~(o \in Threads /\ pc[o] \in BusyPCs)
  BY ReleaseEntry
<1>3. /\ held' \in [Owners -> HeldTypes]
      /\ held'[o].n = 0 /\ held'[o].mode = "none"
      /\ \A x \in Owners \ {o} : held'[x] = held[x]
      /\ \A u \in Threads \ {t} : held'[u] = held[u]
      /\ Having' = Having - 1 /\ ~ExclusiveHeld' /\ Allowed
      /\ res.ActiveEntries # 0
  BY LastOut
<1>4. /\ pc[t] = "idle" /\ UNCHANGED <<event, sem, call, size, pc, batch>>
  BY DEF Releases
<1>5. /\ res' \in ResTypes /\ res'.ActiveEntries = res.ActiveEntries - 1
      /\ res'.ActiveCount = res.ActiveCount /\ res'.Exclusive = res.Exclusive
      /\ res'.TableSize = res.TableSize
      /\ res'.ExclusiveWaiters = res.ExclusiveWaiters
      /\ res'.SharedWaiters = res.SharedWaiters
      /\ res'.owner[s] = FreeEntry
      /\ \A r \in Slots : r # s => res'.owner[r] = res.owner[r]
  BY <1>1, <1>2, <1>3, LeftFields
<1>6. Types'
  BY <1>1, <1>3, <1>4, <1>5 DEF Types
<1>7. HeldInv'
  BY <1>1, <1>2, <1>3, <1>4, HeldKept
<1>8. /\ Sleepers' = Sleepers /\ Sharers' = Sharers /\ Settlers' = Settlers
      /\ Setters' = Setters /\ NewOwners' = NewOwners
  BY <1>4 DEF Sleepers, Sharers, Settlers, Setters, NewOwners, In
<1>9. Giving' = Giving /\ Signal' = Signal /\ Tokens' = Tokens
  BY <1>4, GivingKept DEF Signal, Tokens
<1>10. New' = 0
  BY <1>2, <1>8, <1>9 DEF New
<1>11. ~res.Exclusive /\ res.ActiveEntries \in Nat
  BY <1>1, <1>5 DEF CountInv, Types, ResTypes
<1>12. CountInv'
  <2>1. res.ActiveEntries = Having + Tokens + Giving + Settlers + 0
    BY <1>1, <1>2 DEF CountInv
  <2>2. Having \in Nat /\ Tokens \in Nat /\ Giving \in Nat /\ Settlers \in Nat
    BY <1>1, Numbers
  <2>3. res.ActiveEntries - 1 = (Having - 1) + Tokens + Giving + Settlers + 0
    BY <2>1, <2>2
  <2>4. res'.ActiveEntries = Having' + Tokens' + Giving' + Settlers' + New'
    BY <1>3, <1>5, <1>8, <1>9, <1>10, <2>3, Zenon
  <2>5. res'.ActiveCount = 1
    BY <1>1, <1>3, <1>5 DEF CountInv
  <2> QED
    BY <1>1, <1>3, <1>5, <1>8, <1>9, <1>10, <1>11, <2>4, <2>5 DEF CountInv
<1>13. WakeInv'
  BY <1>1, <1>4, <1>8 DEF WakeInv
<1>14. EntriesInv'
  <2>1. OthersKept(o)
    BY <1>3, <1>4 DEF OthersKept
  <2>2. ~HasEntry(o)'
    BY <1>2, <1>3, <1>4 DEF HasEntry, BusyPCs
  <2>3. res'.owner[s].thread = NoOwner
    BY <1>5 DEF FreeEntry
  <2> QED
    BY <1>1, <1>2, <1>5, <2>1, <2>2, <2>3, EntryFreed
<1>15. GivenInv'
  BY <1>10 DEF GivenInv
<1>16. TableInv'
  BY <1>1, <1>4, <1>5 DEF TableInv
<1>17. QueryInv'
  <2>1. Knows(t)'
    BY <1>4 DEF Knows
  <2>2. res'.owner[0] = res.owner[0] \/ res'.owner[0].thread = NoOwner
    BY <1>2, <1>5, Sizes DEF FreeEntry
  <2>3. NoOwner \notin Threads
    BY Sizes, OwnerAssumption
  <2> QED
    BY <1>1, <1>3, <1>4, <2>1, <2>2, <2>3, QueryKept DEF Thread
<1> QED
  BY <1>3, <1>6, <1>7, <1>12, <1>13, <1>14, <1>15, <1>16, <1>17 DEF ResourceInv

(* o was the last that had the resource. *)
LEMMA LastOwner ==
    ASSUME ResourceInv, NEW t \in Threads, NEW o \in Owners, NEW s, Releases(t, o, s),
           res.owner[s].count = 1, res.ActiveEntries = 1
    PROVE  /\ Having = 1 /\ Tokens = 0 /\ Giving = 0 /\ Settlers = 0
           /\ Signal = 0 /\ Setters = 0 /\ NewOwners = 0
           /\ Thread(0) \notin Owners \ {o}
           /\ \A u \in Threads : pc[u] # "releaseSemaphore"
<1>1. Types /\ HeldInv /\ CountInv /\ WakeInv /\ EntriesInv
  BY DEF ResourceInv
<1>2. New = 0 /\ Having >= 1 /\ held[o].n > 0
  <2>1. held[o].n > 0
    BY DEF Releases
  <2>2. New = 0 /\ Having >= 1
    BY ReleaseEntry
  <2> QED
    BY <2>1, <2>2
<1>3. /\ Having \in Nat /\ Tokens \in Nat /\ Giving \in Nat /\ Settlers \in Nat
      /\ Signal \in Nat /\ Setters \in Nat /\ NewOwners \in Nat
  BY <1>1, Numbers
<1>4. Having = 1 /\ Tokens = 0 /\ Giving = 0 /\ Settlers = 0
  <2>1. 1 = Having + Tokens + Giving + Settlers + 0
    BY <1>1, <1>2 DEF CountInv
  <2> QED
    BY <1>2, <1>3, <2>1
<1>5. Signal = 0 /\ Setters = 0 /\ NewOwners = 0
  BY <1>2, <1>3 DEF New
<1>6. \A u \in Threads : pc[u] # "releaseSemaphore"
  BY <1>1, <1>4, GivingOne
<1>7. ASSUME NEW x \in Owners \ {o}, Thread(0) = x PROVE FALSE
  <2>1. Entitled(x, 0)
    BY <1>1, <1>7, Sizes DEF EntriesInv
  <2>2. ~(held[x].n > 0)
    BY <1>2, <1>4, HavingFew
  <2>3. x \in Threads /\ pc[x] = "own"
    BY <2>1, <2>2 DEF Entitled
  <2> QED
    BY <1>5, <2>3, InFew
<1> QED
  BY <1>4, <1>5, <1>6, <1>7

(* t, who owned the resource, is about to wake k sharers. *)
LEMMA GivingStarts ==
    ASSUME ResourceInv, NEW t \in Threads, pc[t] = "idle", NEW k \in Nat, k > 0,
           \A u \in Threads : pc[u] # "releaseSemaphore",
           pc' = [pc EXCEPT ![t] = "releaseSemaphore"], batch' = [batch EXCEPT ![t] = k],
           UNCHANGED <<event, sem>>
    PROVE  /\ Giving' = k /\ WakeInv'
           /\ Sleepers' = Sleepers /\ Sharers' = Sharers /\ Settlers' = Settlers
           /\ Setters' = Setters /\ NewOwners' = NewOwners
           /\ pc' \in [Threads -> PCs] /\ batch' \in [Threads -> Nat]
           /\ pc'[t] = "releaseSemaphore" /\ \A u \in Threads \ {t} : pc'[u] = pc[u]
           /\ \A u \in Threads \ {t} : batch'[u] = batch[u]
<1>1. Types /\ WakeInv
  BY DEF ResourceInv
<1>2. /\ pc' \in [Threads -> PCs] /\ batch' \in [Threads -> Nat]
      /\ pc'[t] = "releaseSemaphore" /\ \A u \in Threads \ {t} : pc'[u] = pc[u]
      /\ batch'[t] = k /\ \A u \in Threads \ {t} : batch'[u] = batch[u]
  BY <1>1 DEF Types, PCs, FreePCs
<1>3. /\ Sleepers' = Sleepers /\ Sharers' = Sharers /\ Settlers' = Settlers
      /\ Setters' = Setters /\ NewOwners' = NewOwners
  <2>1. pc[t] \notin Counted
    BY DEF Counted
  <2> QED
    BY <1>1, <2>1, MoveIn
<1>4. Giving' = k
  <2> DEFINE f == [u \in In({"releaseSemaphore"})' |-> batch'[u]]
  <2>1. In({"releaseSemaphore"})' = {t}
    BY <1>2 DEF In
  <2>2. DOMAIN f = {t} /\ f[t] = k
    BY <1>2, <2>1
  <2>3. Giving' = Total(f)
    BY DEF Giving, Total
  <2> HIDE DEF f
  <2>4. Total(f) = k
    BY <2>2, TotalOne
  <2> QED
    BY <2>3, <2>4
<1>5. WakeInv'
  BY <1>1, <1>2, <1>3 DEF WakeInv
<1> QED
  BY <1>2, <1>3, <1>4, <1>5

(* The sharers that wait get it, *)
LEMMA ReleaseToSharers ==
    ASSUME ResourceInv, NEW t \in Threads, NEW o \in Owners, NEW s, Releases(t, o, s),
           res.owner[s].count = 1, res.ActiveEntries = 1, SharersFirst(Left(s)),
           GiveShared(t, Left(s))
    PROVE  ResourceInv' /\ Allowed
<1> DEFINE k == res.SharedWaiters
<1>1. Types /\ HeldInv /\ CountInv /\ WakeInv /\ EntriesInv /\ GivenInv /\ TableInv /\ QueryInv
  BY DEF ResourceInv
<1>2. /\ s \in Slots /\ Thread(s) = o
      /\ \A r \in Slots : Thread(r) = o => r = s
      /\ New = 0 /\ ~(o \in Threads /\ pc[o] \in BusyPCs)
      /\ \A u \in Threads : u = o => u = t
  BY ReleaseEntry
<1>3. /\ held' \in [Owners -> HeldTypes]
      /\ held'[o].n = 0 /\ held'[o].mode = "none"
      /\ \A x \in Owners \ {o} : held'[x] = held[x]
      /\ \A u \in Threads \ {t} : held'[u] = held[u]
      /\ Having' = Having - 1 /\ ~ExclusiveHeld' /\ Allowed
  BY LastOut
<1>4. /\ pc[t] = "idle" /\ UNCHANGED <<event, sem, call, size>>
  BY DEF Releases
<1>5. /\ Having = 1 /\ Tokens = 0 /\ Giving = 0 /\ Settlers = 0
      /\ Signal = 0 /\ Setters = 0 /\ NewOwners = 0
      /\ \A u \in Threads : pc[u] # "releaseSemaphore"
  BY LastOwner
<1>6. /\ Left(s) \in ResTypes /\ Left(s).ActiveEntries = 0
      /\ Left(s).ActiveCount = res.ActiveCount /\ Left(s).Exclusive = res.Exclusive
      /\ Left(s).TableSize = res.TableSize
      /\ Left(s).ExclusiveWaiters = res.ExclusiveWaiters
      /\ Left(s).SharedWaiters = k
      /\ Left(s).owner[s] = FreeEntry
      /\ \A r \in Slots : r # s => Left(s).owner[r] = res.owner[r]
  BY <1>1, <1>2, LeftFields
<1>7. k \in Nat /\ k > 0
  BY <1>1, <1>6 DEF SharersFirst, Types, ResTypes
<1> HIDE DEF k
<1>8. /\ res' = [Left(s) EXCEPT !.Exclusive = FALSE, !.ActiveEntries = 0 + k, !.SharedWaiters = 0]
      /\ batch' = [batch EXCEPT ![t] = k] /\ pc' = [pc EXCEPT ![t] = "releaseSemaphore"]
  BY <1>6 DEF GiveShared, Goto, ResTypes
<1>9. /\ res' \in ResTypes /\ res'.ActiveEntries = k /\ res'.ActiveCount = res.ActiveCount
      /\ res'.Exclusive = FALSE /\ res'.TableSize = res.TableSize
      /\ res'.ExclusiveWaiters = res.ExclusiveWaiters /\ res'.SharedWaiters = 0
      /\ res'.owner[s] = FreeEntry
      /\ \A r \in Slots : r # s => res'.owner[r] = res.owner[r]
  <2> DEFINE L == Left(s)
  <2>1. /\ L \in ResTypes
        /\ res' = [L EXCEPT !.Exclusive = FALSE, !.ActiveEntries = k, !.SharedWaiters = 0]
    <3>1. 0 + k = k
      BY <1>7
    <3> QED
      BY <1>6, <1>8, <3>1
  <2> HIDE DEF L
  <2>2. /\ res' \in ResTypes /\ res'.ActiveEntries = k /\ res'.ActiveCount = L.ActiveCount
        /\ res'.Exclusive = FALSE /\ res'.TableSize = L.TableSize
        /\ res'.ExclusiveWaiters = L.ExclusiveWaiters /\ res'.SharedWaiters = 0
        /\ res'.owner = L.owner
    BY <1>7, <2>1 DEF ResTypes
  <2> QED
    BY <1>6, <2>2 DEF L
<1>10. /\ Giving' = k /\ WakeInv'
       /\ Sleepers' = Sleepers /\ Sharers' = Sharers /\ Settlers' = Settlers
       /\ Setters' = Setters /\ NewOwners' = NewOwners
       /\ pc' \in [Threads -> PCs] /\ batch' \in [Threads -> Nat]
       /\ pc'[t] = "releaseSemaphore" /\ \A u \in Threads \ {t} : pc'[u] = pc[u]
       /\ \A u \in Threads \ {t} : batch'[u] = batch[u]
  BY <1>4, <1>5, <1>7, <1>8, GivingStarts
<1>11. Types'
  BY <1>1, <1>3, <1>4, <1>9, <1>10 DEF Types
<1>12. HeldInv'
  <2>1. pc'[t] \notin BusyPCs
    BY <1>10 DEF BusyPCs
  <2> QED
    BY <1>1, <1>2, <1>3, <1>10, <2>1, HeldKept
<1>13. Signal' = 0 /\ Tokens' = 0 /\ New' = 0
  <2>1. Signal' = Signal /\ Tokens' = Tokens
    BY <1>4 DEF Signal, Tokens
  <2> QED
    BY <1>5, <1>10, <2>1 DEF New
<1>14. CountInv'
  <2>1. res'.ActiveEntries = Having' + Tokens' + Giving' + Settlers' + New'
    <3>1. k = (1 - 1) + 0 + k + 0 + 0
      BY <1>7
    <3> QED
      BY <1>3, <1>5, <1>9, <1>10, <1>13, <3>1, Zenon
  <2>2. res'.SharedWaiters + Tokens' + Giving' = Sharers'
    <3>1. k + 0 + 0 = Sharers
      BY <1>1, <1>5 DEF CountInv, k
    <3>2. 0 + 0 + k = Sharers
      BY <1>7, <3>1
    <3> QED
      BY <1>9, <1>10, <1>13, <3>2, Zenon
  <2>3. res'.ExclusiveWaiters + Signal' + Setters' = Sleepers'
    BY <1>1, <1>5, <1>9, <1>10, <1>13 DEF CountInv
  <2>4. res'.ActiveCount = 1 /\ res'.ActiveEntries # 0
    BY <1>1, <1>7, <1>9 DEF CountInv
  <2> QED
    BY <1>3, <1>9, <1>13, <2>1, <2>2, <2>3, <2>4 DEF CountInv
<1>15. EntriesInv'
  <2>1. OthersKept(o)
    BY <1>3, <1>4, <1>10 DEF OthersKept
  <2>2. ~HasEntry(o)'
    BY <1>2, <1>3, <1>10 DEF HasEntry, BusyPCs
  <2>3. res'.owner[s].thread = NoOwner
    BY <1>9 DEF FreeEntry
  <2> QED
    BY <1>1, <1>2, <1>9, <2>1, <2>2, <2>3, EntryFreed
<1>16. GivenInv'
  BY <1>13 DEF GivenInv
<1>17. TableInv'
  BY <1>1, <1>4, <1>9, <1>10 DEF TableInv
<1>18. QueryInv'
  <2>1. Knows(t)'
    BY <1>10 DEF Knows
  <2>2. res'.owner[0] = res.owner[0] \/ res'.owner[0].thread = NoOwner
    BY <1>2, <1>9, Sizes DEF FreeEntry
  <2>3. NoOwner \notin Threads
    BY Sizes, OwnerAssumption
  <2> QED
    BY <1>1, <1>3, <1>10, <2>1, <2>2, <2>3, QueryKept DEF Thread
<1> QED
  BY <1>3, <1>10, <1>11, <1>12, <1>14, <1>15, <1>16, <1>17, <1>18 DEF ResourceInv

(* or a thread that waits to own it, *)
LEMMA ReleaseToOwner ==
    ASSUME ResourceInv, NEW t \in Threads, NEW o \in Owners, NEW s, Releases(t, o, s),
           res.owner[s].count = 1, res.ActiveEntries = 1, Left(s).ExclusiveWaiters > 0,
           GiveExclusive(t, Left(s))
    PROVE  ResourceInv' /\ Allowed
<1> DEFINE given == [thread |-> Pending, count |-> 1]
           w == res.ExclusiveWaiters
<1>1. Types /\ HeldInv /\ CountInv /\ WakeInv /\ EntriesInv /\ GivenInv /\ TableInv /\ QueryInv
  BY DEF ResourceInv
<1>2. /\ s \in Slots /\ Thread(s) = o /\ 0 \in Slots
      /\ \A r \in Slots : Thread(r) = o => r = s
      /\ New = 0 /\ ~(o \in Threads /\ pc[o] \in BusyPCs)
      /\ \A u \in Threads : u = o => u = t
  BY ReleaseEntry, Sizes
<1>3. /\ held' \in [Owners -> HeldTypes]
      /\ held'[o].n = 0 /\ held'[o].mode = "none"
      /\ \A x \in Owners \ {o} : held'[x] = held[x]
      /\ \A u \in Threads \ {t} : held'[u] = held[u]
      /\ Having' = Having - 1 /\ ~ExclusiveHeld' /\ Allowed
  BY LastOut
<1>4. /\ pc[t] = "idle" /\ UNCHANGED <<event, sem, call, size, batch>>
  BY DEF Releases, GiveExclusive
<1>5. /\ Having = 1 /\ Tokens = 0 /\ Giving = 0 /\ Settlers = 0
      /\ Signal = 0 /\ Setters = 0 /\ NewOwners = 0
      /\ Thread(0) \notin Owners \ {o}
  BY LastOwner
<1>6. /\ Left(s) \in ResTypes
      /\ Left(s).ActiveCount = res.ActiveCount
      /\ Left(s).TableSize = res.TableSize
      /\ Left(s).ExclusiveWaiters = w
      /\ Left(s).SharedWaiters = res.SharedWaiters
      /\ Left(s).owner[s] = FreeEntry
      /\ \A r \in Slots : r # s => Left(s).owner[r] = res.owner[r]
  BY <1>1, <1>2, LeftFields
<1>7. w \in Nat /\ w > 0 /\ w - 1 \in Nat
  BY <1>1, <1>6 DEF Types, ResTypes
<1>8. pc' = [pc EXCEPT ![t] = "setEvent"]
  BY DEF GiveExclusive, Goto
<1>9. /\ res' \in ResTypes /\ res'.ActiveEntries = 1 /\ res'.ActiveCount = res.ActiveCount
      /\ res'.Exclusive = TRUE /\ res'.TableSize = res.TableSize
      /\ res'.ExclusiveWaiters = w - 1 /\ res'.SharedWaiters = res.SharedWaiters
      /\ res'.owner[0] = given
      /\ \A r \in Slots : r # 0 => res'.owner[r] = Left(s).owner[r]
  <2> DEFINE L == Left(s)
             X == [L.owner EXCEPT ![0] = given]
  <2>1. L \in ResTypes /\ given \in EntryTypes
    BY <1>6 DEF EntryTypes
  <2>2. res' = [L EXCEPT !.Exclusive = TRUE, !.ActiveEntries = 1, !.owner[0] = given,
                         !.ExclusiveWaiters = L.ExclusiveWaiters - 1]
    BY <2>1 DEF GiveExclusive, ResTypes
  <2> HIDE DEF L, given
  <2>3. /\ X \in [Slots -> EntryTypes] /\ X[0] = given
        /\ \A r \in Slots : r # 0 => X[r] = L.owner[r]
    BY <1>2, <2>1 DEF ResTypes
  <2>4. res' = [L EXCEPT !.Exclusive = TRUE, !.ActiveEntries = 1, !.owner = X,
                         !.ExclusiveWaiters = L.ExclusiveWaiters - 1]
    BY <2>1, <2>2 DEF ResTypes
  <2> HIDE DEF X
  <2>5. L.ExclusiveWaiters = w
    BY <1>6 DEF L
  <2>6. /\ res'.ActiveEntries = 1 /\ res'.ActiveCount = L.ActiveCount
        /\ res'.Exclusive = TRUE /\ res'.TableSize = L.TableSize
        /\ res'.ExclusiveWaiters = w - 1 /\ res'.SharedWaiters = L.SharedWaiters
        /\ res'.owner = X
    BY <2>1, <2>4, <2>5 DEF ResTypes
  <2>7. res' \in ResTypes
    <3> HIDE DEF w
    <3> QED
      BY <1>7, <2>1, <2>3, <2>4, <2>5 DEF ResTypes
  <2> QED
    BY <1>6, <2>3, <2>6, <2>7 DEF L
<1> HIDE DEF w
<1>10. /\ pc' \in [Threads -> PCs]
       /\ pc'[t] = "setEvent" /\ \A u \in Threads \ {t} : pc'[u] = pc[u]
  BY <1>1, <1>8 DEF Types, PCs, FreePCs
<1>11. /\ Sleepers' = Sleepers /\ Sharers' = Sharers /\ Settlers' = Settlers
       /\ Setters' = Setters + 1 /\ NewOwners' = NewOwners
  <2>1. pc[t] \notin Counted
    BY <1>4 DEF Counted
  <2> QED
    BY <1>1, <1>8, <2>1, MoveIn
<1>12. Types'
  BY <1>1, <1>3, <1>4, <1>9, <1>10 DEF Types
<1>13. HeldInv'
  <2>1. pc'[t] \notin BusyPCs
    BY <1>10 DEF BusyPCs
  <2> QED
    BY <1>1, <1>2, <1>3, <1>10, <2>1, HeldKept
<1>14. Giving' = 0 /\ Signal' = 0 /\ Tokens' = 0
  <2>1. Giving' = Giving /\ Signal' = Signal /\ Tokens' = Tokens
    BY <1>4, <1>10, GivingKept DEF Signal, Tokens
  <2> QED
    BY <1>5, <2>1
<1>15. New' = 1 /\ Setters' = 1
  BY <1>5, <1>11, <1>14 DEF New
<1>16. CountInv'
  <2>1. res'.ActiveEntries = Having' + Tokens' + Giving' + Settlers' + New'
    <3>1. 1 = (1 - 1) + 0 + 0 + 0 + 1
      OBVIOUS
    <3> QED
      BY <1>3, <1>5, <1>9, <1>11, <1>14, <1>15, <3>1, Zenon
  <2>2. res'.SharedWaiters + Tokens' + Giving' = Sharers'
    BY <1>1, <1>5, <1>9, <1>11, <1>14 DEF CountInv
  <2>3. res'.ExclusiveWaiters + Signal' + Setters' = Sleepers'
    <3>1. w + 0 + 0 = Sleepers
      BY <1>1, <1>5 DEF CountInv, w
    <3>2. (w - 1) + 0 + 1 = Sleepers
      BY <1>7, <3>1
    <3> QED
      BY <1>9, <1>11, <1>14, <1>15, <3>2, Zenon
  <2>4. res'.ActiveCount = 1
    BY <1>1, <1>9 DEF CountInv
  <2> QED
    BY <1>3, <1>9, <1>15, <2>1, <2>2, <2>3, <2>4 DEF CountInv
<1>17. WakeInv'
  BY <1>1, <1>4, <1>10, <1>11 DEF WakeInv
<1>18. EntriesInv'
  <2>1. OthersKept(o)
    BY <1>3, <1>4, <1>10 DEF OthersKept
  <2>2. ~HasEntry(o)'
    BY <1>2, <1>3, <1>10 DEF HasEntry, BusyPCs
  <2>3. FreeEntry.thread = NoOwner /\ given.thread = Pending
    BY DEF FreeEntry
  <2>4. \A r \in Slots : Thread(r) \in Owners \ {o} => r # 0 /\ r # s
    BY <1>2, <1>5
  <2>5. \A r \in Slots : Thread(r) \in Owners \ {o} => res'.owner[r] = res.owner[r]
    BY <1>6, <1>9, <2>4
  <2>6. \A r \in Slots : \/ res'.owner[r] = res.owner[r] /\ Thread(r) # o
                         \/ res'.owner[r].thread = NoOwner
                         \/ res'.owner[r].thread = Pending /\ r = 0
    BY <1>2, <1>6, <1>9, <2>3
  <2> QED
    BY <1>1, <1>9, <2>1, <2>2, <2>5, <2>6, EntryFreed
<1>19. GivenInv'
  BY <1>9 DEF GivenInv
<1>20. TableInv'
  BY <1>1, <1>4, <1>9, <1>10 DEF TableInv
<1>21. QueryInv'
  <2>1. Knows(t)'
    BY <1>10 DEF Knows
  <2>2. res'.owner[0].thread = Pending
    BY <1>9
  <2>3. Pending \notin Threads
    BY Sizes, OwnerAssumption
  <2> QED
    BY <1>1, <1>3, <1>4, <1>10, <2>1, <2>2, <2>3, QueryKept DEF Thread
<1> QED
  BY <1>3, <1>12, <1>13, <1>16, <1>17, <1>18, <1>19, <1>20, <1>21 DEF ResourceInv

(* or nobody, for nobody waits. *)
LEMMA ReleaseToNobody ==
    ASSUME ResourceInv, NEW t \in Threads, NEW o \in Owners, NEW s, Releases(t, o, s),
           res.owner[s].count = 1, res.ActiveEntries = 1, ~SharersFirst(Left(s)),
           Left(s).ExclusiveWaiters = 0,
           res' = [Left(s) EXCEPT !.Exclusive = FALSE, !.ActiveCount = 0],
           UNCHANGED <<pc, batch>>
    PROVE  ResourceInv' /\ Allowed
<1>1. Types /\ HeldInv /\ CountInv /\ WakeInv /\ EntriesInv /\ GivenInv /\ TableInv /\ QueryInv
  BY DEF ResourceInv
<1>2. /\ s \in Slots /\ Thread(s) = o
      /\ \A r \in Slots : Thread(r) = o => r = s
      /\ New = 0 /\ ~(o \in Threads /\ pc[o] \in BusyPCs)
  BY ReleaseEntry
<1>3. /\ held' \in [Owners -> HeldTypes]
      /\ held'[o].n = 0 /\ held'[o].mode = "none"
      /\ \A x \in Owners \ {o} : held'[x] = held[x]
      /\ \A u \in Threads \ {t} : held'[u] = held[u]
      /\ Having' = Having - 1 /\ ~ExclusiveHeld' /\ Allowed
  BY LastOut
<1>4. /\ pc[t] = "idle" /\ UNCHANGED <<event, sem, call, size, pc, batch>>
  BY DEF Releases
<1>5. /\ Having = 1 /\ Tokens = 0 /\ Giving = 0 /\ Settlers = 0
      /\ Signal = 0 /\ Setters = 0 /\ NewOwners = 0
  BY LastOwner
<1>6. /\ Left(s) \in ResTypes /\ Left(s).ActiveEntries = 0
      /\ Left(s).Exclusive = res.Exclusive
      /\ Left(s).TableSize = res.TableSize
      /\ Left(s).ExclusiveWaiters = res.ExclusiveWaiters
      /\ Left(s).SharedWaiters = res.SharedWaiters
      /\ Left(s).owner[s] = FreeEntry
      /\ \A r \in Slots : r # s => Left(s).owner[r] = res.owner[r]
  BY <1>1, <1>2, LeftFields
<1>7. res.ExclusiveWaiters = 0 /\ res.SharedWaiters = 0
  <2>1. res.SharedWaiters \in Nat
    BY <1>1 DEF Types, ResTypes
  <2> QED
    BY <1>1, <1>6, <2>1 DEF SharersFirst, CountInv
<1>8. /\ res' \in ResTypes /\ res'.ActiveEntries = 0 /\ res'.ActiveCount = 0
      /\ res'.Exclusive = FALSE /\ res'.TableSize = res.TableSize
      /\ res'.ExclusiveWaiters = 0 /\ res'.SharedWaiters = 0
      /\ res'.owner[s] = FreeEntry
      /\ \A r \in Slots : r # s => res'.owner[r] = res.owner[r]
  <2> DEFINE L == Left(s)
  <2>1. L \in ResTypes /\ res' = [L EXCEPT !.Exclusive = FALSE, !.ActiveCount = 0]
    BY <1>6
  <2> HIDE DEF L
  <2>2. /\ res' \in ResTypes /\ res'.ActiveEntries = L.ActiveEntries /\ res'.ActiveCount = 0
        /\ res'.Exclusive = FALSE /\ res'.TableSize = L.TableSize
        /\ res'.ExclusiveWaiters = L.ExclusiveWaiters /\ res'.SharedWaiters = L.SharedWaiters
        /\ res'.owner = L.owner
    BY <2>1 DEF ResTypes
  <2> QED
    BY <1>6, <1>7, <2>2 DEF L
<1>9. Types'
  BY <1>1, <1>3, <1>4, <1>8 DEF Types
<1>10. HeldInv'
  BY <1>1, <1>2, <1>3, <1>4, HeldKept
<1>11. /\ Sleepers' = Sleepers /\ Sharers' = Sharers /\ Settlers' = 0
       /\ Setters' = 0 /\ NewOwners' = 0
  <2>1. /\ Sleepers' = Sleepers /\ Sharers' = Sharers /\ Settlers' = Settlers
        /\ Setters' = Setters /\ NewOwners' = NewOwners
    BY <1>4 DEF Sleepers, Sharers, Settlers, Setters, NewOwners, In
  <2> QED
    BY <1>5, <2>1
<1>12. Giving' = 0 /\ Signal' = 0 /\ Tokens' = 0
  <2>1. Giving' = Giving /\ Signal' = Signal /\ Tokens' = Tokens
    BY <1>4, GivingKept DEF Signal, Tokens
  <2> QED
    BY <1>5, <2>1
<1>13. New' = 0 /\ Having' = 0
  BY <1>3, <1>5, <1>11, <1>12 DEF New
<1>14. CountInv'
  BY <1>1, <1>3, <1>5, <1>7, <1>8, <1>11, <1>12, <1>13 DEF CountInv
<1>15. WakeInv'
  BY <1>1, <1>4, <1>11 DEF WakeInv
<1>16. EntriesInv'
  <2>1. OthersKept(o)
    BY <1>3, <1>4 DEF OthersKept
  <2>2. ~HasEntry(o)'
    BY <1>2, <1>3, <1>4 DEF HasEntry, BusyPCs
  <2>3. res'.owner[s].thread = NoOwner
    BY <1>8 DEF FreeEntry
  <2> QED
    BY <1>1, <1>2, <1>8, <2>1, <2>2, <2>3, EntryFreed
<1>17. GivenInv'
  BY <1>13 DEF GivenInv
<1>18. TableInv'
  BY <1>1, <1>4, <1>8 DEF TableInv
<1>19. QueryInv'
  <2>1. Knows(t)'
    BY <1>4 DEF Knows
  <2>2. res'.owner[0] = res.owner[0] \/ res'.owner[0].thread = NoOwner
    BY <1>2, <1>8, Sizes DEF FreeEntry
  <2>3. NoOwner \notin Threads
    BY Sizes, OwnerAssumption
  <2> QED
    BY <1>1, <1>3, <1>4, <2>1, <2>2, <2>3, QueryKept DEF Thread
<1> QED
  BY <1>3, <1>9, <1>10, <1>14, <1>15, <1>16, <1>17, <1>18, <1>19 DEF ResourceInv

LEMMA ReleaseInv ==
    ASSUME ResourceInv, NEW t \in Threads, NEW o \in Owners, Release(t, o)
    PROVE  ResourceInv' /\ Allowed
<1>1. PICK s \in SlotToRelease(o) :
         IF res.owner[s].count = 1
         THEN IF Left(s).ActiveEntries = 0 THEN GiveAway(t, Left(s))
              ELSE res' = Left(s) /\ UNCHANGED <<pc, batch>>
         ELSE res' = [res EXCEPT !.owner[s].count = @ - 1] /\ UNCHANGED <<pc, batch>>
  BY DEF Release, Left
<1>2. Releases(t, o, s)
  BY DEF Release, Releases
<1>3. CASE res.owner[s].count # 1
  BY <1>1, <1>2, <1>3, ReleaseOne
<1>4. CASE res.owner[s].count = 1
  <2>1. s \in Slots /\ res.ActiveEntries # 0 /\ Types
    BY <1>2, <1>4, ReleaseEntry, LastOut DEF ResourceInv
  <2>2. Left(s).ActiveEntries = res.ActiveEntries - 1 /\ res.ActiveEntries \in Nat
    BY <2>1, LeftFields DEF Types, ResTypes
  <2>3. CASE Left(s).ActiveEntries # 0
    BY <1>1, <1>2, <1>4, <2>3, ReleaseLast
  <2>4. CASE Left(s).ActiveEntries = 0
    <3>1. res.ActiveEntries = 1 /\ GiveAway(t, Left(s))
      BY <1>1, <1>4, <2>2, <2>4
    <3>2. CASE SharersFirst(Left(s)) /\ GiveShared(t, Left(s))
      BY <1>2, <1>4, <3>1, <3>2, ReleaseToSharers
    <3>3. CASE Left(s).ExclusiveWaiters > 0 /\ GiveExclusive(t, Left(s))
      BY <1>2, <1>4, <3>1, <3>3, ReleaseToOwner
    <3>4. CASE /\ ~SharersFirst(Left(s)) /\ Left(s).ExclusiveWaiters = 0
               /\ res' = [Left(s) EXCEPT !.Exclusive = FALSE, !.ActiveCount = 0]
               /\ UNCHANGED <<batch, pc>>
      BY <1>2, <1>4, <3>1, <3>4, ReleaseToNobody
    <3> QED
      BY <3>1, <3>2, <3>3, <3>4 DEF GiveAway
  <2> QED
    BY <2>3, <2>4
<1> QED
  BY <1>3, <1>4

-----------------------------------------------------------------------------
(* The wake-ups, after the lock has been released.                         *)

LEMMA ReleaseSemaphoreInv ==
    ASSUME ResourceInv, NEW t \in Threads, ReleaseSemaphore(t)
    PROVE  ResourceInv' /\ Allowed
<1>1. Types /\ HeldInv /\ CountInv /\ WakeInv /\ EntriesInv /\ GivenInv /\ TableInv /\ QueryInv
  BY DEF ResourceInv
<1>2. t \in Owners /\ 0 \in Slots /\ NoSemaphore \in Nat
  BY Sizes
<1>3. /\ pc[t] = "releaseSemaphore" /\ sem' = sem + batch[t]
      /\ batch' = [batch EXCEPT ![t] = 0] /\ pc' = [pc EXCEPT ![t] = "idle"]
      /\ UNCHANGED <<res, event, size, held>>
  BY DEF ReleaseSemaphore, Return, Goto
<1>4. /\ pc' \in [Threads -> PCs] /\ batch' \in [Threads -> Nat]
      /\ pc'[t] = "idle" /\ \A u \in Threads \ {t} : pc'[u] = pc[u]
      /\ \A u \in Threads \ {t} : batch'[u] = batch[u]
  BY <1>1, <1>3 DEF Types, PCs, FreePCs
<1>5. Giving = batch[t] /\ batch[t] > 0 /\ batch[t] \in Nat
  BY <1>1, <1>3, GivingOne DEF WakeInv, Types
<1>6. /\ Sharers \in Nat /\ Tokens \in Nat /\ Having \in Nat /\ Settlers \in Nat /\ New \in Nat
      /\ res.SharedWaiters \in Nat /\ sem \in Nat
  BY <1>1, Numbers DEF Types, ResTypes
<1>7. res.SharedWaiters + Tokens + Giving = Sharers
  BY <1>1 DEF CountInv
<1>8. sem # NoSemaphore
  <2>1. Sharers # 0
    BY <1>5, <1>6, <1>7
  <2> QED
    BY <1>1, <2>1 DEF WakeInv
<1>9. Tokens = sem
  BY <1>8 DEF Tokens
<1>10. sem' \in Nat /\ sem' # NoSemaphore /\ sem' = Tokens + Giving
  <2>1. sem' = Tokens + Giving
    BY <1>3, <1>5, <1>9
  <2>2. Tokens + Giving < NoSemaphore
    BY SemaphoreBound
  <2> QED
    BY <1>2, <1>5, <1>6, <2>1, <2>2
<1>11. Tokens' = Tokens + Giving
  BY <1>10 DEF Tokens
<1>12. Giving' = 0
  <2> DEFINE f == [u \in In({"releaseSemaphore"})' |-> batch'[u]]
  <2>1. In({"releaseSemaphore"})' = {}
    BY <1>1, <1>3, <1>4 DEF In, WakeInv
  <2>2. DOMAIN f = {}
    BY <2>1
  <2>3. Giving' = Total(f)
    BY DEF Giving, Total
  <2> HIDE DEF f
  <2> QED
    BY <2>2, <2>3, TotalNone
<1>13. /\ Sleepers' = Sleepers /\ Sharers' = Sharers /\ Settlers' = Settlers
       /\ Setters' = Setters /\ NewOwners' = NewOwners
  <2>1. "idle" \notin Counted
    BY DEF Counted
  <2> QED
    BY <1>1, <1>3, <2>1, MoveOut
<1>14. Signal' = Signal /\ Having' = Having /\ ExclusiveHeld' = ExclusiveHeld
  BY <1>3 DEF Signal, Having, Holders, ExclusiveHeld
<1>15. New' = New
  BY <1>13, <1>14 DEF New
<1>16. Types'
  BY <1>1, <1>3, <1>4, <1>10 DEF Types
<1>17. HeldInv'
  <2>1. pc'[t] \notin BusyPCs
    BY <1>4 DEF BusyPCs
  <2> QED
    BY <1>1, <1>2, <1>3, <1>4, <2>1, HeldKept DEF HeldInv
<1>18. CountInv'
  <2>1. res.SharedWaiters + Tokens' + Giving' = Sharers'
    <3>1. res.SharedWaiters + (Tokens + Giving) + 0 = Sharers
      BY <1>5, <1>6, <1>7
    <3> QED
      BY <1>11, <1>12, <1>13, <3>1, Zenon
  <2>2. Having' + Tokens' + Giving' + Settlers' + New' = Having + Tokens + Giving + Settlers + New
    <3>1. Having + (Tokens + Giving) + 0 + Settlers + New
            = Having + Tokens + Giving + Settlers + New
      BY <1>5, <1>6
    <3> QED
      BY <1>11, <1>12, <1>13, <1>14, <1>15, <3>1, Zenon
  <2> QED
    BY <1>1, <1>3, <1>13, <1>14, <1>15, <2>1, <2>2 DEF CountInv
<1>19. WakeInv'
  BY <1>1, <1>3, <1>4, <1>10, <1>13 DEF WakeInv
<1>20. EntriesInv'
  <2>1. OthersKept(t)
    BY <1>3, <1>4 DEF OthersKept
  <2>2. \A s \in Slots : Thread(s) = t => Entitled(t, s)'
    <3> SUFFICES ASSUME NEW s \in Slots, Thread(s) = t PROVE Entitled(t, s)'
      OBVIOUS
    <3>1. Entitled(t, s)
      BY <1>1, <1>2 DEF EntriesInv
    <3> QED
      BY <1>3, <3>1 DEF Entitled
  <2>3. HasEntry(t)' => HasEntry(t)
    BY <1>3, <1>4 DEF HasEntry
  <2> QED
    BY <1>1, <1>2, <1>3, <2>1, <2>2, <2>3, EntriesSame
<1>21. GivenInv'
  BY <1>1, <1>3, <1>15 DEF GivenInv
<1>22. TableInv'
  BY <1>1, <1>3, <1>4 DEF TableInv
<1>23. QueryInv'
  BY <1>1, <1>3, <1>4, Sizes, IdleKnows, QueryKept DEF Thread
<1> QED
  BY <1>3, <1>16, <1>17, <1>18, <1>19, <1>20, <1>21, <1>22, <1>23, HeldAsBefore DEF ResourceInv

(* Who is about to wake the new owner is the only sign that there is one. *)
LEMMA Setter ==
    ASSUME ResourceInv, NEW t \in Threads, pc[t] = "setEvent"
    PROVE  /\ New = 1 /\ res.Exclusive /\ res.owner[0].count = 1
           /\ Setters = 1 /\ Signal = 0 /\ NewOwners = 0
           /\ Thread(0) \notin Owners
<1>1. Types /\ WakeInv
  BY DEF ResourceInv
<1>2. Setters >= 1 /\ Signal \in Nat /\ Setters \in Nat /\ NewOwners \in Nat
  BY <1>1, InFew, Numbers
<1>3. Signal + Setters + NewOwners >= 1
  BY <1>2
<1>4. New = 1 /\ res.Exclusive /\ res.owner[0].count = 1
  BY <1>3, Given
<1>5. Setters = 1 /\ Signal = 0 /\ NewOwners = 0
  BY <1>2, <1>4 DEF New
<1>6. Thread(0) \notin Owners
  BY <1>3, <1>5, Given
<1> QED
  BY <1>4, <1>5, <1>6

(* All are just starting to wait: the event is set for one of them. *)
LEMMA SetForLater ==
    ASSUME ResourceInv, NEW t \in Threads, pc[t] = "setEvent",
           event' = "set", Goto(t, "idle"), UNCHANGED <<res, sem, call, size, batch, held>>
    PROVE  ResourceInv'
<1>1. Types /\ HeldInv /\ CountInv /\ WakeInv /\ EntriesInv /\ GivenInv /\ TableInv /\ QueryInv
  BY DEF ResourceInv
<1>2. t \in Owners /\ 0 \in Slots
  BY Sizes
<1>3. pc' = [pc EXCEPT ![t] = "idle"]
  BY DEF Goto
<1>4. /\ pc' \in [Threads -> PCs]
      /\ pc'[t] = "idle" /\ \A u \in Threads \ {t} : pc'[u] = pc[u]
  BY <1>1, <1>3 DEF Types, PCs, FreePCs
<1>5. New = 1 /\ Setters = 1 /\ Signal = 0 /\ NewOwners = 0
  BY Setter
<1>6. /\ Sleepers' = Sleepers /\ Sharers' = Sharers /\ Settlers' = Settlers
      /\ Setters' = Setters - 1 /\ NewOwners' = NewOwners
  <2>1. "idle" \notin Counted
    BY DEF Counted
  <2> QED
    BY <1>1, <1>3, <2>1, MoveOut
<1>7. Setters' = 0 /\ Signal' = 1
  BY <1>5, <1>6 DEF Signal
<1>8. New' = 1
  BY <1>5, <1>6, <1>7 DEF New
<1>9. Giving' = Giving /\ Tokens' = Tokens
  BY <1>4, GivingKept DEF Tokens
<1>10. Having' = Having /\ ExclusiveHeld' = ExclusiveHeld
  BY DEF Having, Holders, ExclusiveHeld
<1>11. Types'
  BY <1>1, <1>4 DEF Types
<1>12. HeldInv'
  <2>1. pc'[t] \notin BusyPCs
    BY <1>4 DEF BusyPCs
  <2> QED
    BY <1>1, <1>2, <1>4, <2>1, HeldKept DEF HeldInv
<1>13. CountInv'
  <2>1. res.ExclusiveWaiters + Signal' + Setters' = Sleepers'
    <3>1. res.ExclusiveWaiters \in Nat /\ res.ExclusiveWaiters + 0 + 1 = Sleepers
      BY <1>1, <1>5 DEF CountInv, Types, ResTypes
    <3>2. res.ExclusiveWaiters + 1 + 0 = Sleepers
      BY <3>1
    <3> QED
      BY <1>6, <1>7, <3>2, Zenon
  <2> QED
    BY <1>1, <1>5, <1>6, <1>8, <1>9, <1>10, <2>1 DEF CountInv
<1>14. WakeInv'
  BY <1>1, <1>4, <1>6 DEF WakeInv
<1>15. EntriesInv'
  <2>1. OthersKept(t)
    BY <1>4 DEF OthersKept
  <2>2. \A s \in Slots : Thread(s) = t => Entitled(t, s)'
    <3> SUFFICES ASSUME NEW s \in Slots, Thread(s) = t PROVE Entitled(t, s)'
      OBVIOUS
    <3>1. Entitled(t, s)
      BY <1>1, <1>2 DEF EntriesInv
    <3> QED
      BY <3>1 DEF Entitled
  <2>3. HasEntry(t)' => HasEntry(t)
    BY <1>4 DEF HasEntry
  <2> QED
    BY <1>1, <1>2, <2>1, <2>2, <2>3, EntriesSame
<1>16. GivenInv'
  BY <1>1, <1>5 DEF GivenInv
<1>17. TableInv'
  BY <1>1, <1>4 DEF TableInv
<1>18. QueryInv'
  BY <1>1, <1>4, Sizes, IdleKnows, QueryKept DEF Thread
<1> QED
  BY <1>11, <1>12, <1>13, <1>14, <1>15, <1>16, <1>17, <1>18 DEF ResourceInv

(* A thread is asleep: it is made the owner. *)
LEMMA SetForSleeper ==
    ASSUME ResourceInv, NEW t \in Threads, pc[t] = "setEvent", NEW w \in Threads,
           pc[w] = "waitExclusive", pc' = [pc EXCEPT ![t] = "idle", ![w] = "own"],
           res' = [res EXCEPT !.owner[0].thread = w],
           UNCHANGED <<event, sem, call, size, batch, held>>
    PROVE  ResourceInv'
<1>1. Types /\ HeldInv /\ CountInv /\ WakeInv /\ EntriesInv /\ GivenInv /\ TableInv /\ QueryInv
  BY DEF ResourceInv
<1>2. t \in Owners /\ w \in Owners /\ t # w /\ 0 \in Slots
  BY Sizes
<1>3. /\ pc'[t] = "idle" /\ pc'[w] = "own" /\ \A u \in Threads \ {t, w} : pc'[u] = pc[u]
      /\ pc' \in [Threads -> PCs]
  BY <1>1, <1>2 DEF Types, PCs, FreePCs, BusyPCs
<1>4. /\ New = 1 /\ res.Exclusive /\ res.owner[0].count = 1
      /\ Setters = 1 /\ Signal = 0 /\ NewOwners = 0
      /\ Thread(0) \notin Owners
  BY Setter
<1>5. /\ Sleepers' = Sleepers - 1 /\ Sharers' = Sharers /\ Settlers' = Settlers
      /\ Setters' = Setters - 1 /\ NewOwners' = NewOwners + 1
  <2>1. /\ In({"waitExclusive"})' = In({"waitExclusive"}) \ {w} /\ w \in In({"waitExclusive"})
        /\ In({"waitShared", "waitEntry"})' = In({"waitShared", "waitEntry"})
        /\ In({"settle", "expandSettle"})' = In({"settle", "expandSettle"})
        /\ In({"setEvent"})' = In({"setEvent"}) \ {t} /\ t \in In({"setEvent"})
        /\ In({"own"})' = In({"own"}) \cup {w} /\ w \notin In({"own"})
    BY <1>3 DEF In
  <2>2. \A L : IsFiniteSet(In(L))
    BY Sizes, FS_Subset DEF In
  <2>3. Cardinality(In({"waitExclusive"})') = Cardinality(In({"waitExclusive"})) - 1
    BY <2>1, <2>2, OneMore
  <2>4. Cardinality(In({"setEvent"})') = Cardinality(In({"setEvent"})) - 1
    BY <2>1, <2>2, OneMore
  <2>5. Cardinality(In({"own"})') = Cardinality(In({"own"})) + 1
    BY <2>1, <2>2, OneMore
  <2> QED
    BY <2>1, <2>3, <2>4, <2>5 DEF Sleepers, Sharers, Settlers, Setters, NewOwners
<1> DEFINE X == [res.owner EXCEPT ![0].thread = w]
<1>6. /\ X \in [Slots -> EntryTypes] /\ X[0].thread = w /\ X[0].count = res.owner[0].count
      /\ \A r \in Slots : r # 0 => X[r] = res.owner[r]
  <2>1. res.owner \in [Slots -> EntryTypes]
    BY <1>1 DEF Types, ResTypes
  <2> QED
    BY <1>2, <2>1 DEF EntryTypes
<1>7. res' = [res EXCEPT !.owner = X]
  BY <1>1 DEF Types, ResTypes
<1> HIDE DEF X
<1>8. /\ res'.ActiveEntries = res.ActiveEntries /\ res'.ActiveCount = res.ActiveCount
      /\ res'.Exclusive = res.Exclusive /\ res'.owner = X
      /\ res'.TableSize = res.TableSize /\ res'.ExclusiveWaiters = res.ExclusiveWaiters
      /\ res'.SharedWaiters = res.SharedWaiters /\ res' \in ResTypes
  BY <1>1, <1>6, <1>7 DEF Types, ResTypes
<1>9. Types'
  BY <1>1, <1>3, <1>8 DEF Types
<1>10. held[w].n = 0
  BY <1>1 DEF HeldInv, BusyPCs
<1>11. HeldInv'
  <2>1. pc'[t] \notin BusyPCs
    BY <1>3 DEF BusyPCs
  <2> QED
    BY <1>1, <1>2, <1>3, <1>10, <2>1, HeldKept DEF HeldInv
<1>12. Giving' = Giving /\ Tokens' = Tokens /\ Signal' = 0
  <2>1. \A u \in Threads : pc'[u] = "releaseSemaphore" <=> pc[u] = "releaseSemaphore"
    BY <1>3
  <2> QED
    BY <1>4, <2>1, GivingKept DEF Tokens, Signal
<1>13. Having' = Having /\ ExclusiveHeld' = ExclusiveHeld
  BY DEF Having, Holders, ExclusiveHeld
<1>14. New' = 1 /\ Setters' = 0
  BY <1>4, <1>5, <1>12 DEF New
<1>15. CountInv'
  <2>1. res'.ExclusiveWaiters + Signal' + Setters' = Sleepers'
    <3>1. res.ExclusiveWaiters \in Nat /\ res.ExclusiveWaiters + 0 + 1 = Sleepers
      BY <1>1, <1>4 DEF CountInv, Types, ResTypes
    <3>2. res.ExclusiveWaiters + 0 + 0 = Sleepers - 1
      BY <3>1
    <3> QED
      BY <1>5, <1>8, <1>12, <1>14, <3>2, Zenon
  <2> QED
    BY <1>1, <1>4, <1>5, <1>8, <1>12, <1>13, <1>14, <2>1 DEF CountInv
<1>16. WakeInv'
  <2>1. event # "none"
    BY <1>1, InFew DEF WakeInv
  <2> QED
    BY <1>1, <1>3, <1>5, <2>1 DEF WakeInv
<1>17. EntriesInv'
  <2>1. OthersKept(w)
    BY <1>3 DEF OthersKept
  <2>2. Entitled(w, 0)'
    BY <1>3 DEF Entitled
  <2>3. \A r \in Slots : Thread(r) # w
    BY <1>1, <1>2, <1>10 DEF EntriesInv, Entitled
  <2> QED
    BY <1>1, <1>2, <1>4, <1>6, <1>8, <2>1, <2>2, <2>3, EntryTaken
<1>18. GivenInv'
  BY <1>4, <1>6, <1>8 DEF GivenInv
<1>19. TableInv'
  BY <1>1, <1>3, <1>8 DEF TableInv
<1>20. QueryInv'
  <2>1. Knows(t)' /\ pc'[w] \in BusyPCs
    BY <1>3, IdleKnows DEF BusyPCs
  <2>2. Thread(0)' = w
    BY <1>6, <1>8 DEF Thread
  <2> QED
    BY <1>1, <1>3, <2>1, <2>2, QueryKept
<1> QED
  BY <1>9, <1>11, <1>15, <1>16, <1>17, <1>18, <1>19, <1>20 DEF ResourceInv

LEMMA SetEventInv ==
    ASSUME ResourceInv, NEW t \in Threads, SetEvent(t)
    PROVE  ResourceInv' /\ Allowed
<1>1. pc[t] = "setEvent" /\ UNCHANGED <<sem, call, size, batch, held>>
  BY DEF SetEvent
<1>2. CASE event' = "set" /\ Goto(t, "idle") /\ UNCHANGED res
  BY <1>1, <1>2, SetForLater, HeldAsBefore
<1>3. CASE \E w \in Threads : /\ pc[w] = "waitExclusive"
                              /\ pc' = [pc EXCEPT ![t] = "idle", ![w] = "own"]
                              /\ res' = [res EXCEPT !.owner[0].thread = w]
                              /\ UNCHANGED event
  BY <1>1, <1>3, SetForSleeper, HeldAsBefore
<1> QED
  BY <1>2, <1>3 DEF SetEvent

-----------------------------------------------------------------------------
(* The owner shares the resource.                                          *)

LEMMA ConvertFacts ==
    ASSUME ResourceInv, NEW t \in Threads, Convert(t)
    PROVE  /\ pc[t] = "idle" /\ held[t].n > 0 /\ res.Exclusive
           /\ held' \in [Owners -> HeldTypes] /\ held'[t].n = held[t].n
           /\ held'[t].mode = "shared" /\ \A x \in Owners \ {t} : held'[x] = held[x]
           /\ Having' = Having /\ ~ExclusiveHeld' /\ Allowed
<1>1. Types /\ HeldInv /\ CountInv /\ t \in Owners
  BY Sizes DEF ResourceInv
<1>2. pc[t] = "idle" /\ held[t].mode = "excl" /\ held' = [held EXCEPT ![t].mode = "shared"]
  BY DEF Convert
<1>3. held[t] \in HeldTypes /\ held \in [Owners -> HeldTypes]
  BY <1>1 DEF Types
<1>4. held[t].n > 0
  BY <1>1, <1>2, <1>3 DEF HeldInv, HeldTypes
<1>5. res.Exclusive
  BY <1>1, <1>2 DEF CountInv, ExclusiveHeld
<1>6. /\ held' \in [Owners -> HeldTypes] /\ held'[t].n = held[t].n
      /\ held'[t].mode = "shared" /\ \A x \in Owners \ {t} : held'[x] = held[x]
  BY <1>1, <1>2, <1>3 DEF HeldTypes, Modes
<1>7. Having' = Having
  BY <1>1, <1>6, HavingMove
<1>8. ASSUME NEW x \in Owners, held'[x].mode = "excl" PROVE FALSE
  <2>1. x # t /\ held[x].mode = "excl"
    BY <1>6, <1>8
  <2>2. held[x].n # 0 /\ held[x].n \in Nat
    BY <1>1, <2>1 DEF HeldInv, Types, HeldTypes
  <2> QED
    BY <1>1, <1>4, <1>5, <2>1, <2>2, Alone
<1>9. Allowed
  BY <1>1, <1>2, <1>6 DEF Allowed, OnlyModeOf
<1> QED
  BY <1>2, <1>4, <1>5, <1>6, <1>7, <1>8, <1>9 DEF ExclusiveHeld

LEMMA ConvertInv ==
    ASSUME ResourceInv, NEW t \in Threads, Convert(t)
    PROVE  ResourceInv' /\ Allowed
<1> DEFINE k == res.SharedWaiters
<1>1. Types /\ HeldInv /\ CountInv /\ WakeInv /\ EntriesInv /\ GivenInv /\ TableInv /\ QueryInv
  BY DEF ResourceInv
<1>2. t \in Owners /\ 0 \in Slots /\ k \in Nat
  BY <1>1, Sizes DEF Types, ResTypes
<1>3. /\ pc[t] = "idle" /\ held[t].n > 0 /\ res.Exclusive
      /\ held' \in [Owners -> HeldTypes] /\ held'[t].n = held[t].n
      /\ held'[t].mode = "shared" /\ \A x \in Owners \ {t} : held'[x] = held[x]
      /\ Having' = Having /\ ~ExclusiveHeld' /\ Allowed
  BY ConvertFacts
<1>4. UNCHANGED <<event, sem, call, size>> /\ ConvertTo(t, res)
  BY DEF Convert
<1>5. /\ Thread(0) = t /\ Having = 1 /\ res.owner[0].count = held[t].n
      /\ Tokens = 0 /\ Giving = 0 /\ Settlers = 0 /\ New = 0
      /\ res.ActiveEntries = 1
  BY <1>2, <1>3, Alone
<1>6. \A u \in Threads : pc[u] # "releaseSemaphore"
  BY <1>1, <1>5, GivingOne
<1>7. \/ /\ k > 0 /\ batch' = [batch EXCEPT ![t] = k]
         /\ pc' = [pc EXCEPT ![t] = "releaseSemaphore"]
         /\ res' = [res EXCEPT !.Exclusive = FALSE, !.ActiveEntries = 1 + k, !.SharedWaiters = 0]
      \/ /\ k = 0 /\ UNCHANGED <<batch, pc>>
         /\ res' = [res EXCEPT !.Exclusive = FALSE]
  <2>1. CASE k > 0
    <3>1. GiveShared(t, res)
      BY <1>4, <2>1 DEF ConvertTo
    <3>2. res' = [res EXCEPT !.Exclusive = FALSE, !.ActiveEntries = 1 + k, !.SharedWaiters = 0]
      BY <1>1, <1>5, <3>1 DEF GiveShared, Types, ResTypes
    <3> QED
      BY <2>1, <3>1, <3>2 DEF GiveShared, Goto
  <2>2. CASE ~(k > 0)
    <3>1. k = 0
      BY <1>2, <2>2
    <3> QED
      BY <1>4, <2>2, <3>1 DEF ConvertTo
  <2> QED
    BY <2>1, <2>2
<1>8. /\ res' \in ResTypes /\ res'.ActiveEntries = 1 + k /\ res'.ActiveCount = res.ActiveCount
      /\ res'.Exclusive = FALSE /\ res'.TableSize = res.TableSize
      /\ res'.ExclusiveWaiters = res.ExclusiveWaiters /\ res'.SharedWaiters = 0
      /\ res'.owner = res.owner
  <2>1. res \in ResTypes /\ 1 + k \in Nat /\ (k = 0 => 1 + k = 1)
    BY <1>1, <1>2 DEF Types
  <2>2. res.ActiveEntries = 1 /\ res.SharedWaiters = k
    BY <1>5
  <2> HIDE DEF k
  <2>3. CASE res' = [res EXCEPT !.Exclusive = FALSE, !.ActiveEntries = 1 + k, !.SharedWaiters = 0]
    BY <2>1, <2>3 DEF ResTypes
  <2>4. CASE k = 0 /\ res' = [res EXCEPT !.Exclusive = FALSE]
    BY <2>1, <2>2, <2>4 DEF ResTypes
  <2> QED
    BY <1>7, <2>3, <2>4
<1>9. /\ Giving' = k /\ WakeInv'
      /\ Sleepers' = Sleepers /\ Sharers' = Sharers /\ Settlers' = Settlers
      /\ Setters' = Setters /\ NewOwners' = NewOwners
      /\ pc' \in [Threads -> PCs] /\ batch' \in [Threads -> Nat]
      /\ pc'[t] \in {"idle", "releaseSemaphore"} /\ \A u \in Threads \ {t} : pc'[u] = pc[u]
      /\ \A u \in Threads \ {t} : batch'[u] = batch[u]
  <2> HIDE DEF k
  <2>1. CASE /\ k > 0 /\ batch' = [batch EXCEPT ![t] = k]
             /\ pc' = [pc EXCEPT ![t] = "releaseSemaphore"]
    BY <1>2, <1>3, <1>4, <1>6, <2>1, GivingStarts
  <2>2. CASE k = 0 /\ UNCHANGED <<batch, pc>>
    <3>1. /\ Sleepers' = Sleepers /\ Sharers' = Sharers /\ Settlers' = Settlers
          /\ Setters' = Setters /\ NewOwners' = NewOwners
      BY <2>2 DEF Sleepers, Sharers, Settlers, Setters, NewOwners, In
    <3>2. Giving' = Giving
      BY <2>2, GivingKept
    <3>3. WakeInv'
      BY <1>1, <1>4, <2>2, <3>1 DEF WakeInv
    <3> QED
      BY <1>1, <1>3, <1>5, <2>2, <3>1, <3>2, <3>3 DEF Types
  <2> QED
    BY <1>7, <2>1, <2>2
<1>10. Types'
  BY <1>1, <1>3, <1>4, <1>8, <1>9 DEF Types
<1>11. HeldInv'
  <2>1. pc'[t] \notin BusyPCs /\ held'[t].n # 0
    BY <1>3, <1>9 DEF BusyPCs
  <2> QED
    BY <1>1, <1>2, <1>3, <1>9, <2>1, HeldKept
<1>12. Signal' = Signal /\ Tokens' = 0 /\ New' = 0
  <2>1. Signal' = Signal /\ Tokens' = Tokens
    BY <1>4 DEF Signal, Tokens
  <2> QED
    BY <1>5, <1>9, <2>1 DEF New
<1>13. CountInv'
  <2>1. res'.ActiveEntries = Having' + Tokens' + Giving' + Settlers' + New'
    <3>1. 1 + k = 1 + 0 + k + 0 + 0
      BY <1>2
    <3> HIDE DEF k
    <3> QED
      BY <1>3, <1>5, <1>8, <1>9, <1>12, <3>1, Zenon
  <2>2. res'.SharedWaiters + Tokens' + Giving' = Sharers'
    <3>1. k + 0 + 0 = Sharers
      BY <1>1, <1>5 DEF CountInv
    <3>2. 0 + 0 + k = Sharers
      BY <1>2, <3>1
    <3> HIDE DEF k
    <3> QED
      BY <1>8, <1>9, <1>12, <3>2, Zenon
  <2>3. res'.ActiveCount = 1 /\ res'.ActiveEntries # 0
    <3>1. 1 + k # 0
      BY <1>2
    <3> QED
      BY <1>1, <1>5, <1>8, <3>1 DEF CountInv
  <2>4. res'.ExclusiveWaiters + Signal' + Setters' = Sleepers'
    BY <1>1, <1>8, <1>9, <1>12 DEF CountInv
  <2> QED
    BY <1>3, <1>8, <1>12, <2>1, <2>2, <2>3, <2>4 DEF CountInv
<1>14. EntriesInv'
  <2>1. OthersKept(t)
    BY <1>3, <1>9 DEF OthersKept
  <2>2. \A s \in Slots : Thread(s) = t => s = 0
    BY <1>1, <1>2, <1>5 DEF EntriesInv
  <2>3. Entitled(t, 0)'
    BY <1>3, <1>5, <1>8 DEF Entitled
  <2>4. HasEntry(t)
    BY <1>3 DEF HasEntry
  <2> QED
    BY <1>1, <1>2, <1>8, <2>1, <2>2, <2>3, <2>4, EntriesSame
<1>15. GivenInv'
  BY <1>12 DEF GivenInv
<1>16. TableInv'
  BY <1>1, <1>4, <1>8, <1>9 DEF TableInv
<1>17. QueryInv'
  <2>1. Knows(t)'
    BY <1>9 DEF Knows
  <2> QED
    BY <1>1, <1>3, <1>8, <1>9, <2>1, Sizes, QueryKept DEF Thread
<1> QED
  BY <1>3, <1>9, <1>10, <1>11, <1>13, <1>14, <1>15, <1>16, <1>17 DEF ResourceInv

-----------------------------------------------------------------------------
(* What a thread has becomes an owner pointer's.                           *)

(* The entry of t, or what it counts, goes to p, who has s now. *)
LEMMA EntryPassed ==
    ASSUME EntriesInv, NEW t \in Owners, NEW p \in Owners, UNCHANGED pc,
           \A x \in Owners \ {t, p} : held'[x] = held[x], res'.TableSize = res.TableSize,
           NEW s \in Slots, s = 0 \/ s < res.TableSize, Thread(s) \in {t, p},
           res'.owner[s].thread = p, Entitled(p, s)', ~HasEntry(t)',
           \A r \in Slots : r # s => \/ res'.owner[r] = res.owner[r] /\ Thread(r) \notin {t, p}
                                     \/ res'.owner[r].thread = NoOwner /\ Thread(r) = t
    PROVE  EntriesInv'
<1>1. Thread(s)' = p
  BY DEF Thread
<1>2. ASSUME NEW r \in Slots, r # s, Thread(r)' \in Owners
      PROVE  res'.owner[r] = res.owner[r] /\ Thread(r)' = Thread(r) /\ Thread(r) \notin {t, p}
  BY <1>2, OwnerAssumption DEF Thread
<1>3. ASSUME NEW x \in Owners \ {t, p}, NEW r \in Slots, Entitled(x, r),
             res'.owner[r] = res.owner[r]
      PROVE  Entitled(x, r)'
  BY <1>3 DEF Entitled
<1>4. ASSUME NEW r \in Slots, Thread(r)' \in Owners
      PROVE  (r = 0 \/ r < res'.TableSize) /\ Entitled(Thread(r), r)'
  <2>1. CASE r = s
    BY <1>1, <2>1
  <2>2. CASE r # s
    <3>1. /\ res'.owner[r] = res.owner[r] /\ Thread(r)' = Thread(r) /\ Thread(r) \notin {t, p}
          /\ Thread(r) \in Owners
      BY <1>2, <1>4, <2>2
    <3>2. Entitled(Thread(r), r) /\ (r = 0 \/ r < res.TableSize)
      BY <3>1 DEF EntriesInv
    <3>3. \A x \in Owners \ {t, p} : x = Thread(r) => Entitled(x, r)'
      BY <1>3, <3>1, <3>2
    <3> QED
      BY <3>1, <3>2, <3>3
  <2> QED
    BY <2>1, <2>2
<1>5. ASSUME NEW r \in Slots, NEW q \in Slots, Thread(r)' \in Owners, Thread(q)' = Thread(r)'
      PROVE  r = q
  BY <1>1, <1>2, <1>5 DEF EntriesInv
<1>6. ASSUME NEW x \in Owners, HasEntry(x)' PROVE \E r \in Slots : Thread(r)' = x
  <2>1. CASE x = p
    BY <1>1, <2>1
  <2>2. CASE x # p
    <3>1. x # t /\ HasEntry(x)
      BY <1>6, <2>2 DEF HasEntry
    <3>2. PICK r \in Slots : Thread(r) = x
      BY <3>1 DEF EntriesInv
    <3>3. res'.owner[r] = res.owner[r]
      BY <2>2, <3>1, <3>2
    <3> QED
      BY <3>2, <3>3 DEF Thread
  <2> QED
    BY <2>1, <2>2
<1>7. \A r \in Slots \ {0} : Thread(r)' # Pending
  <2> SUFFICES ASSUME NEW r \in Slots \ {0} PROVE res'.owner[r].thread # Pending
    BY DEF Thread
  <2>1. res.owner[r].thread # Pending
    BY DEF EntriesInv, Thread
  <2> QED
    BY <2>1, OwnerAssumption
<1> QED
  BY <1>4, <1>5, <1>6, <1>7 DEF EntriesInv

(* What t held is p's. *)
Passes(t, p) ==
    /\ pc[t] = "idle" /\ held[t].n > 0
    /\ held' = [held EXCEPT ![t] = Nothing,
                            ![p] = [mode |-> held[t].mode, n |-> @.n + held[t].n]]
    /\ UNCHANGED <<event, sem, pc, call, size, batch>>

LEMMA PassFacts ==
    ASSUME ResourceInv, NEW t \in Threads, NEW p \in Pointers, Passes(t, p),
           held[p].mode # "excl"
    PROVE  /\ t # p /\ held[t].n \in Nat /\ held[p].n \in Nat
           /\ held' \in [Owners -> HeldTypes]
           /\ held'[t].n = 0 /\ held'[t].mode = "none"
           /\ held'[p].n = held[p].n + held[t].n /\ held'[p].n > 0
           /\ held'[p].mode = held[t].mode
           /\ \A x \in Owners \ {t, p} : held'[x] = held[x]
           /\ \A u \in Threads \ {t} : held'[u] = held[u]
           /\ HeldInv' /\ Allowed /\ New = 0
           /\ ExclusiveHeld' <=> ExclusiveHeld
           /\ held[p].n = 0 => Having' = Having
           /\ held[p].n > 0 => Having' = Having - 1 /\ Having >= 2
<1>1. Types /\ HeldInv /\ CountInv /\ WakeInv
  BY DEF ResourceInv
<1>2. /\ t \in Owners /\ p \in Owners /\ t # p /\ p \notin Threads
      /\ pc[t] = "idle" /\ held[t].n > 0 /\ UNCHANGED pc
  BY Sizes, OwnerAssumption DEF Passes
<1>3. /\ held \in [Owners -> HeldTypes] /\ held[t].n \in Nat /\ held[p].n \in Nat
      /\ held[t].mode \in Modes /\ held[p].mode \in Modes
  BY <1>1, <1>2 DEF Types, HeldTypes
<1> DEFINE got == [mode |-> held[t].mode, n |-> held[p].n + held[t].n]
<1>4. held' = [held EXCEPT ![t] = Nothing, ![p] = got]
  BY <1>2, <1>3 DEF Passes
<1>5. /\ Nothing \in HeldTypes /\ Nothing.n = 0 /\ Nothing.mode = "none"
      /\ got \in HeldTypes /\ got.n = held[p].n + held[t].n /\ got.mode = held[t].mode
  <2>1. held[p].n + held[t].n \in Nat
    BY <1>3
  <2> QED
    BY <1>3, <2>1 DEF HeldTypes, Nothing, Modes
<1> HIDE DEF got
<1>6. /\ held' \in [Owners -> HeldTypes] /\ held'[t] = Nothing /\ held'[p] = got
      /\ \A x \in Owners \ {t, p} : held'[x] = held[x]
  BY <1>2, <1>3, <1>4, <1>5
<1>7. /\ held'[t].n = 0 /\ held'[t].mode = "none"
      /\ held'[p].n = held[p].n + held[t].n /\ held'[p].mode = held[t].mode
  BY <1>5, <1>6
<1>8. held'[p].n > 0 /\ held'[p].n # 0
  BY <1>2, <1>3, <1>7
<1>9. held[t].mode # "none"
  BY <1>1, <1>2, <1>3 DEF HeldInv
<1>10. HeldInv'
  <2>1. \A x \in Owners : held'[x].n = 0 <=> held'[x].mode = "none"
    BY <1>1, <1>6, <1>7, <1>8, <1>9 DEF HeldInv
  <2>2. \A u \in Threads : pc'[u] \in BusyPCs => held'[u].n = 0
    <3> SUFFICES ASSUME NEW u \in Threads, pc'[u] \in BusyPCs PROVE held'[u].n = 0
      OBVIOUS
    <3>1. held[u].n = 0 /\ u # p /\ u \in Owners
      BY <1>1, <1>2, Sizes DEF HeldInv
    <3> QED
      BY <1>6, <1>7, <3>1
  <2> QED
    BY <2>1, <2>2 DEF HeldInv
<1>11. Allowed
  <2>1. held[p].mode \in {"none", "shared"}
    BY <1>3 DEF Modes
  <2> QED
    BY <1>2, <1>6, <1>7, <1>9, <2>1 DEF Allowed
<1>12. New = 0
  <2>1. New \in Nat /\ New <= 1 /\ New # 1
    BY <1>1, <1>2, Numbers, Vacant DEF CountInv
  <2> QED
    BY <2>1
<1>13. ExclusiveHeld' <=> ExclusiveHeld
  BY <1>2, <1>6, <1>7 DEF ExclusiveHeld
<1>14. IsFiniteSet(Holders) /\ t \in Holders
  BY <1>2, OwnerAssumption, FS_Subset DEF Holders
<1>15. Holders' = (Holders \ {t}) \cup {p}
  BY <1>2, <1>6, <1>7, <1>8 DEF Holders
<1>16. IsFiniteSet(Holders \ {t}) /\ Cardinality(Holders \ {t}) = Having - 1 /\ Having \in Nat
  BY <1>14, FS_Subset, OneMore DEF Having
<1>17. ASSUME held[p].n = 0 PROVE Having' = Having
  <2>1. p \notin Holders \ {t}
    BY <1>17 DEF Holders
  <2>2. Having' = (Having - 1) + 1
    BY <1>15, <1>16, <2>1, OneMore DEF Having
  <2> QED
    BY <1>16, <2>2
<1>18. ASSUME held[p].n > 0 PROVE Having' = Having - 1 /\ Having >= 2
  <2>1. Holders' = Holders \ {t}
    BY <1>2, <1>15, <1>18 DEF Holders
  <2> QED
    BY <1>2, <1>16, <1>18, <2>1, HavingFew DEF Having
<1> QED
  BY <1>2, <1>3, <1>6, <1>7, <1>8, <1>10, <1>11, <1>12, <1>13, <1>17, <1>18, Sizes

(* p, who had nothing, gets the entry of t. *)
LEMMA PassEntry ==
    ASSUME ResourceInv, NEW t \in Threads, NEW p \in Pointers, Passes(t, p), held[p].n = 0,
           NEW s \in Slots, Thread(s) = t, res' = [res EXCEPT !.owner[s].thread = p]
    PROVE  ResourceInv' /\ Allowed
<1>1. Types /\ HeldInv /\ CountInv /\ WakeInv /\ EntriesInv /\ GivenInv /\ TableInv /\ QueryInv
  BY DEF ResourceInv
<1>2. /\ t \in Owners /\ p \in Owners /\ 0 \in Slots /\ p \notin Threads
      /\ pc[t] = "idle" /\ held[t].n > 0 /\ UNCHANGED <<event, sem, pc, call, size, batch>>
  BY Sizes, OwnerAssumption DEF Passes
<1>3. held[p].mode = "none"
  BY <1>1, <1>2 DEF HeldInv
<1>4. /\ held[t].n \in Nat /\ held' \in [Owners -> HeldTypes]
      /\ held'[t].n = 0 /\ held'[p].n = held[p].n + held[t].n /\ held'[p].n > 0
      /\ held'[p].mode = held[t].mode
      /\ \A x \in Owners \ {t, p} : held'[x] = held[x]
      /\ \A u \in Threads \ {t} : held'[u] = held[u]
      /\ HeldInv' /\ Allowed /\ New = 0
      /\ ExclusiveHeld' <=> ExclusiveHeld
      /\ Having' = Having
  BY <1>3, PassFacts
<1> DEFINE X == [res.owner EXCEPT ![s].thread = p]
<1>5. /\ X \in [Slots -> EntryTypes] /\ X[s].thread = p /\ X[s].count = res.owner[s].count
      /\ \A r \in Slots : r # s => X[r] = res.owner[r]
  <2>1. res.owner \in [Slots -> EntryTypes]
    BY <1>1 DEF Types, ResTypes
  <2> QED
    BY <1>2, <2>1 DEF EntryTypes
<1>6. res' = [res EXCEPT !.owner = X]
  BY <1>1 DEF Types, ResTypes
<1> HIDE DEF X
<1>7. /\ res'.ActiveEntries = res.ActiveEntries /\ res'.ActiveCount = res.ActiveCount
      /\ res'.Exclusive = res.Exclusive /\ res'.owner = X
      /\ res'.TableSize = res.TableSize /\ res'.ExclusiveWaiters = res.ExclusiveWaiters
      /\ res'.SharedWaiters = res.SharedWaiters /\ res' \in ResTypes
  BY <1>1, <1>5, <1>6 DEF Types, ResTypes
<1>8. Types'
  BY <1>1, <1>2, <1>4, <1>7 DEF Types
<1>9. /\ Sleepers' = Sleepers /\ Sharers' = Sharers /\ Settlers' = Settlers
      /\ Setters' = Setters /\ NewOwners' = NewOwners
  BY <1>2 DEF Sleepers, Sharers, Settlers, Setters, NewOwners, In
<1>10. Giving' = Giving /\ Signal' = Signal /\ Tokens' = Tokens
  BY <1>2, GivingKept DEF Signal, Tokens
<1>11. CountInv' /\ New' = New
  BY <1>1, <1>4, <1>7, <1>9, <1>10, CountKept
<1>12. WakeInv'
  BY <1>1, <1>2, <1>9 DEF WakeInv
<1>13. /\ s = 0 \/ s < res.TableSize
       /\ \A r \in Slots : Thread(r) = t => r = s
       /\ Entitled(t, s)
  BY <1>1, <1>2 DEF EntriesInv
<1>14. \A r \in Slots : Thread(r) # p
  BY <1>1, <1>2 DEF EntriesInv, Entitled
<1>15. EntriesInv'
  <2>1. res.owner[s].count = held[t].n /\ (held[t].mode = "excl" => s = 0)
    BY <1>2, <1>13 DEF Entitled
  <2>2. held'[p].n = held[t].n
    BY <1>4
  <2>3. Entitled(p, s)'
    BY <1>4, <1>5, <1>7, <2>1, <2>2 DEF Entitled
  <2>4. ~HasEntry(t)'
    BY <1>2, <1>4 DEF HasEntry
  <2> QED
    BY <1>1, <1>2, <1>4, <1>5, <1>7, <1>13, <1>14, <2>3, <2>4, EntryPassed
<1>16. GivenInv'
  BY <1>4, <1>11 DEF GivenInv
<1>17. TableInv'
  BY <1>1, <1>2, <1>7 DEF TableInv
<1>18. QueryInv'
  <2>1. Knows(t)'
    BY <1>2 DEF Knows
  <2>2. res'.owner[0].thread = res.owner[0].thread \/ res'.owner[0].thread = p
    BY <1>2, <1>5, <1>7
  <2> QED
    BY <1>1, <1>2, <1>4, <2>1, <2>2, QueryKept DEF Thread
<1> QED
  BY <1>4, <1>8, <1>11, <1>12, <1>15, <1>16, <1>17, <1>18 DEF ResourceInv

(* p shares the resource already, and has an entry. *)
Merged(from, to) ==
    [res EXCEPT !.owner[to].count = @ + res.owner[from].count,
                !.owner[from] = FreeEntry, !.ActiveEntries = @ - 1]

LEMMA PassCount ==
    ASSUME ResourceInv, NEW t \in Threads, NEW p \in Pointers, Passes(t, p), ~res.Exclusive,
           NEW from \in Slots, NEW to \in Slots, Thread(from) = t, Thread(to) = p,
           res' = Merged(from, to)
    PROVE  ResourceInv' /\ Allowed
<1>1. Types /\ HeldInv /\ CountInv /\ WakeInv /\ EntriesInv /\ GivenInv /\ TableInv /\ QueryInv
  BY DEF ResourceInv
<1>2. /\ t \in Owners /\ p \in Owners /\ 0 \in Slots /\ p \notin Threads
      /\ pc[t] = "idle" /\ held[t].n > 0 /\ UNCHANGED <<event, sem, pc, call, size, batch>>
  BY Sizes, OwnerAssumption DEF Passes
<1>3. ~ExclusiveHeld /\ held[p].mode # "excl" /\ held[t].mode # "excl"
  BY <1>2, Together DEF ExclusiveHeld
<1>4. /\ from # to
      /\ to = 0 \/ to < res.TableSize
      /\ \A r \in Slots : Thread(r) = t => r = from
      /\ \A r \in Slots : Thread(r) = p => r = to
      /\ Entitled(t, from) /\ Entitled(p, to)
  BY <1>1, <1>2 DEF EntriesInv
<1>5. /\ held[p].n > 0 /\ res.owner[to].count = held[p].n
      /\ res.owner[from].count = held[t].n
  BY <1>2, <1>4 DEF Entitled
<1>6. /\ held[t].n \in Nat /\ held[p].n \in Nat /\ held' \in [Owners -> HeldTypes]
      /\ held'[t].n = 0 /\ held'[p].n = held[p].n + held[t].n /\ held'[p].n > 0
      /\ held'[p].mode = held[t].mode
      /\ \A x \in Owners \ {t, p} : held'[x] = held[x]
      /\ \A u \in Threads \ {t} : held'[u] = held[u]
      /\ HeldInv' /\ Allowed /\ New = 0
      /\ ExclusiveHeld' <=> ExclusiveHeld
      /\ Having' = Having - 1 /\ Having >= 2
  BY <1>3, <1>5, PassFacts
<1> DEFINE n == held[p].n + held[t].n
           Y == [res.owner EXCEPT ![to].count = res.owner[to].count + res.owner[from].count]
           X == [Y EXCEPT ![from] = FreeEntry]
<1>7. /\ X \in [Slots -> EntryTypes] /\ X[to].thread = p /\ X[to].count = n
      /\ X[from].thread = NoOwner
      /\ \A r \in Slots : r # from /\ r # to => X[r] = res.owner[r]
  <2>1. res.owner \in [Slots -> EntryTypes] /\ FreeEntry \in EntryTypes
        /\ FreeEntry.thread = NoOwner /\ res.owner[to].thread = p
    BY <1>1 DEF Types, ResTypes, FreeEntry, EntryTypes, Thread
  <2>2. n \in Nat /\ res.owner[to].count + res.owner[from].count = n
    BY <1>5, <1>6
  <2> HIDE DEF n
  <2>3. Y = [res.owner EXCEPT ![to].count = n]
    BY <2>2
  <2> HIDE DEF Y
  <2>4. /\ Y \in [Slots -> EntryTypes] /\ Y[to].thread = p /\ Y[to].count = n
        /\ \A r \in Slots : r # to => Y[r] = res.owner[r]
    BY <2>1, <2>2, <2>3 DEF EntryTypes
  <2> QED
    BY <1>4, <2>1, <2>4
<1>8. res.ActiveEntries \in Nat /\ res.ActiveEntries >= 2
  <2>1. /\ Having \in Nat /\ Tokens \in Nat /\ Giving \in Nat /\ Settlers \in Nat
        /\ res.ActiveEntries = Having + Tokens + Giving + Settlers + 0
    BY <1>1, <1>6, Numbers DEF CountInv
  <2> QED
    BY <1>6, <2>1
<1>9. res' = [res EXCEPT !.owner = X, !.ActiveEntries = res.ActiveEntries - 1]
  BY <1>1 DEF Merged, Types, ResTypes
<1> HIDE DEF X, n
<1>10. /\ res'.ActiveEntries = res.ActiveEntries - 1 /\ res'.ActiveCount = res.ActiveCount
       /\ res'.Exclusive = res.Exclusive /\ res'.owner = X
       /\ res'.TableSize = res.TableSize /\ res'.ExclusiveWaiters = res.ExclusiveWaiters
       /\ res'.SharedWaiters = res.SharedWaiters
  BY <1>1, <1>9 DEF Types, ResTypes
<1>11. res' \in ResTypes
  <2>1. res.ActiveEntries - 1 \in Nat
    BY <1>8
  <2> QED
    BY <1>1, <1>7, <1>9, <2>1 DEF Types, ResTypes
<1>12. Types'
  BY <1>1, <1>2, <1>6, <1>11 DEF Types
<1>13. /\ Sleepers' = Sleepers /\ Sharers' = Sharers /\ Settlers' = Settlers
       /\ Setters' = Setters /\ NewOwners' = NewOwners
  BY <1>2 DEF Sleepers, Sharers, Settlers, Setters, NewOwners, In
<1>14. Giving' = Giving /\ Signal' = Signal /\ Tokens' = Tokens
  BY <1>2, GivingKept DEF Signal, Tokens
<1>15. New' = 0
  BY <1>6, <1>13, <1>14 DEF New
<1>16. CountInv'
  <2>1. /\ Having \in Nat /\ Tokens \in Nat /\ Giving \in Nat /\ Settlers \in Nat
        /\ res.ActiveEntries = Having + Tokens + Giving + Settlers + 0
    BY <1>1, <1>6, Numbers DEF CountInv
  <2>2. res.ActiveEntries - 1 = (Having - 1) + Tokens + Giving + Settlers + 0
    BY <2>1
  <2>3. res'.ActiveEntries = Having' + Tokens' + Giving' + Settlers' + New'
    BY <1>6, <1>10, <1>13, <1>14, <1>15, <2>2, Zenon
  <2>4. res'.ActiveCount = 1 /\ res'.ActiveEntries # 0
    BY <1>1, <1>8, <1>10 DEF CountInv
  <2> QED
    BY <1>1, <1>3, <1>6, <1>10, <1>13, <1>14, <1>15, <2>3, <2>4 DEF CountInv
<1>17. WakeInv'
  BY <1>1, <1>2, <1>13 DEF WakeInv
<1>18. EntriesInv'
  <2>1. Entitled(p, to)'
    BY <1>3, <1>6, <1>7, <1>10 DEF Entitled, n
  <2>2. ~HasEntry(t)'
    BY <1>2, <1>6 DEF HasEntry
  <2> QED
    BY <1>1, <1>2, <1>4, <1>6, <1>7, <1>10, <2>1, <2>2, EntryPassed
<1>19. GivenInv'
  BY <1>15 DEF GivenInv
<1>20. TableInv'
  BY <1>1, <1>2, <1>10 DEF TableInv
<1>21. QueryInv'
  <2>1. Knows(t)'
    BY <1>2 DEF Knows
  <2>2. \/ res'.owner[0].thread = res.owner[0].thread \/ res'.owner[0].thread = p
        \/ res'.owner[0].thread = NoOwner
    BY <1>2, <1>7, <1>10
  <2>3. NoOwner \notin Threads
    BY Sizes, OwnerAssumption
  <2> QED
    BY <1>1, <1>2, <1>6, <2>1, <2>2, <2>3, QueryKept DEF Thread
<1> QED
  BY <1>6, <1>12, <1>16, <1>17, <1>18, <1>19, <1>20, <1>21 DEF ResourceInv

LEMMA SetOwnerPointerInv ==
    ASSUME ResourceInv, NEW t \in Threads, NEW p \in Pointers, SetOwnerPointer(t, p)
    PROVE  ResourceInv' /\ Allowed
<1>1. /\ Passes(t, p) /\ held[t].n > 0 /\ t \in Owners /\ p \in Owners
      /\ p \notin Threads /\ 0 \in Slots
  BY Sizes, OwnerAssumption DEF SetOwnerPointer, Passes
<1>2. held[p].n \in Nat /\ t # p
  BY <1>1 DEF ResourceInv, Types, HeldTypes
<1>3. \A o \in Owners : SlotsOf(o) # {} => First(SlotsOf(o)) \in SlotsOf(o)
  <2> SUFFICES ASSUME NEW o \in Owners, SlotsOf(o) # {} PROVE First(SlotsOf(o)) \in SlotsOf(o)
    OBVIOUS
  <2>1. SlotsOf(o) \subseteq Nat
    BY OwnEntry, Sizes
  <2> QED
    BY <2>1, FirstIn
<1>4. SlotsOf(t) # {}
  <2>1. HasEntry(t)
    BY <1>1 DEF HasEntry
  <2> QED
    BY <1>1, <2>1, OwnEntry
<1>5. First(SlotsOf(t)) \in Slots /\ Thread(First(SlotsOf(t))) = t
  BY <1>1, <1>3, <1>4, OwnEntry
<1>6. CASE res.Exclusive /\ res' = [res EXCEPT !.owner[0].thread = p]
  <2>1. Thread(0) = t /\ held[p].n = 0
    BY <1>1, <1>2, <1>6, Alone
  <2> QED
    BY <1>1, <1>6, <2>1, PassEntry
<1>7. CASE /\ ~res.Exclusive /\ SlotsOf(p) = {}
           /\ res' = [res EXCEPT !.owner[First(SlotsOf(t))].thread = p]
  <2>1. held[p].n = 0
    <3>1. ~HasEntry(p)
      BY <1>1, <1>7, OwnEntry
    <3> QED
      BY <1>2, <3>1 DEF HasEntry
  <2>2. PICK s \in Slots : s = First(SlotsOf(t)) /\ Thread(s) = t
    BY <1>5
  <2> QED
    BY <1>1, <1>7, <2>1, <2>2, PassEntry
<1>8. CASE /\ ~res.Exclusive /\ SlotsOf(p) # {}
           /\ LET from == First(SlotsOf(t))
                  to == First(SlotsOf(p))
              IN  res' = [res EXCEPT !.owner[to].count = @ + res.owner[from].count,
                                     !.owner[from] = FreeEntry,
                                     !.ActiveEntries = @ - 1]
  <2>1. PICK from \in Slots : from = First(SlotsOf(t)) /\ Thread(from) = t
    BY <1>5
  <2>2. PICK to \in Slots : to = First(SlotsOf(p)) /\ Thread(to) = p
    BY <1>1, <1>3, <1>8, OwnEntry
  <2>3. res' = Merged(from, to)
    BY <1>8, <2>1, <2>2 DEF Merged
  <2> QED
    BY <1>1, <1>8, <2>1, <2>2, <2>3, PassCount
<1> QED
  BY <1>6, <1>7, <1>8 DEF SetOwnerPointer

-----------------------------------------------------------------------------
(* The query, which looks at the resource without its lock.                *)

(* What a thread that waits for nothing can tell from the resource. *)
LEMMA QueryFacts ==
    ASSUME ResourceInv, NEW t \in Threads, pc[t] \notin BusyPCs
    PROVE  /\ held[t].n \in Nat
           /\ res.ActiveEntries = 0 => held[t].n = 0
           /\ Thread(0) = t => res.owner[0].count = held[t].n
           /\ Thread(0) # t /\ res.Exclusive => held[t].n = 0
           /\ Thread(0) # t => IF Search(t) = {} THEN held[t].n = 0
                               ELSE res.owner[First(Search(t))].count = held[t].n
<1>1. Types /\ EntriesInv /\ t \in Owners /\ 0 \in Slots /\ Slots \subseteq Nat
  BY Sizes DEF ResourceInv
<1>2. held[t].n \in Nat
  BY <1>1 DEF Types, HeldTypes
<1>3. res.ActiveEntries = 0 => held[t].n = 0
  BY <1>1, Vacant
<1>4. \A s \in Slots : Thread(s) = t => res.owner[s].count = held[t].n
  <2> SUFFICES ASSUME NEW s \in Slots, Thread(s) = t PROVE res.owner[s].count = held[t].n
    OBVIOUS
  <2>1. Entitled(t, s)
    BY <1>1 DEF EntriesInv
  <2> QED
    BY <2>1 DEF Entitled, BusyPCs
<1>5. Thread(0) # t /\ res.Exclusive => held[t].n = 0
  BY <1>1, <1>2, Alone
<1>6. SlotsOf(t) = {s \in Slots : Thread(s) = t}
  BY <1>1, OwnEntry
<1>7. ASSUME Thread(0) # t, Search(t) = {} PROVE held[t].n = 0
  <2>1. SlotsOf(t) = {}
    BY <1>6, <1>7 DEF Search
  <2>2. ~HasEntry(t)
    BY <1>1, <2>1, OwnEntry
  <2> QED
    BY <1>2, <2>2 DEF HasEntry
<1>8. ASSUME Search(t) # {} PROVE res.owner[First(Search(t))].count = held[t].n
  <2>1. Search(t) \subseteq Nat
    BY <1>1, <1>6 DEF Search
  <2>2. First(Search(t)) \in Search(t)
    BY <1>8, <2>1, FirstIn
  <2> QED
    BY <1>4, <1>6, <2>2 DEF Search
<1> QED
  BY <1>1, <1>2, <1>3, <1>4, <1>5, <1>7, <1>8

LEMMA QueriesInv ==
    ASSUME ResourceInv, NEW t \in Threads,
           Query(t) \/ QueryFirst(t) \/ QueryFlag(t) \/ QueryTable(t) \/ Answer(t)
    PROVE  ResourceInv' /\ Allowed
<1> DEFINE places == {"idle", "queryFirst", "queryFlag", "queryTable", "answer"}
<1>1. Types /\ TableInv /\ QueryInv
  BY DEF ResourceInv
<1>2. UNCHANGED <<res, event, sem, size, held>> /\ pc[t] \in places
  BY DEF Query, QueryFirst, QueryFlag, QueryTable, Answer
<1>3. \A b \in places : b \in PCs /\ b \notin Counted /\ b \notin BusyPCs
  BY DEF PCs, FreePCs, Counted, BusyPCs
<1>4. /\ held[t].n \in Nat
      /\ res.ActiveEntries = 0 => held[t].n = 0
      /\ Thread(0) = t => res.owner[0].count = held[t].n
      /\ Thread(0) # t /\ res.Exclusive => held[t].n = 0
      /\ Thread(0) # t => IF Search(t) = {} THEN held[t].n = 0
                          ELSE res.owner[First(Search(t))].count = held[t].n
  BY <1>2, <1>3, QueryFacts
<1>5. Knows(t)
  BY <1>1 DEF QueryInv
<1>6. pc \in [Threads -> PCs] /\ batch \in [Threads -> Nat]
  BY <1>1 DEF Types
<1>7. Thread(0)' = Thread(0) /\ held'[t] = held[t]
  BY <1>2 DEF Thread
<1>8. \E b \in places, n \in Nat :
         /\ pc' = [pc EXCEPT ![t] = b]
         /\ batch' = [batch EXCEPT ![t] = n] \/ (UNCHANGED batch /\ n = batch[t])
         /\ b \in {"queryFirst", "queryFlag", "queryTable"} => n = 0
         /\ b \in {"queryFlag", "queryTable"} => Thread(0) # t
         /\ b = "answer" => n = held[t].n
  <2>1. CASE Query(t)
    BY <1>4, <2>1 DEF Query, Goto
  <2>2. CASE QueryFirst(t)
    <3>1. CASE Thread(0) = t
      <4>1. /\ pc' = [pc EXCEPT ![t] = "answer"]
            /\ batch' = [batch EXCEPT ![t] = held[t].n]
        BY <1>4, <2>2, <3>1 DEF QueryFirst, Goto
      <4> QED
        BY <1>4, <4>1
    <3>2. CASE Thread(0) # t
      <4>1. pc' = [pc EXCEPT ![t] = "queryFlag"] /\ UNCHANGED batch /\ batch[t] = 0
        BY <1>5, <2>2, <3>2 DEF QueryFirst, Goto, Knows
      <4> QED
        BY <3>2, <4>1
    <3> QED
      BY <3>1, <3>2
  <2>3. CASE QueryFlag(t)
    <3>1. UNCHANGED batch /\ batch[t] = 0 /\ Thread(0) # t
      BY <1>5, <2>3 DEF QueryFlag, Knows
    <3>2. CASE res.Exclusive
      <4>1. pc' = [pc EXCEPT ![t] = "answer"] /\ held[t].n = batch[t]
        BY <1>4, <2>3, <3>1, <3>2 DEF QueryFlag, Goto
      <4> QED
        BY <1>4, <3>1, <4>1
    <3>3. CASE ~res.Exclusive
      <4>1. pc' = [pc EXCEPT ![t] = "queryTable"]
        BY <2>3, <3>3 DEF QueryFlag, Goto
      <4> QED
        BY <3>1, <4>1
    <3> QED
      BY <3>2, <3>3
  <2>4. CASE QueryTable(t)
    <3>1. Thread(0) # t
      BY <1>5, <2>4 DEF QueryTable, Knows
    <3>2. /\ pc' = [pc EXCEPT ![t] = "answer"]
          /\ batch' = [batch EXCEPT ![t] = held[t].n]
      BY <1>4, <2>4, <3>1 DEF QueryTable, Goto
    <3> QED
      BY <1>4, <3>2
  <2>5. CASE Answer(t)
    <3>1. pc' = [pc EXCEPT ![t] = "idle"] /\ batch' = [batch EXCEPT ![t] = 0]
      BY <2>5 DEF Answer, Return, Goto
    <3> QED
      BY <3>1
  <2> QED
    BY <2>1, <2>2, <2>3, <2>4, <2>5
<1>9. PICK b \in places, n \in Nat :
         /\ pc' = [pc EXCEPT ![t] = b]
         /\ batch' = [batch EXCEPT ![t] = n] \/ (UNCHANGED batch /\ n = batch[t])
         /\ b \in {"queryFirst", "queryFlag", "queryTable"} => n = 0
         /\ b \in {"queryFlag", "queryTable"} => Thread(0) # t
         /\ b = "answer" => n = held[t].n
  BY <1>8
<1>10. /\ pc'[t] = b /\ \A u \in Threads \ {t} : pc'[u] = pc[u]
       /\ batch'[t] = n /\ batch' \in [Threads -> Nat]
       /\ \A u \in Threads \ {t} : batch'[u] = batch[u]
  BY <1>6, <1>9
<1>11. Knows(t)'
  BY <1>7, <1>9, <1>10 DEF Knows
<1>12. TableInv'
  <2>1. b \notin {"expand", "expandSettle"}
    OBVIOUS
  <2> QED
    BY <1>1, <1>2, <1>10, <2>1 DEF TableInv
<1>13. ResourceInv'
  <2>1. size' \in [Threads -> Nat]
    BY <1>1, <1>2 DEF Types
  <2> HIDE DEF places
  <2> QED
    BY <1>2, <1>3, <1>9, <1>10, <1>11, <1>12, <2>1, Quiet
<1> QED
  BY <1>2, <1>13, HeldAsBefore

-----------------------------------------------------------------------------
(* The specification.                                                      *)

LEMMA InitInv == ASSUME Init PROVE ResourceInv
<1>1. Types
  <2>1. FreeEntry \in EntryTypes /\ Nothing \in HeldTypes /\ "idle" \in PCs
    BY DEF FreeEntry, EntryTypes, Nothing, HeldTypes, Modes, PCs, FreePCs
  <2>2. sem \in Nat
    BY Sizes DEF Init
  <2> QED
    BY <2>1, <2>2 DEF Init, Types, ResTypes
<1>2. /\ \A o \in Owners : held[o].n = 0 /\ held[o].mode = "none"
      /\ \A t \in Threads : pc[t] = "idle"
  BY DEF Init, Nothing
<1>3. \A L : "idle" \notin L => Cardinality(In(L)) = 0
  <2> SUFFICES ASSUME NEW L, "idle" \notin L PROVE Cardinality(In(L)) = 0
    OBVIOUS
  <2>1. In(L) = {}
    BY <1>2 DEF In
  <2> QED
    BY <2>1, FS_EmptySet
<1>4. Sleepers = 0 /\ Sharers = 0 /\ Settlers = 0 /\ Setters = 0 /\ NewOwners = 0
  BY <1>3 DEF Sleepers, Sharers, Settlers, Setters, NewOwners
<1>5. WakeInv
  BY <1>2, <1>4 DEF WakeInv
<1>6. Giving = 0
  BY <1>1, <1>2, <1>5, GivingOne
<1>7. Signal = 0 /\ Tokens = 0
  BY DEF Init, Signal, Tokens
<1>8. Having = 0
  <2>1. Holders = {}
    BY <1>2 DEF Holders
  <2> QED
    BY <2>1, FS_EmptySet DEF Having
<1>9. New = 0 /\ ~ExclusiveHeld
  BY <1>2, <1>4, <1>7 DEF New, ExclusiveHeld
<1>10. /\ res.ActiveEntries = 0 /\ res.ActiveCount = 0 /\ res.Exclusive = FALSE
       /\ res.TableSize = 0 /\ res.ExclusiveWaiters = 0 /\ res.SharedWaiters = 0
       /\ \A s \in Slots : Thread(s) = NoOwner
  BY DEF Init, FreeEntry, Thread
<1>11. CountInv
  BY <1>4, <1>6, <1>7, <1>8, <1>9, <1>10 DEF CountInv
<1>12. HeldInv
  BY <1>2, Sizes DEF HeldInv
<1>13. EntriesInv
  BY <1>2, <1>10, OwnerAssumption DEF EntriesInv, HasEntry
<1>14. GivenInv
  BY <1>9 DEF GivenInv
<1>15. TableInv
  <2>1. 0 <= Cardinality(Owners) + FirstSize + Growth + 1
    BY Sizes, TableAssumption
  <2> QED
    BY <1>2, <1>10, <2>1 DEF TableInv
<1>16. QueryInv
  BY <1>2 DEF QueryInv, Knows
<1> QED
  BY <1>1, <1>5, <1>11, <1>12, <1>13, <1>14, <1>15, <1>16 DEF ResourceInv

LEMMA NextInv ==
    ASSUME ResourceInv, [LNext]_lvars
    PROVE  ResourceInv' /\ Allowed
<1>1. ASSUME NEW t \in Threads, Begin(t) \/ TryAcquire(t) PROVE ResourceInv' /\ Allowed
  BY <1>1, AcquireInv
<1>2. ASSUME NEW t \in Threads, Other(t) PROVE ResourceInv' /\ Allowed
  BY <1>2, ConvertInv, QueriesInv, SetOwnerPointerInv DEF Other
<1>3. ASSUME NEW t \in Threads, BeginRelease(t) PROVE ResourceInv' /\ Allowed
  BY <1>3, ReleaseInv DEF BeginRelease
<1>4. ASSUME NEW t \in Threads, Continue(t) PROVE ResourceInv' /\ Allowed
  <2>1. CASE TryAcquire(t)
    BY <1>1, <2>1
  <2>2. CASE FinishExpand(t)
    BY <2>2, FinishExpandInv
  <2>3. CASE AllocateEvent(t) \/ AllocateSemaphore(t)
    BY <2>3, AllocateInv
  <2>4. CASE WakeShared(t)
    BY <2>4, WakeSharedInv
  <2>5. CASE Settle(t)
    BY <2>5, SettleInv
  <2>6. CASE WakeExclusive(t)
    BY <2>6, WakeExclusiveInv
  <2>7. CASE SetOwner(t)
    BY <2>7, SetOwnerInv
  <2>8. CASE ReleaseSemaphore(t)
    BY <2>8, ReleaseSemaphoreInv
  <2>9. CASE SetEvent(t)
    BY <2>9, SetEventInv
  <2>10. CASE QueryFirst(t) \/ QueryFlag(t) \/ QueryTable(t) \/ Answer(t)
    BY <2>10, QueriesInv
  <2> QED
    BY <1>4, <2>1, <2>2, <2>3, <2>4, <2>5, <2>6, <2>7, <2>8, <2>9, <2>10 DEF Continue
<1>5. CASE UNCHANGED lvars
  <2>1. UNCHANGED <<res, event, sem, pc, size, batch, held>>
    BY <1>5 DEF lvars, vars
  <2>2. ResourceInv'
    BY <2>1 DEF ResourceInv, Types, HeldInv, CountInv, WakeInv, EntriesInv, GivenInv, TableInv,
                QueryInv, Knows, HasEntry, Entitled, Thread, Sleepers, Sharers, Settlers, Setters,
                NewOwners, Having, Holders, Signal, Tokens, Giving, New, ExclusiveHeld, In
  <2> QED
    BY <2>1, <2>2, HeldAsBefore
<1>6. CASE LNext
  BY <1>1, <1>2, <1>3, <1>4, <1>6, UsersAssumption DEF LNext, LBegin, LOther, LRelease, LContinue
<1> QED
  BY <1>5, <1>6

-----------------------------------------------------------------------------
(* What follows from the invariant.                                        *)

LEMMA CountsFollow == ASSUME ResourceInv PROVE CountsExact
<1>1. Types /\ CountInv /\ WakeInv
  BY DEF ResourceInv
<1>2. /\ Sleepers \in Nat /\ Sharers \in Nat /\ Settlers \in Nat /\ Setters \in Nat
      /\ NewOwners \in Nat /\ Having \in Nat /\ Signal \in Nat /\ Tokens \in Nat
      /\ Giving \in Nat /\ New \in Nat
  BY <1>1, Numbers
<1>3. /\ res.ExclusiveWaiters \in Nat /\ res.SharedWaiters \in Nat /\ res.ActiveEntries \in Nat
      /\ res.Exclusive \in BOOLEAN
  BY <1>1 DEF Types, ResTypes
<1>4. SharedWakeUps = Tokens + Giving /\ ExclusiveWakeUps = Signal + Setters
  BY DEF SharedWakeUps, ExclusiveWakeUps, Tokens, Giving, Signal, Setters
<1> DEFINE e == ExclusiveWakeUps
           w == SharedWakeUps
<1>5. e \in Nat /\ w \in Nat /\ e = Signal + Setters /\ w = Tokens + Giving
  BY <1>2, <1>4
<1> HIDE DEF e, w
<1>6. WakeUpsExact
  <2>1. /\ res.ExclusiveWaiters + Signal + Setters = Sleepers
        /\ res.SharedWaiters + Tokens + Giving = Sharers
    BY <1>1 DEF CountInv
  <2>2. res.ExclusiveWaiters + e = Sleepers /\ res.SharedWaiters + w = Sharers
    BY <1>2, <1>3, <1>5, <2>1
  <2> QED
    BY <2>2 DEF WakeUpsExact, Sleepers, Sharers, e, w
<1>7. ActiveExact
  <2> DEFINE new == e + NewOwners
  <2>1. new = New /\ new \in Nat
    BY <1>2, <1>5 DEF New
  <2>2. res.ActiveEntries = Having + Tokens + Giving + Settlers + New
    BY <1>1 DEF CountInv
  <2> HIDE DEF new
  <2>3. res.ActiveEntries = Having + w + Settlers + new
    BY <1>2, <1>3, <1>5, <2>1, <2>2
  <2>4. /\ res.ActiveCount = (IF res.ActiveEntries = 0 THEN 0 ELSE 1)
        /\ res.Exclusive => res.ActiveEntries = 1
    BY <1>1 DEF CountInv
  <2>5. res.Exclusive <=> (new = 1 \/ \E o \in Owners : held[o].mode = "excl")
    BY <1>1, <2>1 DEF CountInv, ExclusiveHeld
  <2>6. res.Exclusive = (new = 1 \/ \E o \in Owners : held[o].mode = "excl")
    BY <1>3, <2>5
  <2> QED
    BY <2>3, <2>4, <2>6 DEF ActiveExact, Having, Settlers, NewOwners, new, e, w
<1>8. NobodyStranded
  BY <1>1 DEF CountInv, NobodyStranded
<1> QED
  BY <1>6, <1>7, <1>8 DEF CountsExact

LEMMA EntriesFollow == ASSUME ResourceInv PROVE EntriesExact
<1>1. Types /\ HeldInv /\ EntriesInv
  BY DEF ResourceInv
<1>2. ASSUME NEW o \in Owners \ In({"own"})
      PROVE  LET mine == {s \in Slots : Thread(s) = o}
             IN  IF o \in Holders
                 THEN \E s \in {0} \cup Table : /\ mine = {s}
                                                /\ res.owner[s].count = held[o].n
                                                /\ held[o].mode = "excl" => s = 0
                 ELSE IF o \in In({"waitShared"})
                 THEN \E s \in Table : mine = {s} /\ res.owner[s].count = 1
                 ELSE mine = {}
  <2> DEFINE mine == {s \in Slots : Thread(s) = o}
  <2>1. ~(o \in Threads /\ pc[o] = "own") /\ held[o].n \in Nat
    BY <1>1 DEF In, Types, HeldTypes
  <2>2. /\ SlotsOf(o) = mine
        /\ \A s, r \in SlotsOf(o) : s = r
        /\ HasEntry(o) <=> SlotsOf(o) # {}
        /\ \A s \in SlotsOf(o) : Entitled(o, s)
    BY <2>1, OwnEntry
  <2>3. SlotsOf(o) \subseteq {0} \cup Table
    BY DEF SlotsOf
  <2>4. o \in In({"waitShared"}) => o \in Threads /\ pc[o] = "waitShared" /\ held[o].n = 0
    BY <1>1 DEF In, HeldInv, BusyPCs
  <2> HIDE DEF mine
  <2>5. CASE o \in Holders
    <3>1. held[o].n > 0 /\ ~(o \in Threads /\ pc[o] = "waitShared")
      BY <1>1, <2>5 DEF Holders, HeldInv, BusyPCs
    <3>2. PICK s \in SlotsOf(o) : Entitled(o, s)
      BY <2>2, <3>1 DEF HasEntry
    <3>3. mine = {s}
      BY <2>2, <3>2
    <3>4. res.owner[s].count = held[o].n /\ (held[o].mode = "excl" => s = 0)
      BY <2>1, <3>1, <3>2 DEF Entitled
    <3>5. \E r \in {0} \cup Table : /\ mine = {r}
                                    /\ res.owner[r].count = held[o].n
                                    /\ held[o].mode = "excl" => r = 0
      BY <2>3, <3>2, <3>3, <3>4
    <3> QED
      BY <2>5, <3>5 DEF mine
  <2>6. CASE o \notin Holders /\ o \in In({"waitShared"})
    <3>1. PICK s \in SlotsOf(o) : Entitled(o, s)
      BY <2>2, <2>4, <2>6 DEF HasEntry
    <3>2. mine = {s}
      BY <2>2, <3>1
    <3>3. res.owner[s].count = 1 /\ s # 0
      BY <2>1, <2>4, <2>6, <3>1 DEF Entitled
    <3>4. \E r \in Table : mine = {r} /\ res.owner[r].count = 1
      BY <2>3, <3>1, <3>2, <3>3
    <3> QED
      BY <2>6, <3>4 DEF mine
  <2>7. CASE o \notin Holders /\ o \notin In({"waitShared"})
    <3>1. ~HasEntry(o)
      BY <2>7 DEF HasEntry, Holders, In
    <3>2. mine = {}
      BY <2>2, <3>1
    <3> QED
      BY <2>7, <3>2 DEF mine
  <2> QED
    BY <2>5, <2>6, <2>7
<1>3. \A s \in Slots \ {0} : Thread(s) # Pending
  BY <1>1 DEF EntriesInv
<1> QED
  BY <1>2, <1>3 DEF EntriesExact

LEMMA ExactFollows == ASSUME ResourceInv PROVE ResourceExact
<1>1. AnswerExact
  BY DEF ResourceInv, QueryInv, Knows, AnswerExact, In
<1> QED
  BY <1>1, CountsFollow, EntriesFollow DEF ResourceExact

(* What every owner holds, as RWLock sees it. *)
hold == [o \in Owners |-> held[o].mode]

(* Every step of the resource is one of RWLock, or none. *)
LEMMA LockStep ==
    ASSUME Types, Types', Allowed
    PROVE  RW!Next \/ hold' = hold
<1>1. /\ DOMAIN hold = Owners /\ \A o \in Owners : hold[o] = held[o].mode
      /\ DOMAIN hold' = Owners /\ \A o \in Owners : hold'[o] = held'[o].mode
      /\ hold = [o \in Owners |-> hold[o]] /\ hold' = [o \in Owners |-> hold'[o]]
  BY DEF hold
<1>2. /\ RW!Holders("excl") = {o \in Owners : hold[o] = "excl"}
      /\ RW!Holders("shared") = {o \in Owners : hold[o] = "shared"}
  BY DEF RW!Holders, hold
<1>3. RW!Next <=> \E t \in Owners :
         \/ RW!AcquireShared(t) \/ RW!AcquireExclusive(t) \/ RW!Convert(t)
         \/ RW!Downgrade(t) \/ RW!Release(t) \/ \E u \in Owners : RW!Transfer(t, u)
  BY DEF RW!Next
<1>4. ASSUME NEW t \in Owners, NEW m, hold'[t] = m, OnlyModeOf(t)
      PROVE  hold' = [hold EXCEPT ![t] = m]
  BY <1>1, <1>4 DEF OnlyModeOf
<1>5. /\ \A t \in Owners : RW!AcquireShared(t) <=> /\ hold[t] = "none"
                                                   /\ RW!Holders("excl") = {}
                                                   /\ hold' = [hold EXCEPT ![t] = "shared"]
      /\ \A t \in Owners : RW!AcquireExclusive(t) <=>
            /\ hold[t] = "none" /\ RW!Holders("excl") \cup RW!Holders("shared") = {}
            /\ hold' = [hold EXCEPT ![t] = "excl"]
      /\ \A t \in Owners : RW!Downgrade(t) <=> /\ hold[t] = "excl"
                                               /\ hold' = [hold EXCEPT ![t] = "shared"]
      /\ \A t \in Owners : RW!Release(t) <=> /\ hold[t] # "none"
                                             /\ hold' = [hold EXCEPT ![t] = "none"]
      /\ \A t, u \in Owners : RW!Transfer(t, u) <=>
            /\ hold[t] # "none" /\ hold[u] \in {"none", "shared"}
            /\ hold' = [hold EXCEPT ![t] = "none", ![u] = hold[t]]
  BY DEF RW!AcquireShared, RW!AcquireExclusive, RW!Downgrade, RW!Release, RW!Transfer, hold
<1>6. CASE \A o \in Owners : held'[o].mode = held[o].mode
  BY <1>1, <1>6
<1>7. ASSUME NEW t \in Owners, held[t].mode = "none", ~ExclusiveHeld,
             held'[t].mode = "shared", OnlyModeOf(t)
      PROVE  RW!Next
  <2>1. RW!Holders("excl") = {}
    BY <1>1, <1>2, <1>7 DEF ExclusiveHeld
  <2>2. hold' = [hold EXCEPT ![t] = "shared"] /\ hold[t] = "none"
    BY <1>1, <1>4, <1>7
  <2> QED
    BY <1>3, <1>5, <2>1, <2>2
<1>8. ASSUME NEW t \in Owners, \A o \in Owners : held[o].mode = "none",
             held'[t].mode = "excl", OnlyModeOf(t)
      PROVE  RW!Next
  <2>1. RW!Holders("excl") \cup RW!Holders("shared") = {}
    BY <1>1, <1>2, <1>8
  <2>2. hold' = [hold EXCEPT ![t] = "excl"] /\ hold[t] = "none"
    BY <1>1, <1>4, <1>8
  <2> QED
    BY <1>3, <1>5, <2>1, <2>2
<1>9. ASSUME NEW t \in Owners, held[t].mode = "excl", held'[t].mode = "shared", OnlyModeOf(t)
      PROVE  RW!Next
  <2>1. hold' = [hold EXCEPT ![t] = "shared"] /\ hold[t] = "excl"
    BY <1>1, <1>4, <1>9
  <2> QED
    BY <1>3, <1>5, <2>1
<1>10. ASSUME NEW t \in Owners, held[t].mode # "none", held'[t].mode = "none", OnlyModeOf(t)
       PROVE  RW!Next
  <2>1. hold' = [hold EXCEPT ![t] = "none"] /\ hold[t] # "none"
    BY <1>1, <1>4, <1>10
  <2> QED
    BY <1>3, <1>5, <2>1
<1>11. ASSUME NEW t \in Owners, NEW p \in Owners, t # p, held[t].mode # "none",
              held[p].mode \in {"none", "shared"}, held'[t].mode = "none",
              held'[p].mode = held[t].mode,
              \A x \in Owners \ {t, p} : held'[x].mode = held[x].mode
       PROVE  RW!Next
  <2>1. /\ hold[t] # "none" /\ hold[p] \in {"none", "shared"}
        /\ hold' = [hold EXCEPT ![t] = "none", ![p] = hold[t]]
    BY <1>1, <1>11
  <2> QED
    BY <1>3, <1>5, <2>1
<1> QED
  BY <1>6, <1>7, <1>8, <1>9, <1>10, <1>11 DEF Allowed

-----------------------------------------------------------------------------
(* The theorems.                                                           *)

(* ResourceInv holds in every reachable state: whatever the interleaving   *)
(* of acquires, releases, wake-ups and queries of resource.c, the counts   *)
(* and the entries are those of the threads' places.                       *)
THEOREM ResourceInvariance == LFairSpec => []ResourceInv
<1>1. LInit => ResourceInv
  BY InitInv DEF LInit
<1>2. ResourceInv /\ [LNext]_lvars => ResourceInv'
  BY NextInv
<1> QED
  BY <1>1, <1>2, PTL DEF LFairSpec

(* The counts of an ERESOURCE and its owner table agree with its owners,   *)
(* its waiters and the wake-ups under way; a query that reads them without *)
(* the lock answers how often the caller has acquired the resource.        *)
THEOREM ResourceSafety == LFairSpec => []ResourceExact
<1>1. ResourceInv => ResourceExact
  BY ExactFollows
<1> QED
  BY <1>1, ResourceInvariance, PTL

(* A resource implements RWLock: it has one exclusive owner and nobody     *)
(* beside it, until that owner releases it, shares it or passes it on.     *)
THEOREM ResourceExclusion == LFairSpec => MutualExclusion
<1>1. LInit => RW!Init
  BY DEF LInit, Init, RW!Init, Nothing
<1>2. ResourceInv /\ ResourceInv' /\ [LNext]_lvars => [RW!Next]_hold
  <2> SUFFICES ASSUME ResourceInv, ResourceInv', [LNext]_lvars PROVE RW!Next \/ hold' = hold
    OBVIOUS
  <2>1. Types /\ Types'
    BY DEF ResourceInv
  <2> QED
    BY <2>1, NextInv, LockStep
<1>3. RW!Init /\ [][RW!Next]_hold => RW!Spec
  BY DEF RW!Spec, hold
<1> QED
  BY <1>1, <1>2, <1>3, ResourceInvariance, PTL DEF LFairSpec, MutualExclusion
=============================================================================
