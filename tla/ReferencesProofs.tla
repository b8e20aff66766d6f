-------------------------- MODULE ReferencesProofs --------------------------
(***************************************************************************)
(* Proofs about CallbackObject, NotifyRoutine and SdCache as MCReferences  *)
(* instantiates them, for any number of threads, objects, registrations,   *)
(* blocks, headers and descriptors, and what they say together of the fast *)
(* references of the kernel.                                               *)
(*                                                                         *)
(* The heart of CallbackInv is who answers for a registration: the handle, *)
(* or the one thread that is registering or unregistering it.  It is in    *)
(* the list of its object from its insertion until that thread has removed *)
(* it, which it does only when nobody is in a call of it; and it counts    *)
(* for its object as long as somebody answers for it.                      *)
(*                                                                         *)
(* At the heart of SdInv is why a thread that took the lock of an object   *)
(* may count a reference to the header that it found in the word: it is    *)
(* still in the word, or the thread that replaced it has not yet passed    *)
(* the lock on its way to drop the references that the word had.           *)
(***************************************************************************)
EXTENDS MCReferences, FiniteSetTheorems, WellFoundedInduction, SequenceTheorems, TLAPS

(* Where ExUnregisterCallback has not yet removed its registration, and    *)
(* where a thread answers for the registration that it is busy with.       *)
StillListed == {"lock", "clear", "wait", "asleep"}
Answering == StillListed \cup {"insert", "free"}

Answers(t, r) == cur[t] = r /\ cpc[t] \in Answering

(* r is at some place of a list, in which each is once. *)
In(list, r) == \E k \in 1 .. Len(list) : list[k] = r

OnceEach(list) == \A j, k \in 1 .. Len(list) : list[j] = list[k] => j = k

(* What is known of the memory of a registration. *)
RegTypes == [CallbackObject : CallbackObjects \cup {NoObject}, Busy : Nat,
             UnregisterWaiting : BOOLEAN, handle : BOOLEAN]

CallbackTypes ==
    /\ RegisteredCallbacks \in [CallbackObjects -> Seq(Registrations)]
    /\ PointerCount \in [CallbackObjects -> Nat]
    /\ open \subseteq CallbackObjects
    /\ reg \in [Registrations -> RegTypes]
    /\ cpc \in [Threads -> Answering \cup {"idle", "call"}]
    /\ cur \in [Threads -> Registrations \cup {NoRegistration}]
    /\ \A t \in Threads : cpc[t] # "idle" => cur[t] \in Registrations

AnswerInv ==
    \A r \in Registrations :
       /\ \A t, u \in Threads : Answers(t, r) /\ Answers(u, r) => t = u
       /\ reg[r].handle => \A t \in Threads : ~Answers(t, r)
       /\ reg[r].CallbackObject # NoObject <=>
             reg[r].handle \/ \E t \in Threads : Answers(t, r)

(* The handle, or a thread that has yet to remove r, keeps it in the list. *)
Kept(r) == reg[r].handle \/ \E t \in Threads : cur[t] = r /\ cpc[t] \in StillListed

ListInv ==
    \A o \in CallbackObjects :
       /\ OnceEach(RegisteredCallbacks[o])
       /\ \A r \in Registrations :
             In(RegisteredCallbacks[o], r) <=> reg[r].CallbackObject = o /\ Kept(r)

CallInv == \A t \in Threads : cpc[t] = "call" => Kept(cur[t])

Callers(r) == {t \in Threads : cpc[t] = "call" /\ cur[t] = r}

BusyInv == \A r \in Registrations : reg[r].Busy = Cardinality(Callers(r))

Members(o) == {r \in Registrations : reg[r].CallbackObject = o}

CountInv == \A o \in CallbackObjects :
               PointerCount[o] = Cardinality(Members(o)) + (IF o \in open THEN 1 ELSE 0)

CallbackInv == CallbackTypes /\ AnswerInv /\ ListInv /\ CallInv /\ BusyInv /\ CountInv

-----------------------------------------------------------------------------
(* Numbers, sets and lists.                                                *)

(* A set of numbers has a least one. *)
LEMMA LeastExists ==
    ASSUME NEW N \in SUBSET Nat, N # {}
    PROVE  \E k \in N : \A j \in N : k <= j
<1> DEFINE R == OpToRel(<, Nat)
<1>1. \E x \in N : \A y \in N : ~ (<<y, x>> \in R)
  BY NatLessThanWellFounded, WFMin
<1>2. \A x, y \in Nat : <<y, x>> \in R <=> y < x
  BY DEF OpToRel
<1> HIDE DEF R
<1>3. PICK x \in N : \A y \in N : ~ (<<y, x>> \in R)
  BY <1>1
<1>4. ASSUME NEW y \in N PROVE x <= y
  <2>1. ~(y < x) /\ x \in Nat /\ y \in Nat
    BY <1>2, <1>3
  <2> QED
    BY <2>1
<1> QED
  BY <1>4

(* Min is it. *)
LEMMA LeastNumber ==
    ASSUME NEW N \in SUBSET Nat, N # {}
    PROVE  C!Min(N) \in N
BY LeastExists DEF C!Min

(* A finite set with one more element, and with one less. *)
LEMMA OneMore ==
    ASSUME NEW A, IsFiniteSet(A), NEW x
    PROVE  /\ Cardinality(A) \in Nat
           /\ x \notin A => Cardinality(A \cup {x}) = Cardinality(A) + 1
           /\ x \in A => /\ Cardinality(A \ {x}) = Cardinality(A) - 1
                         /\ Cardinality(A) >= 1
<1>1. Cardinality(A) \in Nat
  BY FS_CardinalityType
<1>2. x \notin A => Cardinality(A \cup {x}) = Cardinality(A) + 1
  BY FS_AddElement
<1>3. ASSUME x \in A
      PROVE  Cardinality(A \ {x}) = Cardinality(A) - 1 /\ Cardinality(A) >= 1
  <2>1. Cardinality(A \ {x}) = Cardinality(A) - 1
    BY <1>3, FS_RemoveElement
  <2>2. IsFiniteSet(A \ {x})
    BY FS_Subset
  <2>3. Cardinality(A \ {x}) \in Nat
    BY <2>2, FS_CardinalityType
  <2> QED
    BY <1>1, <2>1, <2>3
<1> QED
  BY <1>1, <1>2, <1>3

(* The place of a registration in a list. *)
LEMMA PlaceIn ==
    ASSUME NEW list, NEW r, In(list, r)
    PROVE  C!Place(list, r) \in 1 .. Len(list) /\ list[C!Place(list, r)] = r
BY DEF In, C!Place

(* InsertTailList. *)
LEMMA AppendOne ==
    ASSUME NEW list \in Seq(Registrations), NEW r \in Registrations,
           OnceEach(list), ~In(list, r)
    PROVE  /\ Append(list, r) \in Seq(Registrations)
           /\ OnceEach(Append(list, r))
           /\ \A x \in Registrations : In(Append(list, r), x) <=> In(list, x) \/ x = r
<1> DEFINE n == Len(list)
           l == Append(list, r)
<1>1. /\ n \in Nat /\ l \in Seq(Registrations) /\ Len(l) = n + 1
      /\ l[n + 1] = r
      /\ \A k \in 1 .. n : l[k] = list[k] /\ list[k] # r
  BY DEF In
<1>2. \A j, k \in 1 .. n : list[j] = list[k] => j = k
  BY DEF OnceEach
<1>3. \A x : In(list, x) <=> \E k \in 1 .. n : list[k] = x
  BY DEF In
<1> HIDE DEF n, l
<1>4. OnceEach(l)
  BY <1>1, <1>2 DEF OnceEach
<1>5. ASSUME NEW x \in Registrations PROVE In(l, x) <=> In(list, x) \/ x = r
  <2>1. In(l, x) <=> \E k \in 1 .. n + 1 : l[k] = x
    BY <1>1 DEF In
  <2> QED
    BY <1>1, <1>3, <2>1
<1> QED
  BY <1>1, <1>4, <1>5 DEF l

(* What RemoveEntryList leaves. *)
LEMMA WithoutShape ==
    ASSUME NEW A, NEW list \in Seq(A), NEW k \in 1 .. Len(list)
    PROVE  /\ C!Without(list, k) \in Seq(A)
           /\ Len(C!Without(list, k)) = Len(list) - 1
           /\ \A j \in 1 .. Len(list) - 1 :
                 C!Without(list, k)[j] = IF j < k THEN list[j] ELSE list[j + 1]
<1> DEFINE a == SubSeq(list, 1, k - 1)
           b == SubSeq(list, k + 1, Len(list))
           n == Len(list)
<1>1. n \in Nat /\ k \in Nat /\ k >= 1 /\ k <= n
  OBVIOUS
<1>2. a \in Seq(A) /\ Len(a) = k - 1 /\ \A j \in 1 .. k - 1 : a[j] = list[j]
  BY <1>1
<1>3. /\ b \in Seq(A) /\ Len(b) = n - k
      /\ \A j \in 1 .. n - k : b[j] = list[k + j]
  BY <1>1
<1>4. C!Without(list, k) = a \o b
  BY DEF C!Without
<1> HIDE DEF a, b, n
<1>5. /\ a \o b \in Seq(A)
      /\ Len(a \o b) = n - 1
      /\ \A j \in 1 .. n - 1 : (a \o b)[j] = IF j <= k - 1 THEN a[j] ELSE b[j - (k - 1)]
  <2>1. /\ a \o b \in Seq(A)
        /\ Len(a \o b) = Len(a) + Len(b)
        /\ \A j \in 1 .. Len(a) + Len(b) :
              (a \o b)[j] = IF j <= Len(a) THEN a[j] ELSE b[j - Len(a)]
    BY <1>2, <1>3, ConcatProperties
  <2>2. Len(a) + Len(b) = n - 1 /\ Len(a) = k - 1
    BY <1>1, <1>2, <1>3
  <2> QED
    BY <2>1, <2>2, Zenon
<1>6. ASSUME NEW j \in 1 .. n - 1
      PROVE  (a \o b)[j] = IF j < k THEN list[j] ELSE list[j + 1]
  <2>1. CASE j < k
    BY <1>1, <1>2, <1>5, <2>1
  <2>2. CASE ~(j < k)
    <3>1. j - (k - 1) \in 1 .. n - k /\ k + (j - (k - 1)) = j + 1
      BY <1>1, <2>2
    <3> QED
      BY <1>1, <1>3, <1>5, <2>2, <3>1
  <2> QED
    BY <2>1, <2>2
<1> QED
  BY <1>4, <1>5, <1>6 DEF n

(* The registration that is removed is in the list no longer, others are. *)
LEMMA WithoutOne ==
    ASSUME NEW list \in Seq(Registrations), NEW r \in Registrations,
           OnceEach(list), In(list, r)
    PROVE  /\ C!Without(list, C!Place(list, r)) \in Seq(Registrations)
           /\ OnceEach(C!Without(list, C!Place(list, r)))
           /\ \A x \in Registrations :
                 In(C!Without(list, C!Place(list, r)), x) <=> In(list, x) /\ x # r
<1> DEFINE p == C!Place(list, r)
           n == Len(list)
           l == C!Without(list, p)
<1>1. p \in 1 .. n /\ list[p] = r
  BY PlaceIn
<1> HIDE DEF p
<1>2. /\ l \in Seq(Registrations) /\ Len(l) = n - 1
      /\ \A j \in 1 .. n - 1 : l[j] = IF j < p THEN list[j] ELSE list[j + 1]
  BY <1>1, WithoutShape
<1>3. n \in Nat
  OBVIOUS
<1>4. \A a, b \in 1 .. n : list[a] = list[b] => a = b
  BY DEF OnceEach
<1>5. \A x : /\ In(list, x) <=> \E k \in 1 .. n : list[k] = x
             /\ In(l, x) <=> \E k \in 1 .. n - 1 : l[k] = x
  BY <1>2 DEF In
<1> HIDE DEF l, n
<1>6. OnceEach(l)
  <2> SUFFICES ASSUME NEW j \in 1 .. n - 1, NEW k \in 1 .. n - 1, l[j] = l[k]
               PROVE  j = k
    BY <1>2 DEF OnceEach
  <2>1. j \in 1 .. n /\ j + 1 \in 1 .. n /\ k \in 1 .. n /\ k + 1 \in 1 .. n
    BY <1>3
  <2>2. (IF j < p THEN j ELSE j + 1) = (IF k < p THEN k ELSE k + 1)
    BY <1>2, <1>4, <2>1
  <2> QED
    BY <1>1, <1>3, <2>1, <2>2
<1>7. ASSUME NEW x \in Registrations PROVE In(l, x) <=> In(list, x) /\ x # r
  <2>1. ASSUME NEW j \in 1 .. n - 1, l[j] = x PROVE In(list, x) /\ x # r
    <3>1. j \in 1 .. n /\ j + 1 \in 1 .. n
      BY <1>3
    <3>2. PICK a \in 1 .. n : a # p /\ list[a] = x
      BY <1>1, <1>2, <1>3, <2>1, <3>1
    <3> QED
      BY <1>1, <1>4, <1>5, <3>2
  <2>2. ASSUME NEW a \in 1 .. n, list[a] = x, x # r PROVE In(l, x)
    <3>1. CASE a < p
      <4>1. a \in 1 .. n - 1
        BY <1>1, <1>3, <3>1
      <4> QED
        BY <1>2, <1>5, <2>2, <3>1, <4>1
    <3>2. CASE ~(a < p)
      <4>1. a # p
        BY <1>1, <2>2
      <4>2. a - 1 \in 1 .. n - 1 /\ ~(a - 1 < p) /\ (a - 1) + 1 = a
        BY <1>1, <1>3, <3>2, <4>1
      <4>3. l[a - 1] = list[a]
        BY <1>2, <4>2
      <4> QED
        BY <1>5, <2>2, <4>2, <4>3
    <3> QED
      BY <3>1, <3>2
  <2> QED
    BY <1>5, <2>1, <2>2
<1> QED
  BY <1>2, <1>6, <1>7 DEF l, p

(* The next function of a walk is in the list, and is another one. *)
LEMMA NextInList ==
    ASSUME NEW o \in CallbackObjects, NEW r, NEW g,
           RegisteredCallbacks[o] \in Seq(Registrations),
           OnceEach(RegisteredCallbacks[o]),
           r = NoRegistration \/ In(RegisteredCallbacks[o], r),
           C!Behind(o, r, g) # {}
    PROVE  LET n == RegisteredCallbacks[o][C!Min(C!Behind(o, r, g))]
           IN  n \in Registrations /\ In(RegisteredCallbacks[o], n) /\ n # r
<1> DEFINE list == RegisteredCallbacks[o]
           places == C!Behind(o, r, g)
           k == C!Min(places)
           from == IF r = NoRegistration THEN 1 ELSE C!Place(list, r) + 1
<1>1. Len(list) \in Nat
  OBVIOUS
<1>2. r # NoRegistration => C!Place(list, r) \in 1 .. Len(list) /\ list[C!Place(list, r)] = r
  BY PlaceIn
<1>3. from \in Nat /\ from >= 1
  BY <1>1, <1>2
<1>4. \A x \in places : x \in from .. Len(list)
  BY DEF C!Behind
<1> HIDE DEF places, from
<1>5. places \in SUBSET Nat
  BY <1>1, <1>3, <1>4
<1>6. k \in places
  BY <1>5, LeastNumber DEF places
<1>7. k \in from .. Len(list)
  BY <1>4, <1>6
<1> HIDE DEF k
<1>8. k \in 1 .. Len(list)
  BY <1>1, <1>3, <1>7
<1>9. list[k] \in Registrations /\ In(list, list[k])
  BY <1>8 DEF In
<1>10. list[k] # r
  <2>1. CASE r = NoRegistration
    BY <1>9, <2>1, CallbackAssumption
  <2>2. CASE r # NoRegistration
    <3>1. C!Place(list, r) \in 1 .. Len(list) /\ list[C!Place(list, r)] = r
      BY <1>2, <2>2
    <3>2. k # C!Place(list, r)
      BY <1>1, <1>7, <2>2, <3>1 DEF from
    <3> QED
      BY <1>8, <3>1, <3>2 DEF OnceEach
  <2> QED
    BY <2>1, <2>2
<1> QED
  BY <1>9, <1>10 DEF k, places

-----------------------------------------------------------------------------
(* What the steps have in common.                                          *)

(* A step of t leaves the others where they are, but for those it wakes.   *)
Aside(t) == \A u \in Threads \ {t} :
               /\ cur'[u] = cur[u]
               /\ cpc'[u] \in StillListed <=> cpc[u] \in StillListed
               /\ cpc'[u] \in Answering <=> cpc[u] \in Answering
               /\ cpc'[u] = "call" <=> cpc[u] = "call"

(* So does a step that only moves t. *)
LEMMA AsideStep ==
    ASSUME CallbackTypes, NEW t \in Threads, NEW l \in Answering \cup {"idle", "call"},
           NEW c \in Registrations \cup {NoRegistration},
           l # "idle" => c \in Registrations,
           cpc' = [cpc EXCEPT ![t] = l], cur' = [cur EXCEPT ![t] = c]
    PROVE  /\ Aside(t)
           /\ cpc'[t] = l /\ cur'[t] = c
           /\ cpc' \in [Threads -> Answering \cup {"idle", "call"}]
           /\ cur' \in [Threads -> Registrations \cup {NoRegistration}]
           /\ \A u \in Threads : cpc'[u] # "idle" => cur'[u] \in Registrations
BY DEF Aside, CallbackTypes

(* Who is in a call: finitely many, and only t may come or go. *)
LEMMA CallersStep ==
    ASSUME NEW t \in Threads, Aside(t), NEW r
    PROVE  /\ IsFiniteSet(Callers(r))
           /\ t \in Callers(r) <=> cpc[t] = "call" /\ cur[t] = r
           /\ Callers(r)' = IF cpc'[t] = "call" /\ cur'[t] = r THEN Callers(r) \cup {t}
                                                               ELSE Callers(r) \ {t}
<1>1. Callers(r) \subseteq Threads
  BY DEF Callers
<1>2. IsFiniteSet(Callers(r))
  BY <1>1, ConstantsAssumption, FS_Subset
<1>3. t \in Callers(r) <=> cpc[t] = "call" /\ cur[t] = r
  BY DEF Callers
<1>4. Callers(r)' = IF cpc'[t] = "call" /\ cur'[t] = r THEN Callers(r) \cup {t}
                                                       ELSE Callers(r) \ {t}
  BY DEF Callers, Aside
<1> QED
  BY <1>2, <1>3, <1>4

(* A step of a thread that is in no call and comes into none keeps BusyInv *)
(* if it leaves Busy as it is.                                             *)
LEMMA BusyUnchanged ==
    ASSUME BusyInv, NEW t \in Threads, Aside(t), cpc[t] # "call", cpc'[t] # "call",
           \A x \in Registrations : reg'[x].Busy = reg[x].Busy
    PROVE  BusyInv'
<1> SUFFICES ASSUME NEW x \in Registrations PROVE (reg[x].Busy = Cardinality(Callers(x)))'
  BY DEF BusyInv
<1>1. t \notin Callers(x) /\ Callers(x)' = Callers(x) \ {t}
  BY CallersStep
<1>2. Callers(x)' = Callers(x)
  BY <1>1
<1> QED
  BY <1>2 DEF BusyInv

(* The registrations of an object. *)
LEMMA MembersFinite ==
    ASSUME NEW o PROVE IsFiniteSet(Members(o)) /\ Cardinality(Members(o)) \in Nat
<1>1. Members(o) \subseteq Registrations
  BY DEF Members
<1>2. IsFiniteSet(Members(o))
  BY <1>1, CallbackAssumption, FS_Subset
<1> QED
  BY <1>2, FS_CardinalityType

(* Steps that leave the objects of registrations as they are. *)
LEMMA CountUnchanged ==
    ASSUME CountInv,
           \A x \in Registrations : reg'[x].CallbackObject = reg[x].CallbackObject,
           UNCHANGED <<PointerCount, open>>
    PROVE  CountInv'
<1>1. \A o : Members(o)' = Members(o)
  BY DEF Members
<1> QED
  BY <1>1 DEF CountInv

(* A step of a walk through a list, which neither adds a registration nor  *)
(* takes one away.                                                         *)
LEMMA WalkInv ==
    ASSUME CallbackInv, NEW t \in Threads, NEW c, Aside(t), CallbackTypes', BusyInv',
           cpc[t] \in {"idle", "call"}, cpc'[t] \in {"idle", "call"}, cur'[t] = c,
           cpc'[t] = "call" => Kept(c),
           \A x \in Registrations : /\ reg'[x].handle = reg[x].handle
                                    /\ reg'[x].CallbackObject = reg[x].CallbackObject,
           UNCHANGED <<RegisteredCallbacks, PointerCount, open>>
    PROVE  CallbackInv'
<1> USE DEF CallbackInv
<1>1. \A x \in Registrations : \A u \in Threads : Answers(u, x)' <=> Answers(u, x)
  BY DEF Answers, Aside, Answering, StillListed
<1>2. \A x \in Registrations : Kept(x)' <=> Kept(x)
  BY DEF Kept, Aside, StillListed
<1>3. AnswerInv'
  BY <1>1 DEF AnswerInv
<1>4. ListInv'
  BY <1>2 DEF ListInv
<1>5. CallInv'
  <2> SUFFICES ASSUME NEW u \in Threads, cpc'[u] = "call" PROVE Kept(cur[u])'
    BY DEF CallInv
  <2>1. cur'[u] \in Registrations
    BY DEF CallbackTypes
  <2>2. Kept(cur'[u])
    BY DEF Aside, CallInv
  <2>3. \A x : x = cur'[u] => (Kept(x)' <=> Kept(cur[u])')
    BY DEF Kept
  <2> QED
    BY <1>2, <2>1, <2>2, <2>3
<1>6. CountInv'
  BY CountUnchanged
<1> QED
  BY <1>3, <1>4, <1>5, <1>6

(* Those who are in a call stay in it: their functions had better stay in  *)
(* the list.                                                               *)
LEMMA CallKept ==
    ASSUME CallbackTypes, CallInv, NEW t \in Threads, Aside(t), cpc'[t] # "call",
           \A x \in Registrations : Kept(x) /\ Callers(x) # {} => Kept(x)'
    PROVE  CallInv'
<1> SUFFICES ASSUME NEW u \in Threads, cpc'[u] = "call" PROVE Kept(cur[u])'
  BY DEF CallInv
<1>1. cpc[u] = "call" /\ cur[u] \in Registrations /\ cur'[u] = cur[u]
  BY DEF Aside, CallbackTypes
<1>2. Kept(cur[u]) /\ Callers(cur[u]) # {}
  BY <1>1 DEF CallInv, Callers
<1>3. \A x : x = cur'[u] => (Kept(x)' <=> Kept(cur[u])')
  BY DEF Kept
<1> QED
  BY <1>1, <1>2, <1>3

(* A step that changes only where t is among the places at which it has    *)
(* yet to remove its registration, or whether it says that it waits.       *)
LEMMA WaitingInv ==
    ASSUME CallbackInv, NEW t \in Threads, NEW l \in StillListed,
           cpc[t] \in StillListed, cpc' = [cpc EXCEPT ![t] = l], cur' = cur,
           reg' = reg \/ reg' = [reg EXCEPT ![cur[t]].UnregisterWaiting = TRUE],
           UNCHANGED <<RegisteredCallbacks, PointerCount, open>>
    PROVE  CallbackInv'
<1> USE DEF CallbackInv
<1>0. cur[t] \in Registrations /\ l # "idle" /\ l # "call" /\ l \in Answering
  BY DEF CallbackTypes, StillListed, Answering
<1>1. /\ reg' \in [Registrations -> RegTypes]
      /\ \A x \in Registrations : /\ reg'[x].handle = reg[x].handle
                                  /\ reg'[x].CallbackObject = reg[x].CallbackObject
                                  /\ reg'[x].Busy = reg[x].Busy
  <2>1. reg \in [Registrations -> RegTypes]
    BY DEF CallbackTypes
  <2>2. CASE reg' = reg
    BY <2>1, <2>2
  <2>3. CASE reg' = [reg EXCEPT ![cur[t]].UnregisterWaiting = TRUE]
    BY <1>0, <2>1, <2>3, ZenonT(30) DEF RegTypes
  <2> QED
    BY <2>2, <2>3
<1>2. /\ Aside(t) /\ cpc'[t] = l
      /\ cpc' \in [Threads -> Answering \cup {"idle", "call"}]
      /\ \A u \in Threads : cpc'[u] # "idle" => cur'[u] \in Registrations
  BY <1>0 DEF Aside, CallbackTypes
<1>3. CallbackTypes'
  BY <1>1, <1>2 DEF CallbackTypes
<1>4. \A x \in Registrations : \A u \in Threads : Answers(u, x)' <=> Answers(u, x)
  BY <1>2 DEF Answers, Aside, Answering
<1>5. \A x \in Registrations : Kept(x)' <=> Kept(x)
  BY <1>1, <1>2 DEF Kept, Aside
<1>6. AnswerInv'
  BY <1>1, <1>4 DEF AnswerInv
<1>7. ListInv'
  BY <1>1, <1>5 DEF ListInv
<1>8. CallInv'
  BY <1>0, <1>2, <1>5, CallKept
<1>9. BusyInv'
  BY <1>0, <1>1, <1>2, BusyUnchanged DEF StillListed
<1>10. CountInv'
  BY <1>1, CountUnchanged
<1> QED
  BY <1>3, <1>6, <1>7, <1>8, <1>9, <1>10

-----------------------------------------------------------------------------
(* The steps.                                                              *)

(* Objects that have just been created satisfy the invariant. *)
LEMMA InitInv == C!Init => CallbackInv
<1> SUFFICES ASSUME C!Init PROVE CallbackInv
  OBVIOUS
<1> USE DEF C!Init
<1>1. /\ reg \in [Registrations -> RegTypes]
      /\ \A r \in Registrations : /\ reg[r].CallbackObject = NoObject
                                  /\ ~reg[r].handle
                                  /\ reg[r].Busy = 0
  BY DEF C!Free, RegTypes
<1>2. CallbackTypes
  BY <1>1 DEF CallbackTypes
<1>3. \A t \in Threads, r \in Registrations : ~Answers(t, r)
  BY DEF Answers, Answering, StillListed
<1>4. AnswerInv
  BY <1>1, <1>3 DEF AnswerInv
<1>5. \A r \in Registrations : ~Kept(r)
  BY <1>1 DEF Kept, StillListed
<1>6. ListInv
  BY <1>5 DEF ListInv, OnceEach, In
<1>7. CallInv
  BY DEF CallInv
<1>8. BusyInv
  <2>1. \A r : Callers(r) = {}
    BY DEF Callers
  <2> QED
    BY <1>1, <2>1, FS_EmptySet DEF BusyInv
<1>9. CountInv
  <2>1. \A o \in CallbackObjects : Members(o) = {}
    BY <1>1, CallbackAssumption DEF Members
  <2>2. Cardinality({}) = 0
    BY FS_EmptySet
  <2>3. \A o \in CallbackObjects : PointerCount[o] = 1 /\ o \in open
    OBVIOUS
  <2>4. \A o \in CallbackObjects :
           PointerCount[o] = Cardinality(Members(o)) + (IF o \in open THEN 1 ELSE 0)
    <3> HIDE DEF C!Init
    <3> QED
      BY <2>1, <2>2, <2>3
  <2> QED
    BY <2>4 DEF CountInv
<1> QED
  BY <1>2, <1>4, <1>6, <1>7, <1>8, <1>9 DEF CallbackInv

(* ExRegisterCallback references its object for the new registration. *)
LEMMA AllocateInv ==
    ASSUME CallbackInv, NEW t \in Threads, NEW o \in CallbackObjects,
           NEW r \in Registrations, C!Allocate(t, o, r)
    PROVE  CallbackInv'
<1> USE DEF CallbackInv
<1>1. /\ cpc[t] = "idle" /\ cpc' = [cpc EXCEPT ![t] = "insert"]
      /\ cur' = [cur EXCEPT ![t] = r]
      /\ PointerCount' = [PointerCount EXCEPT ![o] = @ + 1]
      /\ reg' = [reg EXCEPT ![r].CallbackObject = o]
      /\ RegisteredCallbacks' = RegisteredCallbacks /\ open' = open
      /\ reg[r].CallbackObject = NoObject
  BY DEF C!Allocate, C!Goto, C!Free
<1>2. "insert" \in Answering /\ "insert" \notin StillListed
  BY DEF Answering, StillListed
<1>3. /\ Aside(t) /\ cpc'[t] = "insert" /\ cur'[t] = r
      /\ cpc' \in [Threads -> Answering \cup {"idle", "call"}]
      /\ cur' \in [Threads -> Registrations \cup {NoRegistration}]
      /\ \A u \in Threads : cpc'[u] # "idle" => cur'[u] \in Registrations
  BY <1>1, <1>2, AsideStep
<1>4. /\ reg' \in [Registrations -> RegTypes]
      /\ \A x \in Registrations :
            /\ reg'[x].handle = reg[x].handle /\ reg'[x].Busy = reg[x].Busy
            /\ reg'[x].CallbackObject = IF x = r THEN o ELSE reg[x].CallbackObject
  BY <1>1, ZenonT(30) DEF CallbackTypes, RegTypes
<1>5. CallbackTypes'
  BY <1>1, <1>3, <1>4 DEF CallbackTypes
<1>6. ~reg[r].handle /\ \A u \in Threads : ~Answers(u, r)
  BY <1>1 DEF AnswerInv
<1>7. \A x \in Registrations : \A u \in Threads :
         Answers(u, x)' <=> Answers(u, x) \/ (u = t /\ x = r)
  BY <1>1, <1>2, <1>3 DEF Answers, Aside, Answering, StillListed
<1>8. AnswerInv'
  <2> SUFFICES ASSUME NEW x \in Registrations
               PROVE  /\ \A u, v \in Threads : Answers(u, x)' /\ Answers(v, x)' => u = v
                      /\ reg'[x].handle => \A u \in Threads : ~Answers(u, x)'
                      /\ reg'[x].CallbackObject # NoObject <=>
                            reg'[x].handle \/ \E u \in Threads : Answers(u, x)'
    BY DEF AnswerInv
  <2>1. CASE x = r
    BY <1>4, <1>6, <1>7, <2>1, CallbackAssumption
  <2>2. CASE x # r
    BY <1>4, <1>7, <2>2 DEF AnswerInv
  <2> QED
    BY <2>1, <2>2
<1>9. \A x \in Registrations : Kept(x)' <=> Kept(x)
  BY <1>1, <1>2, <1>3, <1>4 DEF Kept, Aside, StillListed
<1>10. ~Kept(r)
  BY <1>6 DEF Kept, Answers, Answering
<1>11. ListInv'
  BY <1>1, <1>4, <1>9, <1>10 DEF ListInv
<1>12. CallInv'
  BY <1>3, <1>9, CallKept
<1>13. BusyInv'
  BY <1>1, <1>3, <1>4, BusyUnchanged
<1>14. CountInv'
  <2> SUFFICES ASSUME NEW q \in CallbackObjects
               PROVE  PointerCount'[q] = Cardinality(Members(q)') + (IF q \in open' THEN 1 ELSE 0)
    BY DEF CountInv
  <2>1. PointerCount[q] = Cardinality(Members(q)) + (IF q \in open THEN 1 ELSE 0)
    BY DEF CountInv
  <2>2. CASE q = o
    <3>1. r \notin Members(q) /\ Members(q)' = Members(q) \cup {r}
      BY <1>1, <1>4, <2>2, CallbackAssumption DEF Members
    <3>2. /\ Cardinality(Members(q)') = Cardinality(Members(q)) + 1
          /\ Cardinality(Members(q)) \in Nat
      BY <3>1, MembersFinite, OneMore
    <3>3. PointerCount'[q] = PointerCount[q] + 1
      BY <1>1, <2>2 DEF CallbackTypes
    <3> QED
      BY <1>1, <2>1, <3>2, <3>3
  <2>3. CASE q # o
    <3>1. Members(q)' = Members(q)
      BY <1>1, <1>4, <2>3, CallbackAssumption DEF Members
    <3>2. PointerCount'[q] = PointerCount[q]
      BY <1>1, <2>3 DEF CallbackTypes
    <3> QED
      BY <1>1, <2>1, <3>1, <3>2
  <2> QED
    BY <2>2, <2>3
<1> QED
  BY <1>5, <1>8, <1>11, <1>12, <1>13, <1>14

(* It hands the registration over to the list and to its caller. *)
LEMMA InsertInv ==
    ASSUME CallbackInv, NEW t \in Threads, C!Insert(t)
    PROVE  CallbackInv'
<1> USE DEF CallbackInv
<1> DEFINE r == cur[t]
           o == reg[r].CallbackObject
<1>1. /\ cpc[t] = "insert" /\ cpc' = [cpc EXCEPT ![t] = "idle"]
      /\ cur' = [cur EXCEPT ![t] = NoRegistration]
      /\ RegisteredCallbacks' = [RegisteredCallbacks EXCEPT ![o] = Append(@, r)]
      /\ reg' = [reg EXCEPT ![r].handle = TRUE]
      /\ PointerCount' = PointerCount /\ open' = open
  BY DEF C!Insert, C!Return, C!Goto, C!ObjectOf
<1>2. "insert" \in Answering /\ "insert" \notin StillListed /\ "idle" \notin Answering
  BY DEF Answering, StillListed
<1>3. r \in Registrations /\ Answers(t, r)
  BY <1>1, <1>2 DEF Answers, CallbackTypes
<1>4. o \in CallbackObjects /\ ~reg[r].handle
  BY <1>3 DEF AnswerInv, CallbackTypes, RegTypes
<1>5. \A u \in Threads : Answers(u, r) => u = t
  BY <1>3 DEF AnswerInv
<1>6. ~Kept(r)
  BY <1>1, <1>2, <1>4, <1>5 DEF Kept, Answers, Answering
<1> HIDE DEF r, o
<1>7. /\ Aside(t) /\ cpc'[t] = "idle"
      /\ cpc' \in [Threads -> Answering \cup {"idle", "call"}]
      /\ cur' \in [Threads -> Registrations \cup {NoRegistration}]
      /\ \A u \in Threads : cpc'[u] # "idle" => cur'[u] \in Registrations
  BY <1>1, AsideStep
<1>8. /\ reg' \in [Registrations -> RegTypes]
      /\ \A x \in Registrations :
            /\ reg'[x].handle = IF x = r THEN TRUE ELSE reg[x].handle
            /\ reg'[x].Busy = reg[x].Busy
            /\ reg'[x].CallbackObject = reg[x].CallbackObject
  BY <1>1, <1>3, ZenonT(30) DEF CallbackTypes, RegTypes
<1>9. /\ RegisteredCallbacks[o] \in Seq(Registrations)
      /\ OnceEach(RegisteredCallbacks[o])
      /\ ~In(RegisteredCallbacks[o], r)
  BY <1>3, <1>4, <1>6 DEF CallbackTypes, ListInv
<1>10. /\ Append(RegisteredCallbacks[o], r) \in Seq(Registrations)
       /\ OnceEach(Append(RegisteredCallbacks[o], r))
       /\ \A x \in Registrations :
             In(Append(RegisteredCallbacks[o], r), x) <=> In(RegisteredCallbacks[o], x) \/ x = r
  BY <1>3, <1>9, AppendOne
<1>11. /\ RegisteredCallbacks' \in [CallbackObjects -> Seq(Registrations)]
       /\ \A q \in CallbackObjects :
             RegisteredCallbacks'[q] = IF q = o THEN Append(RegisteredCallbacks[o], r)
                                                ELSE RegisteredCallbacks[q]
  BY <1>1, <1>4, <1>10 DEF CallbackTypes
<1>12. CallbackTypes'
  BY <1>1, <1>7, <1>8, <1>11 DEF CallbackTypes
<1>13. \A x \in Registrations : \A u \in Threads :
          Answers(u, x)' <=> Answers(u, x) /\ u # t
  BY <1>2, <1>7 DEF Answers, Aside
<1>14. \A x \in Registrations : Answers(t, x) => x = r
  BY DEF Answers, r
<1>15. AnswerInv'
  <2> SUFFICES ASSUME NEW x \in Registrations
               PROVE  /\ \A u, v \in Threads : Answers(u, x)' /\ Answers(v, x)' => u = v
                      /\ reg'[x].handle => \A u \in Threads : ~Answers(u, x)'
                      /\ reg'[x].CallbackObject # NoObject <=>
                            reg'[x].handle \/ \E u \in Threads : Answers(u, x)'
    BY DEF AnswerInv
  <2>1. CASE x = r
    BY <1>3, <1>5, <1>8, <1>13, <2>1 DEF AnswerInv
  <2>2. CASE x # r
    BY <1>8, <1>13, <1>14, <2>2 DEF AnswerInv
  <2> QED
    BY <2>1, <2>2
<1>16. \A x \in Registrations : Kept(x)' <=> Kept(x) \/ x = r
  BY <1>1, <1>2, <1>7, <1>8 DEF Kept, Aside, StillListed
<1>17. ListInv'
  <2> SUFFICES ASSUME NEW q \in CallbackObjects
               PROVE  /\ OnceEach(RegisteredCallbacks'[q])
                      /\ \A x \in Registrations :
                            In(RegisteredCallbacks'[q], x) <=>
                               reg'[x].CallbackObject = q /\ Kept(x)'
    BY DEF ListInv, OnceEach, In
  <2>1. CASE q = o
    <3>1. RegisteredCallbacks'[q] = Append(RegisteredCallbacks[o], r)
      BY <1>11, <2>1
    <3>2. reg[r].CallbackObject = q
      BY <2>1 DEF o
    <3>3. \A x \in Registrations :
             In(RegisteredCallbacks[o], x) <=> reg[x].CallbackObject = q /\ Kept(x)
      BY <1>4, <2>1 DEF ListInv
    <3> QED
      BY <1>8, <1>10, <1>16, <3>1, <3>2, <3>3
  <2>2. CASE q # o
    <3>1. RegisteredCallbacks'[q] = RegisteredCallbacks[q]
      BY <1>11, <2>2
    <3>2. reg[r].CallbackObject # q
      BY <2>2 DEF o
    <3>3. /\ OnceEach(RegisteredCallbacks[q])
          /\ \A x \in Registrations :
                In(RegisteredCallbacks[q], x) <=> reg[x].CallbackObject = q /\ Kept(x)
      BY DEF ListInv
    <3> QED
      BY <1>8, <1>16, <3>1, <3>2, <3>3
  <2> QED
    BY <2>1, <2>2
<1>18. CallInv'
  BY <1>7, <1>16, CallKept
<1>19. BusyInv'
  BY <1>1, <1>7, <1>8, BusyUnchanged
<1>20. CountInv'
  BY <1>1, <1>8, CountUnchanged
<1> QED
  BY <1>12, <1>15, <1>17, <1>18, <1>19, <1>20

(* A registration that is not in the list is freed: nobody is in a call of *)
(* it, and its object loses the reference.                                 *)
LEMMA GoneInv ==
    ASSUME CallbackInv, NEW t \in Threads, cpc[t] \in {"insert", "free"},
           cpc' = [cpc EXCEPT ![t] = "idle"], cur' = [cur EXCEPT ![t] = NoRegistration],
           reg' = [reg EXCEPT ![cur[t]] = C!Free],
           PointerCount' = C!Dereferenced(C!ObjectOf(t)),
           UNCHANGED <<RegisteredCallbacks, open>>
    PROVE  CallbackInv'
<1> USE DEF CallbackInv
<1> DEFINE r == cur[t]
           o == reg[r].CallbackObject
<1>1. /\ reg' = [reg EXCEPT ![r] = C!Free]
      /\ PointerCount' = [PointerCount EXCEPT ![o] = @ - 1]
  BY DEF C!Dereferenced, C!ObjectOf
<1>2. cpc[t] \in Answering /\ cpc[t] \notin StillListed /\ "idle" \notin Answering
  BY DEF Answering, StillListed
<1>3. r \in Registrations /\ Answers(t, r)
  BY <1>2 DEF Answers, CallbackTypes
<1>4. o \in CallbackObjects /\ ~reg[r].handle
  BY <1>3 DEF AnswerInv, CallbackTypes, RegTypes
<1>5. \A u \in Threads : Answers(u, r) => u = t
  BY <1>3 DEF AnswerInv
<1>6. ~Kept(r)
  BY <1>2, <1>4, <1>5 DEF Kept, Answers, Answering
<1>7. Callers(r) = {}
  BY <1>6 DEF CallInv, Callers
<1>8. \A x \in Registrations : Answers(t, x) => x = r
  BY DEF Answers
<1>9. /\ Aside(t) /\ cpc'[t] = "idle"
      /\ cpc' \in [Threads -> Answering \cup {"idle", "call"}]
      /\ cur' \in [Threads -> Registrations \cup {NoRegistration}]
      /\ \A u \in Threads : cpc'[u] # "idle" => cur'[u] \in Registrations
  BY AsideStep
<1> HIDE DEF r
<1>10. /\ reg' \in [Registrations -> RegTypes]
       /\ \A x \in Registrations \ {r} : reg'[x] = reg[x]
       /\ reg'[r].CallbackObject = NoObject /\ ~reg'[r].handle /\ reg'[r].Busy = 0
  BY <1>1, <1>3 DEF CallbackTypes, RegTypes, C!Free
<1>11. r \in Members(o) /\ Cardinality(Members(o)) >= 1 /\ Cardinality(Members(o)) \in Nat
       /\ Cardinality(Members(o) \ {r}) = Cardinality(Members(o)) - 1
  <2>1. r \in Members(o)
    BY <1>3 DEF Members
  <2> QED
    BY <2>1, MembersFinite, OneMore
<1>12. PointerCount[o] = Cardinality(Members(o)) + (IF o \in open THEN 1 ELSE 0)
  BY <1>4 DEF CountInv
<1>13. PointerCount[o] - 1 \in Nat
  BY <1>11, <1>12
<1> HIDE DEF o
<1>14. /\ PointerCount' \in [CallbackObjects -> Nat]
       /\ \A q \in CallbackObjects :
             PointerCount'[q] = IF q = o THEN PointerCount[o] - 1 ELSE PointerCount[q]
  BY <1>1, <1>4, <1>13 DEF CallbackTypes
<1>15. CallbackTypes'
  BY <1>9, <1>10, <1>14 DEF CallbackTypes
<1>16. \A x \in Registrations : \A u \in Threads :
          Answers(u, x)' <=> Answers(u, x) /\ u # t
  BY <1>2, <1>9 DEF Answers, Aside
<1>17. AnswerInv'
  <2> SUFFICES ASSUME NEW x \in Registrations
               PROVE  /\ \A u, v \in Threads : Answers(u, x)' /\ Answers(v, x)' => u = v
                      /\ reg'[x].handle => \A u \in Threads : ~Answers(u, x)'
                      /\ reg'[x].CallbackObject # NoObject <=>
                            reg'[x].handle \/ \E u \in Threads : Answers(u, x)'
    BY DEF AnswerInv
  <2>1. CASE x = r
    BY <1>5, <1>10, <1>16, <2>1
  <2>2. CASE x # r
    BY <1>8, <1>10, <1>16, <2>2 DEF AnswerInv
  <2> QED
    BY <2>1, <2>2
<1>18. \A x \in Registrations : Kept(x)' <=> Kept(x)
  <2> SUFFICES ASSUME NEW x \in Registrations PROVE Kept(x)' <=> Kept(x)
    OBVIOUS
  <2>1. reg'[x].handle <=> reg[x].handle
    BY <1>4, <1>10 DEF r
  <2>2. \A u \in Threads : (cur'[u] = x /\ cpc'[u] \in StillListed)
                              <=> (cur[u] = x /\ cpc[u] \in StillListed)
    BY <1>2, <1>9 DEF Aside, Answering
  <2> QED
    BY <2>1, <2>2 DEF Kept
<1>19. ListInv'
  <2>1. \A x \in Registrations : \A q \in CallbackObjects :
           reg'[x].CallbackObject = q /\ Kept(x)' <=> reg[x].CallbackObject = q /\ Kept(x)
    BY <1>6, <1>10, <1>18
  <2> QED
    BY <2>1 DEF ListInv
<1>20. CallInv'
  BY <1>9, <1>18, CallKept
<1>21. BusyInv'
  <2>1. \A x \in Registrations : reg'[x].Busy = reg[x].Busy
    <3>1. reg[r].Busy = 0
      BY <1>3, <1>7, FS_EmptySet DEF BusyInv
    <3> QED
      BY <1>10, <3>1
  <2> QED
    BY <1>9, <2>1, BusyUnchanged
<1>22. CountInv'
  <2> SUFFICES ASSUME NEW q \in CallbackObjects
               PROVE  PointerCount'[q] = Cardinality(Members(q)') + (IF q \in open THEN 1 ELSE 0)
    BY DEF CountInv
  <2>1. CASE q = o
    <3>1. Members(q)' = Members(o) \ {r}
      BY <1>4, <1>10, <2>1, CallbackAssumption DEF Members
    <3> QED
      BY <1>11, <1>12, <1>14, <2>1, <3>1
  <2>2. CASE q # o
    <3>1. Members(q)' = Members(q)
      BY <1>3, <1>10, <2>2, CallbackAssumption DEF Members, o
    <3> QED
      BY <1>14, <2>2, <3>1 DEF CountInv
  <2> QED
    BY <2>1, <2>2
<1> QED
  BY <1>15, <1>17, <1>19, <1>20, <1>21, <1>22

(* A notification begins: it marks the first function that it calls. *)
LEMMA NotifyBegins ==
    ASSUME CallbackInv, NEW t \in Threads, NEW o \in CallbackObjects, C!Notify(t, o)
    PROVE  CallbackInv'
<1> USE DEF CallbackInv
<1> DEFINE places == C!Behind(o, NoRegistration, reg)
           n == RegisteredCallbacks[o][C!Min(places)]
<1>0. /\ cpc[t] = "idle"
      /\ cpc' = [cpc EXCEPT ![t] = IF places = {} THEN "idle" ELSE "call"]
      /\ UNCHANGED <<RegisteredCallbacks, PointerCount, open>>
  BY DEF C!Notify, C!Goto
<1>1. CASE places = {}
  <2>1. /\ cpc' = [cpc EXCEPT ![t] = "idle"]
        /\ cur' = [cur EXCEPT ![t] = NoRegistration]
        /\ reg' = reg
    BY <1>0, <1>1 DEF C!Notify, C!Proceed
  <2>2. /\ Aside(t) /\ cpc'[t] = "idle" /\ cur'[t] = NoRegistration
        /\ cpc' \in [Threads -> Answering \cup {"idle", "call"}]
        /\ cur' \in [Threads -> Registrations \cup {NoRegistration}]
        /\ \A u \in Threads : cpc'[u] # "idle" => cur'[u] \in Registrations
    BY <2>1, AsideStep
  <2>3. CallbackTypes'
    BY <1>0, <2>1, <2>2 DEF CallbackTypes
  <2>4. BusyInv'
    BY <1>0, <2>1, <2>2, BusyUnchanged
  <2> QED
    BY <1>0, <2>1, <2>2, <2>3, <2>4, WalkInv
<1>2. CASE places # {}
  <2>1. /\ cpc' = [cpc EXCEPT ![t] = "call"]
        /\ cur' = [cur EXCEPT ![t] = n]
        /\ reg' = [reg EXCEPT ![n].Busy = @ + 1]
    BY <1>0, <1>2 DEF C!Notify, C!Proceed, C!MarkBusy
  <2>2. RegisteredCallbacks[o] \in Seq(Registrations) /\ OnceEach(RegisteredCallbacks[o])
    BY DEF CallbackTypes, ListInv
  <2>3. n \in Registrations /\ In(RegisteredCallbacks[o], n)
    BY <1>2, <2>2, NextInList
  <2> HIDE DEF n, places
  <2>4. Kept(n)
    BY <2>3 DEF ListInv
  <2>5. /\ Aside(t) /\ cpc'[t] = "call" /\ cur'[t] = n
        /\ cpc' \in [Threads -> Answering \cup {"idle", "call"}]
        /\ cur' \in [Threads -> Registrations \cup {NoRegistration}]
        /\ \A u \in Threads : cpc'[u] # "idle" => cur'[u] \in Registrations
    BY <2>1, <2>3, AsideStep
  <2>6. /\ reg' \in [Registrations -> RegTypes]
        /\ \A x \in Registrations :
              /\ reg'[x].handle = reg[x].handle
              /\ reg'[x].CallbackObject = reg[x].CallbackObject
              /\ reg'[x].Busy = IF x = n THEN reg[x].Busy + 1 ELSE reg[x].Busy
    BY <2>1, <2>3, SMTT(30) DEF CallbackTypes, RegTypes
  <2>7. CallbackTypes'
    BY <1>0, <2>5, <2>6 DEF CallbackTypes
  <2>8. BusyInv'
    <3> SUFFICES ASSUME NEW x \in Registrations PROVE reg'[x].Busy = Cardinality(Callers(x)')
      BY DEF BusyInv
    <3>1. /\ IsFiniteSet(Callers(x)) /\ t \notin Callers(x)
          /\ Callers(x)' = IF x = n THEN Callers(x) \cup {t} ELSE Callers(x) \ {t}
      BY <1>0, <2>5, CallersStep
    <3>2. reg[x].Busy = Cardinality(Callers(x))
      BY DEF BusyInv
    <3>3. CASE x = n
      <4>1. Callers(x)' = Callers(x) \cup {t}
        BY <3>1, <3>3
      <4>2. Cardinality(Callers(x) \cup {t}) = Cardinality(Callers(x)) + 1
        BY <3>1, OneMore
      <4> QED
        BY <2>6, <3>2, <3>3, <4>1, <4>2
    <3>4. CASE x # n
      <4>1. Callers(x)' = Callers(x)
        BY <3>1, <3>4
      <4> QED
        BY <2>6, <3>2, <3>4, <4>1
    <3> QED
      BY <3>3, <3>4
  <2> QED
    BY <1>0, <2>4, <2>5, <2>6, <2>7, <2>8, WalkInv
<1> QED
  BY <1>1, <1>2

(* A function has returned: it is marked no longer, the next one is. *)
LEMMA CalledInv ==
    ASSUME CallbackInv, NEW t \in Threads, C!Called(t)
    PROVE  CallbackInv'
<1> USE DEF CallbackInv
<1> DEFINE r == cur[t]
           o == reg[r].CallbackObject
           g == [reg EXCEPT ![r].Busy = @ - 1]
           set == g[r].UnregisterWaiting /\ g[r].Busy = 0
           places == C!Behind(o, r, g)
           n == RegisteredCallbacks[o][C!Min(places)]
           l == IF places = {} THEN "idle" ELSE "call"
           c == IF places = {} THEN NoRegistration ELSE n
<1>1. /\ cpc[t] = "call"
      /\ cpc' = [IF set THEN C!Awakened ELSE cpc EXCEPT ![t] = l]
      /\ cur' = [cur EXCEPT ![t] = c]
      /\ reg' = IF places = {} THEN g ELSE [g EXCEPT ![n].Busy = @ + 1]
      /\ UNCHANGED <<RegisteredCallbacks, PointerCount, open>>
  BY DEF C!Called, C!Proceed, C!MarkBusy, C!ObjectOf
<1>2. r \in Registrations /\ Kept(r)
  BY <1>1 DEF CallbackTypes, CallInv
<1>3. o \in CallbackObjects /\ In(RegisteredCallbacks[o], r)
  <2>1. o # NoObject
    BY <1>2 DEF Kept, AnswerInv, Answers, Answering
  <2>2. o \in CallbackObjects
    BY <1>2, <2>1 DEF CallbackTypes, RegTypes
  <2> QED
    BY <1>2, <2>2 DEF ListInv
<1>4. RegisteredCallbacks[o] \in Seq(Registrations) /\ OnceEach(RegisteredCallbacks[o])
  BY <1>3 DEF CallbackTypes, ListInv
<1>5. r \in Registrations /\ reg[r].Busy \in Nat /\ reg[r].Busy >= 1
  <2>1. IsFiniteSet(Callers(r)) /\ t \in Callers(r)
    <3>1. Callers(r) \subseteq Threads
      BY DEF Callers
    <3>2. IsFiniteSet(Callers(r))
      BY <3>1, ConstantsAssumption, FS_Subset
    <3> QED
      BY <1>1, <3>2 DEF Callers
  <2>2. Cardinality(Callers(r)) \in Nat /\ Cardinality(Callers(r)) >= 1
    BY <2>1, OneMore
  <2> QED
    BY <1>2, <2>2 DEF BusyInv
<1>6. /\ g \in [Registrations -> RegTypes]
      /\ \A x \in Registrations :
            /\ g[x].handle = reg[x].handle
            /\ g[x].CallbackObject = reg[x].CallbackObject
            /\ g[x].Busy = IF x = r THEN reg[x].Busy - 1 ELSE reg[x].Busy
  <2>1. reg \in [Registrations -> RegTypes]
    BY DEF CallbackTypes
  <2>2. reg[r].Busy - 1 \in Nat
    BY <1>5
  <2> QED
    BY <1>2, <2>1, <2>2 DEF RegTypes
<1>7. places # {} => n \in Registrations /\ In(RegisteredCallbacks[o], n) /\ n # r
  <2> HIDE DEF g, r, o
  <2> QED
    BY <1>3, <1>4, NextInList
<1>8. /\ cpc' \in [Threads -> Answering \cup {"idle", "call"}]
      /\ cpc'[t] = l
      /\ \A u \in Threads \ {t} : cpc'[u] \in {cpc[u], IF cpc[u] = "asleep" THEN "lock" ELSE cpc[u]}
  <2>1. cpc \in [Threads -> Answering \cup {"idle", "call"}]
    BY DEF CallbackTypes
  <2>2. C!Awakened \in [Threads -> Answering \cup {"idle", "call"}]
    BY <2>1 DEF C!Awakened, Answering, StillListed
  <2>3. \A u \in Threads : C!Awakened[u] = IF cpc[u] = "asleep" THEN "lock" ELSE cpc[u]
    BY DEF C!Awakened
  <2>4. l \in Answering \cup {"idle", "call"}
    OBVIOUS
  <2> HIDE DEF set, l
  <2>5. CASE set
    BY <1>1, <2>1, <2>2, <2>3, <2>4, <2>5
  <2>6. CASE ~set
    BY <1>1, <2>1, <2>4, <2>6
  <2> QED
    BY <2>5, <2>6
<1> HIDE DEF places, n, g, o
<1>9. c \in Registrations \cup {NoRegistration} /\ (l # "idle" => c \in Registrations)
  BY <1>7
<1> HIDE DEF l, c
<1>10. /\ cur' \in [Threads -> Registrations \cup {NoRegistration}] /\ cur'[t] = c
       /\ \A u \in Threads \ {t} : cur'[u] = cur[u]
  BY <1>1, <1>9 DEF CallbackTypes
<1>11. Aside(t)
  BY <1>8, <1>10 DEF Aside, Answering, StillListed
<1>12. \A u \in Threads : cpc'[u] # "idle" => cur'[u] \in Registrations
  BY <1>8, <1>9, <1>10 DEF CallbackTypes
<1>13. /\ reg' \in [Registrations -> RegTypes]
       /\ \A x \in Registrations :
             /\ reg'[x].handle = reg[x].handle
             /\ reg'[x].CallbackObject = reg[x].CallbackObject
             /\ reg'[x].Busy = IF places # {} /\ x = n THEN g[x].Busy + 1 ELSE g[x].Busy
  <2>1. CASE places = {}
    BY <1>1, <1>6, <2>1
  <2>2. CASE places # {}
    <3>1. reg' = [g EXCEPT ![n].Busy = @ + 1] /\ n \in Registrations
      BY <1>1, <1>7, <2>2
    <3> QED
      BY <1>6, <2>2, <3>1 DEF RegTypes
  <2> QED
    BY <2>1, <2>2
<1>14. CallbackTypes'
  BY <1>1, <1>8, <1>10, <1>12, <1>13 DEF CallbackTypes
<1>15. BusyInv'
  <2> SUFFICES ASSUME NEW x \in Registrations PROVE reg'[x].Busy = Cardinality(Callers(x)')
    BY DEF BusyInv
  <2>1. /\ IsFiniteSet(Callers(x)) /\ (t \in Callers(x) <=> x = r)
        /\ Callers(x)' = IF places # {} /\ x = n THEN Callers(x) \cup {t} ELSE Callers(x) \ {t}
    <3>1. cpc'[t] = "call" /\ cur'[t] = x <=> places # {} /\ x = n
      BY <1>8, <1>10 DEF l, c
    <3> QED
      BY <1>1, <1>11, <3>1, CallersStep DEF r
  <2>2. reg[x].Busy = Cardinality(Callers(x)) /\ Cardinality(Callers(x)) \in Nat
    BY <2>1, FS_CardinalityType DEF BusyInv
  <2>3. CASE places # {} /\ x = n
    <3>1. x # r
      BY <1>7, <2>3
    <3>2. Callers(x)' = Callers(x) \cup {t} /\ t \notin Callers(x)
      BY <2>1, <2>3, <3>1
    <3>3. Cardinality(Callers(x) \cup {t}) = Cardinality(Callers(x)) + 1
      BY <2>1, <3>2, OneMore
    <3> QED
      BY <1>6, <1>13, <2>2, <2>3, <3>1, <3>2, <3>3
  <2>4. CASE ~(places # {} /\ x = n) /\ x = r
    <3>1. Callers(x)' = Callers(x) \ {t} /\ t \in Callers(x)
      BY <2>1, <2>4
    <3>2. Cardinality(Callers(x) \ {t}) = Cardinality(Callers(x)) - 1
      BY <2>1, <3>1, OneMore
    <3> QED
      BY <1>6, <1>13, <2>2, <2>4, <3>1, <3>2
  <2>5. CASE ~(places # {} /\ x = n) /\ x # r
    <3>1. Callers(x)' = Callers(x)
      BY <2>1, <2>5
    <3> QED
      BY <1>6, <1>13, <2>2, <2>5, <3>1
  <2> QED
    BY <2>3, <2>4, <2>5
<1>16. cpc'[t] = "call" => Kept(c)
  BY <1>3, <1>7, <1>8 DEF ListInv, l, c
<1>17. cpc'[t] \in {"idle", "call"} /\ cpc[t] \in {"idle", "call"}
  BY <1>1, <1>8 DEF l
<1> QED
  BY <1>1, <1>10, <1>11, <1>13, <1>14, <1>15, <1>16, <1>17, WalkInv

(* ExUnregisterCallback takes the handle, and answers for the registration *)
(* from then on.                                                           *)
LEMMA UnregisterInv ==
    ASSUME CallbackInv, NEW t \in Threads, NEW r \in Registrations, C!Unregister(t, r)
    PROVE  CallbackInv'
<1> USE DEF CallbackInv
<1>1. /\ cpc[t] = "idle" /\ cpc' = [cpc EXCEPT ![t] = "lock"]
      /\ cur' = [cur EXCEPT ![t] = r]
      /\ reg[r].handle /\ reg' = [reg EXCEPT ![r].handle = FALSE]
      /\ UNCHANGED <<RegisteredCallbacks, PointerCount, open>>
  BY DEF C!Unregister, C!Goto
<1>2. "lock" \in StillListed /\ "lock" \in Answering /\ "idle" \notin Answering
  BY DEF Answering, StillListed
<1>3. /\ Aside(t) /\ cpc'[t] = "lock" /\ cur'[t] = r
      /\ cpc' \in [Threads -> Answering \cup {"idle", "call"}]
      /\ cur' \in [Threads -> Registrations \cup {NoRegistration}]
      /\ \A u \in Threads : cpc'[u] # "idle" => cur'[u] \in Registrations
  BY <1>1, <1>2, AsideStep
<1>4. /\ reg' \in [Registrations -> RegTypes]
      /\ \A x \in Registrations :
            /\ reg'[x].handle = IF x = r THEN FALSE ELSE reg[x].handle
            /\ reg'[x].Busy = reg[x].Busy
            /\ reg'[x].CallbackObject = reg[x].CallbackObject
  BY <1>1 DEF CallbackTypes, RegTypes
<1>5. CallbackTypes'
  BY <1>1, <1>3, <1>4 DEF CallbackTypes
<1>6. \A u \in Threads : ~Answers(u, r)
  BY <1>1 DEF AnswerInv
<1>7. \A x \in Registrations : \A u \in Threads :
         Answers(u, x)' <=> Answers(u, x) \/ (u = t /\ x = r)
  BY <1>1, <1>2, <1>3 DEF Answers, Aside
<1>8. AnswerInv'
  <2> SUFFICES ASSUME NEW x \in Registrations
               PROVE  /\ \A u, v \in Threads : Answers(u, x)' /\ Answers(v, x)' => u = v
                      /\ reg'[x].handle => \A u \in Threads : ~Answers(u, x)'
                      /\ reg'[x].CallbackObject # NoObject <=>
                            reg'[x].handle \/ \E u \in Threads : Answers(u, x)'
    BY DEF AnswerInv
  <2>1. CASE x = r
    BY <1>1, <1>4, <1>6, <1>7, <2>1 DEF AnswerInv
  <2>2. CASE x # r
    BY <1>4, <1>7, <2>2 DEF AnswerInv
  <2> QED
    BY <2>1, <2>2
<1>9. \A x \in Registrations : Kept(x)' <=> Kept(x)
  <2> SUFFICES ASSUME NEW x \in Registrations PROVE Kept(x)' <=> Kept(x)
    OBVIOUS
  <2>1. CASE x = r
    BY <1>1, <1>2, <1>3, <2>1 DEF Kept
  <2>2. CASE x # r
    <3>1. \A u \in Threads : (cur'[u] = x /\ cpc'[u] \in StillListed)
                                <=> (cur[u] = x /\ cpc[u] \in StillListed)
      BY <1>1, <1>2, <1>3, <2>2 DEF Aside, Answering
    <3> QED
      BY <1>4, <2>2, <3>1 DEF Kept
  <2> QED
    BY <2>1, <2>2
<1>10. ListInv'
  BY <1>1, <1>4, <1>9 DEF ListInv
<1>11. CallInv'
  BY <1>3, <1>9, CallKept
<1>12. BusyInv'
  BY <1>1, <1>3, <1>4, BusyUnchanged
<1>13. CountInv'
  BY <1>1, <1>4, CountUnchanged
<1> QED
  BY <1>5, <1>8, <1>10, <1>11, <1>12, <1>13

(* It removes the registration when nobody is in a call of it, else it is  *)
(* about to wait.                                                          *)
LEMMA RemoveInv ==
    ASSUME CallbackInv, NEW t \in Threads, C!Remove(t)
    PROVE  CallbackInv'
<1> USE DEF CallbackInv
<1>0. /\ cpc[t] = "lock"
      /\ cpc[t] \in StillListed
      /\ cur' = cur
      /\ UNCHANGED <<PointerCount, open>>
  BY DEF C!Remove, StillListed
<1>1. CASE C!InUse(reg[cur[t]])
  <2>1. "clear" \in StillListed
    BY DEF StillListed
  <2>2. /\ cpc' = [cpc EXCEPT ![t] = "clear"]
        /\ reg' = [reg EXCEPT ![cur[t]].UnregisterWaiting = TRUE]
        /\ RegisteredCallbacks' = RegisteredCallbacks
    BY <1>1 DEF C!Remove, C!Goto
  <2> QED
    BY <1>0, <2>1, <2>2, WaitingInv
<1>2. CASE ~C!InUse(reg[cur[t]])
  <2> DEFINE r == cur[t]
             o == reg[r].CallbackObject
             list == RegisteredCallbacks[o]
             rest == C!Without(list, C!Place(list, r))
  <2>1. /\ cpc' = [cpc EXCEPT ![t] = "free"]
        /\ reg' = reg /\ ~(reg[r].Busy > 0)
        /\ RegisteredCallbacks' = [RegisteredCallbacks EXCEPT ![o] = rest]
    BY <1>2 DEF C!Remove, C!Goto, C!ObjectOf, C!InUse
  <2>2. "free" \in Answering /\ "free" \notin StillListed /\ cpc[t] \in Answering
    BY <1>0 DEF Answering, StillListed
  <2>3. r \in Registrations /\ Answers(t, r) /\ Kept(r)
    BY <1>0, <2>2 DEF Answers, Kept, CallbackTypes
  <2>4. o \in CallbackObjects /\ ~reg[r].handle
    BY <2>3 DEF AnswerInv, CallbackTypes, RegTypes
  <2>5. \A u \in Threads : Answers(u, r) => u = t
    BY <2>3 DEF AnswerInv
  <2>6. /\ list \in Seq(Registrations) /\ OnceEach(list) /\ In(list, r)
    BY <2>3, <2>4 DEF CallbackTypes, ListInv
  <2>7. Callers(r) = {}
    <3>1. Callers(r) \subseteq Threads
      BY DEF Callers
    <3>2. IsFiniteSet(Callers(r))
      BY <3>1, ConstantsAssumption, FS_Subset
    <3>3. Cardinality(Callers(r)) \in Nat /\ (Cardinality(Callers(r)) = 0 => Callers(r) = {})
      BY <3>2, FS_CardinalityType, FS_EmptySet
    <3>4. reg[r].Busy = Cardinality(Callers(r))
      BY <2>3 DEF BusyInv
    <3> QED
      BY <2>1, <3>3, <3>4
  <2>8. \A x \in Registrations : Answers(t, x) => x = r
    BY DEF Answers
  <2> HIDE DEF r, o
  <2>9. /\ rest \in Seq(Registrations) /\ OnceEach(rest)
        /\ \A x \in Registrations : In(rest, x) <=> In(list, x) /\ x # r
    <3> HIDE DEF list
    <3> QED
      BY <2>3, <2>6, WithoutOne
  <2> HIDE DEF rest
  <2>10. /\ RegisteredCallbacks' \in [CallbackObjects -> Seq(Registrations)]
         /\ \A q \in CallbackObjects :
               RegisteredCallbacks'[q] = IF q = o THEN rest ELSE RegisteredCallbacks[q]
    BY <2>1, <2>4, <2>9 DEF CallbackTypes
  <2>11. /\ Aside(t) /\ cpc'[t] = "free"
         /\ cpc' \in [Threads -> Answering \cup {"idle", "call"}]
         /\ \A u \in Threads : cpc'[u] # "idle" => cur'[u] \in Registrations
    BY <1>0, <2>1, <2>2 DEF Aside, CallbackTypes
  <2>12. CallbackTypes'
    BY <1>0, <2>1, <2>10, <2>11 DEF CallbackTypes
  <2>13. \A x \in Registrations : \A u \in Threads : Answers(u, x)' <=> Answers(u, x)
    BY <1>0, <2>2, <2>11 DEF Answers, Aside
  <2>14. AnswerInv'
    BY <2>1, <2>13 DEF AnswerInv
  <2>15. \A x \in Registrations : Kept(x)' <=> Kept(x) /\ x # r
    <3> SUFFICES ASSUME NEW x \in Registrations PROVE Kept(x)' <=> Kept(x) /\ x # r
      OBVIOUS
    <3>1. \A u \in Threads : (cur'[u] = x /\ cpc'[u] \in StillListed)
                                <=> (cur[u] = x /\ cpc[u] \in StillListed /\ u # t)
      BY <1>0, <2>2, <2>11 DEF Aside
    <3>2. CASE x = r
      <4>1. \A u \in Threads : ~(cur[u] = x /\ cpc[u] \in StillListed /\ u # t)
        BY <2>5, <3>2 DEF Answers, Answering
      <4> QED
        BY <2>1, <2>4, <3>1, <3>2, <4>1 DEF Kept
    <3>3. CASE x # r
      <4>1. \A u \in Threads : (cur[u] = x /\ cpc[u] \in StillListed) => u # t
        BY <3>3 DEF r
      <4> QED
        BY <2>1, <3>1, <3>3, <4>1 DEF Kept
    <3> QED
      BY <3>2, <3>3
  <2>16. ListInv'
    <3> SUFFICES ASSUME NEW q \in CallbackObjects
                 PROVE  /\ OnceEach(RegisteredCallbacks'[q])
                        /\ \A x \in Registrations :
                              In(RegisteredCallbacks'[q], x) <=>
                                 reg[x].CallbackObject = q /\ Kept(x)'
      BY <2>1 DEF ListInv, OnceEach, In
    <3>1. /\ OnceEach(RegisteredCallbacks[q])
          /\ \A x \in Registrations :
                In(RegisteredCallbacks[q], x) <=> reg[x].CallbackObject = q /\ Kept(x)
      BY DEF ListInv
    <3>2. CASE q = o
      <4>1. RegisteredCallbacks'[q] = rest
        BY <2>10, <3>2
      <4> QED
        BY <2>9, <2>15, <3>1, <3>2, <4>1
    <3>3. CASE q # o
      <4>1. RegisteredCallbacks'[q] = RegisteredCallbacks[q] /\ reg[r].CallbackObject # q
        BY <2>10, <3>3 DEF o
      <4> QED
        BY <2>15, <3>1, <4>1
    <3> QED
      BY <3>2, <3>3
  <2>17. CallInv'
    BY <2>7, <2>11, <2>15, CallKept
  <2>18. BusyInv'
    BY <1>0, <2>1, <2>11, BusyUnchanged
  <2>19. CountInv'
    BY <1>0, <2>1, CountUnchanged
  <2> QED
    BY <2>12, <2>14, <2>16, <2>17, <2>18, <2>19
<1> QED
  BY <1>1, <1>2

(* The creator of an object gives its reference back. *)
LEMMA CloseInv ==
    ASSUME CallbackInv, NEW o \in CallbackObjects, C!Close(o)
    PROVE  CallbackInv'
<1> USE DEF CallbackInv
<1>1. /\ o \in open /\ open' = open \ {o}
      /\ PointerCount' = [PointerCount EXCEPT ![o] = @ - 1]
      /\ UNCHANGED <<RegisteredCallbacks, reg, cpc, cur>>
  BY DEF C!Close, C!Dereferenced
<1>2. \A q : Cardinality(Members(q)) \in Nat /\ Members(q)' = Members(q)
  BY <1>1, MembersFinite DEF Members
<1>3. PointerCount[o] = Cardinality(Members(o)) + 1
  BY <1>1 DEF CountInv
<1>4. PointerCount[o] - 1 = Cardinality(Members(o)) /\ PointerCount[o] - 1 \in Nat
  BY <1>2, <1>3
<1>5. CallbackTypes'
  BY <1>1, <1>4 DEF CallbackTypes
<1>6. CountInv'
  <2> SUFFICES ASSUME NEW q \in CallbackObjects
               PROVE  PointerCount'[q] = Cardinality(Members(q)) + (IF q \in open' THEN 1 ELSE 0)
    BY <1>2 DEF CountInv
  <2>1. CASE q = o
    BY <1>1, <1>2, <1>4, <2>1 DEF CallbackTypes
  <2>2. CASE q # o
    <3>1. PointerCount'[q] = PointerCount[q] /\ (q \in open' <=> q \in open)
      BY <1>1, <2>2 DEF CallbackTypes
    <3> QED
      BY <3>1 DEF CountInv
  <2> QED
    BY <2>1, <2>2
<1>7. AnswerInv'
  BY <1>1 DEF AnswerInv, Answers
<1>8. ListInv'
  BY <1>1 DEF ListInv, Kept
<1>9. CallInv' /\ BusyInv'
  BY <1>1 DEF CallInv, Kept, BusyInv, Callers
<1> QED
  BY <1>5, <1>6, <1>7, <1>8, <1>9

-----------------------------------------------------------------------------
(* The theorems.                                                           *)

(* Every step of callback objects keeps the invariant. *)
LEMMA NextInv == CallbackInv /\ C!Next => CallbackInv'
<1> SUFFICES ASSUME CallbackInv, C!Next PROVE CallbackInv'
  OBVIOUS
<1>1. ASSUME NEW o \in CallbackObjects, C!Close(o) PROVE CallbackInv'
  BY <1>1, CloseInv
<1>2. ASSUME NEW t \in Threads, C!Call(t) PROVE CallbackInv'
  BY <1>2, NotifyBegins, AllocateInv, UnregisterInv DEF C!Call
<1>3. ASSUME NEW t \in Threads, C!Inside(t) PROVE CallbackInv'
  <2>1. CASE C!Insert(t)
    BY <2>1, InsertInv
  <2>2. CASE C!Refuse(t)
    BY <2>2, GoneInv DEF C!Refuse, C!Return, C!Goto
  <2>3. CASE C!Called(t)
    BY <2>3, CalledInv
  <2>4. CASE C!Remove(t)
    BY <2>4, RemoveInv
  <2>5. CASE C!ClearEvent(t)
    BY <2>5, WaitingInv DEF C!ClearEvent, C!Goto, StillListed
  <2>6. CASE C!Wait(t)
    <3> DEFINE l == IF ExpCallbackEvent THEN "lock" ELSE "asleep"
    <3>1. l \in StillListed
      BY DEF StillListed
    <3> QED
      BY <2>6, <3>1, WaitingInv DEF C!Wait, C!Goto, StillListed
  <2>7. CASE C!Delete(t)
    BY <2>7, GoneInv DEF C!Delete, C!Return, C!Goto
  <2> QED
    BY <1>3, <2>1, <2>2, <2>3, <2>4, <2>5, <2>6, <2>7 DEF C!Inside
<1> QED
  BY <1>1, <1>2, <1>3 DEF C!Next

(* The invariant implies what the run checks: BusyExact, ReferencesExact   *)
(* with the ASSERT of ExpDeleteCallback, and CalledWhileListed.            *)
LEMMA InvImplies ==
    ASSUME CallbackInv PROVE C!CallbackCounts /\ C!CalledWhileListed
<1> USE DEF CallbackInv
<1>1. \A r : C!CallersOf(r) = Callers(r) /\ C!Cardinality(Callers(r)) = Cardinality(Callers(r))
  BY DEF C!CallersOf, Callers, C!Cardinality, Cardinality
<1>2. C!BusyExact
  BY <1>1 DEF C!BusyExact, BusyInv
<1>3. \A o : /\ Members(o) = {r \in Registrations : reg[r].CallbackObject = o}
             /\ C!Cardinality(Members(o)) = Cardinality(Members(o))
  BY DEF Members, C!Cardinality, Cardinality
<1>4. ASSUME NEW o \in CallbackObjects, PointerCount[o] = 0
      PROVE  RegisteredCallbacks[o] = <<>>
  <2>1. Cardinality(Members(o)) = 0
    <3>1. Cardinality(Members(o)) \in Nat
      BY MembersFinite
    <3> QED
      BY <1>4, <3>1 DEF CountInv
  <2>2. Members(o) = {}
    BY <2>1, MembersFinite, FS_EmptySet
  <2>3. \A r \in Registrations : ~In(RegisteredCallbacks[o], r)
    BY <2>2 DEF ListInv, Members
  <2>4. RegisteredCallbacks[o] \in Seq(Registrations)
    BY DEF CallbackTypes
  <2>5. ~(1 \in 1 .. Len(RegisteredCallbacks[o]))
    BY <2>3, <2>4 DEF In
  <2> QED
    BY <2>4, <2>5
<1>5. C!ReferencesExact
  <2> SUFFICES ASSUME NEW o \in CallbackObjects
               PROVE  /\ PointerCount[o] =
                            C!Cardinality({r \in Registrations : reg[r].CallbackObject = o})
                            + (IF o \in open THEN 1 ELSE 0)
                      /\ PointerCount[o] = 0 => RegisteredCallbacks[o] = <<>>
    BY DEF C!ReferencesExact
  <2>1. PointerCount[o] = Cardinality(Members(o)) + (IF o \in open THEN 1 ELSE 0)
    BY DEF CountInv
  <2> QED
    BY <1>3, <1>4, <2>1
<1>6. C!CalledWhileListed
  <2> SUFFICES ASSUME NEW r \in Registrations, C!CallersOf(r) # {} PROVE C!Listed(r)
    BY DEF C!CalledWhileListed
  <2>1. Kept(r)
    BY <1>1 DEF Callers, CallInv
  <2>2. reg[r].CallbackObject \in CallbackObjects
    BY <2>1 DEF Kept, AnswerInv, Answers, Answering, CallbackTypes, RegTypes
  <2>3. In(RegisteredCallbacks[reg[r].CallbackObject], r)
    BY <2>1, <2>2 DEF ListInv
  <2>4. RegisteredCallbacks[reg[r].CallbackObject] \in Seq(Registrations)
    BY <2>2 DEF CallbackTypes
  <2> QED
    BY <2>2, <2>3, <2>4 DEF C!Listed, In
<1> QED
  BY <1>2, <1>5, <1>6 DEF C!CallbackCounts

(* Whatever registers, notifies, unregisters and closes callback objects,  *)
(* in any interleaving of ex/callback.c, keeps CallbackInv.                *)
THEOREM CallbackInvariance == ASpec => []CallbackInv
<1>1. AInit => CallbackInv
  BY InitInv DEF AInit
<1>2. CallbackInv /\ [ANext]_avars => CallbackInv'
  <2> SUFFICES ASSUME CallbackInv, [ANext]_avars PROVE CallbackInv'
    OBVIOUS
  <2>1. CASE UNCHANGED cvars
    <3>1. UNCHANGED <<RegisteredCallbacks, PointerCount, open, reg, cpc, cur>>
      BY <2>1 DEF cvars
    <3> QED
      BY <3>1 DEF CallbackInv, CallbackTypes, AnswerInv, Answers, ListInv, Kept,
                  CallInv, BusyInv, Callers, CountInv, Members
  <2>2. CASE Callbacks
    BY <2>2, NextInv DEF Callbacks
  <2> QED
    BY <2>1, <2>2 DEF avars, ANext, Calls, Continues
<1> QED
  BY <1>1, <1>2, PTL DEF ASpec

(* Busy is the number of calls of a function, and an object is referenced  *)
(* by its creator and by its registrations, until the last of them is gone *)
(* and the list empty.                                                     *)
THEOREM CallbackSafety == ASpec => []CallbackCounts
<1>1. CallbackInv => CallbackCounts
  BY InvImplies DEF CallbackCounts
<1> QED
  BY <1>1, CallbackInvariance, PTL

(* ExUnregisterCallback removes and frees no function that is being called *)
(* and from which a walk is to go on.                                      *)
THEOREM CalledSafety == ASpec => []CalledWhileListed
<1>1. CallbackInv => CalledWhileListed
  BY InvImplies DEF CalledWhileListed
<1> QED
  BY <1>1, CallbackInvariance, PTL

-----------------------------------------------------------------------------
(* Fast references: the sums that count them.                              *)

(* The pairs that Total counts, those of some arguments. *)
Pairs(f, Args) == UNION {{x} \X (1 .. f[x]) : x \in Args}

(* Those of one argument. *)
LEMMA PairsOfOne ==
    ASSUME NEW x, NEW n \in Nat
    PROVE  IsFiniteSet({x} \X (1 .. n)) /\ Cardinality({x} \X (1 .. n)) = n
<1>1. IsFiniteSet({x}) /\ Cardinality({x}) = 1
  BY FS_Singleton
<1>2. IsFiniteSet(1 .. n) /\ Cardinality(1 .. n) = n
  BY FS_Interval
<1>3. /\ IsFiniteSet({x} \X (1 .. n))
      /\ Cardinality({x} \X (1 .. n)) = Cardinality({x}) * Cardinality(1 .. n)
  BY <1>1, <1>2, FS_Product
<1>4. 1 * n = n
  OBVIOUS
<1> QED
  BY <1>1, <1>2, <1>3, <1>4

(* There are finitely many in all. *)
LEMMA PairsFinite ==
    ASSUME NEW Args, IsFiniteSet(Args), NEW f, \A x \in Args : f[x] \in Nat
    PROVE  IsFiniteSet(Pairs(f, Args)) /\ Cardinality(Pairs(f, Args)) \in Nat
<1> DEFINE g == [x \in Args |-> {x} \X (1 .. f[x])]
           T == {{x} \X (1 .. f[x]) : x \in Args}
<1>1. g \in Surjection(Args, T)
  BY DEF Surjection
<1>2. IsFiniteSet(T)
  BY <1>1, FS_Surjection
<1>3. \A R \in T : IsFiniteSet(R)
  <2> SUFFICES ASSUME NEW x \in Args PROVE IsFiniteSet({x} \X (1 .. f[x]))
    OBVIOUS
  <2>1. f[x] \in Nat
    OBVIOUS
  <2> QED
    BY <2>1, PairsOfOne
<1>4. IsFiniteSet(UNION T)
  BY <1>2, <1>3, FS_UNION
<1> QED
  BY <1>4, FS_CardinalityType DEF Pairs

(* The total is the value for one argument and the rest. *)
LEMMA TotalSplit ==
    ASSUME NEW Args, IsFiniteSet(Args), NEW f \in [Args -> Nat], NEW x \in Args
    PROVE  /\ Cardinality(Pairs(f, Args \ {x})) \in Nat
           /\ Total(f) = f[x] + Cardinality(Pairs(f, Args \ {x}))
<1> DEFINE A == {x} \X (1 .. f[x])
           B == Pairs(f, Args \ {x})
<1>1. IsFiniteSet(Args \ {x})
  BY FS_RemoveElement
<1>2. IsFiniteSet(B) /\ Cardinality(B) \in Nat
  BY <1>1, PairsFinite
<1>3. IsFiniteSet(A) /\ Cardinality(A) = f[x]
  BY PairsOfOne
<1>4. Pairs(f, Args) = A \cup B
  BY DEF Pairs
<1>5. A \cap B = {}
  BY DEF Pairs
<1>6. Cardinality(A \cup B) = Cardinality(A) + Cardinality(B) - Cardinality(A \cap B)
  BY <1>2, <1>3, FS_Union
<1>7. Cardinality(A \cap B) = 0
  BY <1>5, FS_EmptySet
<1>8. Total(f) = Cardinality(Pairs(f, Args))
  BY DEF Total, Pairs
<1> HIDE DEF A, B
<1>9. Total(f) = f[x] + Cardinality(B)
  BY <1>2, <1>3, <1>4, <1>6, <1>7, <1>8
<1> QED
  BY <1>2, <1>9 DEF B

(* How a total changes with one value. *)
LEMMA TotalChange ==
    ASSUME NEW Args, IsFiniteSet(Args), NEW f \in [Args -> Nat], NEW g \in [Args -> Nat], NEW x \in Args,
           \A y \in Args \ {x} : g[y] = f[y]
    PROVE  Total(f) \in Nat /\ Total(g) = Total(f) + g[x] - f[x]
<1>1. Pairs(f, Args \ {x}) = Pairs(g, Args \ {x})
  BY DEF Pairs
<1>2. Cardinality(Pairs(f, Args \ {x})) \in Nat /\ f[x] \in Nat /\ g[x] \in Nat
  BY TotalSplit
<1>3. Total(f) = f[x] + Cardinality(Pairs(f, Args \ {x}))
  BY TotalSplit
<1>4. Total(g) = g[x] + Cardinality(Pairs(g, Args \ {x}))
  BY TotalSplit
<1> QED
  BY <1>1, <1>2, <1>3, <1>4

(* It is no less than any two values. *)
LEMMA TotalLeast ==
    ASSUME NEW Args, IsFiniteSet(Args), NEW f \in [Args -> Nat]
    PROVE  /\ Total(f) \in Nat
           /\ \A x \in Args : Total(f) >= f[x]
           /\ \A x, y \in Args : x # y => Total(f) >= f[x] + f[y]
<1>1. Total(f) \in Nat
  <2>1. Total(f) = Cardinality(Pairs(f, Args))
    BY DEF Total, Pairs
  <2> QED
    BY <2>1, PairsFinite
<1>2. \A x \in Args : Total(f) >= f[x]
  <2> SUFFICES ASSUME NEW x \in Args PROVE Total(f) >= f[x]
    OBVIOUS
  <2>1. f[x] \in Nat
    OBVIOUS
  <2>2. /\ Total(f) = f[x] + Cardinality(Pairs(f, Args \ {x}))
        /\ Cardinality(Pairs(f, Args \ {x})) \in Nat
    BY TotalSplit
  <2> QED
    BY <1>1, <2>1, <2>2
<1>3. \A x, y \in Args : x # y => Total(f) >= f[x] + f[y]
  <2> SUFFICES ASSUME NEW x \in Args, NEW y \in Args, x # y PROVE Total(f) >= f[x] + f[y]
    OBVIOUS
  <2> DEFINE g == [f EXCEPT ![x] = 0]
  <2>1. /\ g \in [Args -> Nat] /\ \A z \in Args \ {x} : g[z] = f[z]
        /\ g[x] = 0 /\ g[y] = f[y] /\ f[x] \in Nat /\ f[y] \in Nat
    OBVIOUS
  <2> HIDE DEF g
  <2>2. Total(g) = Total(f) + g[x] - f[x]
    BY <2>1, TotalChange
  <2>3. /\ Total(g) = g[y] + Cardinality(Pairs(g, Args \ {y}))
        /\ Cardinality(Pairs(g, Args \ {y})) \in Nat
    BY <2>1, TotalSplit
  <2> QED
    BY <1>1, <2>1, <2>2, <2>3
<1> QED
  BY <1>1, <1>2, <1>3

(* The total of nothing. *)
LEMMA TotalZero ==
    ASSUME NEW Args, NEW f \in [Args -> Nat], \A x \in Args : f[x] = 0
    PROVE  Total(f) = 0
<1>1. UNION {{x} \X (1 .. f[x]) : x \in Args} = {}
  <2>1. \A x \in Args : 1 .. f[x] = {}
    OBVIOUS
  <2> QED
    BY <2>1
<1> QED
  BY <1>1, FS_EmptySet DEF Total

-----------------------------------------------------------------------------
(* Notify routines: the invariant, and what a step may change of it.       *)

(* Where a thread has a reference to its block, and where it has a block   *)
(* that is in no slot for itself: to fill one, or to wait for it.          *)
HoldPCs == {"refill", "insert", "backdown", "use", "swap", "giveback", "countdown",
            "dereference", "release"}

Owns(t) == pc[t] \in {"fill", "giveback", "countdown", "wait", "waiting"} \/ op[t] = "removed"

SlotTypes == [block : Blocks \cup {NoBlock}, refs : 0 .. MaxFastRefs]

MemTypes == [function : Routines \cup {NoRoutine}, refs : Int, down : BOOLEAN]

NotifyTypes ==
    /\ family \in {"process", "thread", "image"}
    /\ slot \in [1 .. MaxNotify -> SlotTypes]
    /\ mem \in [Blocks -> MemTypes]
    /\ RoutineCount \in Int
    /\ pc \in [Threads -> HoldPCs \cup {"idle", "fill", "countup", "reference", "wait", "waiting"}]
    /\ op \in [Threads -> {"none", "add", "run", "remove", "removed"}]
    /\ i \in [Threads -> 1 .. MaxNotify]
    /\ CallBack \in [Threads -> Blocks \cup {NoBlock}]
    /\ routine \in [Threads -> Routines \cup {NoRoutine}]
    /\ Count \in [Threads -> Nat]

(* What the local variables of thread t hold. *)
NotifyLocals(t) ==
    /\ pc[t] \in HoldPCs \cup {"fill", "wait", "waiting"} => CallBack[t] \in Blocks
    /\ Count[t] # 0 => pc[t] \in {"insert", "backdown", "giveback"}
    /\ pc[t] = "insert" => Count[t] = MaxFastRefs
    /\ op[t] = "removed" => pc[t] \in {"dereference", "release", "wait", "waiting"}
    /\ pc[t] = "fill" => op[t] = "add" /\ mem[CallBack[t]].refs = 0

(* A block in use is in one slot, or one thread has it. *)
OwnInv ==
    /\ \A t \in Threads : Owns(t) => /\ mem[CallBack[t]].function # NoRoutine
                                     /\ \A k \in 1 .. MaxNotify : slot[k].block # CallBack[t]
    /\ \A t, u \in Threads : Owns(t) /\ Owns(u) /\ CallBack[t] = CallBack[u] => t = u

SlotInv ==
    /\ \A k \in 1 .. MaxNotify : IF slot[k].block = NoBlock THEN slot[k].refs = 0
                                 ELSE mem[slot[k].block].function # NoRoutine
    /\ \A j, k \in 1 .. MaxNotify : slot[j].block = slot[k].block /\ slot[k].block # NoBlock => j = k

FreeInv == \A b \in Blocks : mem[b].function = NoRoutine => mem[b].refs = 0 /\ ~mem[b].down

NotifyInv == /\ NotifyTypes /\ \A t \in Threads : NotifyLocals(t)
             /\ OwnInv /\ SlotInv /\ FreeInv /\ RefsExact /\ CountExact

-----------------------------------------------------------------------------
One(p) == IF p THEN 1 ELSE 0

(* A set that differs from another in x alone. *)
LEMMA CountStep ==
    ASSUME NEW D, IsFiniteSet(D), NEW Q \in SUBSET D, NEW R \in SUBSET D, NEW x \in D,
           \A y \in D \ {x} : y \in R <=> y \in Q
    PROVE  /\ Cardinality(Q) \in Nat
           /\ Cardinality(R) = Cardinality(Q) + One(x \in R) - One(x \in Q)
<1>1. IsFiniteSet(Q) /\ IsFiniteSet(R)
  BY FS_Subset
<1>2. Cardinality(Q) \in Nat
  BY <1>1, FS_CardinalityType
<1>3. CASE x \in R /\ x \notin Q
  <2>1. R = Q \cup {x}
    BY <1>3
  <2> QED
    BY <1>1, <1>2, <1>3, <2>1, FS_AddElement DEF One
<1>4. CASE x \notin R /\ x \in Q
  <2>1. R = Q \ {x}
    BY <1>4
  <2> QED
    BY <1>1, <1>2, <1>4, <2>1, FS_RemoveElement DEF One
<1>5. CASE x \in R <=> x \in Q
  <2>1. R = Q
    BY <1>5
  <2> QED
    BY <1>2, <1>5, <2>1 DEF One
<1> QED
  BY <1>3, <1>4, <1>5

(* Block b is in slot k, or t has it for itself. *)
InSlot(k, b) == slot[k].block = b

Mine(t, b) == Owns(t) /\ CallBack[t] = b

Used(k) == slot[k].block # NoBlock

(* What a step of t, with slot k, may do to the references to block b, *)
Balance(t, k, b) ==
    LET more == (InWord(k, b)' - InWord(k, b)) + (InHands(t, b)' - InHands(t, b))
    IN  /\ mem'[b].refs - mem[b].refs >= more
        /\ family # "process" => mem'[b].refs - mem[b].refs = more

(* and to who has it; *)
Claim(t, k, b) ==
    /\ Mine(t, b)' \/ InSlot(k, b)' =>
          Mine(t, b) \/ InSlot(k, b) \/ mem[b].function = NoRoutine
    /\ ~(Mine(t, b)' /\ InSlot(k, b)')
    /\ mem'[b].function = NoRoutine =>
          /\ ~Mine(t, b)' /\ ~InSlot(k, b)' /\ mem'[b].refs = 0 /\ ~mem'[b].down
          /\ mem[b].function # NoRoutine => Mine(t, b)
    /\ mem'[b].refs # mem[b].refs => InHands(t, b) > 0 \/ Mine(t, b)

CountBalance(t, k) ==
    RoutineCount' - RoutineCount =
       (One(Used(k)') - One(Used(k))) - (One(pc'[t] = "countup") - One(pc[t] = "countup"))
       + (One(pc'[t] \in {"giveback", "countdown"}) - One(pc[t] \in {"giveback", "countdown"}))

(* such steps have nothing to do with the other threads and slots. *)
NotifyFrame(t, k) ==
    /\ family' = family
    /\ \A u \in Threads \ {t} : /\ pc'[u] = pc[u] /\ op'[u] = op[u]
                                 /\ CallBack'[u] = CallBack[u] /\ Count'[u] = Count[u]
    /\ \A j \in (1 .. MaxNotify) \ {k} : slot'[j] = slot[j]

NotifyOK(t, k) ==
    /\ NotifyTypes' /\ NotifyFrame(t, k) /\ NotifyLocals(t)'
    /\ \A b \in Blocks : Balance(t, k, b) /\ Claim(t, k, b)
    /\ slot'[k].block = NoBlock => slot'[k].refs = 0
    /\ CountBalance(t, k)

(* The numbers are natural ones. *)
LEMMA NotifyNumbers ==
    ASSUME NotifyTypes, NEW b \in Blocks
    PROVE  /\ [k \in 1 .. MaxNotify |-> InWord(k, b)] \in [1 .. MaxNotify -> Nat]
           /\ [t \in Threads |-> InHands(t, b)] \in [Threads -> Nat]
           /\ \A k \in 1 .. MaxNotify : InWord(k, b) \in Nat
           /\ \A t \in Threads : InHands(t, b) \in Nat
<1>1. ASSUME NEW k \in 1 .. MaxNotify PROVE InWord(k, b) \in Nat
  <2>1. slot[k].refs \in Nat
    BY ConstantsAssumption DEF NotifyTypes, SlotTypes, MemTypes
  <2> QED
    BY <2>1 DEF InWord
<1>2. ASSUME NEW t \in Threads PROVE InHands(t, b) \in Nat
  <2>1. Count[t] \in Nat
    BY DEF NotifyTypes
  <2> QED
    BY <2>1 DEF InHands
<1> QED
  BY <1>1, <1>2

(* Their sums are finite. *)
LEMMA NotifySums ==
    ASSUME NotifyTypes, NEW b \in Blocks
    PROVE  /\ References(b) \in Nat
           /\ \A k \in 1 .. MaxNotify : References(b) >= InWord(k, b)
           /\ \A t \in Threads : References(b) >= InHands(t, b)
<1> DEFINE f == [k \in 1 .. MaxNotify |-> InWord(k, b)]
           g == [t \in Threads |-> InHands(t, b)]
<1>1. f \in [1 .. MaxNotify -> Nat] /\ g \in [Threads -> Nat]
  BY NotifyNumbers
<1>2. /\ \A k \in 1 .. MaxNotify : f[k] = InWord(k, b) /\ f[k] \in Nat
      /\ \A t \in Threads : g[t] = InHands(t, b) /\ g[t] \in Nat
  BY NotifyNumbers
<1>3. IsFiniteSet(1 .. MaxNotify) /\ IsFiniteSet(Threads)
  BY FS_Interval, ConstantsAssumption
<1>4. References(b) = Total(f) + Total(g)
  BY DEF References
<1> HIDE DEF f, g
<1>5. Total(f) \in Nat /\ \A k \in 1 .. MaxNotify : Total(f) >= f[k]
  BY <1>1, <1>3, TotalLeast
<1>6. Total(g) \in Nat /\ \A t \in Threads : Total(g) >= g[t]
  BY <1>1, <1>3, TotalLeast
<1> QED
  BY <1>2, <1>4, <1>5, <1>6

(* Such a step keeps the references counted, *)
LEMMA NotifyRefs ==
    ASSUME NotifyInv, NEW t \in Threads, NEW k \in 1 .. MaxNotify, NotifyOK(t, k)
    PROVE  RefsExact'
<1> SUFFICES ASSUME NEW b \in Blocks
             PROVE  (/\ mem[b].refs >= References(b)
                     /\ family # "process" => mem[b].refs = References(b))'
  BY DEF RefsExact
<1>1. PICK f : f = [j \in 1 .. MaxNotify |-> InWord(j, b)]
  OBVIOUS
<1>2. PICK g : g = [u \in Threads |-> InHands(u, b)]
  OBVIOUS
<1>3. PICK h : h = [j \in 1 .. MaxNotify |-> InWord(j, b)']
  OBVIOUS
<1>4. PICK l : l = [u \in Threads |-> InHands(u, b)']
  OBVIOUS
<1>5. f \in [1 .. MaxNotify -> Nat] /\ g \in [Threads -> Nat]
  BY <1>1, <1>2, NotifyNumbers DEF NotifyInv
<1>6. h \in [1 .. MaxNotify -> Nat] /\ l \in [Threads -> Nat]
  <2>1. NotifyTypes'
    BY DEF NotifyOK
  <2>2. /\ \A j \in 1 .. MaxNotify : slot'[j].refs \in Nat
        /\ \A u \in Threads : Count'[u] \in Nat
    BY <2>1, ConstantsAssumption DEF NotifyTypes, SlotTypes, MemTypes
  <2>3. /\ \A j \in 1 .. MaxNotify : InWord(j, b)' \in Nat
        /\ \A u \in Threads : InHands(u, b)' \in Nat
    BY <2>2 DEF InWord, InHands
  <2> QED
    BY <1>3, <1>4, <2>3
<1>7. \A j \in (1 .. MaxNotify) \ {k} : h[j] = f[j]
  BY <1>1, <1>3 DEF NotifyOK, NotifyFrame, InWord
<1>8. \A u \in Threads \ {t} : l[u] = g[u]
  BY <1>2, <1>4 DEF NotifyOK, NotifyFrame, InHands, Holders
<1>9. IsFiniteSet(1 .. MaxNotify) /\ IsFiniteSet(Threads)
  BY FS_Interval, ConstantsAssumption
<1>10. Total(f) \in Nat /\ Total(h) = Total(f) + h[k] - f[k]
  BY <1>5, <1>6, <1>7, <1>9, TotalChange
<1>11. Total(g) \in Nat /\ Total(l) = Total(g) + l[t] - g[t]
  BY <1>5, <1>6, <1>8, <1>9, TotalChange
<1>12. /\ f[k] = InWord(k, b)
       /\ h[k] = InWord(k, b)'
       /\ g[t] = InHands(t, b)
       /\ l[t] = InHands(t, b)'
  BY <1>1, <1>2, <1>3, <1>4
<1>13. f[k] \in Nat /\ h[k] \in Nat /\ g[t] \in Nat /\ l[t] \in Nat
  BY <1>5, <1>6
<1>14. References(b) = Total(f) + Total(g) /\ References(b)' = Total(h) + Total(l)
  BY <1>1, <1>2, <1>3, <1>4 DEF References
<1>15. /\ mem'[b].refs - mem[b].refs >= (h[k] - f[k]) + (l[t] - g[t])
       /\ family # "process" => mem'[b].refs - mem[b].refs = (h[k] - f[k]) + (l[t] - g[t])
  BY <1>12 DEF NotifyOK, Balance
<1>16. mem[b].refs >= References(b) /\ (family # "process" => mem[b].refs = References(b))
  BY DEF NotifyInv, RefsExact
<1>17. mem[b].refs \in Int /\ mem'[b].refs \in Int /\ family' = family
  BY DEF NotifyInv, NotifyTypes, SlotTypes, MemTypes, NotifyOK, NotifyFrame
<1> QED
  BY <1>10, <1>11, <1>13, <1>14, <1>15, <1>16, <1>17

(* and the routines. *)
LEMMA NotifyCount ==
    ASSUME NotifyInv, NEW t \in Threads, NEW k \in 1 .. MaxNotify, NotifyOK(t, k)
    PROVE  CountExact'
<1> DEFINE D == 1 .. MaxNotify
           A == {j \in D : slot[j].block # NoBlock}
           B == {u \in Threads : pc[u] = "countup"}
           E == {u \in Threads : pc[u] \in {"giveback", "countdown"}}
           A1 == {j \in D : slot'[j].block # NoBlock}
           B1 == {u \in Threads : pc'[u] = "countup"}
           E1 == {u \in Threads : pc'[u] \in {"giveback", "countdown"}}
<1>1. IsFiniteSet(D) /\ IsFiniteSet(Threads)
  BY FS_Interval, ConstantsAssumption
<1>2. /\ \A j \in D \ {k} : j \in A1 <=> j \in A
      /\ \A u \in Threads \ {t} : (u \in B1 <=> u \in B) /\ (u \in E1 <=> u \in E)
  BY DEF NotifyOK, NotifyFrame
<1>3. /\ One(k \in A) = One(Used(k)) /\ One(k \in A1) = One(Used(k)')
      /\ One(t \in B) = One(pc[t] = "countup") /\ One(t \in B1) = One(pc'[t] = "countup")
      /\ One(t \in E) = One(pc[t] \in {"giveback", "countdown"})
      /\ One(t \in E1) = One(pc'[t] \in {"giveback", "countdown"})
  BY DEF One, Used
<1>4. RoutineCount = Cardinality(A) - Cardinality(B) + Cardinality(E)
  BY DEF NotifyInv, CountExact
<1>5. CountExact' <=> RoutineCount' = Cardinality(A1) - Cardinality(B1) + Cardinality(E1)
  BY DEF CountExact
<1>6. RoutineCount' - RoutineCount = (One(k \in A1) - One(k \in A)) - (One(t \in B1) - One(t \in B))
                                     + (One(t \in E1) - One(t \in E))
  BY <1>3 DEF NotifyOK, CountBalance
<1>7. RoutineCount \in Int /\ RoutineCount' \in Int
  BY DEF NotifyInv, NotifyTypes, NotifyOK
<1>8. A \in SUBSET D /\ A1 \in SUBSET D /\ B \in SUBSET Threads /\ B1 \in SUBSET Threads
      /\ E \in SUBSET Threads /\ E1 \in SUBSET Threads
  OBVIOUS
<1> HIDE DEF A, B, E, A1, B1, E1
<1>9. k \in D
  OBVIOUS
<1> HIDE DEF D
<1>10. /\ Cardinality(A) \in Nat
       /\ Cardinality(A1) = Cardinality(A) + One(k \in A1) - One(k \in A)
  BY <1>1, <1>2, <1>8, <1>9, CountStep, Zenon
<1>11. /\ Cardinality(B) \in Nat
       /\ Cardinality(B1) = Cardinality(B) + One(t \in B1) - One(t \in B)
  BY <1>1, <1>2, <1>8, CountStep
<1>12. /\ Cardinality(E) \in Nat
       /\ Cardinality(E1) = Cardinality(E) + One(t \in E1) - One(t \in E)
  BY <1>1, <1>2, <1>8, CountStep
<1>13. /\ One(k \in A) \in Int /\ One(k \in A1) \in Int /\ One(t \in B) \in Int
       /\ One(t \in B1) \in Int /\ One(t \in E) \in Int /\ One(t \in E1) \in Int
  BY DEF One
<1> QED
  BY <1>4, <1>5, <1>6, <1>7, <1>10, <1>11, <1>12, <1>13

(* A block that a thread has for filling a slot with it is nobody else's. *)
LEMMA FillAlone ==
    ASSUME NotifyInv, NEW t \in Threads, NEW u \in Threads, u # t, pc[u] = "fill"
    PROVE  ~Mine(t, CallBack[u]) /\ InHands(t, CallBack[u]) = 0 /\ CallBack[u] \in Blocks
<1>1. CallBack[u] \in Blocks /\ mem[CallBack[u]].refs = 0 /\ Owns(u)
  BY DEF NotifyInv, NotifyLocals, Owns
<1>2. ~Mine(t, CallBack[u])
  BY <1>1 DEF NotifyInv, OwnInv, Mine
<1>3. PICK b \in Blocks : b = CallBack[u]
  BY <1>1
<1>4. References(b) \in Nat /\ References(b) >= InHands(t, b) /\ InHands(t, b) \in Nat
  BY NotifySums, NotifyNumbers DEF NotifyInv
<1>5. 0 >= References(b)
  BY <1>1, <1>3 DEF NotifyInv, RefsExact
<1> QED
  BY <1>1, <1>2, <1>3, <1>4, <1>5

(* Such a step preserves the invariant. *)
LEMMA NotifyStep ==
    ASSUME NotifyInv, NEW t \in Threads, NEW k \in 1 .. MaxNotify, NotifyOK(t, k)
    PROVE  NotifyInv'
<1>1. NotifyTypes' /\ NotifyFrame(t, k)
  BY DEF NotifyOK
<1>2. \A b \in Blocks : Claim(t, k, b)
  BY DEF NotifyOK
<1>3. NotifyTypes /\ OwnInv /\ SlotInv /\ FreeInv /\ \A u \in Threads : NotifyLocals(u)
  BY DEF NotifyInv
<1>4. \A u \in Threads \ {t} : (Owns(u)' <=> Owns(u)) /\ CallBack'[u] = CallBack[u]
  BY <1>1 DEF NotifyFrame, Owns
<1>5. ASSUME NEW u \in Threads PROVE NotifyLocals(u)'
  <2>1. CASE u = t
    BY <2>1 DEF NotifyOK
  <2>2. CASE u # t
    <3>1. pc[u] = "fill" => mem'[CallBack[u]].refs = 0
      <4> SUFFICES ASSUME pc[u] = "fill" PROVE mem'[CallBack[u]].refs = 0
        OBVIOUS
      <4>1. ~Mine(t, CallBack[u]) /\ InHands(t, CallBack[u]) = 0 /\ CallBack[u] \in Blocks
        BY <2>2, FillAlone
      <4>2. mem'[CallBack[u]].refs = mem[CallBack[u]].refs
        BY <1>2, <4>1 DEF Claim
      <4> QED
        BY <1>3, <4>2 DEF NotifyLocals
    <3> QED
      BY <1>1, <1>3, <2>2, <3>1 DEF NotifyFrame, NotifyLocals
  <2> QED
    BY <2>1, <2>2
<1>6. \A u \in Threads : Owns(u) => CallBack[u] \in Blocks
  BY <1>3 DEF NotifyLocals, Owns, HoldPCs
<1>7. \A u \in Threads : Owns(u)' => CallBack'[u] \in Blocks
  BY <1>5 DEF NotifyLocals, Owns, HoldPCs
<1>8. ASSUME NEW u \in Threads, Owns(u)'
      PROVE  mem'[CallBack'[u]].function # NoRoutine
  <2>1. PICK b \in Blocks : b = CallBack'[u]
    BY <1>7, <1>8
  <2>2. CASE u = t
    BY <1>2, <1>8, <2>1, <2>2 DEF Claim, Mine
  <2>3. CASE u # t
    <3>1. Owns(u) /\ CallBack[u] = b /\ ~Mine(t, b) /\ mem[b].function # NoRoutine
      BY <1>3, <1>4, <1>8, <2>1, <2>3 DEF OwnInv, Mine
    <3> QED
      BY <1>2, <2>1, <3>1 DEF Claim
  <2> QED
    BY <2>2, <2>3
<1>9. ASSUME NEW u \in Threads, Owns(u)', NEW j \in 1 .. MaxNotify
      PROVE  slot'[j].block # CallBack'[u]
  <2>1. PICK b \in Blocks : b = CallBack'[u]
    BY <1>7, <1>9
  <2>2. CASE u = t /\ j = k
    BY <1>2, <1>9, <2>1, <2>2 DEF Claim, Mine, InSlot
  <2>3. CASE u = t /\ j # k
    <3>1. slot'[j] = slot[j]
      BY <1>1, <2>3 DEF NotifyFrame
    <3>2. Mine(t, b) \/ InSlot(k, b) \/ mem[b].function = NoRoutine
      BY <1>2, <1>9, <2>1, <2>3 DEF Claim, Mine
    <3>3. slot[j].block # b
      BY <1>3, <2>3, <3>2, ConstantsAssumption DEF SlotInv, OwnInv, Mine, InSlot
    <3> QED
      BY <2>1, <3>1, <3>3
  <2>4. CASE u # t
    <3>1. Owns(u) /\ CallBack[u] = b /\ ~Mine(t, b) /\ mem[b].function # NoRoutine
          /\ \A n \in 1 .. MaxNotify : slot[n].block # b
      BY <1>3, <1>4, <1>9, <2>1, <2>4 DEF OwnInv, Mine
    <3>2. ~InSlot(k, b)'
      BY <1>2, <3>1 DEF Claim, InSlot
    <3> QED
      BY <1>1, <2>1, <3>1, <3>2 DEF NotifyFrame, InSlot
  <2> QED
    BY <2>2, <2>3, <2>4
<1>10. ASSUME NEW u \in Threads, NEW v \in Threads, Owns(u)', Owns(v)', CallBack'[u] = CallBack'[v]
       PROVE  u = v
  <2> SUFFICES ASSUME NEW y \in Threads, y # t, Owns(y)', Owns(t)', CallBack'[y] = CallBack'[t]
               PROVE  FALSE
    BY <1>3, <1>4, <1>10 DEF OwnInv
  <2>1. PICK b \in Blocks : b = CallBack'[y]
    BY <1>7
  <2>2. Owns(y) /\ CallBack[y] = b /\ ~Mine(t, b) /\ mem[b].function # NoRoutine
        /\ \A n \in 1 .. MaxNotify : slot[n].block # b
    BY <1>3, <1>4, <2>1 DEF OwnInv, Mine
  <2> QED
    BY <1>2, <2>1, <2>2 DEF Claim, Mine, InSlot
<1>11. OwnInv'
  BY <1>8, <1>9, <1>10 DEF OwnInv
<1>12. ASSUME NEW j \in 1 .. MaxNotify
       PROVE  IF slot'[j].block = NoBlock THEN slot'[j].refs = 0
              ELSE mem'[slot'[j].block].function # NoRoutine
  <2>1. CASE slot'[j].block = NoBlock
    BY <1>1, <1>3, <2>1 DEF NotifyOK, NotifyFrame, SlotInv
  <2>2. CASE slot'[j].block # NoBlock
    <3>1. PICK b \in Blocks : b = slot'[j].block
      BY <1>1, <2>2 DEF NotifyTypes, SlotTypes, MemTypes
    <3>2. CASE j = k
      BY <1>2, <2>2, <3>1, <3>2 DEF Claim, InSlot
    <3>3. CASE j # k
      <4>1. slot'[j] = slot[j]
        BY <1>1, <3>3 DEF NotifyFrame
      <4>2. mem[b].function # NoRoutine /\ ~Mine(t, b)
        BY <1>3, <2>2, <3>1, <4>1 DEF SlotInv, OwnInv, Mine
      <4> QED
        BY <1>2, <2>2, <3>1, <4>2 DEF Claim
    <3> QED
      BY <3>2, <3>3
  <2> QED
    BY <2>1, <2>2
<1>13. ASSUME NEW j \in 1 .. MaxNotify, NEW n \in 1 .. MaxNotify,
              slot'[j].block = slot'[n].block, slot'[n].block # NoBlock
       PROVE  j = n
  <2> SUFFICES ASSUME NEW y \in 1 .. MaxNotify, y # k,
                      slot'[y].block = slot'[k].block, slot'[k].block # NoBlock
               PROVE  FALSE
    <3>1. j # k /\ n # k => slot'[j] = slot[j] /\ slot'[n] = slot[n]
      BY <1>1 DEF NotifyFrame
    <3> QED
      BY <1>3, <1>13, <3>1 DEF SlotInv
  <2>1. PICK b \in Blocks : b = slot'[k].block
    BY <1>1 DEF NotifyTypes, SlotTypes, MemTypes
  <2>2. slot[y].block = b
    BY <1>1, <2>1 DEF NotifyFrame
  <2>3. mem[b].function # NoRoutine /\ ~Mine(t, b) /\ slot[k].block # b
    BY <1>3, <2>1, <2>2, ConstantsAssumption DEF SlotInv, OwnInv, Mine
  <2> QED
    BY <1>2, <2>1, <2>3 DEF Claim, InSlot
<1>14. SlotInv'
  BY <1>12, <1>13 DEF SlotInv
<1>15. FreeInv'
  BY <1>2 DEF Claim, FreeInv
<1>16. RefsExact' /\ CountExact'
  BY NotifyRefs, NotifyCount
<1> QED
  BY <1>1, <1>5, <1>11, <1>14, <1>15, <1>16 DEF NotifyInv

(* A slot keeps its type when its references change, *)
LEMMA SlotRefs ==
    ASSUME NotifyTypes, NEW k \in 1 .. MaxNotify, NEW n \in 0 .. MaxFastRefs
    PROVE  [slot EXCEPT ![k].refs = n] \in [1 .. MaxNotify -> SlotTypes]
<1>1. slot \in [1 .. MaxNotify -> SlotTypes]
  BY DEF NotifyTypes
<1>2. [slot[k] EXCEPT !.refs = n] \in SlotTypes
  BY <1>1 DEF SlotTypes
<1> QED
  BY <1>1, <1>2

(* and so does a block. *)
LEMMA MemRefs ==
    ASSUME NotifyTypes, NEW b \in Blocks, NEW n \in Int
    PROVE  [mem EXCEPT ![b].refs = n] \in [Blocks -> MemTypes]
<1>1. mem \in [Blocks -> MemTypes]
  BY DEF NotifyTypes
<1>2. [mem[b] EXCEPT !.refs = n] \in MemTypes
  BY <1>1 DEF MemTypes
<1> QED
  BY <1>1, <1>2

(* Who has a reference to a block has one at least. *)
LEMMA HandsFull ==
    ASSUME NotifyTypes, NEW t \in Threads, pc[t] \in HoldPCs
    PROVE  InHands(t, CallBack[t]) > 0 /\ InHands(t, CallBack[t]) = 1 + Count[t]
<1>1. Count[t] \in Nat
  BY DEF NotifyTypes
<1> QED
  BY <1>1 DEF InHands, Holders, HoldPCs

(* and the block is there. *)
LEMMA HolderAlive ==
    ASSUME NotifyInv, NEW t \in Threads, CallBack[t] \in Blocks, pc[t] \in HoldPCs
    PROVE  mem[CallBack[t]].function # NoRoutine /\ mem[CallBack[t]].refs >= 1 + Count[t]
<1>1. PICK b \in Blocks : b = CallBack[t]
  OBVIOUS
<1>2. InHands(t, b) > 0 /\ InHands(t, b) = 1 + Count[t]
  BY <1>1, HandsFull DEF NotifyInv
<1>3. References(b) \in Nat /\ References(b) >= InHands(t, b) /\ InHands(t, b) \in Nat
  BY NotifySums, NotifyNumbers DEF NotifyInv
<1>4. mem[b].refs >= References(b) /\ mem[b].refs \in Int
  BY DEF NotifyInv, RefsExact, NotifyTypes, MemTypes
<1>5. mem[b].refs > 0 /\ mem[b].refs >= 1 + Count[t]
  BY <1>2, <1>3, <1>4
<1> QED
  BY <1>1, <1>5 DEF NotifyInv, FreeInv

(* The next slot is one. *)
LEMMA NextSlotTypes ==
    ASSUME NotifyTypes, NEW t \in Threads, NEW l, NextSlot(t, l) \/ i' = i
    PROVE  i' \in [Threads -> 1 .. MaxNotify]
<1>1. i[t] \in 1 .. MaxNotify /\ i \in [Threads -> 1 .. MaxNotify]
  BY DEF NotifyTypes
<1>2. i[t] < MaxNotify => i[t] + 1 \in 1 .. MaxNotify
  BY <1>1, ConstantsAssumption
<1>3. 1 \in 1 .. MaxNotify
  BY ConstantsAssumption
<1> QED
  BY <1>1, <1>2, <1>3 DEF NextSlot, Return

(* Where a step does not change the slots, *)
LEMMA SlotsStay ==
    ASSUME NotifyInv, NEW k \in 1 .. MaxNotify, slot' = slot
    PROVE  (slot'[k].block = NoBlock => slot'[k].refs = 0) /\ (Used(k)' <=> Used(k))
  BY DEF NotifyInv, SlotInv, Used

-----------------------------------------------------------------------------
(* The steps of NotifyRoutine.                                             *)

(* A notification that begins. *)
LEMMA NotifyRun ==
    ASSUME NotifyInv, NEW t \in Threads, Run(t) PROVE NotifyInv'
<1>1. PICK k \in 1 .. MaxNotify : k = i[t]
  BY DEF NotifyInv, NotifyTypes
<1>2. NotifyTypes /\ NotifyLocals(t) /\ OwnInv /\ SlotInv /\ FreeInv
  BY DEF NotifyInv
<1>3. NotifyTypes'
  <2>1. slot' \in [1 .. MaxNotify -> SlotTypes]
    BY <1>2 DEF Run, Begin, Goto, NotifyTypes
  <2>2. mem' \in [Blocks -> MemTypes]
    BY <1>2 DEF Run, Begin, Goto, NotifyTypes
  <2>3. i' \in [Threads -> 1 .. MaxNotify]
    BY <1>2, ConstantsAssumption DEF Run, Begin, Goto, NotifyTypes
  <2>4. Count' \in [Threads -> Nat]
    BY <1>2, ConstantsAssumption DEF Run, Begin, Goto, NotifyTypes
  <2>5. CallBack' \in [Threads -> Blocks \cup {NoBlock}]
    BY <1>1, <1>2 DEF Run, Begin, Goto, NotifyTypes, SlotTypes
  <2>6. /\ pc' \in [Threads -> HoldPCs \cup {"idle", "fill", "countup", "reference", "wait",
                                           "waiting"}]
        /\ op' \in [Threads -> {"none", "add", "run", "remove", "removed"}]
        /\ routine' \in [Threads -> Routines \cup {NoRoutine}]
        /\ RoutineCount' \in Int /\ family' \in {"process", "thread", "image"}
    BY <1>2 DEF Run, Begin, Goto, NotifyTypes, HoldPCs
  <2> QED
    BY <2>1, <2>2, <2>3, <2>4, <2>5, <2>6 DEF NotifyTypes
<1>4. NotifyFrame(t, k)
  BY <1>1, <1>2 DEF Run, Begin, Goto, NotifyTypes, NotifyFrame
<1>5. NotifyLocals(t)'
  BY <1>1, <1>2, ConstantsAssumption
     DEF Run, Begin, Goto, NotifyTypes, SlotTypes, MemTypes, NotifyLocals, HoldPCs
<1>6. ASSUME NEW b \in Blocks PROVE Balance(t, k, b)
  BY <1>1, <1>2, ConstantsAssumption
     DEF Run, Begin, Goto, NotifyTypes, SlotTypes, MemTypes, NotifyLocals, HoldPCs, SlotInv,
         Balance,
         InWord, InHands, Holders
<1>7. ASSUME NEW b \in Blocks PROVE Claim(t, k, b)
  BY <1>1, <1>2, ConstantsAssumption
     DEF Run, Begin, Goto, NotifyTypes, SlotTypes, MemTypes, NotifyLocals, HoldPCs, OwnInv,
         SlotInv,
         FreeInv, Claim, Mine, Owns, InSlot, InHands, Holders
<1>8. slot'[k].block = NoBlock => slot'[k].refs = 0
  BY <1>1, <1>2, ConstantsAssumption
     DEF Run, Begin, Goto, NotifyTypes, SlotTypes, NotifyLocals, HoldPCs, SlotInv
<1>9. CountBalance(t, k)
  BY <1>1, <1>2, ConstantsAssumption
     DEF Run, Begin, Goto, NotifyTypes, SlotTypes, NotifyLocals, CountBalance, One, Used
<1> QED
  BY <1>3, <1>4, <1>5, <1>6, <1>7, <1>8, <1>9, NotifyStep DEF NotifyOK

(* A removal that begins. *)
LEMMA NotifyRemove ==
    ASSUME NotifyInv, NEW t \in Threads, NEW f \in Routines, Remove(t, f) PROVE NotifyInv'
<1>1. PICK k \in 1 .. MaxNotify : k = i[t]
  BY DEF NotifyInv, NotifyTypes
<1>2. NotifyTypes /\ NotifyLocals(t) /\ OwnInv /\ SlotInv /\ FreeInv
  BY DEF NotifyInv
<1>3. NotifyTypes'
  <2>1. slot' \in [1 .. MaxNotify -> SlotTypes]
    BY <1>2 DEF Remove, Begin, Goto, NotifyTypes
  <2>2. mem' \in [Blocks -> MemTypes]
    BY <1>2 DEF Remove, Begin, Goto, NotifyTypes
  <2>3. i' \in [Threads -> 1 .. MaxNotify]
    BY <1>2, ConstantsAssumption DEF Remove, Begin, Goto, NotifyTypes
  <2>4. Count' \in [Threads -> Nat]
    BY <1>2, ConstantsAssumption DEF Remove, Begin, Goto, NotifyTypes
  <2>5. CallBack' \in [Threads -> Blocks \cup {NoBlock}]
    BY <1>1, <1>2 DEF Remove, Begin, Goto, NotifyTypes, SlotTypes
  <2>6. /\ pc' \in [Threads -> HoldPCs \cup {"idle", "fill", "countup", "reference", "wait",
                                           "waiting"}]
        /\ op' \in [Threads -> {"none", "add", "run", "remove", "removed"}]
        /\ routine' \in [Threads -> Routines \cup {NoRoutine}]
        /\ RoutineCount' \in Int /\ family' \in {"process", "thread", "image"}
    BY <1>2 DEF Remove, Begin, Goto, NotifyTypes, HoldPCs
  <2> QED
    BY <2>1, <2>2, <2>3, <2>4, <2>5, <2>6 DEF NotifyTypes
<1>4. NotifyFrame(t, k)
  BY <1>1, <1>2 DEF Remove, Begin, Goto, NotifyTypes, NotifyFrame
<1>5. NotifyLocals(t)'
  BY <1>1, <1>2, ConstantsAssumption
     DEF Remove, Begin, Goto, NotifyTypes, SlotTypes, MemTypes, NotifyLocals, HoldPCs
<1>6. ASSUME NEW b \in Blocks PROVE Balance(t, k, b)
  BY <1>1, <1>2, ConstantsAssumption
     DEF Remove, Begin, Goto, NotifyTypes, SlotTypes, MemTypes, NotifyLocals, HoldPCs,
         SlotInv, Balance,
         InWord, InHands, Holders
<1>7. ASSUME NEW b \in Blocks PROVE Claim(t, k, b)
  BY <1>1, <1>2, ConstantsAssumption
     DEF Remove, Begin, Goto, NotifyTypes, SlotTypes, MemTypes, NotifyLocals, HoldPCs,
         OwnInv, SlotInv,
         FreeInv, Claim, Mine, Owns, InSlot, InHands, Holders
<1>8. slot'[k].block = NoBlock => slot'[k].refs = 0
  BY <1>1, <1>2, ConstantsAssumption
     DEF Remove, Begin, Goto, NotifyTypes, SlotTypes, NotifyLocals, HoldPCs, SlotInv
<1>9. CountBalance(t, k)
  BY <1>1, <1>2, ConstantsAssumption
     DEF Remove, Begin, Goto, NotifyTypes, SlotTypes, NotifyLocals, CountBalance, One, Used
<1> QED
  BY <1>3, <1>4, <1>5, <1>6, <1>7, <1>8, <1>9, NotifyStep DEF NotifyOK

(* A new block. *)
LEMMA NotifyAdd ==
    ASSUME NotifyInv, NEW t \in Threads, NEW f \in Routines, Add(t, f) PROVE NotifyInv'
<1>1. PICK k \in 1 .. MaxNotify : k = i[t]
  BY DEF NotifyInv, NotifyTypes
<1>2. NotifyTypes /\ NotifyLocals(t) /\ OwnInv /\ SlotInv /\ FreeInv
  BY DEF NotifyInv
<1>3. NotifyTypes'
  <2>1. slot' \in [1 .. MaxNotify -> SlotTypes]
    BY <1>2 DEF Add, Begin, Goto, Free, NotifyTypes
  <2>2. mem' \in [Blocks -> MemTypes]
    <3>1. \A b \in Blocks : [mem[b] EXCEPT !.function = f] \in MemTypes
      BY <1>2 DEF NotifyTypes, MemTypes
    <3> QED
      BY <1>2, <3>1 DEF Add, NotifyTypes
  <2>3. i' \in [Threads -> 1 .. MaxNotify]
    BY <1>2, ConstantsAssumption DEF Add, Begin, Goto, Free, NotifyTypes
  <2>4. Count' \in [Threads -> Nat]
    BY <1>2, ConstantsAssumption DEF Add, Begin, Goto, Free, NotifyTypes
  <2>5. CallBack' \in [Threads -> Blocks \cup {NoBlock}]
    BY <1>1, <1>2 DEF Add, Begin, Goto, Free, NotifyTypes, SlotTypes
  <2>6. /\ pc' \in [Threads -> HoldPCs \cup {"idle", "fill", "countup", "reference", "wait",
                                           "waiting"}]
        /\ op' \in [Threads -> {"none", "add", "run", "remove", "removed"}]
        /\ routine' \in [Threads -> Routines \cup {NoRoutine}]
        /\ RoutineCount' \in Int /\ family' \in {"process", "thread", "image"}
    BY <1>2 DEF Add, Begin, Goto, Free, NotifyTypes, HoldPCs
  <2> QED
    BY <2>1, <2>2, <2>3, <2>4, <2>5, <2>6 DEF NotifyTypes
<1>4. NotifyFrame(t, k)
  BY <1>1, <1>2 DEF Add, Begin, Goto, Free, NotifyTypes, NotifyFrame
<1>5. NotifyLocals(t)'
  BY <1>1, <1>2, ConstantsAssumption
     DEF Add, Begin, Goto, Free, NotifyTypes, SlotTypes, MemTypes, NotifyLocals, HoldPCs
<1>6. ASSUME NEW b \in Blocks PROVE Balance(t, k, b)
  BY <1>1, <1>2, ConstantsAssumption
     DEF Add, Begin, Goto, Free, NotifyTypes, SlotTypes, MemTypes, NotifyLocals, HoldPCs,
         SlotInv, Balance,
         InWord, InHands, Holders
<1>7. ASSUME NEW b \in Blocks PROVE Claim(t, k, b)
  BY <1>1, <1>2, ConstantsAssumption
     DEF Add, Begin, Goto, Free, NotifyTypes, SlotTypes, MemTypes, NotifyLocals, HoldPCs,
         OwnInv, SlotInv,
         FreeInv, Claim, Mine, Owns, InSlot, InHands, Holders
<1>8. slot'[k].block = NoBlock => slot'[k].refs = 0
  BY <1>1, <1>2, ConstantsAssumption
     DEF Add, Begin, Goto, Free, NotifyTypes, SlotTypes, NotifyLocals, HoldPCs, SlotInv
<1>9. CountBalance(t, k)
  BY <1>1, <1>2, ConstantsAssumption
     DEF Add, Begin, Goto, Free, NotifyTypes, SlotTypes, NotifyLocals, CountBalance, One, Used
<1> QED
  BY <1>3, <1>4, <1>5, <1>6, <1>7, <1>8, <1>9, NotifyStep DEF NotifyOK

(* A slot that is filled. *)
LEMMA NotifyFill ==
    ASSUME NotifyInv, NEW t \in Threads, Fill(t) PROVE NotifyInv'
<1>1. PICK k \in 1 .. MaxNotify : k = i[t]
  BY DEF NotifyInv, NotifyTypes
<1>2. NotifyTypes /\ NotifyLocals(t) /\ OwnInv /\ SlotInv /\ FreeInv
  BY DEF NotifyInv
<1>3. NotifyTypes'
  <2>1. slot' \in [1 .. MaxNotify -> SlotTypes]
    <3>1. [block |-> CallBack[t], refs |-> MaxFastRefs] \in SlotTypes
      BY <1>2, ConstantsAssumption DEF Fill, NotifyLocals, SlotTypes
    <3> QED
      BY <1>1, <1>2, <3>1 DEF Fill, NotifyTypes
  <2>2. mem' \in [Blocks -> MemTypes]
    <3>1. mem[CallBack[t]].refs + TakenInAdvance \in Int /\ CallBack[t] \in Blocks
      BY <1>2, ConstantsAssumption
         DEF Fill, TakenInAdvance, NotifyTypes, NotifyLocals, HoldPCs, MemTypes
    <3> QED
      BY <1>2, <3>1, MemRefs DEF Fill, NotifyTypes
  <2>3. i' \in [Threads -> 1 .. MaxNotify]
    BY <1>2, ConstantsAssumption DEF Fill, TakenInAdvance, Goto, NotifyTypes
  <2>4. Count' \in [Threads -> Nat]
    BY <1>2, ConstantsAssumption DEF Fill, TakenInAdvance, Goto, NotifyTypes
  <2>5. CallBack' \in [Threads -> Blocks \cup {NoBlock}]
    BY <1>1, <1>2 DEF Fill, TakenInAdvance, Goto, NotifyTypes, SlotTypes
  <2>6. /\ pc' \in [Threads -> HoldPCs \cup {"idle", "fill", "countup", "reference", "wait",
                                           "waiting"}]
        /\ op' \in [Threads -> {"none", "add", "run", "remove", "removed"}]
        /\ routine' \in [Threads -> Routines \cup {NoRoutine}]
        /\ RoutineCount' \in Int /\ family' \in {"process", "thread", "image"}
    BY <1>2 DEF Fill, TakenInAdvance, Goto, NotifyTypes, HoldPCs
  <2> QED
    BY <2>1, <2>2, <2>3, <2>4, <2>5, <2>6 DEF NotifyTypes
<1>4. NotifyFrame(t, k)
  BY <1>1, <1>2 DEF Fill, TakenInAdvance, Goto, NotifyTypes, NotifyFrame
<1>5. NotifyLocals(t)'
  BY <1>1, <1>2, ConstantsAssumption
     DEF Fill, TakenInAdvance, Goto, NotifyTypes, SlotTypes, MemTypes, NotifyLocals, HoldPCs
<1>6. ASSUME NEW b \in Blocks PROVE Balance(t, k, b)
  BY <1>1, <1>2, ConstantsAssumption
     DEF Fill, TakenInAdvance, Goto, NotifyTypes, SlotTypes, MemTypes, NotifyLocals,
         HoldPCs, SlotInv, Balance,
         InWord, InHands, Holders
<1>7. ASSUME NEW b \in Blocks PROVE Claim(t, k, b)
  BY <1>1, <1>2, ConstantsAssumption
     DEF Fill, TakenInAdvance, Goto, NotifyTypes, SlotTypes, MemTypes, NotifyLocals,
         HoldPCs, OwnInv, SlotInv,
         FreeInv, Claim, Mine, Owns, InSlot, InHands, Holders
<1>8. slot'[k].block = NoBlock => slot'[k].refs = 0
  BY <1>1, <1>2, ConstantsAssumption
     DEF Fill, TakenInAdvance, Goto, NotifyTypes, SlotTypes, NotifyLocals, HoldPCs, SlotInv
<1>9. CountBalance(t, k)
  BY <1>1, <1>2, ConstantsAssumption
     DEF Fill, TakenInAdvance, Goto, NotifyTypes, SlotTypes, NotifyLocals, CountBalance,
         One, Used
<1> QED
  BY <1>3, <1>4, <1>5, <1>6, <1>7, <1>8, <1>9, NotifyStep DEF NotifyOK

(* A slot that is taken. *)
LEMMA NotifySlotTaken ==
    ASSUME NotifyInv, NEW t \in Threads, SlotTaken(t) PROVE NotifyInv'
<1>1. PICK k \in 1 .. MaxNotify : k = i[t]
  BY DEF NotifyInv, NotifyTypes
<1>2. NotifyTypes /\ NotifyLocals(t) /\ OwnInv /\ SlotInv /\ FreeInv
  BY DEF NotifyInv
<1>3. NotifyTypes'
  <2>1. slot' \in [1 .. MaxNotify -> SlotTypes]
    BY <1>2 DEF SlotTaken, NextSlot, Return, Goto, Free, NotifyTypes
  <2>2. mem' \in [Blocks -> MemTypes]
    <3>1. Free \in MemTypes /\ CallBack[t] \in Blocks
      BY <1>2 DEF SlotTaken, Free, NotifyLocals, MemTypes
    <3> QED
      BY <1>2, <3>1 DEF SlotTaken, NotifyTypes
  <2>3. i' \in [Threads -> 1 .. MaxNotify]
    <3>1. NextSlot(t, "fill") \/ i' = i
      BY DEF SlotTaken, Dereferenced
    <3> QED
      BY <1>2, <3>1, NextSlotTypes
  <2>4. Count' \in [Threads -> Nat]
    BY <1>2, ConstantsAssumption DEF SlotTaken, NextSlot, Return, Goto, Free, NotifyTypes
  <2>5. CallBack' \in [Threads -> Blocks \cup {NoBlock}]
    BY <1>1, <1>2 DEF SlotTaken, NextSlot, Return, Goto, Free, NotifyTypes, SlotTypes
  <2>6. /\ pc' \in [Threads -> HoldPCs \cup {"idle", "fill", "countup", "reference", "wait",
                                           "waiting"}]
        /\ op' \in [Threads -> {"none", "add", "run", "remove", "removed"}]
        /\ routine' \in [Threads -> Routines \cup {NoRoutine}]
        /\ RoutineCount' \in Int /\ family' \in {"process", "thread", "image"}
    BY <1>2 DEF SlotTaken, NextSlot, Return, Goto, Free, NotifyTypes, HoldPCs
  <2> QED
    BY <2>1, <2>2, <2>3, <2>4, <2>5, <2>6 DEF NotifyTypes
<1>4. NotifyFrame(t, k)
  BY <1>1, <1>2 DEF SlotTaken, NextSlot, Return, Goto, Free, NotifyTypes, NotifyFrame
<1>5. NotifyLocals(t)'
  <2>1. CASE i[t] = MaxNotify
    BY <1>1, <1>2, <2>1, ConstantsAssumption
       DEF SlotTaken, NextSlot, Return, Goto, Free, NotifyTypes, NotifyLocals, HoldPCs
  <2>2. CASE i[t] # MaxNotify
    <3>1. mem' = mem /\ i[t] < MaxNotify
      BY <1>1, <1>2, <2>2, ConstantsAssumption DEF SlotTaken, NotifyTypes
    <3>2. /\ pc'[t] = "fill"
          /\ CallBack'[t] \in {CallBack[t], NoBlock}
          /\ op' = op
          /\ Count' = Count
      BY <1>2, <3>1 DEF SlotTaken, NextSlot, Goto, NotifyTypes
    <3>3. CallBack'[t] = CallBack[t]
      BY <1>2, <3>1 DEF SlotTaken, NextSlot, NotifyTypes, NotifyLocals
    <3> QED
      BY <1>2, <3>1, <3>2, <3>3 DEF SlotTaken, NotifyLocals, HoldPCs
  <2> QED
    BY <2>1, <2>2
<1>6. ASSUME NEW b \in Blocks PROVE Balance(t, k, b)
  BY <1>1, <1>2, ConstantsAssumption
     DEF SlotTaken, NextSlot, Return, Goto, Free, NotifyTypes, SlotTypes, MemTypes,
         NotifyLocals, HoldPCs, SlotInv, Balance,
         InWord, InHands, Holders
<1>7. ASSUME NEW b \in Blocks PROVE Claim(t, k, b)
  BY <1>1, <1>2, ConstantsAssumption
     DEF SlotTaken, NextSlot, Return, Goto, Free, NotifyTypes, SlotTypes, MemTypes,
         NotifyLocals, HoldPCs, OwnInv, SlotInv,
         FreeInv, Claim, Mine, Owns, InSlot, InHands, Holders
<1>8. slot'[k].block = NoBlock => slot'[k].refs = 0
  BY <1>1, <1>2, ConstantsAssumption
     DEF SlotTaken, NextSlot, Return, Goto, Free, NotifyTypes, SlotTypes, NotifyLocals,
         HoldPCs, SlotInv
<1>9. CountBalance(t, k)
  BY <1>1, <1>2, ConstantsAssumption
     DEF SlotTaken, NextSlot, Return, Goto, Free, NotifyTypes, SlotTypes, NotifyLocals,
         CountBalance, One, Used
<1> QED
  BY <1>3, <1>4, <1>5, <1>6, <1>7, <1>8, <1>9, NotifyStep DEF NotifyOK

(* A routine that is counted. *)
LEMMA NotifyCountUp ==
    ASSUME NotifyInv, NEW t \in Threads, CountUp(t) PROVE NotifyInv'
<1>1. PICK k \in 1 .. MaxNotify : k = i[t]
  BY DEF NotifyInv, NotifyTypes
<1>2. NotifyTypes /\ NotifyLocals(t) /\ OwnInv /\ SlotInv /\ FreeInv
  BY DEF NotifyInv
<1>3. NotifyTypes'
  <2>1. slot' \in [1 .. MaxNotify -> SlotTypes]
    BY <1>2 DEF CountUp, Return, Goto, NotifyTypes
  <2>2. mem' \in [Blocks -> MemTypes]
    BY <1>2 DEF CountUp, Return, Goto, NotifyTypes
  <2>3. i' \in [Threads -> 1 .. MaxNotify]
    BY <1>2, ConstantsAssumption DEF CountUp, Return, Goto, NotifyTypes
  <2>4. Count' \in [Threads -> Nat]
    BY <1>2, ConstantsAssumption DEF CountUp, Return, Goto, NotifyTypes
  <2>5. CallBack' \in [Threads -> Blocks \cup {NoBlock}]
    BY <1>1, <1>2 DEF CountUp, Return, Goto, NotifyTypes, SlotTypes
  <2>6. /\ pc' \in [Threads -> HoldPCs \cup {"idle", "fill", "countup", "reference", "wait",
                                           "waiting"}]
        /\ op' \in [Threads -> {"none", "add", "run", "remove", "removed"}]
        /\ routine' \in [Threads -> Routines \cup {NoRoutine}]
        /\ RoutineCount' \in Int /\ family' \in {"process", "thread", "image"}
    BY <1>2 DEF CountUp, Return, Goto, NotifyTypes, HoldPCs
  <2> QED
    BY <2>1, <2>2, <2>3, <2>4, <2>5, <2>6 DEF NotifyTypes
<1>4. NotifyFrame(t, k)
  BY <1>1, <1>2 DEF CountUp, Return, Goto, NotifyTypes, NotifyFrame
<1>5. NotifyLocals(t)'
  BY <1>1, <1>2, ConstantsAssumption
     DEF CountUp, Return, Goto, NotifyTypes, SlotTypes, MemTypes, NotifyLocals, HoldPCs
<1>6. ASSUME NEW b \in Blocks PROVE Balance(t, k, b)
  BY <1>1, <1>2, ConstantsAssumption
     DEF CountUp, Return, Goto, NotifyTypes, SlotTypes, MemTypes, NotifyLocals, HoldPCs,
         SlotInv, Balance,
         InWord, InHands, Holders
<1>7. ASSUME NEW b \in Blocks PROVE Claim(t, k, b)
  BY <1>1, <1>2, ConstantsAssumption
     DEF CountUp, Return, Goto, NotifyTypes, SlotTypes, MemTypes, NotifyLocals, HoldPCs,
         OwnInv, SlotInv,
         FreeInv, Claim, Mine, Owns, InSlot, InHands, Holders
<1>8. slot'[k].block = NoBlock => slot'[k].refs = 0
  BY <1>1, <1>2, ConstantsAssumption
     DEF CountUp, Return, Goto, NotifyTypes, SlotTypes, NotifyLocals, HoldPCs, SlotInv
<1>9. CountBalance(t, k)
  <2>1. pc[t] = "countup" /\ pc'[t] = "idle" /\ slot' = slot
    BY <1>2 DEF CountUp, Return, Goto, NotifyTypes
  <2>2. RoutineCount' = RoutineCount + 1 /\ RoutineCount \in Int
    BY <1>2 DEF CountUp, NotifyTypes
  <2> QED
    BY <2>1, <2>2 DEF CountBalance, One, Used
<1> QED
  BY <1>3, <1>4, <1>5, <1>6, <1>7, <1>8, <1>9, NotifyStep DEF NotifyOK

(* A slot that is passed over. *)
LEMMA NotifySkip ==
    ASSUME NotifyInv, NEW t \in Threads, Skip(t) PROVE NotifyInv'
<1>1. PICK k \in 1 .. MaxNotify : k = i[t]
  BY DEF NotifyInv, NotifyTypes
<1>2. NotifyTypes /\ NotifyLocals(t) /\ OwnInv /\ SlotInv /\ FreeInv
  BY DEF NotifyInv
<1>3. NotifyTypes'
  <2>1. slot' \in [1 .. MaxNotify -> SlotTypes]
    BY <1>2 DEF Skip, NextSlot, Return, Goto, NotifyTypes
  <2>2. mem' \in [Blocks -> MemTypes]
    BY <1>2 DEF Skip, NextSlot, Return, Goto, NotifyTypes
  <2>3. i' \in [Threads -> 1 .. MaxNotify]
    <3>1. NextSlot(t, "reference") \/ i' = i
      BY DEF Skip, Dereferenced
    <3> QED
      BY <1>2, <3>1, NextSlotTypes
  <2>4. Count' \in [Threads -> Nat]
    BY <1>2, ConstantsAssumption DEF Skip, NextSlot, Return, Goto, NotifyTypes
  <2>5. CallBack' \in [Threads -> Blocks \cup {NoBlock}]
    BY <1>1, <1>2 DEF Skip, NextSlot, Return, Goto, NotifyTypes, SlotTypes
  <2>6. /\ pc' \in [Threads -> HoldPCs \cup {"idle", "fill", "countup", "reference", "wait",
                                           "waiting"}]
        /\ op' \in [Threads -> {"none", "add", "run", "remove", "removed"}]
        /\ routine' \in [Threads -> Routines \cup {NoRoutine}]
        /\ RoutineCount' \in Int /\ family' \in {"process", "thread", "image"}
    BY <1>2 DEF Skip, NextSlot, Return, Goto, NotifyTypes, HoldPCs
  <2> QED
    BY <2>1, <2>2, <2>3, <2>4, <2>5, <2>6 DEF NotifyTypes
<1>4. NotifyFrame(t, k)
  BY <1>1, <1>2 DEF Skip, NextSlot, Return, Goto, NotifyTypes, NotifyFrame
<1>5. NotifyLocals(t)'
  BY <1>1, <1>2, ConstantsAssumption
     DEF Skip, NextSlot, Return, Goto, NotifyTypes, SlotTypes, MemTypes, NotifyLocals, HoldPCs
<1>6. ASSUME NEW b \in Blocks PROVE Balance(t, k, b)
  BY <1>1, <1>2, ConstantsAssumption
     DEF Skip, NextSlot, Return, Goto, NotifyTypes, SlotTypes, MemTypes, NotifyLocals,
         HoldPCs, SlotInv, Balance,
         InWord, InHands, Holders
<1>7. ASSUME NEW b \in Blocks PROVE Claim(t, k, b)
  BY <1>1, <1>2, ConstantsAssumption
     DEF Skip, NextSlot, Return, Goto, NotifyTypes, SlotTypes, MemTypes, NotifyLocals,
         HoldPCs, OwnInv, SlotInv,
         FreeInv, Claim, Mine, Owns, InSlot, InHands, Holders
<1>8. slot'[k].block = NoBlock => slot'[k].refs = 0
  BY <1>1, <1>2, ConstantsAssumption
     DEF Skip, NextSlot, Return, Goto, NotifyTypes, SlotTypes, NotifyLocals, HoldPCs,
         SlotInv
<1>9. CountBalance(t, k)
  BY <1>1, <1>2, ConstantsAssumption
     DEF Skip, NextSlot, Return, Goto, NotifyTypes, SlotTypes, NotifyLocals, CountBalance,
         One, Used
<1> QED
  BY <1>3, <1>4, <1>5, <1>6, <1>7, <1>8, <1>9, NotifyStep DEF NotifyOK

(* A reference taken from a word. *)
LEMMA NotifyReference ==
    ASSUME NotifyInv, NEW t \in Threads, Reference(t) PROVE NotifyInv'
<1>1. PICK k \in 1 .. MaxNotify : k = i[t]
  BY DEF NotifyInv, NotifyTypes
<1>2. NotifyTypes /\ NotifyLocals(t) /\ OwnInv /\ SlotInv /\ FreeInv
  BY DEF NotifyInv
<1>3. NotifyTypes'
  <2>1. slot' \in [1 .. MaxNotify -> SlotTypes]
    <3>1. slot[k].refs - 1 \in 0 .. MaxFastRefs
      BY <1>1, <1>2, ConstantsAssumption DEF Reference, NotifyTypes, SlotTypes
    <3> QED
      BY <1>1, <1>2, <3>1, SlotRefs DEF Reference
  <2>2. mem' \in [Blocks -> MemTypes]
    BY <1>2 DEF Reference, Goto, NotifyTypes
  <2>3. i' \in [Threads -> 1 .. MaxNotify]
    BY <1>2, ConstantsAssumption DEF Reference, Goto, NotifyTypes
  <2>4. Count' \in [Threads -> Nat]
    BY <1>2, ConstantsAssumption DEF Reference, Goto, NotifyTypes
  <2>5. CallBack' \in [Threads -> Blocks \cup {NoBlock}]
    BY <1>1, <1>2 DEF Reference, Goto, NotifyTypes, SlotTypes
  <2>6. /\ pc' \in [Threads -> HoldPCs \cup {"idle", "fill", "countup", "reference", "wait",
                                           "waiting"}]
        /\ op' \in [Threads -> {"none", "add", "run", "remove", "removed"}]
        /\ routine' \in [Threads -> Routines \cup {NoRoutine}]
        /\ RoutineCount' \in Int /\ family' \in {"process", "thread", "image"}
    BY <1>2 DEF Reference, Goto, NotifyTypes, HoldPCs
  <2> QED
    BY <2>1, <2>2, <2>3, <2>4, <2>5, <2>6 DEF NotifyTypes
<1>4. NotifyFrame(t, k)
  BY <1>1, <1>2 DEF Reference, Goto, NotifyTypes, NotifyFrame
<1>5. NotifyLocals(t)'
  BY <1>1, <1>2, ConstantsAssumption
     DEF Reference, Goto, NotifyTypes, SlotTypes, MemTypes, NotifyLocals, HoldPCs
<1>6. ASSUME NEW b \in Blocks PROVE Balance(t, k, b)
  BY <1>1, <1>2, ConstantsAssumption
     DEF Reference, Goto, NotifyTypes, SlotTypes, MemTypes, NotifyLocals, HoldPCs, SlotInv,
         Balance,
         InWord, InHands, Holders
<1>7. ASSUME NEW b \in Blocks PROVE Claim(t, k, b)
  BY <1>1, <1>2, ConstantsAssumption
     DEF Reference, Goto, NotifyTypes, SlotTypes, MemTypes, NotifyLocals, HoldPCs, OwnInv,
         SlotInv,
         FreeInv, Claim, Mine, Owns, InSlot, InHands, Holders
<1>8. slot'[k].block = NoBlock => slot'[k].refs = 0
  BY <1>1, <1>2, ConstantsAssumption
     DEF Reference, Goto, NotifyTypes, SlotTypes, NotifyLocals, HoldPCs, SlotInv
<1>9. CountBalance(t, k)
  BY <1>1, <1>2, ConstantsAssumption
     DEF Reference, Goto, NotifyTypes, SlotTypes, NotifyLocals, CountBalance, One, Used
<1> QED
  BY <1>3, <1>4, <1>5, <1>6, <1>7, <1>8, <1>9, NotifyStep DEF NotifyOK

(* New references for a word. *)
LEMMA NotifyRefill ==
    ASSUME NotifyInv, NEW t \in Threads, Refill(t) PROVE NotifyInv'
<1>1. PICK k \in 1 .. MaxNotify : k = i[t]
  BY DEF NotifyInv, NotifyTypes
<1>2. NotifyTypes /\ NotifyLocals(t) /\ OwnInv /\ SlotInv /\ FreeInv
  BY DEF NotifyInv
<1>3. NotifyTypes'
  <2>1. slot' \in [1 .. MaxNotify -> SlotTypes]
    BY <1>2 DEF Refill, Goto, NotifyTypes
  <2>2. mem' \in [Blocks -> MemTypes]
    <3>1. mem[CallBack[t]].refs + MaxFastRefs \in Int /\ CallBack[t] \in Blocks
      BY <1>2, ConstantsAssumption DEF Refill, NotifyTypes, NotifyLocals, HoldPCs, MemTypes
    <3> QED
      BY <1>2, <3>1, MemRefs DEF Refill, NotifyTypes
  <2>3. i' \in [Threads -> 1 .. MaxNotify]
    BY <1>2, ConstantsAssumption DEF Refill, Goto, NotifyTypes
  <2>4. Count' \in [Threads -> Nat]
    BY <1>2, ConstantsAssumption DEF Refill, Goto, NotifyTypes
  <2>5. CallBack' \in [Threads -> Blocks \cup {NoBlock}]
    BY <1>1, <1>2 DEF Refill, Goto, NotifyTypes, SlotTypes
  <2>6. /\ pc' \in [Threads -> HoldPCs \cup {"idle", "fill", "countup", "reference", "wait",
                                           "waiting"}]
        /\ op' \in [Threads -> {"none", "add", "run", "remove", "removed"}]
        /\ routine' \in [Threads -> Routines \cup {NoRoutine}]
        /\ RoutineCount' \in Int /\ family' \in {"process", "thread", "image"}
    BY <1>2 DEF Refill, Goto, NotifyTypes, HoldPCs
  <2> QED
    BY <2>1, <2>2, <2>3, <2>4, <2>5, <2>6 DEF NotifyTypes
<1>4. NotifyFrame(t, k)
  BY <1>1, <1>2 DEF Refill, Goto, NotifyTypes, NotifyFrame
<1>5. NotifyLocals(t)'
  BY <1>1, <1>2, ConstantsAssumption
     DEF Refill, Goto, NotifyTypes, SlotTypes, MemTypes, NotifyLocals, HoldPCs
<1>6. ASSUME NEW b \in Blocks PROVE Balance(t, k, b)
  BY <1>1, <1>2, ConstantsAssumption
     DEF Refill, Goto, NotifyTypes, SlotTypes, MemTypes, NotifyLocals, HoldPCs, SlotInv,
         Balance,
         InWord, InHands, Holders
<1>7. ASSUME NEW b \in Blocks PROVE Claim(t, k, b)
  <2>1. CallBack[t] \in Blocks /\ pc[t] \in HoldPCs
    BY <1>2 DEF Refill, HoldPCs, NotifyLocals
  <2>2. InHands(t, CallBack[t]) > 0 /\ mem[CallBack[t]].function # NoRoutine
    BY <1>2, <2>1, HandsFull, HolderAlive
  <2> QED
    BY <1>1, <1>2, <2>1, <2>2, ConstantsAssumption
       DEF Refill, Goto, NotifyTypes, SlotTypes, MemTypes, NotifyLocals, HoldPCs, OwnInv,
           SlotInv, FreeInv, Claim, Mine, Owns, InSlot
<1>8. slot'[k].block = NoBlock => slot'[k].refs = 0
  BY <1>1, <1>2, ConstantsAssumption
     DEF Refill, Goto, NotifyTypes, SlotTypes, NotifyLocals, HoldPCs, SlotInv
<1>9. CountBalance(t, k)
  BY <1>1, <1>2, ConstantsAssumption
     DEF Refill, Goto, NotifyTypes, SlotTypes, NotifyLocals, CountBalance, One, Used
<1> QED
  BY <1>3, <1>4, <1>5, <1>6, <1>7, <1>8, <1>9, NotifyStep DEF NotifyOK

(* References put into a word, or not. *)
LEMMA NotifyInsert ==
    ASSUME NotifyInv, NEW t \in Threads, Insert(t) PROVE NotifyInv'
<1>1. PICK k \in 1 .. MaxNotify : k = i[t]
  BY DEF NotifyInv, NotifyTypes
<1>2. NotifyTypes /\ NotifyLocals(t) /\ OwnInv /\ SlotInv /\ FreeInv
  BY DEF NotifyInv
<1>3. NotifyTypes'
  <2>1. slot' \in [1 .. MaxNotify -> SlotTypes]
    <3>1. MaxFastRefs \in 0 .. MaxFastRefs
      BY ConstantsAssumption
    <3>2. [slot EXCEPT ![k].refs = MaxFastRefs] \in [1 .. MaxNotify -> SlotTypes]
      BY <1>2, <3>1, SlotRefs
    <3>3. slot' = slot \/ slot' = [slot EXCEPT ![k].refs = MaxFastRefs]
      BY <1>1 DEF Insert
    <3> QED
      BY <1>2, <3>2, <3>3 DEF NotifyTypes
  <2>2. mem' \in [Blocks -> MemTypes]
    BY <1>2 DEF Insert, Inserts, Goto, NotifyTypes
  <2>3. i' \in [Threads -> 1 .. MaxNotify]
    BY <1>2, ConstantsAssumption DEF Insert, Inserts, Goto, NotifyTypes
  <2>4. Count' \in [Threads -> Nat]
    <3>1. Count' = Count \/ Count' = [Count EXCEPT ![t] = 0]
      BY DEF Insert
    <3> QED
      BY <1>2, <3>1 DEF NotifyTypes
  <2>5. CallBack' \in [Threads -> Blocks \cup {NoBlock}]
    BY <1>1, <1>2 DEF Insert, Inserts, Goto, NotifyTypes, SlotTypes
  <2>6. /\ pc' \in [Threads -> HoldPCs \cup {"idle", "fill", "countup", "reference", "wait",
                                           "waiting"}]
        /\ op' \in [Threads -> {"none", "add", "run", "remove", "removed"}]
        /\ routine' \in [Threads -> Routines \cup {NoRoutine}]
        /\ RoutineCount' \in Int /\ family' \in {"process", "thread", "image"}
    BY <1>2 DEF Insert, Inserts, Goto, NotifyTypes, HoldPCs
  <2> QED
    BY <2>1, <2>2, <2>3, <2>4, <2>5, <2>6 DEF NotifyTypes
<1>4. NotifyFrame(t, k)
  BY <1>1, <1>2 DEF Insert, Inserts, Goto, NotifyTypes, NotifyFrame
<1>5. NotifyLocals(t)'
  BY <1>1, <1>2, ConstantsAssumption
     DEF Insert, Inserts, Goto, NotifyTypes, SlotTypes, MemTypes, NotifyLocals, HoldPCs
<1>6. ASSUME NEW b \in Blocks PROVE Balance(t, k, b)
  BY <1>1, <1>2, ConstantsAssumption
     DEF Insert, Inserts, Goto, NotifyTypes, SlotTypes, MemTypes, NotifyLocals, HoldPCs,
         SlotInv, Balance,
         InWord, InHands, Holders
<1>7. ASSUME NEW b \in Blocks PROVE Claim(t, k, b)
  BY <1>1, <1>2, ConstantsAssumption
     DEF Insert, Inserts, Goto, NotifyTypes, SlotTypes, MemTypes, NotifyLocals, HoldPCs,
         OwnInv, SlotInv,
         FreeInv, Claim, Mine, Owns, InSlot, InHands, Holders
<1>8. slot'[k].block = NoBlock => slot'[k].refs = 0
  BY <1>1, <1>2, ConstantsAssumption
     DEF Insert, Inserts, Goto, NotifyTypes, SlotTypes, NotifyLocals, HoldPCs, SlotInv
<1>9. CountBalance(t, k)
  BY <1>1, <1>2, ConstantsAssumption
     DEF Insert, Inserts, Goto, NotifyTypes, SlotTypes, NotifyLocals, CountBalance, One, Used
<1> QED
  BY <1>3, <1>4, <1>5, <1>6, <1>7, <1>8, <1>9, NotifyStep DEF NotifyOK

(* References given back. *)
LEMMA NotifyBackdown ==
    ASSUME NotifyInv, NEW t \in Threads, Backdown(t) PROVE NotifyInv'
<1>1. PICK k \in 1 .. MaxNotify : k = i[t]
  BY DEF NotifyInv, NotifyTypes
<1>2. NotifyTypes /\ NotifyLocals(t) /\ OwnInv /\ SlotInv /\ FreeInv
  BY DEF NotifyInv
<1>3. NotifyTypes'
  <2>1. slot' \in [1 .. MaxNotify -> SlotTypes]
    BY <1>2 DEF Backdown, GiveBack, Goto, NotifyTypes
  <2>2. mem' \in [Blocks -> MemTypes]
    <3>1. mem[CallBack[t]].refs - Count[t] \in Int /\ CallBack[t] \in Blocks
      BY <1>2, ConstantsAssumption
         DEF Backdown, GiveBack, NotifyTypes, NotifyLocals, HoldPCs, MemTypes
    <3> QED
      BY <1>2, <3>1, MemRefs DEF Backdown, GiveBack, NotifyTypes
  <2>3. i' \in [Threads -> 1 .. MaxNotify]
    BY <1>2, ConstantsAssumption DEF Backdown, GiveBack, Goto, NotifyTypes
  <2>4. Count' \in [Threads -> Nat]
    BY <1>2, ConstantsAssumption DEF Backdown, GiveBack, Goto, NotifyTypes
  <2>5. CallBack' \in [Threads -> Blocks \cup {NoBlock}]
    BY <1>1, <1>2 DEF Backdown, GiveBack, Goto, NotifyTypes, SlotTypes
  <2>6. /\ pc' \in [Threads -> HoldPCs \cup {"idle", "fill", "countup", "reference", "wait",
                                           "waiting"}]
        /\ op' \in [Threads -> {"none", "add", "run", "remove", "removed"}]
        /\ routine' \in [Threads -> Routines \cup {NoRoutine}]
        /\ RoutineCount' \in Int /\ family' \in {"process", "thread", "image"}
    BY <1>2 DEF Backdown, GiveBack, Goto, NotifyTypes, HoldPCs
  <2> QED
    BY <2>1, <2>2, <2>3, <2>4, <2>5, <2>6 DEF NotifyTypes
<1>4. NotifyFrame(t, k)
  BY <1>1, <1>2 DEF Backdown, GiveBack, Goto, NotifyTypes, NotifyFrame
<1>5. NotifyLocals(t)'
  BY <1>1, <1>2, ConstantsAssumption
     DEF Backdown, GiveBack, Goto, NotifyTypes, SlotTypes, MemTypes, NotifyLocals, HoldPCs
<1>6. ASSUME NEW b \in Blocks PROVE Balance(t, k, b)
  BY <1>1, <1>2, ConstantsAssumption
     DEF Backdown, GiveBack, Goto, NotifyTypes, SlotTypes, MemTypes, NotifyLocals, HoldPCs,
         SlotInv, Balance,
         InWord, InHands, Holders
<1>7. ASSUME NEW b \in Blocks PROVE Claim(t, k, b)
  <2>1. CallBack[t] \in Blocks /\ pc[t] \in HoldPCs
    BY <1>2 DEF Backdown, HoldPCs, NotifyLocals
  <2>2. InHands(t, CallBack[t]) > 0 /\ mem[CallBack[t]].function # NoRoutine
    BY <1>2, <2>1, HandsFull, HolderAlive
  <2> QED
    BY <1>1, <1>2, <2>1, <2>2, ConstantsAssumption
       DEF Backdown, GiveBack, Goto, NotifyTypes, SlotTypes, MemTypes, NotifyLocals,
           HoldPCs, OwnInv,
           SlotInv, FreeInv, Claim, Mine, Owns, InSlot
<1>8. slot'[k].block = NoBlock => slot'[k].refs = 0
  BY <1>1, <1>2, ConstantsAssumption
     DEF Backdown, GiveBack, Goto, NotifyTypes, SlotTypes, NotifyLocals, HoldPCs, SlotInv
<1>9. CountBalance(t, k)
  BY <1>1, <1>2, ConstantsAssumption
     DEF Backdown, GiveBack, Goto, NotifyTypes, SlotTypes, NotifyLocals, CountBalance, One,
         Used
<1> QED
  BY <1>3, <1>4, <1>5, <1>6, <1>7, <1>8, <1>9, NotifyStep DEF NotifyOK

(* A routine that runs. *)
LEMMA NotifyUse ==
    ASSUME NotifyInv, NEW t \in Threads, Use(t) PROVE NotifyInv'
<1>1. PICK k \in 1 .. MaxNotify : k = i[t]
  BY DEF NotifyInv, NotifyTypes
<1>2. NotifyTypes /\ NotifyLocals(t) /\ OwnInv /\ SlotInv /\ FreeInv
  BY DEF NotifyInv
<1>3. NotifyTypes'
  <2>1. slot' \in [1 .. MaxNotify -> SlotTypes]
    BY <1>2 DEF Use, Goto, NotifyTypes
  <2>2. mem' \in [Blocks -> MemTypes]
    BY <1>2 DEF Use, Goto, NotifyTypes
  <2>3. i' \in [Threads -> 1 .. MaxNotify]
    BY <1>2, ConstantsAssumption DEF Use, Goto, NotifyTypes
  <2>4. Count' \in [Threads -> Nat]
    BY <1>2, ConstantsAssumption DEF Use, Goto, NotifyTypes
  <2>5. CallBack' \in [Threads -> Blocks \cup {NoBlock}]
    BY <1>1, <1>2 DEF Use, Goto, NotifyTypes, SlotTypes
  <2>6. /\ pc' \in [Threads -> HoldPCs \cup {"idle", "fill", "countup", "reference", "wait",
                                           "waiting"}]
        /\ op' \in [Threads -> {"none", "add", "run", "remove", "removed"}]
        /\ routine' \in [Threads -> Routines \cup {NoRoutine}]
        /\ RoutineCount' \in Int /\ family' \in {"process", "thread", "image"}
    BY <1>2 DEF Use, Goto, NotifyTypes, HoldPCs
  <2> QED
    BY <2>1, <2>2, <2>3, <2>4, <2>5, <2>6 DEF NotifyTypes
<1>4. NotifyFrame(t, k)
  BY <1>1, <1>2 DEF Use, Goto, NotifyTypes, NotifyFrame
<1>5. NotifyLocals(t)'
  BY <1>1, <1>2, ConstantsAssumption
     DEF Use, Goto, NotifyTypes, SlotTypes, MemTypes, NotifyLocals, HoldPCs
<1>6. ASSUME NEW b \in Blocks PROVE Balance(t, k, b)
  BY <1>1, <1>2, ConstantsAssumption
     DEF Use, Goto, NotifyTypes, SlotTypes, MemTypes, NotifyLocals, HoldPCs, SlotInv, Balance,
         InWord, InHands, Holders
<1>7. ASSUME NEW b \in Blocks PROVE Claim(t, k, b)
  BY <1>1, <1>2, ConstantsAssumption
     DEF Use, Goto, NotifyTypes, SlotTypes, MemTypes, NotifyLocals, HoldPCs, OwnInv, SlotInv,
         FreeInv, Claim, Mine, Owns, InSlot, InHands, Holders
<1>8. slot'[k].block = NoBlock => slot'[k].refs = 0
  BY <1>1, <1>2, ConstantsAssumption
     DEF Use, Goto, NotifyTypes, SlotTypes, NotifyLocals, HoldPCs, SlotInv
<1>9. CountBalance(t, k)
  BY <1>1, <1>2, ConstantsAssumption
     DEF Use, Goto, NotifyTypes, SlotTypes, NotifyLocals, CountBalance, One, Used
<1> QED
  BY <1>3, <1>4, <1>5, <1>6, <1>7, <1>8, <1>9, NotifyStep DEF NotifyOK

(* A routine looked at by a removal. *)
LEMMA NotifyCompare ==
    ASSUME NotifyInv, NEW t \in Threads, Compare(t) PROVE NotifyInv'
<1>1. PICK k \in 1 .. MaxNotify : k = i[t]
  BY DEF NotifyInv, NotifyTypes
<1>2. NotifyTypes /\ NotifyLocals(t) /\ OwnInv /\ SlotInv /\ FreeInv
  BY DEF NotifyInv
<1>3. NotifyTypes'
  <2>1. slot' \in [1 .. MaxNotify -> SlotTypes]
    BY <1>2 DEF Compare, NextSlot, Return, Goto, NotifyTypes
  <2>2. mem' \in [Blocks -> MemTypes]
    BY <1>2 DEF Compare, NextSlot, Return, Goto, NotifyTypes
  <2>3. i' \in [Threads -> 1 .. MaxNotify]
    <3>1. NextSlot(t, "reference") \/ i' = i
      BY DEF Compare, Dereferenced
    <3> QED
      BY <1>2, <3>1, NextSlotTypes
  <2>4. Count' \in [Threads -> Nat]
    BY <1>2, ConstantsAssumption DEF Compare, NextSlot, Return, Goto, NotifyTypes
  <2>5. CallBack' \in [Threads -> Blocks \cup {NoBlock}]
    BY <1>1, <1>2 DEF Compare, NextSlot, Return, Goto, NotifyTypes, SlotTypes
  <2>6. /\ pc' \in [Threads -> HoldPCs \cup {"idle", "fill", "countup", "reference", "wait",
                                           "waiting"}]
        /\ op' \in [Threads -> {"none", "add", "run", "remove", "removed"}]
        /\ routine' \in [Threads -> Routines \cup {NoRoutine}]
        /\ RoutineCount' \in Int /\ family' \in {"process", "thread", "image"}
    BY <1>2 DEF Compare, NextSlot, Return, Goto, NotifyTypes, HoldPCs
  <2> QED
    BY <2>1, <2>2, <2>3, <2>4, <2>5, <2>6 DEF NotifyTypes
<1>4. NotifyFrame(t, k)
  BY <1>1, <1>2 DEF Compare, NextSlot, Return, Goto, NotifyTypes, NotifyFrame
<1>5. NotifyLocals(t)'
  BY <1>1, <1>2, ConstantsAssumption
     DEF Compare, NextSlot, Return, Goto, NotifyTypes, SlotTypes, MemTypes, NotifyLocals,
         HoldPCs
<1>6. ASSUME NEW b \in Blocks PROVE Balance(t, k, b)
  BY <1>1, <1>2, ConstantsAssumption
     DEF Compare, NextSlot, Return, Goto, NotifyTypes, SlotTypes, MemTypes, NotifyLocals,
         HoldPCs, SlotInv, Balance,
         InWord, InHands, Holders
<1>7. ASSUME NEW b \in Blocks PROVE Claim(t, k, b)
  BY <1>1, <1>2, ConstantsAssumption
     DEF Compare, NextSlot, Return, Goto, NotifyTypes, SlotTypes, MemTypes, NotifyLocals,
         HoldPCs, OwnInv, SlotInv,
         FreeInv, Claim, Mine, Owns, InSlot, InHands, Holders
<1>8. slot'[k].block = NoBlock => slot'[k].refs = 0
  BY <1>1, <1>2, ConstantsAssumption
     DEF Compare, NextSlot, Return, Goto, NotifyTypes, SlotTypes, NotifyLocals, HoldPCs,
         SlotInv
<1>9. CountBalance(t, k)
  BY <1>1, <1>2, ConstantsAssumption
     DEF Compare, NextSlot, Return, Goto, NotifyTypes, SlotTypes, NotifyLocals,
         CountBalance, One, Used
<1> QED
  BY <1>3, <1>4, <1>5, <1>6, <1>7, <1>8, <1>9, NotifyStep DEF NotifyOK

(* A block taken out of its slot. *)
LEMMA NotifySwap ==
    ASSUME NotifyInv, NEW t \in Threads, Swap(t) PROVE NotifyInv'
<1>1. PICK k \in 1 .. MaxNotify : k = i[t]
  BY DEF NotifyInv, NotifyTypes
<1>2. NotifyTypes /\ NotifyLocals(t) /\ OwnInv /\ SlotInv /\ FreeInv
  BY DEF NotifyInv
<1>3. NotifyTypes'
  <2>1. slot' \in [1 .. MaxNotify -> SlotTypes]
    <3>1. EmptySlot \in SlotTypes
      BY ConstantsAssumption DEF EmptySlot, SlotTypes
    <3> QED
      BY <1>1, <1>2, <3>1 DEF Swap, NotifyTypes
  <2>2. mem' \in [Blocks -> MemTypes]
    BY <1>2 DEF Swap, ToGiveBack, EmptySlot, Goto, NotifyTypes
  <2>3. i' \in [Threads -> 1 .. MaxNotify]
    BY <1>2, ConstantsAssumption DEF Swap, ToGiveBack, EmptySlot, Goto, NotifyTypes
  <2>4. Count' \in [Threads -> Nat]
    <3>1. slot[k].refs + 1 \in Nat
      BY <1>1, <1>2, ConstantsAssumption DEF NotifyTypes, SlotTypes
    <3> QED
      BY <1>1, <1>2, <3>1 DEF Swap, ToGiveBack, NotifyTypes
  <2>5. CallBack' \in [Threads -> Blocks \cup {NoBlock}]
    BY <1>1, <1>2 DEF Swap, ToGiveBack, EmptySlot, Goto, NotifyTypes, SlotTypes
  <2>6. /\ pc' \in [Threads -> HoldPCs \cup {"idle", "fill", "countup", "reference", "wait",
                                           "waiting"}]
        /\ op' \in [Threads -> {"none", "add", "run", "remove", "removed"}]
        /\ routine' \in [Threads -> Routines \cup {NoRoutine}]
        /\ RoutineCount' \in Int /\ family' \in {"process", "thread", "image"}
    BY <1>2 DEF Swap, ToGiveBack, EmptySlot, Goto, NotifyTypes, HoldPCs
  <2> QED
    BY <2>1, <2>2, <2>3, <2>4, <2>5, <2>6 DEF NotifyTypes
<1>4. NotifyFrame(t, k)
  BY <1>1, <1>2 DEF Swap, ToGiveBack, EmptySlot, Goto, NotifyTypes, NotifyFrame
<1>5. NotifyLocals(t)'
  BY <1>1, <1>2, ConstantsAssumption
     DEF Swap, ToGiveBack, EmptySlot, Goto, NotifyTypes, SlotTypes, MemTypes, NotifyLocals,
         HoldPCs
<1>6. ASSUME NEW b \in Blocks PROVE Balance(t, k, b)
  BY <1>1, <1>2, ConstantsAssumption
     DEF Swap, ToGiveBack, EmptySlot, Goto, NotifyTypes, SlotTypes, MemTypes, NotifyLocals,
         HoldPCs, SlotInv, Balance,
         InWord, InHands, Holders
<1>7. ASSUME NEW b \in Blocks PROVE Claim(t, k, b)
  BY <1>1, <1>2, ConstantsAssumption
     DEF Swap, ToGiveBack, EmptySlot, Goto, NotifyTypes, SlotTypes, MemTypes, NotifyLocals,
         HoldPCs, OwnInv, SlotInv,
         FreeInv, Claim, Mine, Owns, InSlot, InHands, Holders
<1>8. slot'[k].block = NoBlock => slot'[k].refs = 0
  BY <1>1, <1>2, ConstantsAssumption
     DEF Swap, ToGiveBack, EmptySlot, Goto, NotifyTypes, SlotTypes, NotifyLocals, HoldPCs,
         SlotInv
<1>9. CountBalance(t, k)
  <2>1. RoutineCount' = RoutineCount /\ RoutineCount \in Int
    BY <1>2 DEF Swap, NotifyTypes
  <2>2. CASE slot[k].block = CallBack[t]
    <3>1. /\ pc[t] = "swap"
          /\ pc'[t] = "giveback"
          /\ slot'[k].block = NoBlock
          /\ CallBack[t] # NoBlock
      BY <1>1, <1>2, <2>2, ConstantsAssumption
         DEF Swap, EmptySlot, Goto, NotifyTypes, NotifyLocals, HoldPCs
    <3> QED
      BY <2>1, <2>2, <3>1 DEF CountBalance, One, Used
  <2>3. CASE slot[k].block # CallBack[t]
    <3>1. pc[t] = "swap" /\ pc'[t] = "dereference" /\ slot' = slot
      BY <1>1, <1>2, <2>3 DEF Swap, Goto, NotifyTypes
    <3> QED
      BY <2>1, <3>1 DEF CountBalance, One, Used
  <2> QED
    BY <2>2, <2>3
<1> QED
  BY <1>3, <1>4, <1>5, <1>6, <1>7, <1>8, <1>9, NotifyStep DEF NotifyOK

(* What the slot had, given back. *)
LEMMA NotifyAfterSwap ==
    ASSUME NotifyInv, NEW t \in Threads, AfterSwap(t) PROVE NotifyInv'
<1>1. PICK k \in 1 .. MaxNotify : k = i[t]
  BY DEF NotifyInv, NotifyTypes
<1>2. NotifyTypes /\ NotifyLocals(t) /\ OwnInv /\ SlotInv /\ FreeInv
  BY DEF NotifyInv
<1>3. NotifyTypes'
  <2>1. slot' \in [1 .. MaxNotify -> SlotTypes]
    BY <1>2 DEF AfterSwap, GiveBack, Goto, NotifyTypes
  <2>2. mem' \in [Blocks -> MemTypes]
    <3>1. mem[CallBack[t]].refs - Count[t] \in Int /\ CallBack[t] \in Blocks
      BY <1>2, ConstantsAssumption
         DEF AfterSwap, GiveBack, NotifyTypes, NotifyLocals, HoldPCs, MemTypes
    <3> QED
      BY <1>2, <3>1, MemRefs DEF AfterSwap, GiveBack, NotifyTypes
  <2>3. i' \in [Threads -> 1 .. MaxNotify]
    BY <1>2, ConstantsAssumption DEF AfterSwap, GiveBack, Goto, NotifyTypes
  <2>4. Count' \in [Threads -> Nat]
    BY <1>2, ConstantsAssumption DEF AfterSwap, GiveBack, Goto, NotifyTypes
  <2>5. CallBack' \in [Threads -> Blocks \cup {NoBlock}]
    BY <1>1, <1>2 DEF AfterSwap, GiveBack, Goto, NotifyTypes, SlotTypes
  <2>6. /\ pc' \in [Threads -> HoldPCs \cup {"idle", "fill", "countup", "reference", "wait",
                                           "waiting"}]
        /\ op' \in [Threads -> {"none", "add", "run", "remove", "removed"}]
        /\ routine' \in [Threads -> Routines \cup {NoRoutine}]
        /\ RoutineCount' \in Int /\ family' \in {"process", "thread", "image"}
    BY <1>2 DEF AfterSwap, GiveBack, Goto, NotifyTypes, HoldPCs
  <2> QED
    BY <2>1, <2>2, <2>3, <2>4, <2>5, <2>6 DEF NotifyTypes
<1>4. NotifyFrame(t, k)
  BY <1>1, <1>2 DEF AfterSwap, GiveBack, Goto, NotifyTypes, NotifyFrame
<1>5. NotifyLocals(t)'
  BY <1>1, <1>2, ConstantsAssumption
     DEF AfterSwap, GiveBack, Goto, NotifyTypes, SlotTypes, MemTypes, NotifyLocals, HoldPCs
<1>6. ASSUME NEW b \in Blocks PROVE Balance(t, k, b)
  BY <1>1, <1>2, ConstantsAssumption
     DEF AfterSwap, GiveBack, Goto, NotifyTypes, SlotTypes, MemTypes, NotifyLocals, HoldPCs,
         SlotInv, Balance,
         InWord, InHands, Holders
<1>7. ASSUME NEW b \in Blocks PROVE Claim(t, k, b)
  BY <1>1, <1>2, ConstantsAssumption
     DEF AfterSwap, GiveBack, Goto, NotifyTypes, SlotTypes, MemTypes, NotifyLocals, HoldPCs,
         OwnInv, SlotInv,
         FreeInv, Claim, Mine, Owns, InSlot, InHands, Holders
<1>8. slot'[k].block = NoBlock => slot'[k].refs = 0
  BY <1>1, <1>2, ConstantsAssumption
     DEF AfterSwap, GiveBack, Goto, NotifyTypes, SlotTypes, NotifyLocals, HoldPCs, SlotInv
<1>9. CountBalance(t, k)
  BY <1>1, <1>2, ConstantsAssumption
     DEF AfterSwap, GiveBack, Goto, NotifyTypes, SlotTypes, NotifyLocals, CountBalance, One,
         Used
<1> QED
  BY <1>3, <1>4, <1>5, <1>6, <1>7, <1>8, <1>9, NotifyStep DEF NotifyOK

(* A routine no longer counted. *)
LEMMA NotifyCountDown ==
    ASSUME NotifyInv, NEW t \in Threads, CountDown(t) PROVE NotifyInv'
<1>1. PICK k \in 1 .. MaxNotify : k = i[t]
  BY DEF NotifyInv, NotifyTypes
<1>2. NotifyTypes /\ NotifyLocals(t) /\ OwnInv /\ SlotInv /\ FreeInv
  BY DEF NotifyInv
<1>3. NotifyTypes'
  <2>1. slot' \in [1 .. MaxNotify -> SlotTypes]
    BY <1>2 DEF CountDown, Goto, NotifyTypes
  <2>2. mem' \in [Blocks -> MemTypes]
    BY <1>2 DEF CountDown, Goto, NotifyTypes
  <2>3. i' \in [Threads -> 1 .. MaxNotify]
    BY <1>2, ConstantsAssumption DEF CountDown, Goto, NotifyTypes
  <2>4. Count' \in [Threads -> Nat]
    BY <1>2, ConstantsAssumption DEF CountDown, Goto, NotifyTypes
  <2>5. CallBack' \in [Threads -> Blocks \cup {NoBlock}]
    BY <1>1, <1>2 DEF CountDown, Goto, NotifyTypes, SlotTypes
  <2>6. /\ pc' \in [Threads -> HoldPCs \cup {"idle", "fill", "countup", "reference", "wait",
                                           "waiting"}]
        /\ op' \in [Threads -> {"none", "add", "run", "remove", "removed"}]
        /\ routine' \in [Threads -> Routines \cup {NoRoutine}]
        /\ RoutineCount' \in Int /\ family' \in {"process", "thread", "image"}
    BY <1>2 DEF CountDown, Goto, NotifyTypes, HoldPCs
  <2> QED
    BY <2>1, <2>2, <2>3, <2>4, <2>5, <2>6 DEF NotifyTypes
<1>4. NotifyFrame(t, k)
  BY <1>1, <1>2 DEF CountDown, Goto, NotifyTypes, NotifyFrame
<1>5. NotifyLocals(t)'
  BY <1>1, <1>2, ConstantsAssumption
     DEF CountDown, Goto, NotifyTypes, SlotTypes, MemTypes, NotifyLocals, HoldPCs
<1>6. ASSUME NEW b \in Blocks PROVE Balance(t, k, b)
  BY <1>1, <1>2, ConstantsAssumption
     DEF CountDown, Goto, NotifyTypes, SlotTypes, MemTypes, NotifyLocals, HoldPCs, SlotInv,
         Balance,
         InWord, InHands, Holders
<1>7. ASSUME NEW b \in Blocks PROVE Claim(t, k, b)
  BY <1>1, <1>2, ConstantsAssumption
     DEF CountDown, Goto, NotifyTypes, SlotTypes, MemTypes, NotifyLocals, HoldPCs, OwnInv,
         SlotInv,
         FreeInv, Claim, Mine, Owns, InSlot, InHands, Holders
<1>8. slot'[k].block = NoBlock => slot'[k].refs = 0
  BY <1>1, <1>2, ConstantsAssumption
     DEF CountDown, Goto, NotifyTypes, SlotTypes, NotifyLocals, HoldPCs, SlotInv
<1>9. CountBalance(t, k)
  BY <1>1, <1>2, ConstantsAssumption
     DEF CountDown, Goto, NotifyTypes, SlotTypes, NotifyLocals, CountBalance, One, Used
<1> QED
  BY <1>3, <1>4, <1>5, <1>6, <1>7, <1>8, <1>9, NotifyStep DEF NotifyOK

(* A reference put back into a word. *)
LEMMA NotifyDereference ==
    ASSUME NotifyInv, NEW t \in Threads, Dereference(t) PROVE NotifyInv'
<1>1. PICK k \in 1 .. MaxNotify : k = i[t]
  BY DEF NotifyInv, NotifyTypes
<1>2. NotifyTypes /\ NotifyLocals(t) /\ OwnInv /\ SlotInv /\ FreeInv
  BY DEF NotifyInv
<1>3. NotifyTypes'
  <2>1. slot' \in [1 .. MaxNotify -> SlotTypes]
    <3>1. slot[k].refs < MaxFastRefs => slot[k].refs + 1 \in 0 .. MaxFastRefs
      BY <1>1, <1>2, ConstantsAssumption DEF NotifyTypes, SlotTypes
    <3>2. \/ slot' = slot
          \/ slot[k].refs < MaxFastRefs /\ slot' = [slot EXCEPT ![k].refs = @ + 1]
      BY <1>1 DEF Dereference, TakesBack
    <3>3. CASE slot' = slot
      BY <1>2, <3>3 DEF NotifyTypes
    <3>4. CASE slot[k].refs < MaxFastRefs /\ slot' = [slot EXCEPT ![k].refs = @ + 1]
      BY <1>2, <3>1, <3>4, SlotRefs
    <3> QED
      BY <3>2, <3>3, <3>4
  <2>2. mem' \in [Blocks -> MemTypes]
    BY <1>2 DEF Dereference, TakesBack, Dereferenced, NextSlot, Return, Goto, NotifyTypes
  <2>3. i' \in [Threads -> 1 .. MaxNotify]
    <3>1. NextSlot(t, "reference") \/ i' = i
      BY DEF Dereference, Dereferenced
    <3> QED
      BY <1>2, <3>1, NextSlotTypes
  <2>4. Count' \in [Threads -> Nat]
    BY <1>2, ConstantsAssumption
       DEF Dereference, TakesBack, Dereferenced, NextSlot, Return, Goto, NotifyTypes
  <2>5. CallBack' \in [Threads -> Blocks \cup {NoBlock}]
    BY <1>1, <1>2
       DEF Dereference, TakesBack, Dereferenced, NextSlot, Return, Goto, NotifyTypes,
           SlotTypes
  <2>6. /\ pc' \in [Threads -> HoldPCs \cup {"idle", "fill", "countup", "reference", "wait",
                                           "waiting"}]
        /\ op' \in [Threads -> {"none", "add", "run", "remove", "removed"}]
        /\ routine' \in [Threads -> Routines \cup {NoRoutine}]
        /\ RoutineCount' \in Int /\ family' \in {"process", "thread", "image"}
    BY <1>2
       DEF Dereference, TakesBack, Dereferenced, NextSlot, Return, Goto, NotifyTypes,
           HoldPCs
  <2> QED
    BY <2>1, <2>2, <2>3, <2>4, <2>5, <2>6 DEF NotifyTypes
<1>4. NotifyFrame(t, k)
  BY <1>1, <1>2
     DEF Dereference, TakesBack, Dereferenced, NextSlot, Return, Goto, NotifyTypes,
         NotifyFrame
<1>5. NotifyLocals(t)'
  BY <1>1, <1>2, ConstantsAssumption
     DEF Dereference, TakesBack, Dereferenced, NextSlot, Return, Goto, NotifyTypes,
         SlotTypes, MemTypes, NotifyLocals, HoldPCs
<1>6. ASSUME NEW b \in Blocks PROVE Balance(t, k, b)
  BY <1>1, <1>2, ConstantsAssumption
     DEF Dereference, TakesBack, Dereferenced, NextSlot, Return, Goto, NotifyTypes,
         SlotTypes, MemTypes, NotifyLocals, HoldPCs, SlotInv, Balance,
         InWord, InHands, Holders
<1>7. ASSUME NEW b \in Blocks PROVE Claim(t, k, b)
  <2>1. CallBack[t] \in Blocks /\ pc[t] \in HoldPCs
    BY <1>2 DEF Dereference, HoldPCs, NotifyLocals
  <2>2. InHands(t, CallBack[t]) > 0 /\ mem[CallBack[t]].function # NoRoutine
    BY <1>2, <2>1, HandsFull, HolderAlive
  <2> QED
    BY <1>1, <1>2, <2>1, <2>2, ConstantsAssumption
       DEF Dereference, TakesBack, Dereferenced, NextSlot, Return, Goto, NotifyTypes,
           SlotTypes, MemTypes, NotifyLocals, HoldPCs, OwnInv,
           SlotInv, FreeInv, Claim, Mine, Owns, InSlot
<1>8. slot'[k].block = NoBlock => slot'[k].refs = 0
  BY <1>1, <1>2, ConstantsAssumption
     DEF Dereference, TakesBack, Dereferenced, NextSlot, Return, Goto, NotifyTypes,
         SlotTypes, NotifyLocals, HoldPCs, SlotInv
<1>9. CountBalance(t, k)
  BY <1>1, <1>2, ConstantsAssumption
     DEF Dereference, TakesBack, Dereferenced, NextSlot, Return, Goto, NotifyTypes,
         SlotTypes, NotifyLocals, CountBalance, One, Used
<1> QED
  BY <1>3, <1>4, <1>5, <1>6, <1>7, <1>8, <1>9, NotifyStep DEF NotifyOK

(* A reference given back to the block. *)
LEMMA NotifyReleaseRundown ==
    ASSUME NotifyInv, NEW t \in Threads, ReleaseRundown(t) PROVE NotifyInv'
<1>1. PICK k \in 1 .. MaxNotify : k = i[t]
  BY DEF NotifyInv, NotifyTypes
<1>2. NotifyTypes /\ NotifyLocals(t) /\ OwnInv /\ SlotInv /\ FreeInv
  BY DEF NotifyInv
<1>3. NotifyTypes'
  <2>1. slot' \in [1 .. MaxNotify -> SlotTypes]
    BY <1>2 DEF ReleaseRundown, Dereferenced, NextSlot, Return, Goto, NotifyTypes
  <2>2. mem' \in [Blocks -> MemTypes]
    <3>1. mem[CallBack[t]].refs - 1 \in Int /\ CallBack[t] \in Blocks
      BY <1>2, ConstantsAssumption
         DEF ReleaseRundown, NotifyTypes, NotifyLocals, HoldPCs, MemTypes
    <3> QED
      BY <1>2, <3>1, MemRefs DEF ReleaseRundown, NotifyTypes
  <2>3. i' \in [Threads -> 1 .. MaxNotify]
    <3>1. NextSlot(t, "reference") \/ i' = i
      BY DEF ReleaseRundown, Dereferenced
    <3> QED
      BY <1>2, <3>1, NextSlotTypes
  <2>4. Count' \in [Threads -> Nat]
    BY <1>2, ConstantsAssumption
       DEF ReleaseRundown, Dereferenced, NextSlot, Return, Goto, NotifyTypes
  <2>5. CallBack' \in [Threads -> Blocks \cup {NoBlock}]
    BY <1>1, <1>2
       DEF ReleaseRundown, Dereferenced, NextSlot, Return, Goto, NotifyTypes, SlotTypes
  <2>6. /\ pc' \in [Threads -> HoldPCs \cup {"idle", "fill", "countup", "reference", "wait",
                                           "waiting"}]
        /\ op' \in [Threads -> {"none", "add", "run", "remove", "removed"}]
        /\ routine' \in [Threads -> Routines \cup {NoRoutine}]
        /\ RoutineCount' \in Int /\ family' \in {"process", "thread", "image"}
    BY <1>2 DEF ReleaseRundown, Dereferenced, NextSlot, Return, Goto, NotifyTypes, HoldPCs
  <2> QED
    BY <2>1, <2>2, <2>3, <2>4, <2>5, <2>6 DEF NotifyTypes
<1>4. NotifyFrame(t, k)
  BY <1>1, <1>2
     DEF ReleaseRundown, Dereferenced, NextSlot, Return, Goto, NotifyTypes, NotifyFrame
<1>5. NotifyLocals(t)'
  BY <1>1, <1>2, ConstantsAssumption
     DEF ReleaseRundown, Dereferenced, NextSlot, Return, Goto, NotifyTypes, SlotTypes,
         MemTypes, NotifyLocals, HoldPCs
<1>6. ASSUME NEW b \in Blocks PROVE Balance(t, k, b)
  BY <1>1, <1>2, ConstantsAssumption, SMTT(30)
     DEF ReleaseRundown, Dereferenced, NextSlot, Return, Goto, NotifyTypes, SlotTypes,
         MemTypes, NotifyLocals, HoldPCs, SlotInv, Balance,
         InWord, InHands, Holders
<1>7. ASSUME NEW b \in Blocks PROVE Claim(t, k, b)
  <2>1. CallBack[t] \in Blocks /\ pc[t] \in HoldPCs
    BY <1>2 DEF ReleaseRundown, HoldPCs, NotifyLocals
  <2>2. InHands(t, CallBack[t]) > 0 /\ mem[CallBack[t]].function # NoRoutine
    BY <1>2, <2>1, HandsFull, HolderAlive
  <2> QED
    BY <1>1, <1>2, <2>1, <2>2, ConstantsAssumption
       DEF ReleaseRundown, Dereferenced, NextSlot, Return, Goto, NotifyTypes, SlotTypes,
           MemTypes, NotifyLocals, HoldPCs, OwnInv,
           SlotInv, FreeInv, Claim, Mine, Owns, InSlot
<1>8. slot'[k].block = NoBlock => slot'[k].refs = 0
  BY <1>1, <1>2, ConstantsAssumption
     DEF ReleaseRundown, Dereferenced, NextSlot, Return, Goto, NotifyTypes, SlotTypes,
         NotifyLocals, HoldPCs, SlotInv
<1>9. CountBalance(t, k)
  BY <1>1, <1>2, ConstantsAssumption
     DEF ReleaseRundown, Dereferenced, NextSlot, Return, Goto, NotifyTypes, SlotTypes,
         NotifyLocals, CountBalance, One, Used
<1> QED
  BY <1>3, <1>4, <1>5, <1>6, <1>7, <1>8, <1>9, NotifyStep DEF NotifyOK

(* The rundown of a block. *)
LEMMA NotifyRunDown ==
    ASSUME NotifyInv, NEW t \in Threads, RunDown(t) PROVE NotifyInv'
<1>1. PICK k \in 1 .. MaxNotify : k = i[t]
  BY DEF NotifyInv, NotifyTypes
<1>2. NotifyTypes /\ NotifyLocals(t) /\ OwnInv /\ SlotInv /\ FreeInv
  BY DEF NotifyInv
<1>3. NotifyTypes'
  <2>1. slot' \in [1 .. MaxNotify -> SlotTypes]
    BY <1>2 DEF RunDown, Goto, NotifyTypes
  <2>2. mem' \in [Blocks -> MemTypes]
    <3>1. [mem[CallBack[t]] EXCEPT !.down = TRUE] \in MemTypes /\ CallBack[t] \in Blocks
      BY <1>2 DEF RunDown, NotifyLocals, NotifyTypes, MemTypes
    <3> QED
      BY <1>2, <3>1 DEF RunDown, NotifyTypes
  <2>3. i' \in [Threads -> 1 .. MaxNotify]
    BY <1>2, ConstantsAssumption DEF RunDown, Goto, NotifyTypes
  <2>4. Count' \in [Threads -> Nat]
    BY <1>2, ConstantsAssumption DEF RunDown, Goto, NotifyTypes
  <2>5. CallBack' \in [Threads -> Blocks \cup {NoBlock}]
    BY <1>1, <1>2 DEF RunDown, Goto, NotifyTypes, SlotTypes
  <2>6. /\ pc' \in [Threads -> HoldPCs \cup {"idle", "fill", "countup", "reference", "wait",
                                           "waiting"}]
        /\ op' \in [Threads -> {"none", "add", "run", "remove", "removed"}]
        /\ routine' \in [Threads -> Routines \cup {NoRoutine}]
        /\ RoutineCount' \in Int /\ family' \in {"process", "thread", "image"}
    BY <1>2 DEF RunDown, Goto, NotifyTypes, HoldPCs
  <2> QED
    BY <2>1, <2>2, <2>3, <2>4, <2>5, <2>6 DEF NotifyTypes
<1>4. NotifyFrame(t, k)
  BY <1>1, <1>2 DEF RunDown, Goto, NotifyTypes, NotifyFrame
<1>5. NotifyLocals(t)'
  BY <1>1, <1>2, ConstantsAssumption
     DEF RunDown, Goto, NotifyTypes, SlotTypes, MemTypes, NotifyLocals, HoldPCs
<1>6. ASSUME NEW b \in Blocks PROVE Balance(t, k, b)
  BY <1>1, <1>2, ConstantsAssumption
     DEF RunDown, Goto, NotifyTypes, SlotTypes, MemTypes, NotifyLocals, HoldPCs, SlotInv,
         Balance,
         InWord, InHands, Holders
<1>7. ASSUME NEW b \in Blocks PROVE Claim(t, k, b)
  BY <1>1, <1>2, ConstantsAssumption
     DEF RunDown, Goto, NotifyTypes, SlotTypes, MemTypes, NotifyLocals, HoldPCs, OwnInv,
         SlotInv,
         FreeInv, Claim, Mine, Owns, InSlot, InHands, Holders
<1>8. slot'[k].block = NoBlock => slot'[k].refs = 0
  BY <1>1, <1>2, ConstantsAssumption
     DEF RunDown, Goto, NotifyTypes, SlotTypes, NotifyLocals, HoldPCs, SlotInv
<1>9. CountBalance(t, k)
  BY <1>1, <1>2, ConstantsAssumption
     DEF RunDown, Goto, NotifyTypes, SlotTypes, NotifyLocals, CountBalance, One, Used
<1> QED
  BY <1>3, <1>4, <1>5, <1>6, <1>7, <1>8, <1>9, NotifyStep DEF NotifyOK

(* A block that is freed. *)
LEMMA NotifyFreeCallBack ==
    ASSUME NotifyInv, NEW t \in Threads, FreeCallBack(t) PROVE NotifyInv'
<1>1. PICK k \in 1 .. MaxNotify : k = i[t]
  BY DEF NotifyInv, NotifyTypes
<1>2. NotifyTypes /\ NotifyLocals(t) /\ OwnInv /\ SlotInv /\ FreeInv
  BY DEF NotifyInv
<1>3. NotifyTypes'
  <2>1. slot' \in [1 .. MaxNotify -> SlotTypes]
    BY <1>2 DEF FreeCallBack, Return, Goto, Free, NotifyTypes
  <2>2. mem' \in [Blocks -> MemTypes]
    <3>1. Free \in MemTypes /\ CallBack[t] \in Blocks
      BY <1>2 DEF FreeCallBack, Free, NotifyLocals, MemTypes
    <3> QED
      BY <1>2, <3>1 DEF FreeCallBack, NotifyTypes
  <2>3. i' \in [Threads -> 1 .. MaxNotify]
    BY <1>2, ConstantsAssumption DEF FreeCallBack, Return, Goto, Free, NotifyTypes
  <2>4. Count' \in [Threads -> Nat]
    BY <1>2, ConstantsAssumption DEF FreeCallBack, Return, Goto, Free, NotifyTypes
  <2>5. CallBack' \in [Threads -> Blocks \cup {NoBlock}]
    BY <1>1, <1>2 DEF FreeCallBack, Return, Goto, Free, NotifyTypes, SlotTypes
  <2>6. /\ pc' \in [Threads -> HoldPCs \cup {"idle", "fill", "countup", "reference", "wait",
                                           "waiting"}]
        /\ op' \in [Threads -> {"none", "add", "run", "remove", "removed"}]
        /\ routine' \in [Threads -> Routines \cup {NoRoutine}]
        /\ RoutineCount' \in Int /\ family' \in {"process", "thread", "image"}
    BY <1>2 DEF FreeCallBack, Return, Goto, Free, NotifyTypes, HoldPCs
  <2> QED
    BY <2>1, <2>2, <2>3, <2>4, <2>5, <2>6 DEF NotifyTypes
<1>4. NotifyFrame(t, k)
  BY <1>1, <1>2 DEF FreeCallBack, Return, Goto, Free, NotifyTypes, NotifyFrame
<1>5. NotifyLocals(t)'
  BY <1>1, <1>2, ConstantsAssumption
     DEF FreeCallBack, Return, Goto, Free, NotifyTypes, SlotTypes, MemTypes, NotifyLocals,
         HoldPCs
<1>6. ASSUME NEW b \in Blocks PROVE Balance(t, k, b)
  BY <1>1, <1>2, ConstantsAssumption
     DEF FreeCallBack, Return, Goto, Free, NotifyTypes, SlotTypes, MemTypes, NotifyLocals,
         HoldPCs, SlotInv, Balance,
         InWord, InHands, Holders
<1>7. ASSUME NEW b \in Blocks PROVE Claim(t, k, b)
  BY <1>1, <1>2, ConstantsAssumption
     DEF FreeCallBack, Return, Goto, Free, NotifyTypes, SlotTypes, MemTypes, NotifyLocals,
         HoldPCs, OwnInv, SlotInv,
         FreeInv, Claim, Mine, Owns, InSlot, InHands, Holders
<1>8. slot'[k].block = NoBlock => slot'[k].refs = 0
  BY <1>1, <1>2, ConstantsAssumption
     DEF FreeCallBack, Return, Goto, Free, NotifyTypes, SlotTypes, NotifyLocals, HoldPCs,
         SlotInv
<1>9. CountBalance(t, k)
  BY <1>1, <1>2, ConstantsAssumption
     DEF FreeCallBack, Return, Goto, Free, NotifyTypes, SlotTypes, NotifyLocals,
         CountBalance, One, Used
<1> QED
  BY <1>3, <1>4, <1>5, <1>6, <1>7, <1>8, <1>9, NotifyStep DEF NotifyOK

(* At first all slots and blocks are empty. *)
LEMMA NotifyInit == Init => NotifyInv
<1> SUFFICES ASSUME Init PROVE NotifyInv
  OBVIOUS
<1>1. Free \in MemTypes /\ EmptySlot \in SlotTypes /\ 1 \in 1 .. MaxNotify
  BY ConstantsAssumption DEF Free, EmptySlot, MemTypes, SlotTypes
<1>2. NotifyTypes
  <2>1. slot \in [1 .. MaxNotify -> SlotTypes] /\ mem \in [Blocks -> MemTypes]
    BY <1>1 DEF Init
  <2> QED
    BY <1>1, <2>1, ConstantsAssumption DEF Init, NotifyTypes, HoldPCs
<1>3. \A t \in Threads : NotifyLocals(t)
  BY DEF Init, NotifyLocals, HoldPCs
<1>4. OwnInv /\ SlotInv /\ FreeInv
  BY DEF Init, OwnInv, Owns, SlotInv, FreeInv, EmptySlot, Free
<1>5. RefsExact
  <2> SUFFICES ASSUME NEW b \in Blocks PROVE mem[b].refs = References(b) /\ mem[b].refs = 0
    BY DEF RefsExact
  <2>1. PICK f : f = [k \in 1 .. MaxNotify |-> InWord(k, b)]
    OBVIOUS
  <2>2. PICK g : g = [t \in Threads |-> InHands(t, b)]
    OBVIOUS
  <2>3. f \in [1 .. MaxNotify -> Nat] /\ g \in [Threads -> Nat]
    BY <1>2, <2>1, <2>2, NotifyNumbers
  <2>4. (\A k \in 1 .. MaxNotify : f[k] = 0) /\ (\A t \in Threads : g[t] = 0)
    BY <2>1, <2>2, ConstantsAssumption DEF Init, EmptySlot, InWord, InHands, Holders
  <2>5. Total(f) = 0 /\ Total(g) = 0
    BY <2>3, <2>4, TotalZero
  <2> QED
    BY <2>1, <2>2, <2>5 DEF References, Init, Free
<1>6. CountExact
  <2>1. /\ {k \in 1 .. MaxNotify : slot[k].block # NoBlock} = {}
        /\ {t \in Threads : pc[t] = "countup"} = {}
        /\ {t \in Threads : pc[t] \in {"giveback", "countdown"}} = {}
        /\ RoutineCount = 0
    BY DEF Init, EmptySlot
  <2>2. /\ Cardinality({k \in 1 .. MaxNotify : slot[k].block # NoBlock}) = 0
        /\ Cardinality({t \in Threads : pc[t] = "countup"}) = 0
        /\ Cardinality({t \in Threads : pc[t] \in {"giveback", "countdown"}}) = 0
    BY <2>1, FS_EmptySet
  <2> QED
    BY <2>1, <2>2 DEF CountExact
<1> QED
  BY <1>2, <1>3, <1>4, <1>5, <1>6 DEF NotifyInv

(* Every step preserves the invariant. *)
LEMMA NotifyNext ==
    ASSUME NotifyInv, NEW t \in Threads, Call(t) \/ Inside(t) PROVE NotifyInv'
  BY NotifyRun, NotifyAdd, NotifyRemove, NotifyFill, NotifySlotTaken, NotifyCountUp,
     NotifySkip,
     NotifyReference, NotifyRefill, NotifyInsert, NotifyBackdown, NotifyUse, NotifyCompare,
     NotifySwap, NotifyAfterSwap, NotifyCountDown, NotifyDereference, NotifyReleaseRundown,
     NotifyRunDown, NotifyFreeCallBack
  DEF Call, Inside

(* Whatever adds, runs and removes notify routines keeps NotifyInv: each   *)
(* block is in one slot or one thread's, and every reference is counted.   *)
THEOREM NotifyInvariance == ASpec => []NotifyInv
<1>1. AInit => NotifyInv
  BY NotifyInit DEF AInit
<1>2. NotifyInv /\ [ANext]_avars => NotifyInv'
  <2> SUFFICES ASSUME NotifyInv, [ANext]_avars PROVE NotifyInv'
    OBVIOUS
  <2>1. CASE UNCHANGED vars
    <3>1. UNCHANGED <<family, slot, mem, RoutineCount, pc, op, i, CallBack, routine, Count>>
      BY <2>1 DEF vars
    <3>2. /\ NotifyTypes'
          /\ (\A t \in Threads : NotifyLocals(t)')
          /\ OwnInv'
          /\ SlotInv'
          /\ FreeInv'
      BY <3>1 DEF NotifyInv, NotifyTypes, NotifyLocals, OwnInv, Owns, SlotInv, FreeInv
    <3>3. RefsExact' /\ CountExact'
      BY <3>1 DEF NotifyInv, RefsExact, References, InWord, InHands, Holders, CountExact
    <3> QED
      BY <3>2, <3>3 DEF NotifyInv
  <2>2. CASE \E t \in Threads : Call(t) \/ Inside(t)
    BY <2>2, NotifyNext
  <2> QED
    BY <2>1, <2>2 DEF avars, ANext, Callbacks, Calls, Continues
<1> QED
  BY <1>1, <1>2, PTL DEF ASpec

(* What is in a slot or in use is there. *)
LEMMA NotifyAlive == NotifyInv => NoUseAfterFree
<1> SUFFICES ASSUME NotifyInv, NEW b \in Blocks,
                    Holders(b) # {} \/ \E k \in 1 .. MaxNotify : slot[k].block = b
             PROVE  mem[b].function # NoRoutine
  BY DEF NoUseAfterFree
<1>1. CASE Holders(b) # {}
  <2>1. PICK t \in Threads : CallBack[t] = b /\ pc[t] \in HoldPCs
    BY <1>1 DEF Holders, HoldPCs
  <2> QED
    BY <2>1, HolderAlive
<1>2. CASE \E k \in 1 .. MaxNotify : slot[k].block = b
  BY <1>2, ConstantsAssumption DEF NotifyInv, SlotInv
<1> QED
  BY <1>1, <1>2


-----------------------------------------------------------------------------
(* The invariant, and the references that a step moves.                    *)

(* Where a thread has a header in OldDescriptor, and where one in          *)
(* CachedDescriptor or NewHeader.                                          *)
OldPCs == {"refill", "insert", "undo", "locked", "use", "swap"}
NewPCs == {"again", "swap", "assign"}
LogPCs == {"search", "create", "again"}
DropPCs == {"drop", "destroy", "flush"}

HeaderTypes == [sd : Descriptors \cup {NoDescriptor}, RefCount : Int]
WordTypes == [header : Headers \cup {NoHeader}, refs : 0 .. SdFastRefs]
DropTypes == [header : Headers, n : Nat \ {0}]

SdTypes ==
    /\ Cache \in Seq(Headers)
    /\ header \in [Headers -> HeaderTypes]
    /\ FastRef \in [Objects -> WordTypes]
    /\ state \in [Objects -> {"none", "made", "live"}]
    /\ spc \in [Threads -> OldPCs \cup NewPCs \cup LogPCs \cup DropPCs \cup {"idle", "reference", "lock"}]
    /\ obj \in [Threads -> Objects \cup {NoObject}]
    /\ Old \in [Threads -> Headers \cup {NoHeader}]
    /\ New \in [Threads -> Headers \cup {NoHeader}]
    /\ sd \in [Threads -> Descriptors \cup {NoDescriptor}]
    /\ todo \in [Threads -> Seq(DropTypes)]
    /\ next \in [Threads -> {"idle", "reference"}]

(* t makes its object. *)
Making(t) == spc[t] \in LogPCs \cup {"assign"} /\ Old[t] = NoHeader

SdLocals(t) ==
    /\ spc[t] \in OldPCs => Old[t] \in Headers
    /\ Old[t] # NoHeader => spc[t] \in OldPCs \cup LogPCs
    /\ New[t] # NoHeader <=> spc[t] \in NewPCs
    /\ spc[t] \in LogPCs => sd[t] \in Descriptors
    /\ IF spc[t] \in DropPCs THEN Len(todo[t]) \in 1 .. 2 ELSE todo[t] = <<>>
    /\ spc[t] = "flush" => Len(todo[t]) = 1 /\ next[t] = "idle"
    /\ spc[t] = "idle" => obj[t] = NoObject
    /\ obj[t] = NoObject => \/ spc[t] = "idle"
                            \/ spc[t] \in {"drop", "destroy"} /\ next[t] = "idle"

ObjectInv ==
    /\ \A t \in Threads : obj[t] # NoObject => state[obj[t]] = IF Making(t) THEN "made" ELSE "live"
    /\ \A t, u \in Threads : Making(t) /\ Making(u) /\ obj[t] = obj[u] => t = u
    /\ \A o \in Objects : IF state[o] = "live" THEN FastRef[o].header \in Headers
                          ELSE FastRef[o] = S!NoSecurity

(* The header that t has read without counting it is there: the object     *)
(* still has it, or who has replaced it waits for t.                       *)
Covered(t) ==
    \/ FastRef[obj[t]].header = Old[t]
    \/ \E u \in Threads : spc[u] = "flush" /\ obj[u] = obj[t] /\ todo[u][1].header = Old[t]

LockedInv == \A t \in Threads : spc[t] = "locked" => Covered(t)

AgainInv == \A t \in Threads : spc[t] = "again" => /\ header[New[t]].RefCount = S!RefBias
                                                  /\ header[New[t]].sd = sd[t]

LifeInv == \A h \in Headers : IF header[h].RefCount = 0 THEN header[h].sd = NoDescriptor
                              ELSE header[h].sd \in Descriptors

SdInv == /\ SdTypes /\ \A t \in Threads : SdLocals(t)
         /\ ObjectInv /\ LockedInv /\ AgainInv /\ LifeInv
         /\ S!RefsExact /\ S!CacheExact

-----------------------------------------------------------------------------
(* The references to a header, as in S!RefsExact. *)
InWords(h) == Total([o \in Objects |-> S!InWord(o, h)])
InThreads(h) == Total([t \in Threads |-> S!Held(t, h)])

(* The two of SdCache are the same. *)
LEMMA SdTotalIs == \A f : S!Total(f) = Total(f)
<1>1. \A A : S!Cardinality(A) = Cardinality(A)
  BY DEF S!Cardinality, Cardinality
<1> QED
  BY <1>1 DEF S!Total, Total

(* S!RefsExact in these terms, now *)
LEMMA SdRefsIs ==
    S!RefsExact <=> \A h \in Headers : header[h].RefCount = InWords(h) + InThreads(h)
BY SdTotalIs, Zenon DEF S!RefsExact, InWords, InThreads

(* and after a step. *)
LEMMA SdRefsNext ==
    S!RefsExact' <=> \A h \in Headers : header'[h].RefCount = InWords(h)' + InThreads(h)'
BY SdTotalIs, Zenon DEF S!RefsExact, InWords, InThreads

(* What a thread refers to, by its local variables. *)
HeldAt(l, old, new, list, h) ==
    (IF old = h /\ l # "locked" THEN 1 ELSE 0)
    + (IF old = h /\ l \in {"insert", "undo"} THEN SdFastRefs ELSE 0)
    + (IF new = h THEN SdFastRefs + 1 ELSE 0)
    + (IF 1 <= Len(list) /\ list[1].header = h THEN list[1].n ELSE 0)
    + (IF 2 <= Len(list) /\ list[2].header = h THEN list[2].n ELSE 0)

(* This is what SdCache says. *)
LEMMA HeldIs == \A t, h : S!Held(t, h) = HeldAt(spc[t], Old[t], New[t], todo[t], h)
BY DEF S!Held, S!Times, S!ToDrop, S!RefBias, HeldAt

(* It is a natural number, *)
LEMMA HeldNat ==
    ASSUME NEW l, NEW old, NEW new, NEW list \in Seq(DropTypes), NEW h
    PROVE  HeldAt(l, old, new, list, h) \in Nat
<1>1. \A k \in 1 .. Len(list) : list[k].n \in Nat
  <2>1. \A k \in 1 .. Len(list) : list[k] \in DropTypes
    BY ElementOfSeq
  <2> QED
    BY <2>1 DEF DropTypes
<1>2. (1 <= Len(list) => list[1].n \in Nat) /\ (2 <= Len(list) => list[2].n \in Nat)
  BY <1>1, LenProperties
<1>3. SdFastRefs \in Nat
  BY SdAssumption
<1> DEFINE a == IF old = h /\ l # "locked" THEN 1 ELSE 0
           b == IF old = h /\ l \in {"insert", "undo"} THEN SdFastRefs ELSE 0
           c == IF new = h THEN SdFastRefs + 1 ELSE 0
           d == IF 1 <= Len(list) /\ list[1].header = h THEN list[1].n ELSE 0
           e == IF 2 <= Len(list) /\ list[2].header = h THEN list[2].n ELSE 0
<1>4. a \in Nat /\ b \in Nat /\ c \in Nat
  BY <1>3
<1>5. d \in Nat /\ e \in Nat
  BY <1>2
<1>6. HeldAt(l, old, new, list, h) = a + b + c + d + e
  BY DEF HeldAt
<1> HIDE DEF a, b, c, d, e
<1> QED
  BY <1>4, <1>5, <1>6

(* and so is what a word has. *)
LEMMA SdNumbers ==
    ASSUME SdTypes
    PROVE  /\ \A o \in Objects, h \in Headers : S!InWord(o, h) \in Nat
           /\ \A t \in Threads, h \in Headers : S!Held(t, h) \in Nat
<1>1. ASSUME NEW o \in Objects, NEW h \in Headers PROVE S!InWord(o, h) \in Nat
  <2>1. FastRef[o].refs \in Nat
    BY SdAssumption DEF SdTypes, WordTypes
  <2> QED
    BY <2>1 DEF S!InWord, S!Times
<1>2. ASSUME NEW t \in Threads, NEW h \in Headers PROVE S!Held(t, h) \in Nat
  <2>1. todo[t] \in Seq(DropTypes)
    BY DEF SdTypes
  <2> QED
    BY <2>1, HeldIs, HeldNat
<1> QED
  BY <1>1, <1>2

(* The count of a header covers any two of those that refer to it. *)
LEMMA SdCovers ==
    ASSUME SdTypes, S!RefsExact, NEW h \in Headers
    PROVE  /\ header[h].RefCount \in Nat
           /\ \A o \in Objects : header[h].RefCount >= S!InWord(o, h)
           /\ \A t \in Threads : header[h].RefCount >= S!Held(t, h)
           /\ \A o \in Objects, t \in Threads :
                 header[h].RefCount >= S!InWord(o, h) + S!Held(t, h)
           /\ \A t, u \in Threads :
                 t # u => header[h].RefCount >= S!Held(t, h) + S!Held(u, h)
<1>1. PICK f : f = [o \in Objects |-> S!InWord(o, h)]
  OBVIOUS
<1>2. PICK g : g = [t \in Threads |-> S!Held(t, h)]
  OBVIOUS
<1>3. f \in [Objects -> Nat] /\ g \in [Threads -> Nat]
  BY <1>1, <1>2, SdNumbers
<1>4. IsFiniteSet(Objects) /\ IsFiniteSet(Threads)
  BY SdAssumption, ConstantsAssumption
<1>5. Total(f) \in Nat /\ \A o \in Objects : Total(f) >= f[o]
  BY <1>3, <1>4, TotalLeast
<1>6. /\ Total(g) \in Nat /\ \A t \in Threads : Total(g) >= g[t]
      /\ \A t, u \in Threads : t # u => Total(g) >= g[t] + g[u]
  BY <1>3, <1>4, TotalLeast
<1>7. header[h].RefCount = Total(f) + Total(g)
  BY <1>1, <1>2, SdRefsIs DEF InWords, InThreads
<1>8. /\ \A o \in Objects : f[o] = S!InWord(o, h) /\ f[o] \in Nat
      /\ \A t \in Threads : g[t] = S!Held(t, h) /\ g[t] \in Nat
  BY <1>1, <1>2, <1>3
<1> HIDE DEF S!Held, S!InWord
<1>9. header[h].RefCount \in Nat
  BY <1>5, <1>6, <1>7
<1>10. \A o \in Objects : header[h].RefCount >= S!InWord(o, h)
  BY <1>5, <1>6, <1>7, <1>8
<1>11. \A t \in Threads : header[h].RefCount >= S!Held(t, h)
  BY <1>5, <1>6, <1>7, <1>8
<1>12. \A o \in Objects, t \in Threads : header[h].RefCount >= S!InWord(o, h) + S!Held(t, h)
  BY <1>5, <1>6, <1>7, <1>8
<1>13. \A t, u \in Threads : t # u => header[h].RefCount >= S!Held(t, h) + S!Held(u, h)
  BY <1>5, <1>6, <1>7, <1>8
<1> QED
  BY <1>9, <1>10, <1>11, <1>12, <1>13

(* A step of t leaves the other threads as they are, *)
SdFrame(t) ==
    \A u \in Threads \ {t} : /\ spc'[u] = spc[u] /\ obj'[u] = obj[u] /\ Old'[u] = Old[u]
                             /\ New'[u] = New[u] /\ sd'[u] = sd[u] /\ todo'[u] = todo[u]
                             /\ next'[u] = next[u]

(* and the words of objects but that of o. *)
WordFrame(o) == \A p \in Objects \ {o} : FastRef'[p] = FastRef[p]

(* What the step does to the references to h. *)
WordBalance(t, o, h) ==
    header'[h].RefCount - header[h].RefCount =
       (S!InWord(o, h)' - S!InWord(o, h)) + (S!Held(t, h)' - S!Held(t, h))

HeldBalance(t, h) ==
    header'[h].RefCount - header[h].RefCount = S!Held(t, h)' - S!Held(t, h)

(* How the number of the references of threads changes. *)
LEMMA SdTotals ==
    ASSUME SdTypes, SdTypes', NEW t \in Threads, SdFrame(t), NEW h \in Headers
    PROVE  /\ InThreads(h) \in Nat /\ S!Held(t, h) \in Nat /\ S!Held(t, h)' \in Nat
           /\ InThreads(h)' = InThreads(h) + S!Held(t, h)' - S!Held(t, h)
           /\ InThreads(h)' \in Nat
<1>1. PICK g : g = [u \in Threads |-> S!Held(u, h)]
  OBVIOUS
<1>2. PICK l : l = [u \in Threads |-> S!Held(u, h)']
  OBVIOUS
<1>3. g \in [Threads -> Nat]
  BY <1>1, SdNumbers
<1>4. l \in [Threads -> Nat]
  <2>1. ASSUME NEW u \in Threads PROVE S!Held(u, h)' \in Nat
    <3>1. todo'[u] \in Seq(DropTypes)
      BY DEF SdTypes
    <3>2. S!Held(u, h)' = HeldAt(spc'[u], Old'[u], New'[u], todo'[u], h)
      BY DEF S!Held, S!Times, S!ToDrop, S!RefBias, HeldAt
    <3> QED
      BY <3>1, <3>2, HeldNat
  <2> QED
    BY <1>2, <2>1
<1>5. \A u \in Threads \ {t} : l[u] = g[u]
  BY <1>1, <1>2 DEF SdFrame, S!Held, S!ToDrop
<1>6. Total(g) \in Nat /\ Total(l) = Total(g) + l[t] - g[t]
  BY <1>3, <1>4, <1>5, ConstantsAssumption, TotalChange
<1>7. InThreads(h) = Total(g) /\ InThreads(h)' = Total(l)
  BY <1>1, <1>2 DEF InThreads
<1>8. g[t] = S!Held(t, h) /\ l[t] = S!Held(t, h)' /\ g[t] \in Nat /\ l[t] \in Nat
  BY <1>1, <1>2, <1>3, <1>4
<1>9. Total(l) \in Nat
  BY <1>4, ConstantsAssumption, TotalLeast
<1> QED
  BY <1>6, <1>7, <1>8, <1>9

(* A balanced step keeps the references counted: one that changes the word *)
(* of o,                                                                   *)
LEMMA SdWordRefs ==
    ASSUME SdTypes, S!RefsExact, SdTypes', NEW t \in Threads, SdFrame(t), NEW o \in Objects,
           WordFrame(o), \A h \in Headers : WordBalance(t, o, h)
    PROVE  S!RefsExact'
<1> SUFFICES ASSUME NEW h \in Headers
             PROVE  header'[h].RefCount = InWords(h)' + InThreads(h)'
  BY SdRefsNext
<1>1. PICK f : f = [p \in Objects |-> S!InWord(p, h)]
  OBVIOUS
<1>2. PICK k : k = [p \in Objects |-> S!InWord(p, h)']
  OBVIOUS
<1>3. f \in [Objects -> Nat]
  BY <1>1, SdNumbers
<1>4. k \in [Objects -> Nat]
  <2>1. ASSUME NEW p \in Objects PROVE S!InWord(p, h)' \in Nat
    <3>1. FastRef'[p].refs \in Nat
      BY SdAssumption DEF SdTypes, WordTypes
    <3> QED
      BY <3>1 DEF S!InWord, S!Times
  <2> QED
    BY <1>2, <2>1
<1>5. \A p \in Objects \ {o} : k[p] = f[p]
  BY <1>1, <1>2 DEF WordFrame, S!InWord
<1>6. Total(f) \in Nat /\ Total(k) = Total(f) + k[o] - f[o]
  BY <1>3, <1>4, <1>5, SdAssumption, TotalChange
<1>7. InWords(h) = Total(f) /\ InWords(h)' = Total(k)
  BY <1>1, <1>2 DEF InWords
<1>8. f[o] = S!InWord(o, h) /\ k[o] = S!InWord(o, h)' /\ f[o] \in Nat /\ k[o] \in Nat
  BY <1>1, <1>2, <1>3, <1>4
<1>9. /\ InThreads(h) \in Nat /\ S!Held(t, h) \in Nat /\ S!Held(t, h)' \in Nat
      /\ InThreads(h)' = InThreads(h) + S!Held(t, h)' - S!Held(t, h)
  BY SdTotals
<1>10. header[h].RefCount = InWords(h) + InThreads(h)
  BY SdRefsIs
<1>11. header'[h].RefCount - header[h].RefCount = (k[o] - f[o]) + (S!Held(t, h)' - S!Held(t, h))
  BY <1>8 DEF WordBalance
<1>12. header[h].RefCount \in Int /\ header'[h].RefCount \in Int
  BY DEF SdTypes, HeaderTypes
<1> HIDE DEF S!Held
<1> QED
  BY <1>6, <1>7, <1>8, <1>9, <1>10, <1>11, <1>12

(* and one that changes none. *)
LEMMA SdHeldRefs ==
    ASSUME SdTypes, S!RefsExact, SdTypes', NEW t \in Threads, SdFrame(t),
           FastRef' = FastRef, \A h \in Headers : HeldBalance(t, h)
    PROVE  S!RefsExact'
<1> SUFFICES ASSUME NEW h \in Headers
             PROVE  header'[h].RefCount = InWords(h)' + InThreads(h)'
  BY SdRefsNext
<1>1. InWords(h)' = InWords(h)
  BY DEF InWords, S!InWord
<1>2. InWords(h) \in Nat
  <2>1. [o \in Objects |-> S!InWord(o, h)] \in [Objects -> Nat]
    BY SdNumbers
  <2> QED
    BY <2>1, SdAssumption, TotalLeast DEF InWords
<1>3. /\ InThreads(h) \in Nat /\ S!Held(t, h) \in Nat /\ S!Held(t, h)' \in Nat
      /\ InThreads(h)' = InThreads(h) + S!Held(t, h)' - S!Held(t, h)
  BY SdTotals
<1>4. header[h].RefCount = InWords(h) + InThreads(h)
  BY SdRefsIs
<1>5. header'[h].RefCount - header[h].RefCount = S!Held(t, h)' - S!Held(t, h)
  BY DEF HeldBalance
<1>6. header[h].RefCount \in Int /\ header'[h].RefCount \in Int
  BY DEF SdTypes, HeaderTypes
<1> HIDE DEF S!Held
<1> QED
  BY <1>1, <1>2, <1>3, <1>4, <1>5, <1>6

(* h is in the cache, or in the word of an object, or a thread has a       *)
(* reference to it that is not one of the first for a new object.          *)
Known(h) ==
    \/ \E k \in 1 .. Len(Cache) : Cache[k] = h
    \/ \E o \in Objects : FastRef[o].header = h
    \/ \E t \in Threads : S!Held(t, h) > S!Times(S!RefBias, New[t] = h)

(* A header that is being made is not known. *)
LEMMA AgainAlone ==
    ASSUME SdInv, NEW t \in Threads, spc[t] = "again"
    PROVE  ~Known(New[t])
<1>1. PICK h \in Headers : h = New[t]
  BY DEF SdInv, SdTypes, SdLocals, NewPCs
<1>2. header[h].RefCount = SdFastRefs + 1 /\ SdFastRefs \in Nat
  BY <1>1, SdAssumption DEF SdInv, AgainInv, S!RefBias
<1>3. \A u \in Threads : S!Held(u, h) \in Nat
  BY SdNumbers DEF SdInv
<1>4. S!Held(t, h) >= SdFastRefs + 1
  <2>1. S!Held(t, h) = HeldAt(spc[t], Old[t], New[t], todo[t], h)
    BY HeldIs
  <2>2. todo[t] = <<>>
    BY DEF SdInv, SdLocals, DropPCs
  <2> QED
    BY <1>1, <1>2, <2>1, <2>2 DEF HeldAt
<1>5. /\ \A o \in Objects : header[h].RefCount >= S!InWord(o, h) + S!Held(t, h)
      /\ \A u \in Threads : t # u => header[h].RefCount >= S!Held(t, h) + S!Held(u, h)
      /\ header[h].RefCount >= S!Held(t, h)
  BY SdCovers DEF SdInv
<1>6. ASSUME NEW k \in 1 .. Len(Cache), Cache[k] = h PROVE FALSE
  <2>1. h \in {Cache[j] : j \in 1 .. Len(Cache)}
    BY <1>6
  <2>2. h \notin {New[u] : u \in {v \in Threads : spc[v] = "again"}}
    BY <2>1, Zenon DEF SdInv, S!CacheExact
  <2> QED
    BY <1>1, <2>2
<1>7. ASSUME NEW o \in Objects, FastRef[o].header = h PROVE FALSE
  <2>1. S!InWord(o, h) = FastRef[o].refs + 1 /\ FastRef[o].refs \in Nat
    BY <1>7, SdAssumption DEF S!InWord, S!Times, SdInv, SdTypes, WordTypes
  <2> QED
    BY <1>2, <1>3, <1>4, <1>5, <2>1
<1>8. ASSUME NEW u \in Threads, S!Held(u, h) > S!Times(S!RefBias, New[u] = h) PROVE FALSE
  <2>1. CASE u = t
    <3>1. S!Held(t, h) > SdFastRefs + 1
      BY <1>1, <1>8, <2>1 DEF S!Times, S!RefBias
    <3> QED
      BY <1>2, <1>3, <1>5, <3>1
  <2>2. CASE u # t
    <3>1. S!Held(u, h) > 0
      <4>1. S!Times(S!RefBias, New[u] = h) \in Nat
        BY <1>2 DEF S!Times, S!RefBias
      <4> QED
        BY <1>3, <1>8, <4>1
    <3> QED
      BY <1>2, <1>3, <1>4, <1>5, <2>2, <3>1
  <2> QED
    BY <2>1, <2>2
<1> QED
  BY <1>1, <1>6, <1>7, <1>8 DEF Known

(* A step of t that leaves the cache alone, and changes the counts only of *)
(* headers that are known, none of them to or from zero.                   *)
Counting(t) ==
    /\ SdTypes' /\ SdFrame(t) /\ SdLocals(t)' /\ S!RefsExact'
    /\ Cache' = Cache
    /\ \A h \in Headers : /\ header'[h].sd = header[h].sd
                          /\ header'[h].RefCount > 0 <=> header[h].RefCount > 0
                          /\ header'[h].RefCount # header[h].RefCount => Known(h)
    /\ spc[t] # "again" /\ spc'[t] # "again"

(* Such a step preserves the invariant, but for what is about objects. *)
LEMMA CountingInv ==
    ASSUME SdInv, NEW t \in Threads, Counting(t), ObjectInv', LockedInv'
    PROVE  SdInv'
<1>1. SdTypes' /\ SdFrame(t) /\ SdTypes
  BY DEF Counting, SdInv
<1>2. \A u \in Threads : SdLocals(u)'
  <2>1. ASSUME NEW u \in Threads, u # t PROVE SdLocals(u)'
    BY <1>1, <2>1 DEF SdInv, SdLocals, SdFrame
  <2> QED
    BY <2>1 DEF Counting
<1>3. \A h \in Headers : header[h].RefCount \in Nat
  BY SdCovers DEF SdInv
<1>4. ASSUME NEW h \in Headers PROVE header'[h].RefCount \in Nat
  <2>1. header'[h].RefCount = InWords(h)' + InThreads(h)'
    BY SdRefsNext DEF Counting
  <2>2. InThreads(h)' \in Nat
    BY <1>1, SdTotals
  <2>3. InWords(h)' \in Nat
    <3>1. ASSUME NEW p \in Objects PROVE S!InWord(p, h)' \in Nat
      <4>1. FastRef'[p].refs \in Nat
        BY <1>1, SdAssumption DEF SdTypes, WordTypes
      <4> QED
        BY <4>1 DEF S!InWord, S!Times
    <3>2. PICK k : k = [p \in Objects |-> S!InWord(p, h)']
      OBVIOUS
    <3>3. k \in [Objects -> Nat] /\ InWords(h)' = Total(k)
      BY <3>1, <3>2 DEF InWords
    <3> QED
      BY <3>3, SdAssumption, TotalLeast
  <2> QED
    BY <2>1, <2>2, <2>3
<1>5. LifeInv'
  <2> SUFFICES ASSUME NEW h \in Headers
               PROVE  IF header'[h].RefCount = 0 THEN header'[h].sd = NoDescriptor
                      ELSE header'[h].sd \in Descriptors
    BY DEF LifeInv
  <2>1. header'[h].RefCount = 0 <=> header[h].RefCount = 0
    BY <1>3, <1>4 DEF Counting
  <2> QED
    BY <2>1 DEF SdInv, LifeInv, Counting
<1>6. AgainInv'
  <2> SUFFICES ASSUME NEW u \in Threads, spc'[u] = "again"
               PROVE  header'[New'[u]].RefCount = S!RefBias /\ header'[New'[u]].sd = sd'[u]
    BY DEF AgainInv, S!RefBias
  <2>1. u # t
    BY DEF Counting
  <2>2. spc[u] = "again" /\ New'[u] = New[u] /\ sd'[u] = sd[u]
    BY <1>1, <2>1 DEF SdFrame
  <2>3. ~Known(New[u]) /\ New[u] \in Headers
    BY <2>2, AgainAlone DEF SdInv, SdLocals, SdTypes, NewPCs
  <2>4. /\ header'[New[u]].RefCount = header[New[u]].RefCount
        /\ header'[New[u]].sd = header[New[u]].sd
    BY <2>3 DEF Counting
  <2> QED
    BY <2>2, <2>4 DEF SdInv, AgainInv
<1>7. S!CacheExact'
  <2>1. {New'[u] : u \in {v \in Threads : spc'[v] = "again"}} =
           {New[u] : u \in {v \in Threads : spc[v] = "again"}}
    BY <1>1 DEF Counting, SdFrame
  <2>2. {h \in Headers : header'[h].RefCount > 0} = {h \in Headers : header[h].RefCount > 0}
    BY DEF Counting
  <2>3. \A k \in 1 .. Len(Cache) : header'[Cache[k]].sd = header[Cache[k]].sd
    BY <1>1 DEF Counting, SdTypes
  <2>4. Cache' = Cache
    BY DEF Counting
  <2>5. {Cache'[k] : k \in 1 .. Len(Cache')} = {Cache[k] : k \in 1 .. Len(Cache)}
    BY <2>4
  <2>6. \A j, k \in 1 .. Len(Cache) :
           j < k => /\ header'[Cache[j]].sd # header'[Cache[k]].sd
                    /\ HashOf[header'[Cache[j]].sd] <= HashOf[header'[Cache[k]].sd]
    BY <2>3 DEF SdInv, S!CacheExact
  <2>7. {Cache[k] : k \in 1 .. Len(Cache)} =
           {h \in Headers : header[h].RefCount > 0}
              \ {New[u] : u \in {v \in Threads : spc[v] = "again"}}
    BY Zenon DEF SdInv, S!CacheExact
  <2> QED
    BY <2>1, <2>2, <2>4, <2>5, <2>6, <2>7 DEF S!CacheExact
<1>8. S!RefsExact'
  BY DEF Counting
<1> QED
  BY <1>1, <1>2, <1>5, <1>6, <1>7, <1>8 DEF SdInv

(* What t refers to after a step. *)
LEMMA HeldNext == \A t, h : S!Held(t, h)' = HeldAt(spc'[t], Old'[t], New'[t], todo'[t], h)
BY DEF S!Held, S!Times, S!ToDrop, S!RefBias, HeldAt

(* A step of t that gives no object a descriptor and takes none from it. *)
Quiet(t) ==
    /\ state' = state
    /\ \A o \in Objects : /\ FastRef'[o].header = FastRef[o].header
                          /\ state[o] # "live" => FastRef'[o] = FastRef[o]
    /\ obj'[t] \in {obj[t], NoObject}
    /\ IF obj'[t] = NoObject THEN ~Making(t)' ELSE Making(t)' <=> Making(t)
    /\ spc[t] = "flush" => \A u \in Threads : spc[u] = "locked" => obj[u] # obj[t]
    /\ spc'[t] = "locked" => obj'[t] = obj[t] /\ FastRef[obj[t]].header = Old'[t]

(* It changes nothing of what is known of objects and their locks. *)
LEMMA QuietInv ==
    ASSUME SdInv, NEW t \in Threads, SdTypes', SdFrame(t), SdLocals(t)', Quiet(t)
    PROVE  ObjectInv' /\ LockedInv'
<1>1. SdTypes /\ ObjectInv /\ LockedInv /\ \A u \in Threads : SdLocals(u)
  BY DEF SdInv
<1>2. \A u \in Threads \ {t} : (Making(u)' <=> Making(u)) /\ obj'[u] = obj[u]
  BY DEF SdFrame, Making
<1>3. \A u \in Threads : obj'[u] # NoObject => (Making(u)' <=> Making(u)) /\ obj'[u] = obj[u]
  BY <1>2 DEF Quiet
<1>4. \A u \in Threads : Making(u)' => Making(u) /\ obj'[u] = obj[u]
  BY <1>2 DEF Quiet
<1>5. \A u \in Threads : obj'[u] # NoObject => state'[obj'[u]] = IF Making(u)' THEN "made" ELSE "live"
  BY <1>1, <1>3 DEF Quiet, ObjectInv
<1>6. \A u, v \in Threads : Making(u)' /\ Making(v)' /\ obj'[u] = obj'[v] => u = v
  BY <1>1, <1>4 DEF ObjectInv
<1>7. \A o \in Objects : IF state'[o] = "live" THEN FastRef'[o].header \in Headers
                         ELSE FastRef'[o] = S!NoSecurity
  BY <1>1 DEF ObjectInv, Quiet
<1>8. ObjectInv'
  <2>1. S!NoSecurity' = S!NoSecurity
    BY DEF S!NoSecurity
  <2> QED
    BY <1>5, <1>6, <1>7, <2>1 DEF ObjectInv
<1>9. ASSUME NEW u \in Threads, spc'[u] = "locked" PROVE Covered(u)'
  <2>1. CASE u = t
    <3>1. obj'[t] # NoObject /\ obj'[t] = obj[t]
      BY <1>9, <2>1 DEF Quiet, SdLocals
    <3>2. obj[t] \in Objects
      BY <1>1, <3>1 DEF SdTypes
    <3> QED
      BY <1>9, <2>1, <3>1, <3>2 DEF Quiet, Covered
  <2>2. CASE u # t
    <3>1. spc[u] = "locked" /\ obj'[u] = obj[u] /\ Old'[u] = Old[u] /\ obj[u] \in Objects
      <4>1. spc[u] = "locked" /\ obj'[u] = obj[u] /\ Old'[u] = Old[u]
        BY <1>9, <2>2 DEF SdFrame
      <4>2. SdLocals(u)
        BY <1>1
      <4>3. obj[u] # NoObject
        BY <4>1, <4>2 DEF SdLocals
      <4> QED
        BY <1>1, <4>1, <4>3 DEF SdTypes
    <3>2. CASE FastRef[obj[u]].header = Old[u]
      BY <3>1, <3>2 DEF Quiet, Covered
    <3>3. CASE \E v \in Threads : spc[v] = "flush" /\ obj[v] = obj[u] /\ todo[v][1].header = Old[u]
      <4>1. PICK v \in Threads : spc[v] = "flush" /\ obj[v] = obj[u] /\ todo[v][1].header = Old[u]
        BY <3>3
      <4>2. v # t
        BY <3>1, <4>1 DEF Quiet
      <4>3. spc'[v] = "flush" /\ obj'[v] = obj'[u] /\ todo'[v][1].header = Old'[u]
        BY <3>1, <4>1, <4>2 DEF SdFrame
      <4> QED
        BY <4>3 DEF Covered
    <3> QED
      BY <1>1, <3>1, <3>2, <3>3 DEF LockedInv, Covered
  <2> QED
    BY <2>1, <2>2
<1> QED
  BY <1>8, <1>9 DEF LockedInv

(* The header of a thread that has a reference to it. *)
LEMMA OldHeld ==
    ASSUME SdInv, NEW t \in Threads, spc[t] \in OldPCs, spc[t] # "locked"
    PROVE  /\ Old[t] \in Headers /\ Known(Old[t])
           /\ header[Old[t]].RefCount \in Nat
           /\ header[Old[t]].RefCount >= 1 + (IF spc[t] \in {"insert", "undo"} THEN SdFastRefs ELSE 0)
<1>1. PICK h \in Headers : h = Old[t]
  BY DEF SdInv, SdLocals
<1>2. todo[t] = <<>> /\ SdFastRefs \in Nat
  BY SdAssumption DEF SdInv, SdLocals, OldPCs, DropPCs
<1>3. S!Held(t, h) = 1 + (IF spc[t] \in {"insert", "undo"} THEN SdFastRefs ELSE 0)
                       + (IF New[t] = h THEN SdFastRefs + 1 ELSE 0)
  <2>1. S!Held(t, h) = HeldAt(spc[t], Old[t], New[t], <<>>, h)
    BY <1>2, HeldIs
  <2> QED
    BY <1>1, <1>2, <2>1 DEF HeldAt
<1>4. S!Times(S!RefBias, New[t] = h) = IF New[t] = h THEN SdFastRefs + 1 ELSE 0
  BY DEF S!Times, S!RefBias
<1>5. Known(h)
  <2>1. S!Held(t, h) > S!Times(S!RefBias, New[t] = h)
    BY <1>2, <1>3, <1>4
  <2> QED
    BY <2>1 DEF Known
<1>6. header[h].RefCount \in Nat /\ header[h].RefCount >= S!Held(t, h)
  BY SdCovers DEF SdInv
<1> QED
  BY <1>1, <1>2, <1>3, <1>5, <1>6

(* Only the count of g changes, to n. *)
Recount(g, n) == header' = [header EXCEPT ![g].RefCount = n]

(* It is a header still, and the others are as they were. *)
LEMMA RecountIs ==
    ASSUME SdTypes, NEW g \in Headers, NEW n \in Int, Recount(g, n)
    PROVE  /\ header' \in [Headers -> HeaderTypes]
           /\ header'[g].RefCount = n
           /\ \A h \in Headers : /\ header'[h].sd = header[h].sd
                                 /\ h # g => header'[h] = header[h]
<1>1. header \in [Headers -> HeaderTypes]
  BY DEF SdTypes
<1>2. [header[g] EXCEPT !.RefCount = n] \in HeaderTypes
  BY <1>1 DEF HeaderTypes
<1>3. header' = [header EXCEPT ![g] = [header[g] EXCEPT !.RefCount = n]]
  BY DEF Recount
<1>4. header' \in [Headers -> HeaderTypes]
  BY <1>1, <1>2, <1>3
<1>5. /\ header'[g] = [header[g] EXCEPT !.RefCount = n]
      /\ \A h \in Headers : h # g => header'[h] = header[h]
  BY <1>1, <1>3
<1>6. header'[g].RefCount = n /\ header'[g].sd = header[g].sd
  BY <1>1, <1>5 DEF HeaderTypes
<1> QED
  BY <1>4, <1>5, <1>6

(* Such a step, of a header that is known and stays counted. *)
LEMMA RecountCounting ==
    ASSUME SdInv, NEW t \in Threads, SdTypes', SdFrame(t), SdLocals(t)', S!RefsExact', Cache' = Cache,
           spc[t] # "again", spc'[t] # "again",
           NEW g \in Headers, NEW n \in Int, Recount(g, n), n > 0, header[g].RefCount > 0, Known(g)
    PROVE  Counting(t)
<1>1. /\ header'[g].RefCount = n
      /\ \A h \in Headers : /\ header'[h].sd = header[h].sd
                            /\ h # g => header'[h] = header[h]
  BY RecountIs DEF SdInv
<1> QED
  BY <1>1 DEF Counting

(* And a step that counts nothing. *)
LEMMA StillCounting ==
    ASSUME SdInv, NEW t \in Threads, SdTypes', SdFrame(t), SdLocals(t)', S!RefsExact', Cache' = Cache,
           spc[t] # "again", spc'[t] # "again", header' = header
    PROVE  Counting(t)
BY DEF Counting

(* Only the references in the word of o change, to n. *)
Rewords(o, n) == FastRef' = [FastRef EXCEPT ![o].refs = n]

(* The words keep their types, and the descriptors that they have. *)
LEMMA RewordsIs ==
    ASSUME SdTypes, NEW o \in Objects, NEW n \in 0 .. SdFastRefs, Rewords(o, n)
    PROVE  /\ FastRef' \in [Objects -> WordTypes]
           /\ FastRef'[o].refs = n /\ WordFrame(o)
           /\ \A p \in Objects : FastRef'[p].header = FastRef[p].header
<1>1. FastRef \in [Objects -> WordTypes]
  BY DEF SdTypes
<1>2. [FastRef[o] EXCEPT !.refs = n] \in WordTypes
  BY <1>1 DEF WordTypes
<1>3. FastRef' = [FastRef EXCEPT ![o] = [FastRef[o] EXCEPT !.refs = n]]
  BY DEF Rewords
<1>4. FastRef' \in [Objects -> WordTypes] /\ WordFrame(o)
  BY <1>1, <1>2, <1>3 DEF WordFrame
<1>5. FastRef'[o] = [FastRef[o] EXCEPT !.refs = n]
  BY <1>1, <1>3
<1>6. FastRef'[o].refs = n /\ FastRef'[o].header = FastRef[o].header
  BY <1>1, <1>5 DEF WordTypes
<1> QED
  BY <1>4, <1>6 DEF WordFrame

(* What is to be dropped is counted. *)
LEMMA DropHeld ==
    ASSUME SdInv, NEW t \in Threads, spc[t] \in DropPCs
    PROVE  /\ todo[t] \in Seq(DropTypes) /\ Len(todo[t]) \in 1 .. 2
           /\ todo[t][1].header \in Headers /\ todo[t][1].n \in Nat \ {0}
           /\ Known(todo[t][1].header)
           /\ header[todo[t][1].header].RefCount \in Nat
           /\ header[todo[t][1].header].RefCount >= todo[t][1].n
<1>1. todo[t] \in Seq(DropTypes) /\ Len(todo[t]) \in 1 .. 2
  BY DEF SdInv, SdTypes, SdLocals
<1>2. \A k \in 1 .. Len(todo[t]) : todo[t][k] \in DropTypes
  BY <1>1, ElementOfSeq
<1>3. todo[t][1] \in DropTypes /\ (Len(todo[t]) >= 2 => todo[t][2] \in DropTypes)
  BY <1>1, <1>2
<1>4. PICK h \in Headers : h = todo[t][1].header
  BY <1>3 DEF DropTypes
<1>5. PICK n \in Nat \ {0} : n = todo[t][1].n
  BY <1>3 DEF DropTypes
<1>6. Len(todo[t]) >= 2 => todo[t][2].n \in Nat
  BY <1>3 DEF DropTypes
<1>7. New[t] = NoHeader /\ Old[t] = NoHeader /\ h # NoHeader
  BY SdAssumption DEF SdInv, SdLocals, DropPCs, NewPCs, OldPCs, LogPCs
<1>8. S!Held(t, h) = HeldAt(spc[t], Old[t], New[t], todo[t], h) /\ SdFastRefs \in Nat
  BY HeldIs, SdAssumption
<1>9. S!Held(t, h) >= n /\ S!Held(t, h) \in Nat
  BY <1>1, <1>4, <1>5, <1>6, <1>7, <1>8 DEF HeldAt
<1>10. Known(h)
  <2>1. S!Times(S!RefBias, New[t] = h) = 0
    BY <1>7 DEF S!Times
  <2> QED
    BY <1>9, <2>1 DEF Known
<1>11. header[h].RefCount \in Nat /\ header[h].RefCount >= S!Held(t, h)
  BY SdCovers DEF SdInv
<1> QED
  BY <1>1, <1>4, <1>5, <1>9, <1>10, <1>11

(* The header that was read under the lock is there. *)
LEMMA LockedKnown ==
    ASSUME SdInv, NEW t \in Threads, spc[t] = "locked"
    PROVE  /\ Old[t] \in Headers /\ Known(Old[t])
           /\ header[Old[t]].RefCount \in Nat /\ header[Old[t]].RefCount > 0
<1>1. PICK h \in Headers : h = Old[t]
  BY DEF SdInv, SdLocals, OldPCs
<1>2. header[h].RefCount \in Nat
  BY SdCovers DEF SdInv
<1>3. CASE FastRef[obj[t]].header = h
  <2>1. PICK o \in Objects : o = obj[t]
    BY DEF SdInv, SdLocals, SdTypes
  <2>2. S!InWord(o, h) = FastRef[o].refs + 1 /\ FastRef[o].refs \in Nat
    BY <1>3, <2>1, SdAssumption DEF S!InWord, S!Times, SdInv, SdTypes, WordTypes
  <2>3. header[h].RefCount >= S!InWord(o, h)
    BY SdCovers DEF SdInv
  <2>4. Known(h)
    BY <1>3, <2>1 DEF Known
  <2> QED
    BY <1>1, <1>2, <2>2, <2>3, <2>4
<1>4. ASSUME NEW u \in Threads, spc[u] = "flush", todo[u][1].header = h
      PROVE  Known(h) /\ header[h].RefCount > 0
  BY <1>4, DropHeld DEF DropPCs
<1> QED
  BY <1>1, <1>2, <1>3, <1>4 DEF SdInv, LockedInv, Covered

(* What a thread refers to that has nothing to drop, *)
HeldNone(l, old, new, h) ==
    (IF old = h /\ l # "locked" THEN 1 ELSE 0)
    + (IF old = h /\ l \in {"insert", "undo"} THEN SdFastRefs ELSE 0)
    + (IF new = h THEN SdFastRefs + 1 ELSE 0)

(* by the same count: *)
LEMMA HeldFree ==
    ASSUME NEW l, NEW old, NEW new, NEW h
    PROVE  HeldAt(l, old, new, <<>>, h) = HeldNone(l, old, new, h) /\ HeldNone(l, old, new, h) \in Nat
<1>1. SdFastRefs \in Nat
  BY SdAssumption
<1>2. HeldNone(l, old, new, h) \in Nat
  BY <1>1 DEF HeldNone
<1>3. HeldAt(l, old, new, <<>>, h) = HeldNone(l, old, new, h) + 0 + 0
  <2>1. ~(1 <= Len(<<>>)) /\ ~(2 <= Len(<<>>))
    OBVIOUS
  <2> QED
    BY <2>1 DEF HeldAt, HeldNone
<1> QED
  BY <1>2, <1>3

(* and one that has only something to drop: once, *)
LEMMA HeldOnce ==
    ASSUME NEW l, NEW g, NEW n \in Nat, NEW h \in Headers
    PROVE  HeldAt(l, NoHeader, NoHeader, <<[header |-> g, n |-> n]>>, h) = IF g = h THEN n ELSE 0
<1>1. h # NoHeader
  BY SdAssumption
<1>2. PICK list : list = <<[header |-> g, n |-> n]>>
  OBVIOUS
<1>3. Len(list) = 1 /\ list[1].header = g /\ list[1].n = n
  BY <1>2
<1> QED
  BY <1>1, <1>2, <1>3 DEF HeldAt

(* twice, *)
LEMMA HeldTwice ==
    ASSUME NEW list, NEW n \in Nat, NEW m \in Nat, NEW l, NEW h \in Headers,
           Len(list) = 2, list[1].n = n, list[2].n = m
    PROVE  HeldAt(l, NoHeader, NoHeader, list, h) =
              (IF list[1].header = h THEN n ELSE 0) + (IF list[2].header = h THEN m ELSE 0)
<1>1. h # NoHeader
  BY SdAssumption
<1> QED
  BY <1>1 DEF HeldAt

(* and after it has dropped the first. *)
LEMMA HeldTail ==
    ASSUME NEW list \in Seq(DropTypes), Len(list) \in 1 .. 2, NEW l, NEW k, NEW h \in Headers
    PROVE  /\ HeldAt(l, NoHeader, NoHeader, list, h) =
              (IF list[1].header = h THEN list[1].n ELSE 0)
              + HeldAt(k, NoHeader, NoHeader, Tail(list), h)
           /\ HeldAt(k, NoHeader, NoHeader, Tail(list), h) \in Nat
           /\ list[1].n \in Nat
           /\ Tail(list) \in Seq(DropTypes) /\ Len(Tail(list)) = Len(list) - 1
<1>1. h # NoHeader
  BY SdAssumption
<1>2. PICK rest : rest = Tail(list)
  OBVIOUS
<1>3. /\ rest \in Seq(DropTypes) /\ Len(rest) = Len(list) - 1
      /\ \A j \in 1 .. Len(rest) : rest[j] = list[j + 1]
  BY <1>2, HeadTailProperties, EmptySeq
<1>4. list[1] \in DropTypes /\ (Len(list) = 2 => list[2] \in DropTypes /\ rest[1] = list[2])
  <2>1. \A j \in 1 .. Len(list) : list[j] \in DropTypes
    BY ElementOfSeq
  <2>2. Len(list) = 2 => rest[1] = list[1 + 1]
    BY <1>3
  <2> QED
    BY <2>1, <2>2
<1>5. list[1].n \in Nat /\ (Len(list) = 2 => list[2].n \in Nat)
  BY <1>4 DEF DropTypes
<1>6. PICK n \in Nat : n = list[1].n
  BY <1>5
<1>7. HeldAt(l, NoHeader, NoHeader, list, h) =
         (IF list[1].header = h THEN n ELSE 0)
         + (IF 2 <= Len(list) /\ list[2].header = h THEN list[2].n ELSE 0)
  <2>1. 2 <= Len(list) => list[2].n \in Nat
    BY <1>5
  <2> QED
    BY <1>1, <1>6, <2>1 DEF HeldAt
<1>8. HeldAt(k, NoHeader, NoHeader, rest, h) =
         (IF 2 <= Len(list) /\ list[2].header = h THEN list[2].n ELSE 0)
  <2>1. CASE Len(list) = 1
    BY <1>1, <1>3, <2>1 DEF HeldAt
  <2>2. CASE Len(list) = 2
    <3>1. Len(rest) = 1 /\ rest[1] = list[2] /\ list[2].n \in Nat
      BY <1>3, <1>4, <1>5, <2>2
    <3> QED
      BY <1>1, <2>2, <3>1 DEF HeldAt
  <2> QED
    BY <2>1, <2>2
<1>9. HeldAt(k, NoHeader, NoHeader, rest, h) \in Nat
  BY <1>5, <1>8
<1> QED
  BY <1>2, <1>3, <1>6, <1>7, <1>8, <1>9

(* What t refers to when it has nothing to drop, before and after a step. *)
LEMMA HeldBefore ==
    ASSUME NEW t, todo[t] = <<>>
    PROVE  \A h : S!Held(t, h) = HeldNone(spc[t], Old[t], New[t], h)
BY HeldIs, HeldFree

(* After it. *)
LEMMA HeldAfter ==
    ASSUME NEW t, todo'[t] = <<>>
    PROVE  \A h : S!Held(t, h)' = HeldNone(spc'[t], Old'[t], New'[t], h)
BY HeldNext, HeldFree

(* When only who uses o changes: nobody else uses it. *)
Claims(t, o) ==
    /\ \A p \in Objects \ {o} : state'[p] = state[p] /\ FastRef'[p] = FastRef[p]
    /\ IF state'[o] = "live" THEN FastRef'[o].header \in Headers ELSE FastRef'[o] = S!NoSecurity
    /\ \A u \in Threads \ {t} : obj[u] # o
    /\ IF obj'[t] = NoObject THEN ~Making(t)'
       ELSE obj'[t] = o /\ state'[o] = IF Making(t)' THEN "made" ELSE "live"
    /\ spc[t] # "flush" /\ spc'[t] # "locked"

(* What is known of objects and their locks stays true. *)
LEMMA ClaimsInv ==
    ASSUME SdInv, NEW t \in Threads, SdTypes', SdFrame(t), NEW o \in Objects, Claims(t, o)
    PROVE  ObjectInv' /\ LockedInv'
<1>1. SdTypes /\ ObjectInv /\ LockedInv /\ \A u \in Threads : SdLocals(u)
  BY DEF SdInv
<1>2. \A u \in Threads \ {t} : (Making(u)' <=> Making(u)) /\ obj'[u] = obj[u]
  BY DEF SdFrame, Making
<1>3. ASSUME NEW u \in Threads, obj'[u] # NoObject
      PROVE  state'[obj'[u]] = IF Making(u)' THEN "made" ELSE "live"
  <2>1. CASE u = t
    BY <1>3, <2>1 DEF Claims
  <2>2. CASE u # t
    <3>1. obj'[u] = obj[u] /\ obj[u] # o /\ obj[u] \in Objects
      BY <1>1, <1>2, <1>3, <2>2 DEF Claims, SdTypes
    <3>2. state'[obj'[u]] = state[obj[u]]
      BY <3>1 DEF Claims
    <3> QED
      BY <1>1, <1>2, <1>3, <2>2, <3>1, <3>2 DEF ObjectInv
  <2> QED
    BY <2>1, <2>2
<1>4. ASSUME NEW u \in Threads, NEW v \in Threads, Making(u)', Making(v)', obj'[u] = obj'[v]
      PROVE  u = v
  <2>1. \A w \in Threads : w # t => obj'[w] # o
    BY <1>2 DEF Claims
  <2>2. Making(t)' => obj'[t] = o
    BY DEF Claims
  <2>3. CASE u = t \/ v = t
    BY <1>4, <2>1, <2>2, <2>3
  <2>4. CASE u # t /\ v # t
    BY <1>1, <1>2, <1>4, <2>4 DEF ObjectInv
  <2> QED
    BY <2>3, <2>4
<1>5. ASSUME NEW p \in Objects
      PROVE  IF state'[p] = "live" THEN FastRef'[p].header \in Headers ELSE FastRef'[p] = S!NoSecurity
  BY <1>1 DEF Claims, ObjectInv
<1>6. ObjectInv'
  <2>1. S!NoSecurity' = S!NoSecurity
    BY DEF S!NoSecurity
  <2> QED
    BY <1>3, <1>4, <1>5, <2>1 DEF ObjectInv
<1>7. ASSUME NEW u \in Threads, spc'[u] = "locked" PROVE Covered(u)'
  <2>1. u # t
    BY <1>7 DEF Claims
  <2>2. spc[u] = "locked" /\ obj'[u] = obj[u] /\ Old'[u] = Old[u]
    BY <1>7, <2>1 DEF SdFrame
  <2>3. SdLocals(u)
    BY <1>1
  <2>4. obj[u] # NoObject
    BY <2>2, <2>3 DEF SdLocals
  <2>5. obj[u] \in Objects \ {o}
    BY <1>1, <2>1, <2>4 DEF SdTypes, Claims
  <2>6. CASE FastRef[obj[u]].header = Old[u]
    BY <2>2, <2>5, <2>6 DEF Claims, Covered
  <2>7. CASE \E v \in Threads : spc[v] = "flush" /\ obj[v] = obj[u] /\ todo[v][1].header = Old[u]
    <3>1. PICK v \in Threads : spc[v] = "flush" /\ obj[v] = obj[u] /\ todo[v][1].header = Old[u]
      BY <2>7
    <3>2. v # t
      BY <3>1 DEF Claims
    <3>3. spc'[v] = "flush" /\ obj'[v] = obj'[u] /\ todo'[v][1].header = Old'[u]
      BY <2>2, <3>1, <3>2 DEF SdFrame
    <3> QED
      BY <3>3 DEF Covered
  <2> QED
    BY <1>1, <2>2, <2>6, <2>7 DEF LockedInv, Covered
<1> QED
  BY <1>6, <1>7 DEF LockedInv

(* The object that a thread uses is there. *)
LEMMA UserLive ==
    ASSUME SdInv, NEW t \in Threads, spc[t] \notin {"idle", "drop", "destroy"}
    PROVE  /\ obj[t] \in Objects
           /\ state[obj[t]] = IF Making(t) THEN "made" ELSE "live"
<1>1. SdTypes /\ ObjectInv /\ SdLocals(t)
  BY DEF SdInv
<1>2. obj[t] # NoObject
  BY <1>1 DEF SdLocals
<1> QED
  BY <1>1, <1>2 DEF SdTypes, ObjectInv

(* A step of t changes the local variables of t only. *)
Changes(t) ==
    /\ spc' = [spc EXCEPT ![t] = spc'[t]] /\ obj' = [obj EXCEPT ![t] = obj'[t]]
    /\ Old' = [Old EXCEPT ![t] = Old'[t]] /\ New' = [New EXCEPT ![t] = New'[t]]
    /\ sd' = [sd EXCEPT ![t] = sd'[t]] /\ todo' = [todo EXCEPT ![t] = todo'[t]]
    /\ next' = [next EXCEPT ![t] = next'[t]]

(* Then it is typed if what it changes is. *)
LEMMA ChangesTypes ==
    ASSUME SdTypes, NEW t \in Threads, Changes(t),
           Cache' \in Seq(Headers), header' \in [Headers -> HeaderTypes],
           FastRef' \in [Objects -> WordTypes], state' \in [Objects -> {"none", "made", "live"}],
           spc'[t] \in OldPCs \cup NewPCs \cup LogPCs \cup DropPCs \cup {"idle", "reference", "lock"},
           obj'[t] \in Objects \cup {NoObject}, Old'[t] \in Headers \cup {NoHeader},
           New'[t] \in Headers \cup {NoHeader}, sd'[t] \in Descriptors \cup {NoDescriptor},
           todo'[t] \in Seq(DropTypes), next'[t] \in {"idle", "reference"}
    PROVE  SdTypes' /\ SdFrame(t)
<1>1. SdFrame(t)
  BY DEF Changes, SdTypes, SdFrame
<1>2. spc' \in [Threads -> OldPCs \cup NewPCs \cup LogPCs \cup DropPCs \cup {"idle", "reference", "lock"}]
  BY DEF Changes, SdTypes
<1>3. /\ obj' \in [Threads -> Objects \cup {NoObject}] /\ Old' \in [Threads -> Headers \cup {NoHeader}]
      /\ New' \in [Threads -> Headers \cup {NoHeader}]
  BY DEF Changes, SdTypes
<1>4. /\ sd' \in [Threads -> Descriptors \cup {NoDescriptor}] /\ todo' \in [Threads -> Seq(DropTypes)]
      /\ next' \in [Threads -> {"idle", "reference"}]
  BY DEF Changes, SdTypes
<1> QED
  BY <1>1, <1>2, <1>3, <1>4 DEF SdTypes

(* Nobody else uses an object that is being made. *)
LEMMA MakerAlone ==
    ASSUME SdInv, NEW t \in Threads, Making(t), NEW o \in Objects, obj[t] = o
    PROVE  /\ state[o] = "made" /\ FastRef[o] = S!NoSecurity
           /\ \A u \in Threads \ {t} : obj[u] # o
<1>1. ObjectInv /\ o # NoObject
  BY SdAssumption DEF SdInv
<1>2. state[o] = "made"
  BY <1>1 DEF ObjectInv
<1>3. ASSUME NEW u \in Threads \ {t}, obj[u] = o PROVE FALSE
  <2>1. Making(u)
    BY <1>1, <1>2, <1>3 DEF ObjectInv
  <2> QED
    BY <1>1, <1>3, <2>1 DEF ObjectInv
<1> QED
  BY <1>1, <1>2, <1>3 DEF ObjectInv

(* When t is to use an object that is there, and may replace the header in *)
(* its word, which it then has to drop.                                    *)
UsesLive(t, o) ==
    /\ state' = state /\ state[o] = "live" /\ obj'[t] = o /\ ~Making(t)'
    /\ WordFrame(o) /\ FastRef'[o].header \in Headers
    /\ spc[t] # "flush" /\ spc'[t] # "locked"
    /\ \/ FastRef'[o].header = FastRef[o].header
       \/ spc'[t] = "flush" /\ todo'[t][1].header = FastRef[o].header

(* A thread that counts a reference under the lock is still covered. *)
LEMMA UsesLiveInv ==
    ASSUME SdInv, NEW t \in Threads, SdTypes', SdFrame(t), NEW o \in Objects, UsesLive(t, o)
    PROVE  ObjectInv' /\ LockedInv'
<1>1. SdTypes /\ ObjectInv /\ LockedInv /\ \A u \in Threads : SdLocals(u)
  BY DEF SdInv
<1>2. \A u \in Threads \ {t} : (Making(u)' <=> Making(u)) /\ obj'[u] = obj[u]
  BY DEF SdFrame, Making
<1>3. ASSUME NEW u \in Threads, obj'[u] # NoObject
      PROVE  state'[obj'[u]] = IF Making(u)' THEN "made" ELSE "live"
  <2>1. CASE u = t
    BY <2>1 DEF UsesLive
  <2>2. CASE u # t
    BY <1>1, <1>2, <1>3, <2>2 DEF ObjectInv, UsesLive
  <2> QED
    BY <2>1, <2>2
<1>4. \A u, v \in Threads : Making(u)' /\ Making(v)' /\ obj'[u] = obj'[v] => u = v
  BY <1>1, <1>2 DEF ObjectInv, UsesLive
<1>5. ASSUME NEW p \in Objects
      PROVE  IF state'[p] = "live" THEN FastRef'[p].header \in Headers ELSE FastRef'[p] = S!NoSecurity
  <2>1. CASE p = o
    BY <2>1 DEF UsesLive
  <2>2. CASE p # o
    BY <1>1, <2>2 DEF UsesLive, ObjectInv, WordFrame
  <2> QED
    BY <2>1, <2>2
<1>6. ObjectInv'
  <2>1. S!NoSecurity' = S!NoSecurity
    BY DEF S!NoSecurity
  <2> QED
    BY <1>3, <1>4, <1>5, <2>1 DEF ObjectInv
<1>7. ASSUME NEW u \in Threads, spc'[u] = "locked" PROVE Covered(u)'
  <2>1. u # t
    BY <1>7 DEF UsesLive
  <2>2. spc[u] = "locked" /\ obj'[u] = obj[u] /\ Old'[u] = Old[u]
    BY <1>7, <2>1 DEF SdFrame
  <2>3. SdLocals(u)
    BY <1>1
  <2>4. obj[u] \in Objects
    BY <1>1, <2>2, <2>3 DEF SdLocals, SdTypes
  <2>5. CASE FastRef[obj[u]].header = Old[u] /\ FastRef'[obj[u]].header = FastRef[obj[u]].header
    BY <2>2, <2>5 DEF Covered
  <2>6. CASE FastRef[obj[u]].header = Old[u] /\ FastRef'[obj[u]].header # FastRef[obj[u]].header
    <3>1. obj[u] = o
      BY <2>4, <2>6 DEF UsesLive, WordFrame
    <3>2. spc'[t] = "flush" /\ todo'[t][1].header = Old'[u] /\ obj'[t] = obj'[u]
      BY <2>2, <2>6, <3>1 DEF UsesLive
    <3> QED
      BY <3>2 DEF Covered
  <2>7. CASE \E v \in Threads : spc[v] = "flush" /\ obj[v] = obj[u] /\ todo[v][1].header = Old[u]
    <3>1. PICK v \in Threads : spc[v] = "flush" /\ obj[v] = obj[u] /\ todo[v][1].header = Old[u]
      BY <2>7
    <3>2. v # t
      BY <3>1 DEF UsesLive
    <3>3. spc'[v] = "flush" /\ obj'[v] = obj'[u] /\ todo'[v][1].header = Old'[u]
      BY <2>2, <3>1, <3>2 DEF SdFrame
    <3> QED
      BY <3>3 DEF Covered
  <2> QED
    BY <1>1, <2>2, <2>5, <2>6, <2>7 DEF LockedInv, Covered
<1> QED
  BY <1>6, <1>7 DEF LockedInv

-----------------------------------------------------------------------------
(* The place where the search for d ends: none before it stops it. *)
LEMMA PlaceIs ==
    ASSUME SdTypes, NEW d
    PROVE  /\ S!Place(d) \in 1 .. Len(Cache) + 1
           /\ S!Place(d) <= Len(Cache) =>
                 \/ header[Cache[S!Place(d)]].sd = d
                 \/ HashOf[header[Cache[S!Place(d)]].sd] > HashOf[d]
           /\ \A j \in 1 .. Len(Cache) :
                 j < S!Place(d) => /\ header[Cache[j]].sd # d
                                   /\ ~(HashOf[header[Cache[j]].sd] > HashOf[d])
<1> DEFINE stop == {k \in 1 .. Len(Cache) : \/ header[Cache[k]].sd = d
                                           \/ HashOf[header[Cache[k]].sd] > HashOf[d]}
           N == stop \cup {Len(Cache) + 1}
<1>1. Len(Cache) \in Nat
  BY LenProperties DEF SdTypes
<1>2. N \subseteq Nat /\ N # {}
  BY <1>1
<1>4. \E k \in N : \A j \in N : k <= j
  <2> HIDE DEF N
  <2> QED
    BY <1>2, LeastExists
<1>5. S!Place(d) = CHOOSE m \in N : \A j \in N : m <= j
  BY DEF S!Place
<1>6. S!Place(d) \in N /\ \A j \in N : S!Place(d) <= j
  BY <1>4, <1>5
<1>7. PICK p : p = S!Place(d)
  OBVIOUS
<1>8. p \in N /\ \A j \in N : p <= j
  BY <1>6, <1>7
<1>9. p \in 1 .. Len(Cache) + 1
  BY <1>1, <1>8
<1>10. p <= Len(Cache) => p \in stop
  BY <1>1, <1>8
<1>11. \A j \in 1 .. Len(Cache) : j < p => j \notin stop
  BY <1>1, <1>8, <1>9
<1> QED
  BY <1>7, <1>9, <1>10, <1>11

(* A header that is found has the descriptor, and is counted. *)
LEMMA FoundHeader ==
    ASSUME SdInv, NEW d, S!Cached(d)
    PROVE  \E k \in 1 .. Len(Cache) :
              /\ k = S!Place(d) /\ Cache[k] \in Headers /\ header[Cache[k]].sd = d
              /\ Known(Cache[k]) /\ header[Cache[k]].RefCount \in Nat /\ header[Cache[k]].RefCount > 0
<1>1. SdTypes
  BY DEF SdInv
<1>2. Len(Cache) \in Nat
  BY <1>1, LenProperties DEF SdTypes
<1>3. PICK k \in 1 .. Len(Cache) : k = S!Place(d)
  <2>1. S!Place(d) \in 1 .. Len(Cache) + 1
    BY <1>1, PlaceIs
  <2>2. S!Place(d) <= Len(Cache)
    BY DEF S!Cached
  <2> QED
    BY <1>2, <2>1, <2>2
<1>4. Cache[k] \in Headers
  BY <1>1, <1>3, ElementOfSeq DEF SdTypes
<1>5. header[Cache[k]].sd = d
  BY <1>3 DEF S!Cached
<1>6. Known(Cache[k])
  BY <1>3 DEF Known
<1>7. header[Cache[k]].RefCount > 0
  <2>1. Cache[k] \in {Cache[j] : j \in 1 .. Len(Cache)}
    BY <1>3
  <2>2. Cache[k] \in {h \in Headers : header[h].RefCount > 0}
    BY <2>1, Zenon DEF SdInv, S!CacheExact
  <2> QED
    BY <2>2
<1>8. header[Cache[k]].RefCount \in Nat
  BY <1>4, SdCovers DEF SdInv
<1> QED
  BY <1>3, <1>4, <1>5, <1>6, <1>7, <1>8

(* What is left to drop after the first. *)
LEMMA DropTail ==
    ASSUME NEW list \in Seq(DropTypes), Len(list) \in 1 .. 2
    PROVE  \E rest \in Seq(DropTypes) :
              /\ rest = Tail(list) /\ Len(rest) = Len(list) - 1 /\ (Len(rest) = 0 => rest = <<>>)
              /\ \A l, m : \A h \in Headers :
                    /\ HeldAt(l, NoHeader, NoHeader, list, h) =
                          (IF list[1].header = h THEN list[1].n ELSE 0)
                          + HeldAt(m, NoHeader, NoHeader, rest, h)
                    /\ HeldAt(m, NoHeader, NoHeader, rest, h) \in Nat
<1>1. PICK rest : rest = Tail(list)
  OBVIOUS
<1>2. rest \in Seq(DropTypes) /\ Len(rest) = Len(list) - 1
  BY <1>1, HeadTailProperties, EmptySeq
<1>3. Len(rest) = 0 => rest = <<>>
  BY <1>2, EmptySeq
<1>4. ASSUME NEW l, NEW m, NEW h \in Headers
      PROVE  /\ HeldAt(l, NoHeader, NoHeader, list, h) =
                   (IF list[1].header = h THEN list[1].n ELSE 0)
                   + HeldAt(m, NoHeader, NoHeader, rest, h)
             /\ HeldAt(m, NoHeader, NoHeader, rest, h) \in Nat
  BY <1>1, HeldTail
<1> QED
  BY <1>1, <1>2, <1>3, <1>4

-----------------------------------------------------------------------------
(* Who uses a descriptor.                                                  *)

(* A reference from the word, or none. *)
LEMMA SdReference ==
    ASSUME SdInv, NEW t \in Threads, S!Reference(t) PROVE SdInv'
<1>1. CASE FastRef[obj[t]].refs = 0
  <2>1. SdTypes /\ SdLocals(t)
    BY DEF SdInv
  <2>2. spc[t] = "reference" /\ Old[t] = NoHeader /\ New[t] = NoHeader /\ todo[t] = <<>>
    BY <1>1, <2>1, SdAssumption
       DEF S!Reference, S!Goto, SdLocals, OldPCs, NewPCs, LogPCs, DropPCs
  <2>3. PICK o \in Objects : o = obj[t] /\ state[o] = "live"
    BY <1>1, <2>1, <2>2, UserLive DEF Making, LogPCs
  <2>4. /\ spc'[t] = "lock" /\ Old'[t] = NoHeader /\ New'[t] = NoHeader /\ todo'[t] = <<>>
        /\ obj'[t] = obj[t] /\ sd'[t] = sd[t] /\ next'[t] = next[t]
        /\ header' = header /\ Cache' = Cache /\ FastRef' = FastRef /\ state' = state
    BY <1>1, <2>1, <2>2, <2>3, SdAssumption DEF S!Reference, S!Goto, SdTypes
  <2>5. SdTypes' /\ SdFrame(t)
    <3>1. /\ Cache' \in Seq(Headers)
          /\ header' \in [Headers -> HeaderTypes]
          /\ FastRef' \in [Objects -> WordTypes]
      BY <1>1, <2>1, <2>2, <2>4 DEF SdTypes
    <3>2. state' \in [Objects -> {"none", "made", "live"}]
      BY <1>1, <2>1, <2>2, <2>4 DEF SdTypes
    <3>3. /\ spc' = [spc EXCEPT ![t] = spc'[t]]
          /\ Old' = [Old EXCEPT ![t] = Old'[t]]
          /\ New' = [New EXCEPT ![t] = New'[t]]
      BY <1>1, <2>1, <2>2, <2>4 DEF S!Reference, S!Goto, SdTypes
    <3>4. obj' = [obj EXCEPT ![t] = obj'[t]] /\ sd' = [sd EXCEPT ![t] = sd'[t]]
      BY <1>1, <2>1, <2>2, <2>4 DEF S!Reference, S!Goto, SdTypes
    <3>5. todo' = [todo EXCEPT ![t] = todo'[t]] /\ next' = [next EXCEPT ![t] = next'[t]]
      BY <1>1, <2>1, <2>2, <2>4 DEF S!Reference, S!Goto, SdTypes
    <3>6. Changes(t)
      BY <3>3, <3>4, <3>5 DEF Changes
    <3>7. /\ spc'[t] \in OldPCs \cup NewPCs \cup LogPCs \cup DropPCs \cup {"idle", "reference", "lock"}
          /\ obj'[t] \in Objects \cup {NoObject} /\ Old'[t] \in Headers \cup {NoHeader}
          /\ New'[t] \in Headers \cup {NoHeader} /\ sd'[t] \in Descriptors \cup {NoDescriptor}
          /\ todo'[t] \in Seq(DropTypes) /\ next'[t] \in {"idle", "reference"}
      BY <1>1, <2>1, <2>2, <2>4 DEF SdTypes, OldPCs, NewPCs, LogPCs, DropPCs
    <3> QED
      BY <1>1, <2>1, <3>1, <3>2, <3>6, <3>7, ChangesTypes
  <2>6. SdLocals(t)'
    BY <1>1, <2>1, <2>2, <2>4 DEF SdLocals, OldPCs, NewPCs, LogPCs, DropPCs
  <2>7. S!RefsExact'
    <3>1. ASSUME NEW h \in Headers PROVE HeldBalance(t, h)
      <4>1. h # NoHeader /\ SdFastRefs \in Nat
        BY SdAssumption
      <4>2. S!Held(t, h) = 0
        BY <1>1, <2>1, <2>2, <2>4, <4>1, HeldBefore DEF HeldNone
      <4>3. S!Held(t, h)' = 0
        BY <1>1, <2>1, <2>2, <2>4, <4>1, HeldAfter DEF HeldNone
      <4>4. header[h].RefCount \in Int /\ header'[h].RefCount \in Int
        BY <1>1, <2>1, <2>2, <2>4 DEF SdTypes, HeaderTypes
      <4> QED
        BY <2>2, <2>4, <4>1, <4>2, <4>3, <4>4 DEF HeldBalance
    <3> QED
      BY <2>2, <2>3, <2>4, <2>5, <3>1, SdHeldRefs DEF SdInv
  <2>8. Counting(t)
    BY <2>2, <2>3, <2>4, <2>5, <2>6, <2>7, StillCounting
  <2>9. Quiet(t)
    BY <1>1, <2>1, <2>2, <2>4, SdAssumption
       DEF Quiet, Making, WordFrame, OldPCs, NewPCs, LogPCs, DropPCs
  <2>10. ObjectInv' /\ LockedInv'
    BY <2>5, <2>6, <2>9, QuietInv
  <2> QED
    BY <2>8, <2>10, CountingInv
<1>2. CASE FastRef[obj[t]].refs # 0
  <2>1. SdTypes /\ SdLocals(t)
    BY DEF SdInv
  <2>2. spc[t] = "reference" /\ Old[t] = NoHeader /\ New[t] = NoHeader /\ todo[t] = <<>>
    BY <1>2, <2>1, SdAssumption
       DEF S!Reference, S!Goto, SdLocals, OldPCs, NewPCs, LogPCs, DropPCs
  <2>3. PICK o \in Objects : o = obj[t] /\ state[o] = "live"
    BY <1>2, <2>1, <2>2, UserLive DEF Making, LogPCs
  <2>4. PICK g \in Headers : g = FastRef[o].header
    BY <1>2, <2>1, <2>2, <2>3 DEF SdInv, ObjectInv
  <2>5. PICK n \in 0 .. SdFastRefs : n = FastRef[o].refs /\ n # 0
    BY <1>2, <2>1, <2>2, <2>3 DEF SdTypes, WordTypes
  <2>6. Rewords(o, n - 1)
    BY <1>2, <2>1, <2>2, <2>3, <2>5 DEF S!Reference, S!Goto, Rewords
  <2>7. n - 1 \in 0 .. SdFastRefs
    BY <1>2, <2>1, <2>2, <2>5, <2>6, SdAssumption
  <2>8. FastRef' \in [Objects -> WordTypes] /\ FastRef'[o].refs = n - 1 /\ WordFrame(o)
        /\ \A p \in Objects : FastRef'[p].header = FastRef[p].header
    BY <1>2, <2>1, <2>5, <2>6, <2>7, RewordsIs
  <2>9. /\ spc'[t] \in {"refill", "use"} /\ Old'[t] = g /\ New'[t] = NoHeader /\ todo'[t] = <<>>
        /\ obj'[t] = obj[t] /\ sd'[t] = sd[t] /\ next'[t] = next[t]
        /\ header' = header /\ Cache' = Cache /\ state' = state
    BY <1>2, <2>1, <2>2, <2>3, <2>4, <2>5, SdAssumption DEF S!Reference, S!Goto, SdTypes
  <2>10. SdTypes' /\ SdFrame(t)
    <3>1. /\ Cache' \in Seq(Headers)
          /\ header' \in [Headers -> HeaderTypes]
          /\ FastRef' \in [Objects -> WordTypes]
      BY <1>2, <2>1, <2>2, <2>6, <2>7, <2>8, <2>9 DEF SdTypes
    <3>2. state' \in [Objects -> {"none", "made", "live"}]
      BY <1>2, <2>1, <2>2, <2>9 DEF SdTypes
    <3>3. /\ spc' = [spc EXCEPT ![t] = spc'[t]]
          /\ Old' = [Old EXCEPT ![t] = Old'[t]]
          /\ New' = [New EXCEPT ![t] = New'[t]]
      BY <1>2, <2>1, <2>2, <2>9 DEF S!Reference, S!Goto, SdTypes
    <3>4. obj' = [obj EXCEPT ![t] = obj'[t]] /\ sd' = [sd EXCEPT ![t] = sd'[t]]
      BY <1>2, <2>1, <2>2, <2>9 DEF S!Reference, S!Goto, SdTypes
    <3>5. todo' = [todo EXCEPT ![t] = todo'[t]] /\ next' = [next EXCEPT ![t] = next'[t]]
      BY <1>2, <2>1, <2>2, <2>9 DEF S!Reference, S!Goto, SdTypes
    <3>6. Changes(t)
      BY <3>3, <3>4, <3>5 DEF Changes
    <3>7. /\ spc'[t] \in OldPCs \cup NewPCs \cup LogPCs \cup DropPCs \cup {"idle", "reference", "lock"}
          /\ obj'[t] \in Objects \cup {NoObject} /\ Old'[t] \in Headers \cup {NoHeader}
          /\ New'[t] \in Headers \cup {NoHeader} /\ sd'[t] \in Descriptors \cup {NoDescriptor}
          /\ todo'[t] \in Seq(DropTypes) /\ next'[t] \in {"idle", "reference"}
      BY <1>2, <2>1, <2>2, <2>9 DEF SdTypes, OldPCs, NewPCs, LogPCs, DropPCs
    <3> QED
      BY <1>2, <2>1, <3>1, <3>2, <3>6, <3>7, ChangesTypes
  <2>11. SdLocals(t)'
    BY <1>2, <2>1, <2>2, <2>9 DEF SdLocals, OldPCs, NewPCs, LogPCs, DropPCs
  <2>12. S!RefsExact'
    <3>1. ASSUME NEW h \in Headers PROVE WordBalance(t, o, h)
      <4>1. h # NoHeader /\ SdFastRefs \in Nat
        BY SdAssumption
      <4>2. S!Held(t, h) = 0
        BY <1>2, <2>1, <2>2, <2>9, <4>1, HeldBefore DEF HeldNone
      <4>3. S!Held(t, h)' = IF g = h THEN 1 ELSE 0
        BY <2>2, <2>4, <2>9, <4>1, HeldAfter DEF HeldNone
      <4>4. header[h].RefCount \in Int /\ header'[h].RefCount \in Int
        BY <1>2, <2>1, <2>2, <2>9 DEF SdTypes, HeaderTypes
      <4>5. S!InWord(o, h) = IF g = h THEN n + 1 ELSE 0
        BY <2>3, <2>4, <2>5, <2>6, <2>9, <4>1 DEF S!InWord, S!Times
      <4>6. S!InWord(o, h)' = IF g = h THEN n ELSE 0
        BY <2>3, <2>4, <2>7, <2>8 DEF S!InWord, S!Times
      <4>7. header'[h].RefCount = header[h].RefCount
        BY <2>9
      <4> QED
        BY <2>9, <4>1, <4>2, <4>3, <4>4, <4>5, <4>6, <4>7 DEF WordBalance
    <3> QED
      BY <2>4, <2>5, <2>8, <2>9, <2>10, <3>1, SdWordRefs DEF SdInv
  <2>13. Counting(t)
    BY <1>2, <2>1, <2>2, <2>3, <2>8, <2>9, <2>10, <2>11, <2>12, StillCounting
  <2>14. Quiet(t)
    BY <1>2, <2>1, <2>2, <2>3, <2>4, <2>5, <2>6, <2>7, <2>8, <2>9, SdAssumption
       DEF Quiet, Making, WordFrame, OldPCs, NewPCs, LogPCs, DropPCs
  <2>15. ObjectInv' /\ LockedInv'
    BY <2>10, <2>11, <2>14, QuietInv
  <2> QED
    BY <2>13, <2>15, CountingInv
<1> QED
  BY <1>1, <1>2
(* New references for the word. *)
LEMMA SdRefill ==
    ASSUME SdInv, NEW t \in Threads, S!Refill(t) PROVE SdInv'
<1>1. SdTypes /\ SdLocals(t)
  BY DEF SdInv
<1>2. spc[t] = "refill" /\ New[t] = NoHeader /\ todo[t] = <<>>
  BY <1>1, SdAssumption DEF S!Refill, S!Goto, SdLocals, OldPCs, NewPCs, LogPCs, DropPCs
<1>3. PICK o \in Objects : o = obj[t] /\ state[o] = "live"
  BY <1>1, <1>2, UserLive DEF Making, LogPCs
<1>4. PICK g \in Headers : g = Old[t]
  BY <1>1, <1>2, <1>3, SdAssumption DEF SdLocals, OldPCs
<1>5. /\ Known(g)
      /\ header[g].RefCount \in Nat
      /\ header[g].RefCount >= 1 + (IF spc[t] \in {"insert", "undo"} THEN SdFastRefs ELSE 0)
  BY <1>1, <1>2, <1>3, <1>4, OldHeld DEF OldPCs
<1>6. PICK r \in Nat : r = header[g].RefCount /\ r > 0
  BY <1>1, <1>2, <1>4, <1>5, SdAssumption
<1>7. PICK n \in Int : n = r + SdFastRefs /\ n > 0
  BY <1>1, <1>2, <1>6, SdAssumption
<1>8. Recount(g, n)
  BY <1>3, <1>4, <1>5, <1>6, <1>7 DEF S!Refill, S!Goto, Recount, S!RefBias
<1>9. /\ header' \in [Headers -> HeaderTypes]
      /\ header'[g].RefCount = n
      /\ \A h \in Headers : h # g => header'[h] = header[h]
  BY <1>1, <1>2, <1>7, <1>8, RecountIs
<1>10. /\ spc'[t] = "insert" /\ Old'[t] = g /\ New'[t] = NoHeader /\ todo'[t] = <<>>
      /\ obj'[t] = obj[t] /\ sd'[t] = sd[t] /\ next'[t] = next[t]
      /\ Cache' = Cache /\ FastRef' = FastRef /\ state' = state
  BY <1>1, <1>2, <1>4, <1>5, SdAssumption DEF S!Refill, S!Goto, SdTypes
<1>11. SdTypes' /\ SdFrame(t)
  <2>1. /\ Cache' \in Seq(Headers)
        /\ header' \in [Headers -> HeaderTypes]
        /\ FastRef' \in [Objects -> WordTypes]
    BY <1>1, <1>2, <1>3, <1>7, <1>8, <1>9, <1>10 DEF SdTypes
  <2>2. state' \in [Objects -> {"none", "made", "live"}]
    BY <1>1, <1>2, <1>10 DEF SdTypes
  <2>3. /\ spc' = [spc EXCEPT ![t] = spc'[t]]
        /\ Old' = [Old EXCEPT ![t] = Old'[t]]
        /\ New' = [New EXCEPT ![t] = New'[t]]
    BY <1>1, <1>2, <1>10 DEF S!Refill, S!Goto, SdTypes
  <2>4. obj' = [obj EXCEPT ![t] = obj'[t]] /\ sd' = [sd EXCEPT ![t] = sd'[t]]
    BY <1>1, <1>2, <1>10 DEF S!Refill, S!Goto, SdTypes
  <2>5. todo' = [todo EXCEPT ![t] = todo'[t]] /\ next' = [next EXCEPT ![t] = next'[t]]
    BY <1>1, <1>2, <1>10 DEF S!Refill, S!Goto, SdTypes
  <2>6. Changes(t)
    BY <2>3, <2>4, <2>5 DEF Changes
  <2>7. /\ spc'[t] \in OldPCs \cup NewPCs \cup LogPCs \cup DropPCs \cup {"idle", "reference", "lock"}
        /\ obj'[t] \in Objects \cup {NoObject} /\ Old'[t] \in Headers \cup {NoHeader}
        /\ New'[t] \in Headers \cup {NoHeader} /\ sd'[t] \in Descriptors \cup {NoDescriptor}
        /\ todo'[t] \in Seq(DropTypes) /\ next'[t] \in {"idle", "reference"}
    BY <1>1, <1>2, <1>10 DEF SdTypes, OldPCs, NewPCs, LogPCs, DropPCs
  <2> QED
    BY <1>1, <1>2, <1>3, <1>4, <1>9, <1>10, <2>1, <2>2, <2>6, <2>7, ChangesTypes
<1>12. SdLocals(t)'
  BY <1>1, <1>2, <1>10 DEF SdLocals, OldPCs, NewPCs, LogPCs, DropPCs
<1>13. S!RefsExact'
  <2>1. ASSUME NEW h \in Headers PROVE HeldBalance(t, h)
    <3>1. h # NoHeader /\ SdFastRefs \in Nat
      BY SdAssumption
    <3>2. S!Held(t, h) = IF g = h THEN 1 ELSE 0
      BY <1>1, <1>2, <1>4, <1>5, <1>10, <3>1, HeldBefore DEF HeldNone
    <3>3. S!Held(t, h)' = IF g = h THEN 1 + SdFastRefs ELSE 0
      BY <1>4, <1>5, <1>10, <3>1, HeldAfter DEF HeldNone
    <3>4. header[h].RefCount \in Int /\ header'[h].RefCount \in Int
      BY <1>1, <1>2, <1>3, <1>7, <1>10, <1>11 DEF SdTypes, HeaderTypes
    <3> QED
      BY <1>5, <1>6, <1>7, <1>8, <1>9, <1>10, <3>1, <3>2, <3>3, <3>4 DEF HeldBalance
  <2> QED
    BY <1>5, <1>6, <1>9, <1>10, <1>11, <2>1, SdHeldRefs DEF SdInv
<1>14. Counting(t)
  BY <1>1, <1>2, <1>3, <1>4, <1>5, <1>6, <1>7, <1>8, <1>9, <1>10, <1>11, <1>12, <1>13,
     RecountCounting
<1>15. Quiet(t)
  BY <1>1, <1>2, <1>10, SdAssumption
     DEF Quiet, Making, WordFrame, OldPCs, NewPCs, LogPCs, DropPCs
<1>16. ObjectInv' /\ LockedInv'
  BY <1>11, <1>12, <1>15, QuietInv
<1> QED
  BY <1>14, <1>16, CountingInv

(* They are taken back. *)
LEMMA SdUndo ==
    ASSUME SdInv, NEW t \in Threads, S!Undo(t) PROVE SdInv'
<1>1. SdTypes /\ SdLocals(t)
  BY DEF SdInv
<1>2. spc[t] = "undo" /\ New[t] = NoHeader /\ todo[t] = <<>>
  BY <1>1, SdAssumption DEF S!Undo, S!Goto, SdLocals, OldPCs, NewPCs, LogPCs, DropPCs
<1>3. PICK o \in Objects : o = obj[t] /\ state[o] = "live"
  BY <1>1, <1>2, UserLive DEF Making, LogPCs
<1>4. PICK g \in Headers : g = Old[t]
  BY <1>1, <1>2, <1>3, SdAssumption DEF SdLocals, OldPCs
<1>5. /\ Known(g)
      /\ header[g].RefCount \in Nat
      /\ header[g].RefCount >= 1 + (IF spc[t] \in {"insert", "undo"} THEN SdFastRefs ELSE 0)
  BY <1>1, <1>2, <1>3, <1>4, OldHeld DEF OldPCs
<1>6. PICK r \in Nat : r = header[g].RefCount /\ r > 0
  BY <1>1, <1>2, <1>4, <1>5, SdAssumption
<1>7. PICK n \in Int : n = r - SdFastRefs /\ n > 0
  BY <1>1, <1>2, <1>5, <1>6, SdAssumption
<1>8. Recount(g, n)
  BY <1>3, <1>4, <1>5, <1>6, <1>7 DEF S!Undo, S!Goto, Recount, S!RefBias
<1>9. /\ header' \in [Headers -> HeaderTypes]
      /\ header'[g].RefCount = n
      /\ \A h \in Headers : h # g => header'[h] = header[h]
  BY <1>1, <1>2, <1>7, <1>8, RecountIs
<1>10. /\ spc'[t] = "use" /\ Old'[t] = g /\ New'[t] = NoHeader /\ todo'[t] = <<>>
      /\ obj'[t] = obj[t] /\ sd'[t] = sd[t] /\ next'[t] = next[t]
      /\ Cache' = Cache /\ FastRef' = FastRef /\ state' = state
  BY <1>1, <1>2, <1>4, <1>5, SdAssumption DEF S!Undo, S!Goto, SdTypes
<1>11. SdTypes' /\ SdFrame(t)
  <2>1. /\ Cache' \in Seq(Headers)
        /\ header' \in [Headers -> HeaderTypes]
        /\ FastRef' \in [Objects -> WordTypes]
    BY <1>1, <1>2, <1>3, <1>7, <1>8, <1>9, <1>10 DEF SdTypes
  <2>2. state' \in [Objects -> {"none", "made", "live"}]
    BY <1>1, <1>2, <1>10 DEF SdTypes
  <2>3. /\ spc' = [spc EXCEPT ![t] = spc'[t]]
        /\ Old' = [Old EXCEPT ![t] = Old'[t]]
        /\ New' = [New EXCEPT ![t] = New'[t]]
    BY <1>1, <1>2, <1>10 DEF S!Undo, S!Goto, SdTypes
  <2>4. obj' = [obj EXCEPT ![t] = obj'[t]] /\ sd' = [sd EXCEPT ![t] = sd'[t]]
    BY <1>1, <1>2, <1>10 DEF S!Undo, S!Goto, SdTypes
  <2>5. todo' = [todo EXCEPT ![t] = todo'[t]] /\ next' = [next EXCEPT ![t] = next'[t]]
    BY <1>1, <1>2, <1>10 DEF S!Undo, S!Goto, SdTypes
  <2>6. Changes(t)
    BY <2>3, <2>4, <2>5 DEF Changes
  <2>7. /\ spc'[t] \in OldPCs \cup NewPCs \cup LogPCs \cup DropPCs \cup {"idle", "reference", "lock"}
        /\ obj'[t] \in Objects \cup {NoObject} /\ Old'[t] \in Headers \cup {NoHeader}
        /\ New'[t] \in Headers \cup {NoHeader} /\ sd'[t] \in Descriptors \cup {NoDescriptor}
        /\ todo'[t] \in Seq(DropTypes) /\ next'[t] \in {"idle", "reference"}
    BY <1>1, <1>2, <1>10 DEF SdTypes, OldPCs, NewPCs, LogPCs, DropPCs
  <2> QED
    BY <1>1, <1>2, <1>3, <1>4, <1>9, <1>10, <2>1, <2>2, <2>6, <2>7, ChangesTypes
<1>12. SdLocals(t)'
  BY <1>1, <1>2, <1>10 DEF SdLocals, OldPCs, NewPCs, LogPCs, DropPCs
<1>13. S!RefsExact'
  <2>1. ASSUME NEW h \in Headers PROVE HeldBalance(t, h)
    <3>1. h # NoHeader /\ SdFastRefs \in Nat
      BY SdAssumption
    <3>2. S!Held(t, h) = IF g = h THEN 1 + SdFastRefs ELSE 0
      BY <1>1, <1>2, <1>4, <1>5, <1>10, <3>1, HeldBefore DEF HeldNone
    <3>3. S!Held(t, h)' = IF g = h THEN 1 ELSE 0
      BY <1>4, <1>5, <1>10, <3>1, HeldAfter DEF HeldNone
    <3>4. header[h].RefCount \in Int /\ header'[h].RefCount \in Int
      BY <1>1, <1>2, <1>3, <1>7, <1>10, <1>11 DEF SdTypes, HeaderTypes
    <3> QED
      BY <1>5, <1>6, <1>7, <1>8, <1>9, <1>10, <3>1, <3>2, <3>3, <3>4 DEF HeldBalance
  <2> QED
    BY <1>5, <1>6, <1>9, <1>10, <1>11, <2>1, SdHeldRefs DEF SdInv
<1>14. Counting(t)
  BY <1>1, <1>2, <1>3, <1>4, <1>5, <1>6, <1>7, <1>8, <1>9, <1>10, <1>11, <1>12, <1>13,
     RecountCounting
<1>15. Quiet(t)
  BY <1>1, <1>2, <1>10, SdAssumption
     DEF Quiet, Making, WordFrame, OldPCs, NewPCs, LogPCs, DropPCs
<1>16. ObjectInv' /\ LockedInv'
  BY <1>11, <1>12, <1>15, QuietInv
<1> QED
  BY <1>14, <1>16, CountingInv

(* They are put there, or not. *)
LEMMA SdInsert ==
    ASSUME SdInv, NEW t \in Threads, S!Insert(t) PROVE SdInv'
<1>1. CASE ~S!Inserts(FastRef[obj[t]], Old[t])
  <2>1. SdTypes /\ SdLocals(t)
    BY DEF SdInv
  <2>2. spc[t] = "insert" /\ New[t] = NoHeader /\ todo[t] = <<>>
    BY <1>1, <2>1, SdAssumption
       DEF S!Insert, S!Inserts, S!Goto, SdLocals, OldPCs, NewPCs, LogPCs, DropPCs
  <2>3. PICK o \in Objects : o = obj[t] /\ state[o] = "live"
    BY <1>1, <2>1, <2>2, UserLive DEF Making, LogPCs
  <2>4. PICK g \in Headers : g = Old[t]
    BY <1>1, <2>1, <2>2, <2>3, SdAssumption DEF SdLocals, OldPCs
  <2>5. /\ spc'[t] = "undo" /\ Old'[t] = g /\ New'[t] = NoHeader /\ todo'[t] = <<>>
        /\ obj'[t] = obj[t] /\ sd'[t] = sd[t] /\ next'[t] = next[t]
        /\ header' = header /\ Cache' = Cache /\ FastRef' = FastRef /\ state' = state
    BY <1>1, <2>1, <2>2, <2>4, SdAssumption DEF S!Insert, S!Inserts, S!Goto, SdTypes
  <2>6. SdTypes' /\ SdFrame(t)
    <3>1. /\ Cache' \in Seq(Headers)
          /\ header' \in [Headers -> HeaderTypes]
          /\ FastRef' \in [Objects -> WordTypes]
      BY <1>1, <2>1, <2>2, <2>5 DEF SdTypes
    <3>2. state' \in [Objects -> {"none", "made", "live"}]
      BY <1>1, <2>1, <2>2, <2>5 DEF SdTypes
    <3>3. /\ spc' = [spc EXCEPT ![t] = spc'[t]]
          /\ Old' = [Old EXCEPT ![t] = Old'[t]]
          /\ New' = [New EXCEPT ![t] = New'[t]]
      BY <1>1, <2>1, <2>2, <2>5 DEF S!Insert, S!Inserts, S!Goto, SdTypes
    <3>4. obj' = [obj EXCEPT ![t] = obj'[t]] /\ sd' = [sd EXCEPT ![t] = sd'[t]]
      BY <1>1, <2>1, <2>2, <2>5 DEF S!Insert, S!Inserts, S!Goto, SdTypes
    <3>5. todo' = [todo EXCEPT ![t] = todo'[t]] /\ next' = [next EXCEPT ![t] = next'[t]]
      BY <1>1, <2>1, <2>2, <2>5 DEF S!Insert, S!Inserts, S!Goto, SdTypes
    <3>6. Changes(t)
      BY <3>3, <3>4, <3>5 DEF Changes
    <3>7. /\ spc'[t] \in OldPCs \cup NewPCs \cup LogPCs \cup DropPCs \cup {"idle", "reference", "lock"}
          /\ obj'[t] \in Objects \cup {NoObject} /\ Old'[t] \in Headers \cup {NoHeader}
          /\ New'[t] \in Headers \cup {NoHeader} /\ sd'[t] \in Descriptors \cup {NoDescriptor}
          /\ todo'[t] \in Seq(DropTypes) /\ next'[t] \in {"idle", "reference"}
      BY <1>1, <2>1, <2>2, <2>5 DEF SdTypes, OldPCs, NewPCs, LogPCs, DropPCs
    <3> QED
      BY <1>1, <2>1, <3>1, <3>2, <3>6, <3>7, ChangesTypes
  <2>7. SdLocals(t)'
    BY <1>1, <2>1, <2>2, <2>5 DEF SdLocals, OldPCs, NewPCs, LogPCs, DropPCs
  <2>8. S!RefsExact'
    <3>1. ASSUME NEW h \in Headers PROVE HeldBalance(t, h)
      <4>1. h # NoHeader /\ SdFastRefs \in Nat
        BY SdAssumption
      <4>2. S!Held(t, h) = IF g = h THEN 1 + SdFastRefs ELSE 0
        BY <2>2, <2>4, <2>5, <4>1, HeldBefore DEF HeldNone
      <4>3. S!Held(t, h)' = IF g = h THEN 1 + SdFastRefs ELSE 0
        BY <2>2, <2>4, <2>5, <4>1, HeldAfter DEF HeldNone
      <4>4. header[h].RefCount \in Int /\ header'[h].RefCount \in Int
        BY <1>1, <2>1, <2>2, <2>5 DEF SdTypes, HeaderTypes
      <4> QED
        BY <2>2, <2>5, <4>1, <4>2, <4>3, <4>4 DEF HeldBalance
    <3> QED
      BY <2>2, <2>3, <2>4, <2>5, <2>6, <3>1, SdHeldRefs DEF SdInv
  <2>9. Counting(t)
    BY <1>1, <2>1, <2>2, <2>3, <2>4, <2>5, <2>6, <2>7, <2>8, StillCounting
  <2>10. Quiet(t)
    BY <1>1, <2>1, <2>2, <2>5, SdAssumption
       DEF Quiet, Making, WordFrame, OldPCs, NewPCs, LogPCs, DropPCs
  <2>11. ObjectInv' /\ LockedInv'
    BY <2>6, <2>7, <2>10, QuietInv
  <2> QED
    BY <2>9, <2>11, CountingInv
<1>2. CASE S!Inserts(FastRef[obj[t]], Old[t])
  <2>1. SdTypes /\ SdLocals(t)
    BY DEF SdInv
  <2>2. spc[t] = "insert" /\ New[t] = NoHeader /\ todo[t] = <<>>
    BY <1>2, <2>1, SdAssumption
       DEF S!Insert, S!Inserts, S!Goto, SdLocals, OldPCs, NewPCs, LogPCs, DropPCs
  <2>3. PICK o \in Objects : o = obj[t] /\ state[o] = "live"
    BY <1>2, <2>1, <2>2, UserLive DEF Making, LogPCs
  <2>4. PICK g \in Headers : g = Old[t]
    BY <1>2, <2>1, <2>2, <2>3, SdAssumption DEF SdLocals, OldPCs
  <2>5. FastRef[o].header = g /\ FastRef[o].refs = 0
    BY <1>2, <2>1, <2>2, <2>3, <2>4 DEF S!Insert, S!Inserts, S!Goto
  <2>6. Rewords(o, SdFastRefs)
    BY <1>2, <2>1, <2>2, <2>3, <2>5 DEF S!Insert, S!Inserts, S!Goto, Rewords
  <2>7. SdFastRefs \in 0 .. SdFastRefs
    BY <1>2, <2>1, <2>2, SdAssumption
  <2>8. FastRef' \in [Objects -> WordTypes] /\ FastRef'[o].refs = SdFastRefs /\ WordFrame(o)
        /\ \A p \in Objects : FastRef'[p].header = FastRef[p].header
    BY <1>2, <2>1, <2>4, <2>5, <2>6, <2>7, RewordsIs
  <2>9. /\ spc'[t] = "use" /\ Old'[t] = g /\ New'[t] = NoHeader /\ todo'[t] = <<>>
        /\ obj'[t] = obj[t] /\ sd'[t] = sd[t] /\ next'[t] = next[t]
        /\ header' = header /\ Cache' = Cache /\ state' = state
    BY <1>2, <2>1, <2>2, <2>4, <2>5, SdAssumption DEF S!Insert, S!Inserts, S!Goto, SdTypes
  <2>10. SdTypes' /\ SdFrame(t)
    <3>1. /\ Cache' \in Seq(Headers)
          /\ header' \in [Headers -> HeaderTypes]
          /\ FastRef' \in [Objects -> WordTypes]
      BY <1>2, <2>1, <2>2, <2>6, <2>7, <2>8, <2>9 DEF SdTypes
    <3>2. state' \in [Objects -> {"none", "made", "live"}]
      BY <1>2, <2>1, <2>2, <2>9 DEF SdTypes
    <3>3. /\ spc' = [spc EXCEPT ![t] = spc'[t]]
          /\ Old' = [Old EXCEPT ![t] = Old'[t]]
          /\ New' = [New EXCEPT ![t] = New'[t]]
      BY <1>2, <2>1, <2>2, <2>9 DEF S!Insert, S!Inserts, S!Goto, SdTypes
    <3>4. obj' = [obj EXCEPT ![t] = obj'[t]] /\ sd' = [sd EXCEPT ![t] = sd'[t]]
      BY <1>2, <2>1, <2>2, <2>9 DEF S!Insert, S!Inserts, S!Goto, SdTypes
    <3>5. todo' = [todo EXCEPT ![t] = todo'[t]] /\ next' = [next EXCEPT ![t] = next'[t]]
      BY <1>2, <2>1, <2>2, <2>9 DEF S!Insert, S!Inserts, S!Goto, SdTypes
    <3>6. Changes(t)
      BY <3>3, <3>4, <3>5 DEF Changes
    <3>7. /\ spc'[t] \in OldPCs \cup NewPCs \cup LogPCs \cup DropPCs \cup {"idle", "reference", "lock"}
          /\ obj'[t] \in Objects \cup {NoObject} /\ Old'[t] \in Headers \cup {NoHeader}
          /\ New'[t] \in Headers \cup {NoHeader} /\ sd'[t] \in Descriptors \cup {NoDescriptor}
          /\ todo'[t] \in Seq(DropTypes) /\ next'[t] \in {"idle", "reference"}
      BY <1>2, <2>1, <2>2, <2>9 DEF SdTypes, OldPCs, NewPCs, LogPCs, DropPCs
    <3> QED
      BY <1>2, <2>1, <3>1, <3>2, <3>6, <3>7, ChangesTypes
  <2>11. SdLocals(t)'
    BY <1>2, <2>1, <2>2, <2>9 DEF SdLocals, OldPCs, NewPCs, LogPCs, DropPCs
  <2>12. S!RefsExact'
    <3>1. ASSUME NEW h \in Headers PROVE WordBalance(t, o, h)
      <4>1. h # NoHeader /\ SdFastRefs \in Nat
        BY SdAssumption
      <4>2. S!Held(t, h) = IF g = h THEN 1 + SdFastRefs ELSE 0
        BY <2>2, <2>4, <2>5, <2>9, <4>1, HeldBefore DEF HeldNone
      <4>3. S!Held(t, h)' = IF g = h THEN 1 ELSE 0
        BY <2>2, <2>4, <2>5, <2>9, <4>1, HeldAfter DEF HeldNone
      <4>4. header[h].RefCount \in Int /\ header'[h].RefCount \in Int
        BY <1>2, <2>1, <2>2, <2>9 DEF SdTypes, HeaderTypes
      <4>5. S!InWord(o, h) = IF g = h THEN 1 ELSE 0
        BY <2>3, <2>4, <2>5, <2>6, <4>1 DEF S!InWord, S!Times
      <4>6. S!InWord(o, h)' = IF g = h THEN SdFastRefs + 1 ELSE 0
        BY <2>3, <2>4, <2>5, <2>6, <2>8, <2>9, <4>1 DEF S!InWord, S!Times
      <4>7. header'[h].RefCount = header[h].RefCount
        BY <2>9
      <4> QED
        BY <2>9, <4>1, <4>2, <4>3, <4>4, <4>5, <4>6, <4>7 DEF WordBalance
    <3> QED
      BY <2>4, <2>5, <2>8, <2>9, <2>10, <3>1, SdWordRefs DEF SdInv
  <2>13. Counting(t)
    BY <1>2, <2>1, <2>2, <2>3, <2>8, <2>9, <2>10, <2>11, <2>12, StillCounting
  <2>14. Quiet(t)
    BY <1>2, <2>1, <2>2, <2>3, <2>4, <2>5, <2>6, <2>7, <2>8, <2>9, SdAssumption
       DEF Quiet, Making, WordFrame, OldPCs, NewPCs, LogPCs, DropPCs
  <2>15. ObjectInv' /\ LockedInv'
    BY <2>10, <2>11, <2>14, QuietInv
  <2> QED
    BY <2>13, <2>15, CountingInv
<1> QED
  BY <1>1, <1>2
(* The header is read under the lock of the object. *)
LEMMA SdLock ==
    ASSUME SdInv, NEW t \in Threads, S!Lock(t) PROVE SdInv'
<1>1. SdTypes /\ SdLocals(t)
  BY DEF SdInv
<1>2. spc[t] = "lock" /\ Old[t] = NoHeader /\ New[t] = NoHeader /\ todo[t] = <<>>
  BY <1>1, SdAssumption DEF S!Lock, S!Goto, SdLocals, OldPCs, NewPCs, LogPCs, DropPCs
<1>3. PICK o \in Objects : o = obj[t] /\ state[o] = "live"
  BY <1>1, <1>2, UserLive DEF Making, LogPCs
<1>4. PICK g \in Headers : g = FastRef[o].header
  BY <1>1, <1>2, <1>3 DEF SdInv, ObjectInv
<1>5. /\ spc'[t] = "locked" /\ Old'[t] = g /\ New'[t] = NoHeader /\ todo'[t] = <<>>
      /\ obj'[t] = obj[t] /\ sd'[t] = sd[t] /\ next'[t] = next[t]
      /\ header' = header /\ Cache' = Cache /\ FastRef' = FastRef /\ state' = state
  BY <1>1, <1>2, <1>3, <1>4, SdAssumption DEF S!Lock, S!Goto, SdTypes
<1>6. SdTypes' /\ SdFrame(t)
  <2>1. /\ Cache' \in Seq(Headers)
        /\ header' \in [Headers -> HeaderTypes]
        /\ FastRef' \in [Objects -> WordTypes]
    BY <1>1, <1>2, <1>5 DEF SdTypes
  <2>2. state' \in [Objects -> {"none", "made", "live"}]
    BY <1>1, <1>2, <1>5 DEF SdTypes
  <2>3. /\ spc' = [spc EXCEPT ![t] = spc'[t]]
        /\ Old' = [Old EXCEPT ![t] = Old'[t]]
        /\ New' = [New EXCEPT ![t] = New'[t]]
    BY <1>1, <1>2, <1>5 DEF S!Lock, S!Goto, SdTypes
  <2>4. obj' = [obj EXCEPT ![t] = obj'[t]] /\ sd' = [sd EXCEPT ![t] = sd'[t]]
    BY <1>1, <1>2, <1>5 DEF S!Lock, S!Goto, SdTypes
  <2>5. todo' = [todo EXCEPT ![t] = todo'[t]] /\ next' = [next EXCEPT ![t] = next'[t]]
    BY <1>1, <1>2, <1>5 DEF S!Lock, S!Goto, SdTypes
  <2>6. Changes(t)
    BY <2>3, <2>4, <2>5 DEF Changes
  <2>7. /\ spc'[t] \in OldPCs \cup NewPCs \cup LogPCs \cup DropPCs \cup {"idle", "reference", "lock"}
        /\ obj'[t] \in Objects \cup {NoObject} /\ Old'[t] \in Headers \cup {NoHeader}
        /\ New'[t] \in Headers \cup {NoHeader} /\ sd'[t] \in Descriptors \cup {NoDescriptor}
        /\ todo'[t] \in Seq(DropTypes) /\ next'[t] \in {"idle", "reference"}
    BY <1>1, <1>2, <1>5 DEF SdTypes, OldPCs, NewPCs, LogPCs, DropPCs
  <2> QED
    BY <1>1, <1>2, <1>3, <1>4, <1>5, <2>1, <2>2, <2>6, <2>7, ChangesTypes
<1>7. SdLocals(t)'
  BY <1>1, <1>2, <1>5 DEF SdLocals, OldPCs, NewPCs, LogPCs, DropPCs
<1>8. S!RefsExact'
  <2>1. ASSUME NEW h \in Headers PROVE HeldBalance(t, h)
    <3>1. h # NoHeader /\ SdFastRefs \in Nat
      BY SdAssumption
    <3>2. S!Held(t, h) = 0
      BY <1>1, <1>2, <1>5, <3>1, HeldBefore DEF HeldNone
    <3>3. S!Held(t, h)' = 0
      BY <1>1, <1>2, <1>5, <3>1, HeldAfter DEF HeldNone
    <3>4. header[h].RefCount \in Int /\ header'[h].RefCount \in Int
      BY <1>1, <1>2, <1>5 DEF SdTypes, HeaderTypes
    <3> QED
      BY <1>5, <3>1, <3>2, <3>3, <3>4 DEF HeldBalance
  <2> QED
    BY <1>3, <1>4, <1>5, <1>6, <2>1, SdHeldRefs DEF SdInv
<1>9. Counting(t)
  BY <1>1, <1>2, <1>5, <1>6, <1>7, <1>8, StillCounting
<1>10. Quiet(t)
  BY <1>1, <1>2, <1>3, <1>4, <1>5, SdAssumption
     DEF Quiet, Making, WordFrame, OldPCs, NewPCs, LogPCs, DropPCs
<1>11. ObjectInv' /\ LockedInv'
  BY <1>6, <1>7, <1>10, QuietInv
<1> QED
  BY <1>9, <1>11, CountingInv

(* It is counted. *)
LEMMA SdLockedReference ==
    ASSUME SdInv, NEW t \in Threads, S!LockedReference(t) PROVE SdInv'
<1>1. SdTypes /\ SdLocals(t)
  BY DEF SdInv
<1>2. spc[t] = "locked" /\ New[t] = NoHeader /\ todo[t] = <<>>
  BY <1>1, SdAssumption
     DEF S!LockedReference, S!Goto, SdLocals, OldPCs, NewPCs, LogPCs, DropPCs
<1>3. PICK o \in Objects : o = obj[t] /\ state[o] = "live"
  BY <1>1, <1>2, UserLive DEF Making, LogPCs
<1>4. PICK g \in Headers : g = Old[t]
  BY <1>1, <1>2, <1>3, SdAssumption DEF SdLocals, OldPCs
<1>5. Known(g) /\ header[g].RefCount \in Nat /\ header[g].RefCount > 0
  BY <1>1, <1>2, <1>3, <1>4, LockedKnown
<1>6. PICK r \in Nat : r = header[g].RefCount /\ r > 0
  BY <1>1, <1>2, <1>4, <1>5, SdAssumption
<1>7. PICK n \in Int : n = r + 1 /\ n > 0
  BY <1>1, <1>2, <1>6, SdAssumption
<1>8. Recount(g, n)
  BY <1>3, <1>4, <1>5, <1>6, <1>7 DEF S!LockedReference, S!Goto, Recount, S!RefBias
<1>9. /\ header' \in [Headers -> HeaderTypes]
      /\ header'[g].RefCount = n
      /\ \A h \in Headers : h # g => header'[h] = header[h]
  BY <1>1, <1>2, <1>7, <1>8, RecountIs
<1>10. /\ spc'[t] = "use" /\ Old'[t] = g /\ New'[t] = NoHeader /\ todo'[t] = <<>>
      /\ obj'[t] = obj[t] /\ sd'[t] = sd[t] /\ next'[t] = next[t]
      /\ Cache' = Cache /\ FastRef' = FastRef /\ state' = state
  BY <1>1, <1>2, <1>4, <1>5, SdAssumption DEF S!LockedReference, S!Goto, SdTypes
<1>11. SdTypes' /\ SdFrame(t)
  <2>1. /\ Cache' \in Seq(Headers)
        /\ header' \in [Headers -> HeaderTypes]
        /\ FastRef' \in [Objects -> WordTypes]
    BY <1>1, <1>2, <1>3, <1>7, <1>8, <1>9, <1>10 DEF SdTypes
  <2>2. state' \in [Objects -> {"none", "made", "live"}]
    BY <1>1, <1>2, <1>10 DEF SdTypes
  <2>3. /\ spc' = [spc EXCEPT ![t] = spc'[t]]
        /\ Old' = [Old EXCEPT ![t] = Old'[t]]
        /\ New' = [New EXCEPT ![t] = New'[t]]
    BY <1>1, <1>2, <1>10 DEF S!LockedReference, S!Goto, SdTypes
  <2>4. obj' = [obj EXCEPT ![t] = obj'[t]] /\ sd' = [sd EXCEPT ![t] = sd'[t]]
    BY <1>1, <1>2, <1>10 DEF S!LockedReference, S!Goto, SdTypes
  <2>5. todo' = [todo EXCEPT ![t] = todo'[t]] /\ next' = [next EXCEPT ![t] = next'[t]]
    BY <1>1, <1>2, <1>10 DEF S!LockedReference, S!Goto, SdTypes
  <2>6. Changes(t)
    BY <2>3, <2>4, <2>5 DEF Changes
  <2>7. /\ spc'[t] \in OldPCs \cup NewPCs \cup LogPCs \cup DropPCs \cup {"idle", "reference", "lock"}
        /\ obj'[t] \in Objects \cup {NoObject} /\ Old'[t] \in Headers \cup {NoHeader}
        /\ New'[t] \in Headers \cup {NoHeader} /\ sd'[t] \in Descriptors \cup {NoDescriptor}
        /\ todo'[t] \in Seq(DropTypes) /\ next'[t] \in {"idle", "reference"}
    BY <1>1, <1>2, <1>10 DEF SdTypes, OldPCs, NewPCs, LogPCs, DropPCs
  <2> QED
    BY <1>1, <1>2, <1>3, <1>4, <1>9, <1>10, <2>1, <2>2, <2>6, <2>7, ChangesTypes
<1>12. SdLocals(t)'
  BY <1>1, <1>2, <1>10 DEF SdLocals, OldPCs, NewPCs, LogPCs, DropPCs
<1>13. S!RefsExact'
  <2>1. ASSUME NEW h \in Headers PROVE HeldBalance(t, h)
    <3>1. h # NoHeader /\ SdFastRefs \in Nat
      BY SdAssumption
    <3>2. S!Held(t, h) = 0
      BY <1>1, <1>2, <1>10, <3>1, HeldBefore DEF HeldNone
    <3>3. S!Held(t, h)' = IF g = h THEN 1 ELSE 0
      BY <1>4, <1>5, <1>10, <3>1, HeldAfter DEF HeldNone
    <3>4. header[h].RefCount \in Int /\ header'[h].RefCount \in Int
      BY <1>1, <1>2, <1>3, <1>7, <1>10, <1>11 DEF SdTypes, HeaderTypes
    <3> QED
      BY <1>5, <1>6, <1>7, <1>8, <1>9, <1>10, <3>1, <3>2, <3>3, <3>4 DEF HeldBalance
  <2> QED
    BY <1>5, <1>6, <1>9, <1>10, <1>11, <2>1, SdHeldRefs DEF SdInv
<1>14. Counting(t)
  BY <1>1, <1>2, <1>3, <1>4, <1>5, <1>6, <1>7, <1>8, <1>9, <1>10, <1>11, <1>12, <1>13,
     RecountCounting
<1>15. Quiet(t)
  BY <1>1, <1>2, <1>10, SdAssumption
     DEF Quiet, Making, WordFrame, OldPCs, NewPCs, LogPCs, DropPCs
<1>16. ObjectInv' /\ LockedInv'
  BY <1>11, <1>12, <1>15, QuietInv
<1> QED
  BY <1>14, <1>16, CountingInv

(* The reference is to be dropped. *)
LEMMA SdUsed ==
    ASSUME SdInv, NEW t \in Threads, S!Used(t) PROVE SdInv'
<1>1. SdTypes /\ SdLocals(t)
  BY DEF SdInv
<1>2. spc[t] = "use" /\ New[t] = NoHeader /\ todo[t] = <<>>
  BY <1>1, SdAssumption
     DEF S!Used, S!Drop, S!Goto, S!References, SdLocals, OldPCs, NewPCs, LogPCs, DropPCs
<1>3. PICK o \in Objects : o = obj[t] /\ state[o] = "live"
  BY <1>1, <1>2, UserLive DEF Making, LogPCs
<1>4. PICK g \in Headers : g = Old[t]
  BY <1>1, <1>2, <1>3, SdAssumption DEF SdLocals, OldPCs
<1>5. PICK k \in Nat : k = 1
  OBVIOUS
<1>6. PICK list : list = <<[header |-> g, n |-> k]>>
  OBVIOUS
<1>7. list \in Seq(DropTypes) /\ Len(list) = 1 /\ list[1].header = g
  BY <1>3, <1>4, <1>5, <1>6, SdAssumption DEF DropTypes
<1>8. \A l : \A h \in Headers : HeldAt(l, NoHeader, NoHeader, list, h) = IF g = h THEN k ELSE 0
  BY <1>4, <1>5, <1>6, <1>7, HeldOnce
<1>9. /\ spc'[t] = "drop" /\ Old'[t] = NoHeader /\ New'[t] = NoHeader /\ todo'[t] = list
      /\ obj'[t] = obj[t] /\ sd'[t] = sd[t] /\ next'[t] = "idle"
      /\ header' = header /\ Cache' = Cache /\ FastRef' = FastRef /\ state' = state
  BY <1>1, <1>2, <1>3, <1>4, <1>5, <1>6, <1>7, <1>8, SdAssumption
     DEF S!Used, S!Drop, S!Goto, S!References, SdTypes
<1>10. SdTypes' /\ SdFrame(t)
  <2>1. /\ Cache' \in Seq(Headers)
        /\ header' \in [Headers -> HeaderTypes]
        /\ FastRef' \in [Objects -> WordTypes]
    BY <1>1, <1>2, <1>9 DEF SdTypes
  <2>2. state' \in [Objects -> {"none", "made", "live"}]
    BY <1>1, <1>2, <1>9 DEF SdTypes
  <2>3. /\ spc' = [spc EXCEPT ![t] = spc'[t]]
        /\ Old' = [Old EXCEPT ![t] = Old'[t]]
        /\ New' = [New EXCEPT ![t] = New'[t]]
    BY <1>1, <1>2, <1>9 DEF S!Used, S!Drop, S!Goto, S!References, SdTypes
  <2>4. obj' = [obj EXCEPT ![t] = obj'[t]] /\ sd' = [sd EXCEPT ![t] = sd'[t]]
    BY <1>1, <1>2, <1>9 DEF S!Used, S!Drop, S!Goto, S!References, SdTypes
  <2>5. todo' = [todo EXCEPT ![t] = todo'[t]] /\ next' = [next EXCEPT ![t] = next'[t]]
    BY <1>1, <1>2, <1>9 DEF S!Used, S!Drop, S!Goto, S!References, SdTypes
  <2>6. Changes(t)
    BY <2>3, <2>4, <2>5 DEF Changes
  <2>7. /\ spc'[t] \in OldPCs \cup NewPCs \cup LogPCs \cup DropPCs \cup {"idle", "reference", "lock"}
        /\ obj'[t] \in Objects \cup {NoObject} /\ Old'[t] \in Headers \cup {NoHeader}
        /\ New'[t] \in Headers \cup {NoHeader} /\ sd'[t] \in Descriptors \cup {NoDescriptor}
        /\ todo'[t] \in Seq(DropTypes) /\ next'[t] \in {"idle", "reference"}
    BY <1>1, <1>2, <1>3, <1>7, <1>8, <1>9 DEF SdTypes, OldPCs, NewPCs, LogPCs, DropPCs
  <2> QED
    BY <1>1, <1>2, <1>3, <1>4, <1>9, <2>1, <2>2, <2>6, <2>7, ChangesTypes
<1>11. SdLocals(t)'
  BY <1>4, <1>5, <1>6, <1>7, <1>8, <1>9 DEF SdLocals, OldPCs, NewPCs, LogPCs, DropPCs
<1>12. S!RefsExact'
  <2>1. ASSUME NEW h \in Headers PROVE HeldBalance(t, h)
    <3>1. h # NoHeader /\ SdFastRefs \in Nat
      BY SdAssumption
    <3>2. S!Held(t, h) = IF g = h THEN 1 ELSE 0
      BY <1>1, <1>2, <1>4, <1>7, <3>1, HeldBefore DEF HeldNone
    <3>3. S!Held(t, h)' = IF g = h THEN k ELSE 0
      BY <1>4, <1>5, <1>7, <1>8, <1>9, <3>1, HeldNext
    <3>4. header[h].RefCount \in Int /\ header'[h].RefCount \in Int
      BY <1>1, <1>2, <1>9 DEF SdTypes, HeaderTypes
    <3> QED
      BY <1>5, <1>6, <1>7, <1>8, <1>9, <3>1, <3>2, <3>3, <3>4 DEF HeldBalance
  <2> QED
    BY <1>4, <1>5, <1>8, <1>9, <1>10, <2>1, SdHeldRefs DEF SdInv
<1>13. Counting(t)
  BY <1>1, <1>2, <1>3, <1>4, <1>9, <1>10, <1>11, <1>12, StillCounting
<1>14. Quiet(t)
  BY <1>1, <1>2, <1>9, SdAssumption
     DEF Quiet, Making, WordFrame, OldPCs, NewPCs, LogPCs, DropPCs
<1>15. ObjectInv' /\ LockedInv'
  BY <1>10, <1>11, <1>14, QuietInv
<1> QED
  BY <1>13, <1>15, CountingInv

(* Another descriptor is to be set. *)
LEMMA SdSet ==
    ASSUME SdInv, NEW t \in Threads, NEW d \in Descriptors, S!Set(t, d) PROVE SdInv'
<1>1. SdTypes /\ SdLocals(t)
  BY DEF SdInv
<1>2. spc[t] = "use" /\ New[t] = NoHeader /\ todo[t] = <<>>
  BY <1>1, SdAssumption DEF S!Set, S!Goto, SdLocals, OldPCs, NewPCs, LogPCs, DropPCs
<1>3. PICK o \in Objects : o = obj[t] /\ state[o] = "live"
  BY <1>1, <1>2, UserLive DEF Making, LogPCs
<1>4. PICK g \in Headers : g = Old[t]
  BY <1>1, <1>2, <1>3, SdAssumption DEF SdLocals, OldPCs
<1>5. /\ spc'[t] = "search" /\ Old'[t] = g /\ New'[t] = NoHeader /\ todo'[t] = <<>>
      /\ obj'[t] = obj[t] /\ sd'[t] = d /\ next'[t] = next[t]
      /\ header' = header /\ Cache' = Cache /\ FastRef' = FastRef /\ state' = state
  BY <1>1, <1>2, <1>3, <1>4, SdAssumption DEF S!Set, S!Goto, SdTypes
<1>6. SdTypes' /\ SdFrame(t)
  <2>1. /\ Cache' \in Seq(Headers)
        /\ header' \in [Headers -> HeaderTypes]
        /\ FastRef' \in [Objects -> WordTypes]
    BY <1>1, <1>2, <1>5 DEF SdTypes
  <2>2. state' \in [Objects -> {"none", "made", "live"}]
    BY <1>1, <1>2, <1>5 DEF SdTypes
  <2>3. /\ spc' = [spc EXCEPT ![t] = spc'[t]]
        /\ Old' = [Old EXCEPT ![t] = Old'[t]]
        /\ New' = [New EXCEPT ![t] = New'[t]]
    BY <1>1, <1>2, <1>5 DEF S!Set, S!Goto, SdTypes
  <2>4. obj' = [obj EXCEPT ![t] = obj'[t]] /\ sd' = [sd EXCEPT ![t] = sd'[t]]
    BY <1>1, <1>2, <1>5 DEF S!Set, S!Goto, SdTypes
  <2>5. todo' = [todo EXCEPT ![t] = todo'[t]] /\ next' = [next EXCEPT ![t] = next'[t]]
    BY <1>1, <1>2, <1>5 DEF S!Set, S!Goto, SdTypes
  <2>6. Changes(t)
    BY <2>3, <2>4, <2>5 DEF Changes
  <2>7. /\ spc'[t] \in OldPCs \cup NewPCs \cup LogPCs \cup DropPCs \cup {"idle", "reference", "lock"}
        /\ obj'[t] \in Objects \cup {NoObject} /\ Old'[t] \in Headers \cup {NoHeader}
        /\ New'[t] \in Headers \cup {NoHeader} /\ sd'[t] \in Descriptors \cup {NoDescriptor}
        /\ todo'[t] \in Seq(DropTypes) /\ next'[t] \in {"idle", "reference"}
    BY <1>1, <1>2, <1>5 DEF SdTypes, OldPCs, NewPCs, LogPCs, DropPCs
  <2> QED
    BY <1>1, <1>2, <1>3, <1>4, <1>5, <2>1, <2>2, <2>6, <2>7, ChangesTypes
<1>7. SdLocals(t)'
  BY <1>1, <1>2, <1>5 DEF SdLocals, OldPCs, NewPCs, LogPCs, DropPCs
<1>8. S!RefsExact'
  <2>1. ASSUME NEW h \in Headers PROVE HeldBalance(t, h)
    <3>1. h # NoHeader /\ SdFastRefs \in Nat
      BY SdAssumption
    <3>2. S!Held(t, h) = IF g = h THEN 1 ELSE 0
      BY <1>1, <1>2, <1>4, <1>5, <3>1, HeldBefore DEF HeldNone
    <3>3. S!Held(t, h)' = IF g = h THEN 1 ELSE 0
      BY <1>1, <1>2, <1>4, <1>5, <3>1, HeldAfter DEF HeldNone
    <3>4. header[h].RefCount \in Int /\ header'[h].RefCount \in Int
      BY <1>1, <1>2, <1>5 DEF SdTypes, HeaderTypes
    <3> QED
      BY <1>5, <3>1, <3>2, <3>3, <3>4 DEF HeldBalance
  <2> QED
    BY <1>3, <1>4, <1>5, <1>6, <2>1, SdHeldRefs DEF SdInv
<1>9. Counting(t)
  BY <1>1, <1>2, <1>5, <1>6, <1>7, <1>8, StillCounting
<1>10. Quiet(t)
  BY <1>1, <1>2, <1>5, SdAssumption
     DEF Quiet, Making, WordFrame, OldPCs, NewPCs, LogPCs, DropPCs
<1>11. ObjectInv' /\ LockedInv'
  BY <1>6, <1>7, <1>10, QuietInv
<1> QED
  BY <1>9, <1>11, CountingInv

(* References are dropped, but not the last ones. *)
LEMMA SdDropReferences ==
    ASSUME SdInv, NEW t \in Threads, S!DropReferences(t) PROVE SdInv'
<1>1. CASE header[Head(todo[t]).header].RefCount # Head(todo[t]).n
  <2>1. SdTypes /\ SdLocals(t)
    BY DEF SdInv
  <2>2. spc[t] = "drop" /\ Old[t] = NoHeader /\ New[t] = NoHeader
    BY <1>1, <2>1, SdAssumption
       DEF S!DropReferences, S!Dropped, S!Goto, SdLocals, OldPCs, NewPCs, LogPCs, DropPCs
  <2>3. PICK list \in Seq(DropTypes) : list = todo[t] /\ Len(list) \in 1 .. 2
    BY <1>1, <2>1, <2>2, DropHeld DEF DropPCs
  <2>4. PICK g \in Headers : g = list[1].header /\ Known(g)
    BY <1>1, <2>1, <2>2, <2>3, DropHeld DEF DropPCs
  <2>5. PICK k \in Nat \ {0} : k = list[1].n
    BY <1>1, <2>1, <2>2, <2>3, DropHeld DEF DropPCs
  <2>6. header[g].RefCount \in Nat /\ header[g].RefCount >= k
    BY <2>2, <2>3, <2>4, <2>5, DropHeld DEF DropPCs
  <2>7. Head(todo[t]) = list[1]
    BY <1>1, <2>1, <2>2, <2>3
  <2>8. header[g].RefCount # k
    BY <1>1, <2>1, <2>4, <2>5, <2>6, <2>7
  <2>9. PICK r \in Nat : r = header[g].RefCount /\ r > 0
    BY <2>2, <2>4, <2>6, <2>8, SdAssumption
  <2>10. PICK n \in Int : n = r - k /\ n > 0
    BY <2>2, <2>5, <2>6, <2>8, <2>9, SdAssumption
  <2>11. Recount(g, n)
    <3>1. header' = [header EXCEPT ![g].RefCount = @ - k]
      BY <1>1, <2>4, <2>5, <2>7 DEF S!DropReferences
    <3> QED
      BY <2>9, <2>10, <3>1 DEF Recount
  <2>12. /\ header' \in [Headers -> HeaderTypes]
         /\ header'[g].RefCount = n
         /\ \A h \in Headers : h # g => header'[h] = header[h]
    BY <1>1, <2>1, <2>6, <2>8, <2>10, <2>11, RecountIs
  <2>13. PICK rest \in Seq(DropTypes) : rest = Tail(list) /\ Len(rest) = Len(list) - 1 /\ (Len(rest) = 0 => rest = <<>>)
        /\ \A l, m : \A h \in Headers :
              /\ HeldAt(l, NoHeader, NoHeader, list, h) =
                    (IF list[1].header = h THEN list[1].n ELSE 0) + HeldAt(m, NoHeader, NoHeader, rest, h)
              /\ HeldAt(m, NoHeader, NoHeader, rest, h) \in Nat
    BY <2>3, DropTail
  <2>14. PICK c \in 1 .. 2 : c = Len(list) /\ Len(rest) = c - 1 /\ (Len(rest) = 0 => rest = <<>>)
    BY <2>3, <2>13
  <2>15. next[t] \in {"idle", "reference"} /\ (next[t] = "reference" => obj[t] # NoObject)
    BY <2>1, <2>2 DEF SdTypes, SdLocals
  <2>16. /\ spc'[t] = (IF Len(list) > 1 THEN "drop" ELSE next[t])
        /\ Old'[t] = NoHeader /\ New'[t] = NoHeader /\ todo'[t] = rest
        /\ obj'[t] = (IF spc'[t] = "idle" THEN NoObject ELSE obj[t]) /\ sd'[t] = sd[t] /\ next'[t] = next[t]
        /\ Cache' = Cache /\ FastRef' = FastRef /\ state' = state
    BY <1>1, <2>1, <2>2, <2>3, <2>7, <2>13, SdAssumption
       DEF S!DropReferences, S!Dropped, S!Goto, SdTypes
  <2>17. (spc'[t] = "drop" /\ Len(rest) = 1 /\ obj'[t] = obj[t]) \/ (spc'[t] = "idle" /\ rest = <<>> /\ obj'[t] = NoObject) \/ (spc'[t] = "reference" /\ rest = <<>> /\ obj'[t] = obj[t] /\ obj[t] # NoObject)
    BY <2>14, <2>15, <2>16
  <2>18. SdTypes' /\ SdFrame(t)
    <3>1. /\ Cache' \in Seq(Headers)
          /\ header' \in [Headers -> HeaderTypes]
          /\ FastRef' \in [Objects -> WordTypes]
      BY <1>1, <2>1, <2>2, <2>3, <2>4, <2>5, <2>12, <2>13, <2>14, <2>15, <2>16, <2>17
         DEF SdTypes
    <3>2. state' \in [Objects -> {"none", "made", "live"}]
      BY <1>1, <2>1, <2>2, <2>16, <2>17 DEF SdTypes
    <3>3. /\ spc' = [spc EXCEPT ![t] = spc'[t]]
          /\ Old' = [Old EXCEPT ![t] = Old'[t]]
          /\ New' = [New EXCEPT ![t] = New'[t]]
      BY <1>1, <2>1, <2>2, <2>16, <2>17 DEF S!DropReferences, S!Dropped, S!Goto, SdTypes
    <3>4. obj' = [obj EXCEPT ![t] = obj'[t]] /\ sd' = [sd EXCEPT ![t] = sd'[t]]
      BY <1>1, <2>1, <2>2, <2>16, <2>17 DEF S!DropReferences, S!Dropped, S!Goto, SdTypes
    <3>5. todo' = [todo EXCEPT ![t] = todo'[t]] /\ next' = [next EXCEPT ![t] = next'[t]]
      BY <1>1, <2>1, <2>2, <2>16, <2>17 DEF S!DropReferences, S!Dropped, S!Goto, SdTypes
    <3>6. Changes(t)
      BY <3>3, <3>4, <3>5 DEF Changes
    <3>7. /\ spc'[t] \in OldPCs \cup NewPCs \cup LogPCs \cup DropPCs \cup {"idle", "reference", "lock"}
          /\ obj'[t] \in Objects \cup {NoObject} /\ Old'[t] \in Headers \cup {NoHeader}
          /\ New'[t] \in Headers \cup {NoHeader} /\ sd'[t] \in Descriptors \cup {NoDescriptor}
          /\ todo'[t] \in Seq(DropTypes) /\ next'[t] \in {"idle", "reference"}
      BY <1>1, <2>1, <2>2, <2>16, <2>17 DEF SdTypes, OldPCs, NewPCs, LogPCs, DropPCs
    <3> QED
      BY <1>1, <2>1, <2>2, <2>16, <2>17, <3>1, <3>2, <3>6, <3>7, ChangesTypes
  <2>19. SdLocals(t)'
    BY <2>1, <2>2, <2>16, <2>17, SdAssumption DEF SdLocals, OldPCs, NewPCs, LogPCs, DropPCs
  <2>20. S!RefsExact'
    <3>1. ASSUME NEW h \in Headers PROVE HeldBalance(t, h)
      <4>1. h # NoHeader /\ SdFastRefs \in Nat
        BY SdAssumption
      <4>x. PICK x \in Nat : x = HeldAt(spc'[t], NoHeader, NoHeader, rest, h)
        BY <2>13
      <4>2. S!Held(t, h) = (IF g = h THEN k ELSE 0) + x
        BY <2>2, <2>3, <2>4, <2>5, <2>13, <2>16, <4>x, <4>1, HeldIs
      <4>3. S!Held(t, h)' = x
        BY <2>2, <2>16, <4>x, <4>1, HeldNext
      <4>4. header[h].RefCount \in Int /\ header'[h].RefCount \in Int
        BY <1>1, <2>1, <2>2, <2>3, <2>4, <2>5, <2>12, <2>13, <2>18 DEF SdTypes, HeaderTypes
      <4>5. CASE g = h
        <5>1. S!Held(t, h) = k + x /\ header[h].RefCount = r /\ header'[h].RefCount = r - k
          BY <2>9, <2>10, <2>12, <4>2, <4>5
        <5> QED
          BY <2>5, <2>9, <4>x, <4>3, <5>1 DEF HeldBalance
      <4>6. CASE g # h
        <5>1. S!Held(t, h) = x /\ header'[h].RefCount = header[h].RefCount
          BY <2>12, <4>2, <4>x, <4>6
        <5> QED
          BY <4>x, <4>3, <4>4, <5>1 DEF HeldBalance
      <4> QED
        BY <4>5, <4>6
    <3> QED
      BY <2>6, <2>7, <2>8, <2>9, <2>14, <2>15, <2>16, <2>17, <2>18, <3>1, SdHeldRefs DEF SdInv
  <2>21. Counting(t)
    BY <2>2, <2>16, <2>17, <2>4, <2>9, <2>10, <2>11, <2>18, <2>19, <2>20, RecountCounting
  <2>22. Quiet(t)
    BY <1>1, <2>1, <2>2, <2>16, <2>17, SdAssumption
       DEF Quiet, Making, WordFrame, OldPCs, NewPCs, LogPCs, DropPCs
  <2>23. ObjectInv' /\ LockedInv'
    BY <2>18, <2>19, <2>22, QuietInv
  <2> QED
    BY <2>21, <2>23, CountingInv
<1>2. CASE header[Head(todo[t]).header].RefCount = Head(todo[t]).n
  <2>1. SdTypes /\ SdLocals(t)
    BY DEF SdInv
  <2>2. spc[t] = "drop" /\ Old[t] = NoHeader /\ New[t] = NoHeader
    BY <1>2, <2>1, SdAssumption
       DEF S!DropReferences, S!Dropped, S!Goto, SdLocals, OldPCs, NewPCs, LogPCs, DropPCs
  <2>3. PICK list \in Seq(DropTypes) : list = todo[t] /\ Len(list) \in 1 .. 2
    BY <1>2, <2>1, <2>2, DropHeld DEF DropPCs
  <2>4. PICK g \in Headers : g = list[1].header /\ Known(g)
    BY <1>2, <2>1, <2>2, <2>3, DropHeld DEF DropPCs
  <2>5. PICK k \in Nat \ {0} : k = list[1].n
    BY <1>2, <2>1, <2>2, <2>3, DropHeld DEF DropPCs
  <2>6. header[g].RefCount \in Nat /\ header[g].RefCount >= k
    BY <2>2, <2>3, <2>4, <2>5, DropHeld DEF DropPCs
  <2>7. Head(todo[t]) = list[1]
    BY <1>2, <2>1, <2>2, <2>3
  <2>8. \A h : HeldAt(spc[t], NoHeader, NoHeader, list, h) \in Nat
    BY <1>2, <2>1, <2>2, <2>3, <2>7, HeldNat
  <2>9. /\ spc'[t] = "destroy" /\ Old'[t] = NoHeader /\ New'[t] = NoHeader /\ todo'[t] = list
        /\ obj'[t] = obj[t] /\ sd'[t] = sd[t] /\ next'[t] = next[t]
        /\ header' = header /\ Cache' = Cache /\ FastRef' = FastRef /\ state' = state
    BY <1>2, <2>1, <2>2, <2>3, SdAssumption DEF S!DropReferences, S!Dropped, S!Goto, SdTypes
  <2>10. SdTypes' /\ SdFrame(t)
    <3>1. /\ Cache' \in Seq(Headers)
          /\ header' \in [Headers -> HeaderTypes]
          /\ FastRef' \in [Objects -> WordTypes]
      BY <1>2, <2>1, <2>2, <2>9 DEF SdTypes
    <3>2. state' \in [Objects -> {"none", "made", "live"}]
      BY <1>2, <2>1, <2>2, <2>9 DEF SdTypes
    <3>3. /\ spc' = [spc EXCEPT ![t] = spc'[t]]
          /\ Old' = [Old EXCEPT ![t] = Old'[t]]
          /\ New' = [New EXCEPT ![t] = New'[t]]
      BY <1>2, <2>1, <2>2, <2>9 DEF S!DropReferences, S!Dropped, S!Goto, SdTypes
    <3>4. obj' = [obj EXCEPT ![t] = obj'[t]] /\ sd' = [sd EXCEPT ![t] = sd'[t]]
      BY <1>2, <2>1, <2>2, <2>9 DEF S!DropReferences, S!Dropped, S!Goto, SdTypes
    <3>5. todo' = [todo EXCEPT ![t] = todo'[t]] /\ next' = [next EXCEPT ![t] = next'[t]]
      BY <1>2, <2>1, <2>2, <2>9 DEF S!DropReferences, S!Dropped, S!Goto, SdTypes
    <3>6. Changes(t)
      BY <3>3, <3>4, <3>5 DEF Changes
    <3>7. /\ spc'[t] \in OldPCs \cup NewPCs \cup LogPCs \cup DropPCs \cup {"idle", "reference", "lock"}
          /\ obj'[t] \in Objects \cup {NoObject} /\ Old'[t] \in Headers \cup {NoHeader}
          /\ New'[t] \in Headers \cup {NoHeader} /\ sd'[t] \in Descriptors \cup {NoDescriptor}
          /\ todo'[t] \in Seq(DropTypes) /\ next'[t] \in {"idle", "reference"}
      BY <1>2, <2>1, <2>2, <2>9 DEF SdTypes, OldPCs, NewPCs, LogPCs, DropPCs
    <3> QED
      BY <1>2, <2>1, <3>1, <3>2, <3>6, <3>7, ChangesTypes
  <2>11. SdLocals(t)'
    BY <1>2, <2>1, <2>2, <2>3, <2>4, <2>5, <2>9 DEF SdLocals, OldPCs, NewPCs, LogPCs, DropPCs
  <2>12. S!RefsExact'
    <3>1. ASSUME NEW h \in Headers PROVE HeldBalance(t, h)
      <4>1. h # NoHeader /\ SdFastRefs \in Nat
        BY SdAssumption
      <4>2. S!Held(t, h) = HeldAt(spc[t], NoHeader, NoHeader, list, h)
        BY <2>2, <2>3, <2>9, <4>1, HeldIs
      <4>3. S!Held(t, h)' = HeldAt(spc[t], NoHeader, NoHeader, list, h)
        BY <2>2, <2>3, <2>9, <4>1, HeldNext DEF HeldAt
      <4>4. header[h].RefCount \in Int /\ header'[h].RefCount \in Int
        BY <1>2, <2>1, <2>2, <2>9 DEF SdTypes, HeaderTypes
      <4> QED
        BY <2>4, <2>5, <2>6, <2>7, <2>8, <2>9, <4>1, <4>2, <4>3, <4>4 DEF HeldBalance
    <3> QED
      BY <2>4, <2>5, <2>8, <2>9, <2>10, <3>1, SdHeldRefs DEF SdInv
  <2>13. Counting(t)
    BY <1>2, <2>1, <2>2, <2>3, <2>8, <2>9, <2>10, <2>11, <2>12, StillCounting
  <2>14. Quiet(t)
    BY <1>2, <2>1, <2>2, <2>9, SdAssumption
       DEF Quiet, Making, WordFrame, OldPCs, NewPCs, LogPCs, DropPCs
  <2>15. ObjectInv' /\ LockedInv'
    BY <2>10, <2>11, <2>14, QuietInv
  <2> QED
    BY <2>13, <2>15, CountingInv
<1> QED
  BY <1>1, <1>2
(* They were not the last ones after all. *)
LEMMA SdDestroyNot ==
    ASSUME SdInv, NEW t \in Threads, header[Head(todo[t]).header].RefCount # Head(todo[t]).n, S!Destroy(t) PROVE SdInv'
<1>1. SdTypes /\ SdLocals(t)
  BY DEF SdInv
<1>2. spc[t] = "destroy" /\ Old[t] = NoHeader /\ New[t] = NoHeader
  BY <1>1, SdAssumption
     DEF S!Destroy, S!Dropped, S!Goto, SdLocals, OldPCs, NewPCs, LogPCs, DropPCs
<1>3. PICK list \in Seq(DropTypes) : list = todo[t] /\ Len(list) \in 1 .. 2
  BY <1>1, <1>2, DropHeld DEF DropPCs
<1>4. PICK g \in Headers : g = list[1].header /\ Known(g)
  BY <1>1, <1>2, <1>3, DropHeld DEF DropPCs
<1>5. PICK k \in Nat \ {0} : k = list[1].n
  BY <1>1, <1>2, <1>3, <1>4, DropHeld DEF DropPCs
<1>6. header[g].RefCount \in Nat /\ header[g].RefCount >= k
  BY <1>1, <1>2, <1>3, <1>4, <1>5, DropHeld DEF DropPCs
<1>7. Head(todo[t]) = list[1]
  BY <1>1, <1>2, <1>3
<1>8. header[g].RefCount # k
  BY <1>3, <1>4, <1>5, <1>6, <1>7
<1>9. PICK r \in Nat : r = header[g].RefCount /\ r > 0
  BY <1>1, <1>2, <1>4, <1>6, <1>8, SdAssumption
<1>10. PICK n \in Int : n = r - k /\ n > 0
  BY <1>5, <1>6, <1>8, <1>9, SdAssumption
<1>11. Recount(g, n)
  BY <1>4, <1>5, <1>6, <1>7, <1>8, <1>9, <1>10
     DEF S!Destroy, S!Dropped, S!Goto, Recount, S!RefBias
<1>12. /\ header' \in [Headers -> HeaderTypes]
       /\ header'[g].RefCount = n
       /\ \A h \in Headers : h # g => header'[h] = header[h]
  BY <1>1, <1>2, <1>8, <1>10, <1>11, RecountIs
<1>13. PICK rest \in Seq(DropTypes) : rest = Tail(list) /\ Len(rest) = Len(list) - 1 /\ (Len(rest) = 0 => rest = <<>>)
        /\ \A l, m : \A h \in Headers :
              /\ HeldAt(l, NoHeader, NoHeader, list, h) =
                    (IF list[1].header = h THEN list[1].n ELSE 0) + HeldAt(m, NoHeader, NoHeader, rest, h)
              /\ HeldAt(m, NoHeader, NoHeader, rest, h) \in Nat
  BY <1>3, DropTail
<1>14. PICK c \in 1 .. 2 : c = Len(list) /\ Len(rest) = c - 1 /\ (Len(rest) = 0 => rest = <<>>)
  BY <1>3, <1>13
<1>15. next[t] \in {"idle", "reference"} /\ (next[t] = "reference" => obj[t] # NoObject)
  BY <1>1, <1>2 DEF SdTypes, SdLocals
<1>16. /\ spc'[t] = (IF Len(list) > 1 THEN "drop" ELSE next[t])
      /\ Old'[t] = NoHeader /\ New'[t] = NoHeader /\ todo'[t] = rest
      /\ obj'[t] = (IF spc'[t] = "idle" THEN NoObject ELSE obj[t]) /\ sd'[t] = sd[t] /\ next'[t] = next[t]
      /\ Cache' = Cache /\ FastRef' = FastRef /\ state' = state
  BY <1>1, <1>2, <1>3, <1>7, <1>13, SdAssumption DEF S!Destroy, S!Dropped, S!Goto, SdTypes
<1>17. (spc'[t] = "drop" /\ Len(rest) = 1 /\ obj'[t] = obj[t]) \/ (spc'[t] = "idle" /\ rest = <<>> /\ obj'[t] = NoObject) \/ (spc'[t] = "reference" /\ rest = <<>> /\ obj'[t] = obj[t] /\ obj[t] # NoObject)
  BY <1>14, <1>15, <1>16
<1>18. SdTypes' /\ SdFrame(t)
  <2>1. /\ Cache' \in Seq(Headers)
        /\ header' \in [Headers -> HeaderTypes]
        /\ FastRef' \in [Objects -> WordTypes]
    BY <1>1, <1>2, <1>3, <1>4, <1>5, <1>11, <1>12, <1>13, <1>14, <1>15, <1>16, <1>17
       DEF SdTypes
  <2>2. state' \in [Objects -> {"none", "made", "live"}]
    BY <1>1, <1>2, <1>16, <1>17 DEF SdTypes
  <2>3. /\ spc' = [spc EXCEPT ![t] = spc'[t]]
        /\ Old' = [Old EXCEPT ![t] = Old'[t]]
        /\ New' = [New EXCEPT ![t] = New'[t]]
    BY <1>1, <1>2, <1>16, <1>17 DEF S!Destroy, S!Dropped, S!Goto, SdTypes
  <2>4. obj' = [obj EXCEPT ![t] = obj'[t]] /\ sd' = [sd EXCEPT ![t] = sd'[t]]
    BY <1>1, <1>2, <1>16, <1>17 DEF S!Destroy, S!Dropped, S!Goto, SdTypes
  <2>5. todo' = [todo EXCEPT ![t] = todo'[t]] /\ next' = [next EXCEPT ![t] = next'[t]]
    BY <1>1, <1>2, <1>16, <1>17 DEF S!Destroy, S!Dropped, S!Goto, SdTypes
  <2>6. Changes(t)
    BY <2>3, <2>4, <2>5 DEF Changes
  <2>7. /\ spc'[t] \in OldPCs \cup NewPCs \cup LogPCs \cup DropPCs \cup {"idle", "reference", "lock"}
        /\ obj'[t] \in Objects \cup {NoObject} /\ Old'[t] \in Headers \cup {NoHeader}
        /\ New'[t] \in Headers \cup {NoHeader} /\ sd'[t] \in Descriptors \cup {NoDescriptor}
        /\ todo'[t] \in Seq(DropTypes) /\ next'[t] \in {"idle", "reference"}
    BY <1>1, <1>2, <1>16, <1>17 DEF SdTypes, OldPCs, NewPCs, LogPCs, DropPCs
  <2> QED
    BY <1>1, <1>2, <1>3, <1>4, <1>5, <1>6, <1>7, <1>15, <1>16, <1>17, <2>1, <2>2, <2>6,
       <2>7, ChangesTypes
<1>19. SdLocals(t)'
  BY <1>1, <1>2, <1>16, <1>17, SdAssumption DEF SdLocals, OldPCs, NewPCs, LogPCs, DropPCs
<1>20. S!RefsExact'
  <2>1. ASSUME NEW h \in Headers PROVE HeldBalance(t, h)
    <3>1. h # NoHeader /\ SdFastRefs \in Nat
      BY SdAssumption
    <3>x. PICK x \in Nat : x = HeldAt(spc'[t], NoHeader, NoHeader, rest, h)
      BY <1>13
    <3>2. S!Held(t, h) = (IF g = h THEN k ELSE 0) + x
      BY <1>2, <1>3, <1>4, <1>5, <1>13, <1>16, <3>x, <3>1, HeldIs
    <3>3. S!Held(t, h)' = x
      BY <1>2, <1>16, <3>x, <3>1, HeldNext
    <3>4. header[h].RefCount \in Int /\ header'[h].RefCount \in Int
      BY <1>1, <1>2, <1>3, <1>4, <1>5, <1>6, <1>13, <1>14, <1>15, <1>16, <1>17, <1>18
         DEF SdTypes, HeaderTypes
    <3>5. CASE g = h
      <4>1. S!Held(t, h) = k + x /\ header[h].RefCount = r /\ header'[h].RefCount = r - k
        BY <1>9, <1>10, <1>12, <3>2, <3>5
      <4> QED
        BY <1>5, <1>9, <3>x, <3>3, <4>1 DEF HeldBalance
    <3>6. CASE g # h
      <4>1. S!Held(t, h) = x /\ header'[h].RefCount = header[h].RefCount
        BY <1>12, <3>2, <3>x, <3>6
      <4> QED
        BY <3>x, <3>3, <3>4, <4>1 DEF HeldBalance
    <3> QED
      BY <3>5, <3>6
  <2> QED
    BY <1>7, <1>8, <1>9, <1>10, <1>15, <1>16, <1>17, <1>18, <2>1, SdHeldRefs DEF SdInv
<1>21. Counting(t)
  BY <1>2, <1>16, <1>17, <1>4, <1>9, <1>10, <1>11, <1>18, <1>19, <1>20, RecountCounting
<1>22. Quiet(t)
  BY <1>1, <1>2, <1>16, <1>17, SdAssumption
     DEF Quiet, Making, WordFrame, OldPCs, NewPCs, LogPCs, DropPCs
<1>23. ObjectInv' /\ LockedInv'
  BY <1>18, <1>19, <1>22, QuietInv
<1> QED
  BY <1>21, <1>23, CountingInv

(* Those that may have read the header have counted it. *)
LEMMA SdFlush ==
    ASSUME SdInv, NEW t \in Threads, S!Flush(t) PROVE SdInv'
<1>1. SdTypes /\ SdLocals(t)
  BY DEF SdInv
<1>2. spc[t] = "flush" /\ Old[t] = NoHeader /\ New[t] = NoHeader
  BY <1>1, SdAssumption DEF S!Flush, S!Goto, SdLocals, OldPCs, NewPCs, LogPCs, DropPCs
<1>3. PICK o \in Objects : o = obj[t] /\ state[o] = "live"
  BY <1>1, <1>2, UserLive DEF Making, LogPCs
<1>4. PICK list \in Seq(DropTypes) : list = todo[t] /\ Len(list) \in 1 .. 2
  BY <1>1, <1>2, <1>3, DropHeld DEF DropPCs
<1>5. \A h : HeldAt(spc[t], NoHeader, NoHeader, list, h) \in Nat
  BY <1>1, <1>2, <1>3, <1>4, HeldNat
<1>6. \A u \in Threads : spc[u] = "locked" => obj[u] # obj[t]
  BY <1>1, <1>2 DEF S!Flush, S!Flushed, S!Users
<1>7. /\ spc'[t] = "drop" /\ Old'[t] = NoHeader /\ New'[t] = NoHeader /\ todo'[t] = list
      /\ obj'[t] = obj[t] /\ sd'[t] = sd[t] /\ next'[t] = next[t]
      /\ header' = header /\ Cache' = Cache /\ FastRef' = FastRef /\ state' = state
  BY <1>1, <1>2, <1>4, <1>5, SdAssumption DEF S!Flush, S!Goto, SdTypes
<1>8. SdTypes' /\ SdFrame(t)
  <2>1. /\ Cache' \in Seq(Headers)
        /\ header' \in [Headers -> HeaderTypes]
        /\ FastRef' \in [Objects -> WordTypes]
    BY <1>1, <1>2, <1>7 DEF SdTypes
  <2>2. state' \in [Objects -> {"none", "made", "live"}]
    BY <1>1, <1>2, <1>7 DEF SdTypes
  <2>3. /\ spc' = [spc EXCEPT ![t] = spc'[t]]
        /\ Old' = [Old EXCEPT ![t] = Old'[t]]
        /\ New' = [New EXCEPT ![t] = New'[t]]
    BY <1>1, <1>2, <1>7 DEF S!Flush, S!Goto, SdTypes
  <2>4. obj' = [obj EXCEPT ![t] = obj'[t]] /\ sd' = [sd EXCEPT ![t] = sd'[t]]
    BY <1>1, <1>2, <1>7 DEF S!Flush, S!Goto, SdTypes
  <2>5. todo' = [todo EXCEPT ![t] = todo'[t]] /\ next' = [next EXCEPT ![t] = next'[t]]
    BY <1>1, <1>2, <1>7 DEF S!Flush, S!Goto, SdTypes
  <2>6. Changes(t)
    BY <2>3, <2>4, <2>5 DEF Changes
  <2>7. /\ spc'[t] \in OldPCs \cup NewPCs \cup LogPCs \cup DropPCs \cup {"idle", "reference", "lock"}
        /\ obj'[t] \in Objects \cup {NoObject} /\ Old'[t] \in Headers \cup {NoHeader}
        /\ New'[t] \in Headers \cup {NoHeader} /\ sd'[t] \in Descriptors \cup {NoDescriptor}
        /\ todo'[t] \in Seq(DropTypes) /\ next'[t] \in {"idle", "reference"}
    BY <1>1, <1>2, <1>7 DEF SdTypes, OldPCs, NewPCs, LogPCs, DropPCs
  <2> QED
    BY <1>1, <1>2, <1>3, <1>7, <2>1, <2>2, <2>6, <2>7, ChangesTypes
<1>9. SdLocals(t)'
  BY <1>1, <1>2, <1>3, <1>4, <1>7 DEF SdLocals, OldPCs, NewPCs, LogPCs, DropPCs
<1>10. S!RefsExact'
  <2>1. ASSUME NEW h \in Headers PROVE HeldBalance(t, h)
    <3>1. h # NoHeader /\ SdFastRefs \in Nat
      BY SdAssumption
    <3>2. S!Held(t, h) = HeldAt(spc[t], NoHeader, NoHeader, list, h)
      BY <1>1, <1>2, <1>4, <1>5, HeldIs
    <3>3. S!Held(t, h)' = HeldAt(spc[t], NoHeader, NoHeader, list, h)
      BY <1>4, <1>5, <1>7, <3>1, HeldNext DEF HeldAt
    <3>4. header[h].RefCount \in Int /\ header'[h].RefCount \in Int
      BY <1>1, <1>2, <1>7 DEF SdTypes, HeaderTypes
    <3> QED
      BY <1>4, <1>5, <1>6, <1>7, <3>1, <3>2, <3>3, <3>4 DEF HeldBalance
  <2> QED
    BY <1>4, <1>5, <1>6, <1>7, <1>8, <2>1, SdHeldRefs DEF SdInv
<1>11. Counting(t)
  BY <1>1, <1>2, <1>3, <1>7, <1>8, <1>9, <1>10, StillCounting
<1>12. Quiet(t)
  BY <1>1, <1>2, <1>5, <1>6, <1>7, SdAssumption
     DEF Quiet, Making, WordFrame, OldPCs, NewPCs, LogPCs, DropPCs
<1>13. ObjectInv' /\ LockedInv'
  BY <1>8, <1>9, <1>12, QuietInv
<1> QED
  BY <1>11, <1>13, CountingInv

-----------------------------------------------------------------------------
(* Who sets one, and who makes and deletes objects.                        *)

(* The descriptor is found, or not. *)
LEMMA SdSearch ==
    ASSUME SdInv, NEW t \in Threads, S!Search(t) PROVE SdInv'
<1>1. CASE S!Cached(sd[t])
  <2>1. SdTypes /\ SdLocals(t)
    BY DEF SdInv
  <2>2. spc[t] = "search" /\ New[t] = NoHeader /\ todo[t] = <<>>
    BY <1>1, <2>1, SdAssumption
       DEF S!Search, S!Logged, S!Goto, S!RefBias, SdLocals, OldPCs, NewPCs, LogPCs, DropPCs
  <2>3. PICK old \in Headers \cup {NoHeader} : old = Old[t]
    BY <1>1, <2>1, <2>2 DEF SdTypes
  <2>4. obj[t] \in Objects /\ obj[t] # NoObject
    BY <2>2, UserLive, SdAssumption
  <2>5. PICK g \in Headers : g = Cache[S!Place(sd[t])] /\ Known(g) /\ header[g].RefCount \in Nat /\ header[g].RefCount > 0
    BY <1>1, <2>1, <2>2, FoundHeader
  <2>6. PICK r \in Nat : r = header[g].RefCount /\ r > 0
    BY <1>1, <2>1, <2>2, <2>5, SdAssumption
  <2>7. PICK n \in Int : n = r + (SdFastRefs + 1) /\ n > 0
    BY <1>1, <2>1, <2>2, <2>6, SdAssumption
  <2>8. Recount(g, n)
    BY <1>1, <2>1, <2>4, <2>5, <2>6, <2>7
       DEF S!Search, S!Logged, S!Goto, S!RefBias, Recount, S!RefBias
  <2>9. /\ header' \in [Headers -> HeaderTypes]
        /\ header'[g].RefCount = n
        /\ \A h \in Headers : h # g => header'[h] = header[h]
    BY <1>1, <2>1, <2>7, <2>8, RecountIs
  <2>10. /\ spc'[t] = (IF old = NoHeader THEN "assign" ELSE "swap") /\ Old'[t] = old /\ New'[t] = g /\ todo'[t] = <<>>
        /\ obj'[t] = obj[t] /\ sd'[t] = sd[t] /\ next'[t] = next[t]
        /\ Cache' = Cache /\ FastRef' = FastRef /\ state' = state
    BY <1>1, <2>1, <2>2, <2>3, <2>5, <2>8, <2>9, SdAssumption
       DEF S!Search, S!Logged, S!Goto, S!RefBias, SdTypes
  <2>11. (old = NoHeader /\ spc'[t] = "assign") \/ (old \in Headers /\ old # NoHeader /\ spc'[t] = "swap")
    BY <2>10, <2>3, SdAssumption
  <2>12. g # NoHeader
    BY SdAssumption
  <2>13. SdTypes' /\ SdFrame(t)
    <3>1. /\ Cache' \in Seq(Headers)
          /\ header' \in [Headers -> HeaderTypes]
          /\ FastRef' \in [Objects -> WordTypes]
      BY <1>1, <2>1, <2>2, <2>3, <2>8, <2>9, <2>10, <2>11, <2>12 DEF SdTypes
    <3>2. state' \in [Objects -> {"none", "made", "live"}]
      BY <1>1, <2>1, <2>2, <2>10, <2>11 DEF SdTypes
    <3>3. /\ spc' = [spc EXCEPT ![t] = spc'[t]]
          /\ Old' = [Old EXCEPT ![t] = Old'[t]]
          /\ New' = [New EXCEPT ![t] = New'[t]]
      BY <1>1, <2>1, <2>2, <2>10, <2>11 DEF S!Search, S!Logged, S!Goto, S!RefBias, SdTypes
    <3>4. obj' = [obj EXCEPT ![t] = obj'[t]] /\ sd' = [sd EXCEPT ![t] = sd'[t]]
      BY <1>1, <2>1, <2>2, <2>10, <2>11 DEF S!Search, S!Logged, S!Goto, S!RefBias, SdTypes
    <3>5. todo' = [todo EXCEPT ![t] = todo'[t]] /\ next' = [next EXCEPT ![t] = next'[t]]
      BY <1>1, <2>1, <2>2, <2>10, <2>11 DEF S!Search, S!Logged, S!Goto, S!RefBias, SdTypes
    <3>6. Changes(t)
      BY <3>3, <3>4, <3>5 DEF Changes
    <3>7. /\ spc'[t] \in OldPCs \cup NewPCs \cup LogPCs \cup DropPCs \cup {"idle", "reference", "lock"}
          /\ obj'[t] \in Objects \cup {NoObject} /\ Old'[t] \in Headers \cup {NoHeader}
          /\ New'[t] \in Headers \cup {NoHeader} /\ sd'[t] \in Descriptors \cup {NoDescriptor}
          /\ todo'[t] \in Seq(DropTypes) /\ next'[t] \in {"idle", "reference"}
      BY <1>1, <2>1, <2>2, <2>10, <2>11 DEF SdTypes, OldPCs, NewPCs, LogPCs, DropPCs
    <3> QED
      BY <1>1, <2>1, <2>2, <2>10, <2>11, <3>1, <3>2, <3>6, <3>7, ChangesTypes
  <2>14. SdLocals(t)'
    BY <2>10, <2>11, <2>12, <2>4 DEF SdLocals, OldPCs, NewPCs, LogPCs, DropPCs
  <2>15. S!RefsExact'
    <3>1. ASSUME NEW h \in Headers PROVE HeldBalance(t, h)
      <4>1. h # NoHeader /\ SdFastRefs \in Nat
        BY SdAssumption
      <4>2. S!Held(t, h) = IF old = h THEN 1 ELSE 0
        BY <2>2, <2>3, <2>10, <2>11, <4>1, HeldBefore DEF HeldNone
      <4>3. S!Held(t, h)' = (IF old = h THEN 1 ELSE 0) + (IF g = h THEN SdFastRefs + 1 ELSE 0)
        BY <2>3, <2>5, <2>10, <2>11, HeldAfter DEF HeldNone
      <4>4. header[h].RefCount \in Int /\ header'[h].RefCount \in Int
        BY <1>1, <2>1, <2>2, <2>3, <2>8, <2>9, <2>13 DEF SdTypes, HeaderTypes
      <4> QED
        BY <2>5, <2>6, <2>7, <2>8, <2>9, <2>10, <2>11, <2>12, <4>1, <4>2, <4>3, <4>4
           DEF HeldBalance
    <3> QED
      BY <2>5, <2>6, <2>7, <2>8, <2>9, <2>10, <2>11, <2>12, <2>13, <3>1, SdHeldRefs DEF SdInv
  <2>16. Counting(t)
    BY <1>1, <2>1, <2>2, <2>3, <2>4, <2>5, <2>6, <2>7, <2>8, <2>9, <2>10, <2>11, <2>12,
       <2>13, <2>14, <2>15, RecountCounting
  <2>17. Quiet(t)
    BY <1>1, <2>1, <2>2, <2>3, <2>4, <2>5, <2>6, <2>7, <2>8, <2>9, <2>10, <2>11, <2>12,
       SdAssumption
       DEF Quiet, Making, WordFrame, OldPCs, NewPCs, LogPCs, DropPCs
  <2>18. ObjectInv' /\ LockedInv'
    BY <2>13, <2>14, <2>17, QuietInv
  <2> QED
    BY <2>16, <2>18, CountingInv
<1>2. CASE ~S!Cached(sd[t])
  <2>1. SdTypes /\ SdLocals(t)
    BY DEF SdInv
  <2>2. spc[t] = "search" /\ New[t] = NoHeader /\ todo[t] = <<>>
    BY <1>2, <2>1, SdAssumption
       DEF S!Search, S!Logged, S!Goto, S!RefBias, SdLocals, OldPCs, NewPCs, LogPCs, DropPCs
  <2>3. PICK old \in Headers \cup {NoHeader} : old = Old[t]
    BY <1>2, <2>1, <2>2 DEF SdTypes
  <2>4. obj[t] \in Objects /\ obj[t] # NoObject
    BY <2>2, UserLive, SdAssumption
  <2>5. /\ spc'[t] = "create" /\ Old'[t] = old /\ New'[t] = NoHeader /\ todo'[t] = <<>>
        /\ obj'[t] = obj[t] /\ sd'[t] = sd[t] /\ next'[t] = next[t]
        /\ header' = header /\ Cache' = Cache /\ FastRef' = FastRef /\ state' = state
    BY <1>2, <2>1, <2>2, <2>3, SdAssumption DEF S!Search, S!Logged, S!Goto, S!RefBias, SdTypes
  <2>6. SdTypes' /\ SdFrame(t)
    <3>1. /\ Cache' \in Seq(Headers)
          /\ header' \in [Headers -> HeaderTypes]
          /\ FastRef' \in [Objects -> WordTypes]
      BY <1>2, <2>1, <2>2, <2>5 DEF SdTypes
    <3>2. state' \in [Objects -> {"none", "made", "live"}]
      BY <1>2, <2>1, <2>2, <2>5 DEF SdTypes
    <3>3. /\ spc' = [spc EXCEPT ![t] = spc'[t]]
          /\ Old' = [Old EXCEPT ![t] = Old'[t]]
          /\ New' = [New EXCEPT ![t] = New'[t]]
      BY <1>2, <2>1, <2>2, <2>5 DEF S!Search, S!Logged, S!Goto, S!RefBias, SdTypes
    <3>4. obj' = [obj EXCEPT ![t] = obj'[t]] /\ sd' = [sd EXCEPT ![t] = sd'[t]]
      BY <1>2, <2>1, <2>2, <2>5 DEF S!Search, S!Logged, S!Goto, S!RefBias, SdTypes
    <3>5. todo' = [todo EXCEPT ![t] = todo'[t]] /\ next' = [next EXCEPT ![t] = next'[t]]
      BY <1>2, <2>1, <2>2, <2>5 DEF S!Search, S!Logged, S!Goto, S!RefBias, SdTypes
    <3>6. Changes(t)
      BY <3>3, <3>4, <3>5 DEF Changes
    <3>7. /\ spc'[t] \in OldPCs \cup NewPCs \cup LogPCs \cup DropPCs \cup {"idle", "reference", "lock"}
          /\ obj'[t] \in Objects \cup {NoObject} /\ Old'[t] \in Headers \cup {NoHeader}
          /\ New'[t] \in Headers \cup {NoHeader} /\ sd'[t] \in Descriptors \cup {NoDescriptor}
          /\ todo'[t] \in Seq(DropTypes) /\ next'[t] \in {"idle", "reference"}
      BY <1>2, <2>1, <2>2, <2>5 DEF SdTypes, OldPCs, NewPCs, LogPCs, DropPCs
    <3> QED
      BY <1>2, <2>1, <3>1, <3>2, <3>6, <3>7, ChangesTypes
  <2>7. SdLocals(t)'
    BY <1>2, <2>1, <2>2, <2>5 DEF SdLocals, OldPCs, NewPCs, LogPCs, DropPCs
  <2>8. S!RefsExact'
    <3>1. ASSUME NEW h \in Headers PROVE HeldBalance(t, h)
      <4>1. h # NoHeader /\ SdFastRefs \in Nat
        BY SdAssumption
      <4>2. S!Held(t, h) = IF old = h THEN 1 ELSE 0
        BY <2>2, <2>3, <2>5, <4>1, HeldBefore DEF HeldNone
      <4>3. S!Held(t, h)' = IF old = h THEN 1 ELSE 0
        BY <2>2, <2>3, <2>5, <4>1, HeldAfter DEF HeldNone
      <4>4. header[h].RefCount \in Int /\ header'[h].RefCount \in Int
        BY <1>2, <2>1, <2>2, <2>5 DEF SdTypes, HeaderTypes
      <4> QED
        BY <2>2, <2>5, <4>1, <4>2, <4>3, <4>4 DEF HeldBalance
    <3> QED
      BY <2>2, <2>3, <2>4, <2>5, <2>6, <3>1, SdHeldRefs DEF SdInv
  <2>9. Counting(t)
    BY <1>2, <2>1, <2>2, <2>3, <2>4, <2>5, <2>6, <2>7, <2>8, StillCounting
  <2>10. Quiet(t)
    BY <2>2, <2>3, <2>4, <2>5, SdAssumption
       DEF Quiet, Making, WordFrame, OldPCs, NewPCs, LogPCs, DropPCs
  <2>11. ObjectInv' /\ LockedInv'
    BY <2>6, <2>7, <2>10, QuietInv
  <2> QED
    BY <2>9, <2>11, CountingInv
<1> QED
  BY <1>1, <1>2
(* There is no memory for a header: the object is not made, or not changed. *)
LEMMA SdCreateFails ==
    ASSUME SdInv, NEW t \in Threads, S!CreateFails(t) PROVE SdInv'
<1>1. CASE Old[t] = NoHeader
  <2>1. SdTypes /\ SdLocals(t)
    BY DEF SdInv
  <2>2. spc[t] = "create" /\ Old[t] = NoHeader /\ New[t] = NoHeader /\ todo[t] = <<>>
    BY <1>1, <2>1, SdAssumption
       DEF S!CreateFails, S!Drop, S!Goto, S!References, SdLocals, OldPCs, NewPCs, LogPCs,
           DropPCs
  <2>3. PICK o \in Objects : o = obj[t] /\ Making(t)
    BY <1>1, <2>1, <2>2, UserLive DEF Making, LogPCs
  <2>4. state[o] = "made" /\ FastRef[o] = S!NoSecurity /\ \A u \in Threads \ {t} : obj[u] # o
    BY <1>1, <2>1, <2>2, <2>3, MakerAlone
  <2>5. state' = [state EXCEPT ![o] = "none"]
    BY <1>1, <2>1, <2>2, <2>3, <2>4 DEF S!CreateFails, S!Drop, S!Goto, S!References, S!Begin
  <2>6. /\ state' \in [Objects -> {"none", "made", "live"}]
        /\ state'[o] = "none"
        /\ \A p \in Objects \ {o} : state'[p] = state[p]
    BY <1>1, <2>1, <2>4, <2>5 DEF SdTypes
  <2>7. /\ spc'[t] = "idle" /\ Old'[t] = NoHeader /\ New'[t] = NoHeader /\ todo'[t] = <<>>
        /\ obj'[t] = NoObject /\ sd'[t] = NoDescriptor /\ next'[t] = next[t]
        /\ header' = header /\ Cache' = Cache /\ FastRef' = FastRef
    BY <1>1, <2>1, <2>2, SdAssumption DEF S!CreateFails, S!Drop, S!Goto, S!References, SdTypes
  <2>8. SdTypes' /\ SdFrame(t)
    <3>1. /\ Cache' \in Seq(Headers)
          /\ header' \in [Headers -> HeaderTypes]
          /\ FastRef' \in [Objects -> WordTypes]
      BY <1>1, <2>1, <2>2, <2>7 DEF SdTypes
    <3>2. state' \in [Objects -> {"none", "made", "live"}]
      BY <2>2, <2>3, <2>6, <2>7 DEF SdTypes
    <3>3. /\ spc' = [spc EXCEPT ![t] = spc'[t]]
          /\ Old' = [Old EXCEPT ![t] = Old'[t]]
          /\ New' = [New EXCEPT ![t] = New'[t]]
      BY <1>1, <2>1, <2>2, <2>7 DEF S!CreateFails, S!Drop, S!Goto, S!References, SdTypes
    <3>4. obj' = [obj EXCEPT ![t] = obj'[t]] /\ sd' = [sd EXCEPT ![t] = sd'[t]]
      BY <1>1, <2>1, <2>2, <2>7 DEF S!CreateFails, S!Drop, S!Goto, S!References, SdTypes
    <3>5. todo' = [todo EXCEPT ![t] = todo'[t]] /\ next' = [next EXCEPT ![t] = next'[t]]
      BY <1>1, <2>1, <2>2, <2>7 DEF S!CreateFails, S!Drop, S!Goto, S!References, SdTypes
    <3>6. Changes(t)
      BY <3>3, <3>4, <3>5 DEF Changes
    <3>7. /\ spc'[t] \in OldPCs \cup NewPCs \cup LogPCs \cup DropPCs \cup {"idle", "reference", "lock"}
          /\ obj'[t] \in Objects \cup {NoObject} /\ Old'[t] \in Headers \cup {NoHeader}
          /\ New'[t] \in Headers \cup {NoHeader} /\ sd'[t] \in Descriptors \cup {NoDescriptor}
          /\ todo'[t] \in Seq(DropTypes) /\ next'[t] \in {"idle", "reference"}
      BY <1>1, <2>1, <2>2, <2>7 DEF SdTypes, OldPCs, NewPCs, LogPCs, DropPCs
    <3> QED
      BY <1>1, <2>1, <3>1, <3>2, <3>6, <3>7, ChangesTypes
  <2>9. SdLocals(t)'
    BY <1>1, <2>1, <2>2, <2>7 DEF SdLocals, OldPCs, NewPCs, LogPCs, DropPCs
  <2>10. S!RefsExact'
    <3>1. ASSUME NEW h \in Headers PROVE HeldBalance(t, h)
      <4>1. h # NoHeader /\ SdFastRefs \in Nat
        BY SdAssumption
      <4>2. S!Held(t, h) = 0
        BY <1>1, <2>1, <2>2, <2>7, <4>1, HeldBefore DEF HeldNone
      <4>3. S!Held(t, h)' = 0
        BY <1>1, <2>1, <2>2, <2>7, <4>1, HeldAfter DEF HeldNone
      <4>4. header[h].RefCount \in Int /\ header'[h].RefCount \in Int
        BY <1>1, <2>1, <2>2, <2>7 DEF SdTypes, HeaderTypes
      <4> QED
        BY <2>2, <2>7, <4>1, <4>2, <4>3, <4>4 DEF HeldBalance
    <3> QED
      BY <2>3, <2>4, <2>7, <2>8, <3>1, SdHeldRefs DEF SdInv
  <2>11. Counting(t)
    BY <1>1, <2>1, <2>2, <2>6, <2>7, <2>8, <2>9, <2>10, StillCounting
  <2>12. Claims(t, o)
    BY <2>2, <2>3, <2>4, <2>5, <2>6, <2>7, SdAssumption
       DEF Claims, WordFrame, Making, OldPCs, NewPCs, LogPCs, DropPCs
  <2>13. ObjectInv' /\ LockedInv'
    BY <2>3, <2>4, <2>7, <2>8, <2>12, ClaimsInv
  <2> QED
    BY <2>11, <2>13, CountingInv
<1>2. CASE Old[t] # NoHeader
  <2>1. SdTypes /\ SdLocals(t)
    BY DEF SdInv
  <2>2. spc[t] = "create" /\ New[t] = NoHeader /\ todo[t] = <<>>
    BY <1>2, <2>1, SdAssumption
       DEF S!CreateFails, S!Drop, S!Goto, S!References, SdLocals, OldPCs, NewPCs, LogPCs,
           DropPCs
  <2>3. PICK o \in Objects : o = obj[t] /\ state[o] = "live"
    BY <1>2, <2>1, <2>2, UserLive DEF Making
  <2>4. PICK g \in Headers : g = Old[t]
    BY <1>2, <2>1, <2>2, <2>3 DEF SdTypes
  <2>5. PICK k \in Nat : k = 1
    OBVIOUS
  <2>6. PICK list : list = <<[header |-> g, n |-> k]>>
    OBVIOUS
  <2>7. list \in Seq(DropTypes) /\ Len(list) = 1 /\ list[1].header = g
    BY <2>2, <2>3, <2>4, <2>5, <2>6, SdAssumption DEF DropTypes
  <2>8. \A l : \A h \in Headers : HeldAt(l, NoHeader, NoHeader, list, h) = IF g = h THEN k ELSE 0
    BY <2>2, <2>4, <2>5, <2>6, <2>7, HeldOnce
  <2>9. /\ spc'[t] = "drop" /\ Old'[t] = NoHeader /\ New'[t] = NoHeader /\ todo'[t] = list
        /\ obj'[t] = obj[t] /\ sd'[t] = NoDescriptor /\ next'[t] = "idle"
        /\ header' = header /\ Cache' = Cache /\ FastRef' = FastRef /\ state' = state
    BY <1>2, <2>1, <2>2, <2>3, <2>4, <2>5, <2>6, <2>7, <2>8, SdAssumption
       DEF S!CreateFails, S!Drop, S!Goto, S!References, SdTypes
  <2>10. SdTypes' /\ SdFrame(t)
    <3>1. /\ Cache' \in Seq(Headers)
          /\ header' \in [Headers -> HeaderTypes]
          /\ FastRef' \in [Objects -> WordTypes]
      BY <1>2, <2>1, <2>2, <2>9 DEF SdTypes
    <3>2. state' \in [Objects -> {"none", "made", "live"}]
      BY <1>2, <2>1, <2>2, <2>9 DEF SdTypes
    <3>3. /\ spc' = [spc EXCEPT ![t] = spc'[t]]
          /\ Old' = [Old EXCEPT ![t] = Old'[t]]
          /\ New' = [New EXCEPT ![t] = New'[t]]
      BY <1>2, <2>1, <2>2, <2>9 DEF S!CreateFails, S!Drop, S!Goto, S!References, SdTypes
    <3>4. obj' = [obj EXCEPT ![t] = obj'[t]] /\ sd' = [sd EXCEPT ![t] = sd'[t]]
      BY <1>2, <2>1, <2>2, <2>9 DEF S!CreateFails, S!Drop, S!Goto, S!References, SdTypes
    <3>5. todo' = [todo EXCEPT ![t] = todo'[t]] /\ next' = [next EXCEPT ![t] = next'[t]]
      BY <1>2, <2>1, <2>2, <2>9 DEF S!CreateFails, S!Drop, S!Goto, S!References, SdTypes
    <3>6. Changes(t)
      BY <3>3, <3>4, <3>5 DEF Changes
    <3>7. /\ spc'[t] \in OldPCs \cup NewPCs \cup LogPCs \cup DropPCs \cup {"idle", "reference", "lock"}
          /\ obj'[t] \in Objects \cup {NoObject} /\ Old'[t] \in Headers \cup {NoHeader}
          /\ New'[t] \in Headers \cup {NoHeader} /\ sd'[t] \in Descriptors \cup {NoDescriptor}
          /\ todo'[t] \in Seq(DropTypes) /\ next'[t] \in {"idle", "reference"}
      BY <2>3, <2>4, <2>7, <2>8, <2>9 DEF SdTypes, OldPCs, NewPCs, LogPCs, DropPCs
    <3> QED
      BY <1>2, <2>1, <3>1, <3>2, <3>6, <3>7, ChangesTypes
  <2>11. SdLocals(t)'
    BY <2>3, <2>4, <2>7, <2>8, <2>9 DEF SdLocals, OldPCs, NewPCs, LogPCs, DropPCs
  <2>12. S!RefsExact'
    <3>1. ASSUME NEW h \in Headers PROVE HeldBalance(t, h)
      <4>1. h # NoHeader /\ SdFastRefs \in Nat
        BY SdAssumption
      <4>2. S!Held(t, h) = IF g = h THEN 1 ELSE 0
        BY <2>2, <2>4, <2>9, <4>1, HeldBefore DEF HeldNone
      <4>3. S!Held(t, h)' = IF g = h THEN k ELSE 0
        BY <2>4, <2>5, <2>7, <2>8, <2>9, <4>1, HeldNext
      <4>4. header[h].RefCount \in Int /\ header'[h].RefCount \in Int
        BY <1>2, <2>1, <2>2, <2>9 DEF SdTypes, HeaderTypes
      <4> QED
        BY <2>4, <2>5, <2>6, <2>7, <2>8, <2>9, <4>1, <4>2, <4>3, <4>4 DEF HeldBalance
    <3> QED
      BY <2>4, <2>5, <2>8, <2>9, <2>10, <3>1, SdHeldRefs DEF SdInv
  <2>13. Counting(t)
    BY <1>2, <2>1, <2>2, <2>3, <2>8, <2>9, <2>10, <2>11, <2>12, StillCounting
  <2>14. Quiet(t)
    BY <1>2, <2>1, <2>2, <2>9, SdAssumption
       DEF Quiet, Making, WordFrame, OldPCs, NewPCs, LogPCs, DropPCs
  <2>15. ObjectInv' /\ LockedInv'
    BY <2>10, <2>11, <2>14, QuietInv
  <2> QED
    BY <2>13, <2>15, CountingInv
<1> QED
  BY <1>1, <1>2
(* The object gets its new descriptor, or both are to be dropped. *)
LEMMA SdSwap ==
    ASSUME SdInv, NEW t \in Threads, S!Swap(t) PROVE SdInv'
<1>1. CASE FastRef[obj[t]].header = Old[t]
  <2>1. SdTypes /\ SdLocals(t)
    BY DEF SdInv
  <2>2. spc[t] = "swap" /\ todo[t] = <<>>
    BY <1>1, <2>1, SdAssumption
       DEF S!Swap, S!Forget, S!Drop, S!Goto, S!References, S!RefBias, SdLocals, OldPCs,
           NewPCs, LogPCs, DropPCs
  <2>3. PICK o \in Objects : o = obj[t] /\ state[o] = "live"
    BY <1>1, <2>1, <2>2, UserLive DEF Making, LogPCs
  <2>4. PICK g \in Headers : g = Old[t]
    BY <1>1, <2>1, <2>2, <2>3, SdAssumption DEF SdLocals, OldPCs
  <2>5. PICK m \in Headers : m = New[t]
    BY <1>1, <2>1, <2>2 DEF SdLocals, SdTypes, NewPCs
  <2>6. PICK n \in Nat : n = FastRef[o].refs
    BY <1>1, <2>1, <2>2, <2>3, SdAssumption DEF SdTypes, WordTypes
  <2>7. FastRef[o].header = g
    BY <1>1, <2>1, <2>2, <2>3, <2>4
  <2>8. PICK k \in Nat : k = n + 2 /\ k # 0
    BY <1>1, <2>1, <2>2, <2>6
  <2>9. FastRef' = [FastRef EXCEPT ![o] = [header |-> m, refs |-> SdFastRefs]]
    BY <1>1, <2>1, <2>2, <2>3, <2>5, <2>7
       DEF S!Swap, S!Forget, S!Drop, S!Goto, S!References, S!RefBias, S!NoSecurity
  <2>10. [header |-> m, refs |-> SdFastRefs] \in WordTypes
    BY <1>1, <2>1, <2>2, <2>5, <2>9, SdAssumption DEF WordTypes
  <2>11. /\ FastRef' \in [Objects -> WordTypes]
         /\ FastRef'[o] = [header |-> m, refs |-> SdFastRefs]
         /\ WordFrame(o)
    BY <1>1, <2>1, <2>5, <2>7, <2>9, <2>10 DEF SdTypes, WordFrame
  <2>12. FastRef'[o].header = m /\ FastRef'[o].refs = SdFastRefs
    BY <2>3, <2>5, <2>10, <2>11
  <2>13. PICK list : list = <<[header |-> g, n |-> k]>>
    OBVIOUS
  <2>14. list \in Seq(DropTypes) /\ Len(list) = 1 /\ list[1].header = g
    BY <2>4, <2>5, <2>6, <2>7, <2>8, <2>9, <2>13, SdAssumption DEF DropTypes
  <2>15. \A l : \A h \in Headers : HeldAt(l, NoHeader, NoHeader, list, h) = IF g = h THEN k ELSE 0
    BY <2>2, <2>4, <2>13, <2>14, HeldOnce
  <2>16. /\ spc'[t] = "flush" /\ Old'[t] = NoHeader /\ New'[t] = NoHeader /\ todo'[t] = list
        /\ obj'[t] = o /\ sd'[t] = NoDescriptor /\ next'[t] = "idle"
        /\ header' = header /\ Cache' = Cache /\ state' = state
    BY <1>1, <2>1, <2>2, <2>3, <2>4, <2>5, <2>6, <2>7, <2>8, <2>9, <2>10, <2>11, <2>12,
       <2>13, <2>14, <2>15, SdAssumption
       DEF S!Swap, S!Forget, S!Drop, S!Goto, S!References, S!RefBias, SdTypes
  <2>17. SdTypes' /\ SdFrame(t)
    <3>1. /\ Cache' \in Seq(Headers)
          /\ header' \in [Headers -> HeaderTypes]
          /\ FastRef' \in [Objects -> WordTypes]
      BY <1>1, <2>1, <2>2, <2>3, <2>4, <2>10, <2>11, <2>12, <2>13, <2>14, <2>15, <2>16
         DEF SdTypes
    <3>2. state' \in [Objects -> {"none", "made", "live"}]
      BY <1>1, <2>1, <2>2, <2>16 DEF SdTypes
    <3>3. /\ spc' = [spc EXCEPT ![t] = spc'[t]]
          /\ Old' = [Old EXCEPT ![t] = Old'[t]]
          /\ New' = [New EXCEPT ![t] = New'[t]]
      BY <1>1, <2>1, <2>2, <2>16
         DEF S!Swap, S!Forget, S!Drop, S!Goto, S!References, S!RefBias, SdTypes
    <3>4. obj' = [obj EXCEPT ![t] = obj'[t]] /\ sd' = [sd EXCEPT ![t] = sd'[t]]
      BY <1>1, <2>1, <2>2, <2>16
         DEF S!Swap, S!Forget, S!Drop, S!Goto, S!References, S!RefBias, SdTypes
    <3>5. todo' = [todo EXCEPT ![t] = todo'[t]] /\ next' = [next EXCEPT ![t] = next'[t]]
      BY <1>1, <2>1, <2>2, <2>16
         DEF S!Swap, S!Forget, S!Drop, S!Goto, S!References, S!RefBias, SdTypes
    <3>6. Changes(t)
      BY <3>3, <3>4, <3>5 DEF Changes
    <3>7. /\ spc'[t] \in OldPCs \cup NewPCs \cup LogPCs \cup DropPCs \cup {"idle", "reference", "lock"}
          /\ obj'[t] \in Objects \cup {NoObject} /\ Old'[t] \in Headers \cup {NoHeader}
          /\ New'[t] \in Headers \cup {NoHeader} /\ sd'[t] \in Descriptors \cup {NoDescriptor}
          /\ todo'[t] \in Seq(DropTypes) /\ next'[t] \in {"idle", "reference"}
      BY <2>5, <2>6, <2>7, <2>8, <2>13, <2>14, <2>15, <2>16
         DEF SdTypes, OldPCs, NewPCs, LogPCs, DropPCs
    <3> QED
      BY <1>1, <2>1, <3>1, <3>2, <3>6, <3>7, ChangesTypes
  <2>18. SdLocals(t)'
    BY <1>1, <2>1, <2>2, <2>3, <2>4, <2>10, <2>11, <2>12, <2>13, <2>14, <2>15, <2>16
       DEF SdLocals, OldPCs, NewPCs, LogPCs, DropPCs
  <2>19. S!RefsExact'
    <3>1. ASSUME NEW h \in Headers PROVE WordBalance(t, o, h)
      <4>1. h # NoHeader /\ SdFastRefs \in Nat
        BY SdAssumption
      <4>2. S!Held(t, h) = (IF g = h THEN 1 ELSE 0) + (IF m = h THEN SdFastRefs + 1 ELSE 0)
        BY <1>1, <2>1, <2>2, <2>4, <2>5, <2>7, <2>9, <2>10, <2>16, <4>1, HeldBefore
           DEF HeldNone
      <4>3. S!Held(t, h)' = IF g = h THEN k ELSE 0
        BY <2>4, <2>7, <2>15, <2>16, <4>1, HeldNext
      <4>4. header[h].RefCount \in Int /\ header'[h].RefCount \in Int
        BY <1>1, <2>1, <2>2, <2>16 DEF SdTypes, HeaderTypes
      <4>5. S!InWord(o, h) = IF g = h THEN n + 1 ELSE 0
        BY <2>4, <2>6, <2>7, <2>14, <4>1 DEF S!InWord, S!Times
      <4>6. S!InWord(o, h)' = IF m = h THEN SdFastRefs + 1 ELSE 0
        BY <2>5, <2>7, <2>11, <2>12 DEF S!InWord, S!Times
      <4>7. header'[h].RefCount = header[h].RefCount
        BY <2>16
      <4>8. PICK x \in Nat : x = IF m = h THEN SdFastRefs + 1 ELSE 0
        BY <4>1
      <4>9. CASE g = h
        <5>1. S!Held(t, h) = 1 + x /\ S!Held(t, h)' = n + 2
          BY <2>8, <4>2, <4>3, <4>8, <4>9
        <5>2. S!InWord(o, h) = n + 1 /\ S!InWord(o, h)' = x
          BY <4>5, <4>6, <4>8, <4>9
        <5> QED
          BY <2>6, <4>4, <4>7, <5>1, <5>2 DEF WordBalance
      <4>10. CASE g # h
        <5>1. S!Held(t, h) = x /\ S!Held(t, h)' = 0
          BY <4>2, <4>3, <4>8, <4>10
        <5>2. S!InWord(o, h) = 0 /\ S!InWord(o, h)' = x
          BY <4>5, <4>6, <4>8, <4>10
        <5> QED
          BY <4>4, <4>7, <5>1, <5>2 DEF WordBalance
      <4> QED
        BY <4>9, <4>10
    <3> QED
      BY <2>6, <2>7, <2>8, <2>9, <2>10, <2>11, <2>12, <2>13, <2>14, <2>15, <2>16, <2>17,
         <3>1, SdWordRefs
         DEF SdInv
  <2>20. Counting(t)
    BY <1>1, <2>1, <2>2, <2>3, <2>4, <2>5, <2>12, <2>13, <2>14, <2>15, <2>16, <2>17, <2>18,
       <2>19, StillCounting
  <2>21. UsesLive(t, o)
    BY <1>1, <2>1, <2>2, <2>3, <2>4, <2>10, <2>11, <2>12, <2>13, <2>14, <2>15, <2>16,
       SdAssumption
       DEF UsesLive, WordFrame, Making, OldPCs, NewPCs, LogPCs, DropPCs
  <2>22. ObjectInv' /\ LockedInv'
    BY <2>6, <2>7, <2>8, <2>9, <2>14, <2>15, <2>16, <2>17, <2>21, UsesLiveInv
  <2> QED
    BY <2>20, <2>22, CountingInv
<1>2. CASE FastRef[obj[t]].header # Old[t]
  <2>1. SdTypes /\ SdLocals(t)
    BY DEF SdInv
  <2>2. spc[t] = "swap" /\ todo[t] = <<>>
    BY <1>2, <2>1, SdAssumption
       DEF S!Swap, S!Forget, S!Drop, S!Goto, S!References, S!RefBias, SdLocals, OldPCs,
           NewPCs, LogPCs, DropPCs
  <2>3. PICK o \in Objects : o = obj[t] /\ state[o] = "live"
    BY <1>2, <2>1, <2>2, UserLive DEF Making, LogPCs
  <2>4. PICK g \in Headers : g = Old[t]
    BY <1>2, <2>1, <2>2, <2>3, SdAssumption DEF SdLocals, OldPCs
  <2>5. PICK m \in Headers : m = New[t]
    BY <1>2, <2>1, <2>2 DEF SdLocals, SdTypes, NewPCs
  <2>6. PICK k \in Nat : k = 1
    OBVIOUS
  <2>7. PICK c \in Nat : c = SdFastRefs + 1 /\ c # 0
    BY SdAssumption
  <2>8. PICK list : list = <<[header |-> g, n |-> k], [header |-> m, n |-> c]>>
    OBVIOUS
  <2>9. /\ list \in Seq(DropTypes)
        /\ Len(list) = 2
        /\ list[1].header = g
        /\ list[1].n = k
        /\ list[2].header = m
        /\ list[2].n = c
    BY <2>8, <2>6, <2>7, SdAssumption DEF DropTypes
  <2>10. \A l : \A h \in Headers : HeldAt(l, NoHeader, NoHeader, list, h) = (IF g = h THEN k ELSE 0) + (IF m = h THEN c ELSE 0)
    BY <2>6, <2>7, <2>9, HeldTwice
  <2>11. /\ spc'[t] = "drop" /\ Old'[t] = NoHeader /\ New'[t] = NoHeader /\ todo'[t] = list
        /\ obj'[t] = o /\ sd'[t] = NoDescriptor /\ next'[t] = "reference"
        /\ header' = header /\ Cache' = Cache /\ FastRef' = FastRef /\ state' = state
    BY <1>2, <2>1, <2>2, <2>3, <2>4, <2>5, <2>6, <2>7, <2>8, <2>9, <2>10, SdAssumption
       DEF S!Swap, S!Forget, S!Drop, S!Goto, S!References, S!RefBias, SdTypes
  <2>12. SdTypes' /\ SdFrame(t)
    <3>1. /\ Cache' \in Seq(Headers)
          /\ header' \in [Headers -> HeaderTypes]
          /\ FastRef' \in [Objects -> WordTypes]
      BY <1>2, <2>1, <2>2, <2>11 DEF SdTypes
    <3>2. state' \in [Objects -> {"none", "made", "live"}]
      BY <1>2, <2>1, <2>2, <2>11 DEF SdTypes
    <3>3. /\ spc' = [spc EXCEPT ![t] = spc'[t]]
          /\ Old' = [Old EXCEPT ![t] = Old'[t]]
          /\ New' = [New EXCEPT ![t] = New'[t]]
      BY <1>2, <2>1, <2>2, <2>11
         DEF S!Swap, S!Forget, S!Drop, S!Goto, S!References, S!RefBias, SdTypes
    <3>4. obj' = [obj EXCEPT ![t] = obj'[t]] /\ sd' = [sd EXCEPT ![t] = sd'[t]]
      BY <1>2, <2>1, <2>2, <2>11
         DEF S!Swap, S!Forget, S!Drop, S!Goto, S!References, S!RefBias, SdTypes
    <3>5. todo' = [todo EXCEPT ![t] = todo'[t]] /\ next' = [next EXCEPT ![t] = next'[t]]
      BY <1>2, <2>1, <2>2, <2>11
         DEF S!Swap, S!Forget, S!Drop, S!Goto, S!References, S!RefBias, SdTypes
    <3>6. Changes(t)
      BY <3>3, <3>4, <3>5 DEF Changes
    <3>7. /\ spc'[t] \in OldPCs \cup NewPCs \cup LogPCs \cup DropPCs \cup {"idle", "reference", "lock"}
          /\ obj'[t] \in Objects \cup {NoObject} /\ Old'[t] \in Headers \cup {NoHeader}
          /\ New'[t] \in Headers \cup {NoHeader} /\ sd'[t] \in Descriptors \cup {NoDescriptor}
          /\ todo'[t] \in Seq(DropTypes) /\ next'[t] \in {"idle", "reference"}
      BY <2>4, <2>5, <2>8, <2>9, <2>10, <2>11 DEF SdTypes, OldPCs, NewPCs, LogPCs, DropPCs
    <3> QED
      BY <1>2, <2>1, <3>1, <3>2, <3>6, <3>7, ChangesTypes
  <2>13. SdLocals(t)'
    BY <1>2, <2>1, <2>2, <2>3, <2>8, <2>9, <2>10, <2>11
       DEF SdLocals, OldPCs, NewPCs, LogPCs, DropPCs
  <2>14. S!RefsExact'
    <3>1. ASSUME NEW h \in Headers PROVE HeldBalance(t, h)
      <4>1. h # NoHeader /\ SdFastRefs \in Nat
        BY SdAssumption
      <4>2. S!Held(t, h) = (IF g = h THEN 1 ELSE 0) + (IF m = h THEN SdFastRefs + 1 ELSE 0)
        BY <1>2, <2>1, <2>2, <2>3, <2>4, <2>5, <2>6, <2>7, <4>1, HeldBefore DEF HeldNone
      <4>3. S!Held(t, h)' = (IF g = h THEN k ELSE 0) + (IF m = h THEN c ELSE 0)
        BY <2>4, <2>5, <2>9, <2>10, <2>11, <4>1, HeldNext
      <4>4. header[h].RefCount \in Int /\ header'[h].RefCount \in Int
        BY <1>2, <2>1, <2>2, <2>11 DEF SdTypes, HeaderTypes
      <4> QED
        BY <2>5, <2>6, <2>7, <2>11, <4>1, <4>2, <4>3, <4>4 DEF HeldBalance
    <3> QED
      BY <2>4, <2>5, <2>6, <2>10, <2>11, <2>12, <3>1, SdHeldRefs DEF SdInv
  <2>15. Counting(t)
    BY <1>2, <2>1, <2>2, <2>3, <2>4, <2>10, <2>11, <2>12, <2>13, <2>14, StillCounting
  <2>16. Quiet(t)
    BY <1>2, <2>1, <2>2, <2>3, <2>10, <2>11, SdAssumption
       DEF Quiet, Making, WordFrame, OldPCs, NewPCs, LogPCs, DropPCs
  <2>17. ObjectInv' /\ LockedInv'
    BY <2>12, <2>13, <2>16, QuietInv
  <2> QED
    BY <2>15, <2>17, CountingInv
<1> QED
  BY <1>1, <1>2

(* A thread is to use the descriptor of an object. *)
LEMMA SdAccess ==
    ASSUME SdInv, NEW t \in Threads, NEW o \in Objects, S!Access(t, o) PROVE SdInv'
<1>1. SdTypes /\ SdLocals(t)
  BY DEF SdInv
<1>2. spc[t] = "idle" /\ Old[t] = NoHeader /\ New[t] = NoHeader /\ todo[t] = <<>>
  BY <1>1, SdAssumption
     DEF S!Access, S!Begin, S!Goto, SdLocals, OldPCs, NewPCs, LogPCs, DropPCs
<1>3. state[o] = "live" /\ FastRef[o].header \in Headers /\ o # NoObject
  BY <1>1, <1>2, SdAssumption DEF S!Access, S!Begin, S!Goto, SdInv, ObjectInv
<1>4. /\ spc'[t] = "reference" /\ Old'[t] = NoHeader /\ New'[t] = NoHeader /\ todo'[t] = <<>>
      /\ obj'[t] = o /\ sd'[t] = sd[t] /\ next'[t] = next[t]
      /\ header' = header /\ Cache' = Cache /\ FastRef' = FastRef /\ state' = state
  BY <1>1, <1>2, <1>3, SdAssumption DEF S!Access, S!Begin, S!Goto, SdTypes
<1>5. SdTypes' /\ SdFrame(t)
  <2>1. /\ Cache' \in Seq(Headers)
        /\ header' \in [Headers -> HeaderTypes]
        /\ FastRef' \in [Objects -> WordTypes]
    BY <1>1, <1>2, <1>3, <1>4 DEF SdTypes
  <2>2. state' \in [Objects -> {"none", "made", "live"}]
    BY <1>1, <1>2, <1>3, <1>4 DEF SdTypes
  <2>3. /\ spc' = [spc EXCEPT ![t] = spc'[t]]
        /\ Old' = [Old EXCEPT ![t] = Old'[t]]
        /\ New' = [New EXCEPT ![t] = New'[t]]
    BY <1>1, <1>2, <1>3, <1>4 DEF S!Access, S!Begin, S!Goto, SdTypes
  <2>4. obj' = [obj EXCEPT ![t] = obj'[t]] /\ sd' = [sd EXCEPT ![t] = sd'[t]]
    BY <1>1, <1>2, <1>3, <1>4 DEF S!Access, S!Begin, S!Goto, SdTypes
  <2>5. todo' = [todo EXCEPT ![t] = todo'[t]] /\ next' = [next EXCEPT ![t] = next'[t]]
    BY <1>1, <1>2, <1>3, <1>4 DEF S!Access, S!Begin, S!Goto, SdTypes
  <2>6. Changes(t)
    BY <2>3, <2>4, <2>5 DEF Changes
  <2>7. /\ spc'[t] \in OldPCs \cup NewPCs \cup LogPCs \cup DropPCs \cup {"idle", "reference", "lock"}
        /\ obj'[t] \in Objects \cup {NoObject} /\ Old'[t] \in Headers \cup {NoHeader}
        /\ New'[t] \in Headers \cup {NoHeader} /\ sd'[t] \in Descriptors \cup {NoDescriptor}
        /\ todo'[t] \in Seq(DropTypes) /\ next'[t] \in {"idle", "reference"}
    BY <1>1, <1>2, <1>3, <1>4 DEF SdTypes, OldPCs, NewPCs, LogPCs, DropPCs
  <2> QED
    BY <1>1, <1>2, <2>1, <2>2, <2>6, <2>7, ChangesTypes
<1>6. SdLocals(t)'
  BY <1>1, <1>2, <1>3, <1>4 DEF SdLocals, OldPCs, NewPCs, LogPCs, DropPCs
     , SdTypes
<1>7. S!RefsExact'
  <2>1. ASSUME NEW h \in Headers PROVE HeldBalance(t, h)
    <3>1. h # NoHeader /\ SdFastRefs \in Nat
      BY SdAssumption
    <3>2. S!Held(t, h) = 0
      BY <1>1, <1>2, <1>4, <3>1, HeldBefore DEF HeldNone
    <3>3. S!Held(t, h)' = 0
      BY <1>1, <1>2, <1>4, <3>1, HeldAfter DEF HeldNone
    <3>4. header[h].RefCount \in Int /\ header'[h].RefCount \in Int
      BY <1>1, <1>2, <1>4 DEF SdTypes, HeaderTypes
    <3> QED
      BY <1>4, <3>1, <3>2, <3>3, <3>4 DEF HeldBalance
  <2> QED
    BY <1>3, <1>4, <1>5, <2>1, SdHeldRefs DEF SdInv
<1>8. Counting(t)
  BY <1>1, <1>2, <1>3, <1>4, <1>5, <1>6, <1>7, StillCounting
<1>9. UsesLive(t, o)
  BY <1>1, <1>2, <1>3, <1>4, SdAssumption
     DEF UsesLive, WordFrame, Making, OldPCs, NewPCs, LogPCs, DropPCs
<1>10. ObjectInv' /\ LockedInv'
  BY <1>3, <1>4, <1>5, <1>9, UsesLiveInv
<1> QED
  BY <1>8, <1>10, CountingInv

(* An object is to be made. *)
LEMMA SdMake ==
    ASSUME SdInv, NEW t \in Threads, NEW o \in Objects, NEW d \in Descriptors, S!Make(t, o, d) PROVE SdInv'
<1>1. SdTypes /\ SdLocals(t)
  BY DEF SdInv
<1>2. spc[t] = "idle" /\ Old[t] = NoHeader /\ New[t] = NoHeader /\ todo[t] = <<>>
  BY <1>1, SdAssumption DEF S!Make, S!Begin, S!Goto, SdLocals, OldPCs, NewPCs, LogPCs, DropPCs
<1>3. state[o] = "none" /\ o # NoObject
  BY <1>1, <1>2, SdAssumption DEF S!Make, S!Begin, S!Goto
<1>4. FastRef[o] = S!NoSecurity /\ \A u \in Threads : obj[u] # o
  BY <1>1, <1>2, <1>3 DEF SdInv, ObjectInv
<1>5. state' = [state EXCEPT ![o] = "made"]
  BY <1>1, <1>2, <1>3, <1>4 DEF S!Make, S!Begin, S!Goto, S!Begin
<1>6. /\ state' \in [Objects -> {"none", "made", "live"}]
      /\ state'[o] = "made"
      /\ \A p \in Objects \ {o} : state'[p] = state[p]
  BY <1>1, <1>2, <1>3, <1>4, <1>5 DEF SdTypes
<1>7. /\ spc'[t] = "search" /\ Old'[t] = NoHeader /\ New'[t] = NoHeader /\ todo'[t] = <<>>
      /\ obj'[t] = o /\ sd'[t] = d /\ next'[t] = next[t]
      /\ header' = header /\ Cache' = Cache /\ FastRef' = FastRef
  BY <1>1, <1>2, <1>5, <1>6, SdAssumption DEF S!Make, S!Begin, S!Goto, SdTypes
<1>8. SdTypes' /\ SdFrame(t)
  <2>1. /\ Cache' \in Seq(Headers)
        /\ header' \in [Headers -> HeaderTypes]
        /\ FastRef' \in [Objects -> WordTypes]
    BY <1>1, <1>2, <1>7 DEF SdTypes
  <2>2. state' \in [Objects -> {"none", "made", "live"}]
    BY <1>3, <1>4, <1>5, <1>6, <1>7 DEF SdTypes
  <2>3. /\ spc' = [spc EXCEPT ![t] = spc'[t]]
        /\ Old' = [Old EXCEPT ![t] = Old'[t]]
        /\ New' = [New EXCEPT ![t] = New'[t]]
    BY <1>1, <1>2, <1>7 DEF S!Make, S!Begin, S!Goto, SdTypes
  <2>4. obj' = [obj EXCEPT ![t] = obj'[t]] /\ sd' = [sd EXCEPT ![t] = sd'[t]]
    BY <1>1, <1>2, <1>7 DEF S!Make, S!Begin, S!Goto, SdTypes
  <2>5. todo' = [todo EXCEPT ![t] = todo'[t]] /\ next' = [next EXCEPT ![t] = next'[t]]
    BY <1>1, <1>2, <1>7 DEF S!Make, S!Begin, S!Goto, SdTypes
  <2>6. Changes(t)
    BY <2>3, <2>4, <2>5 DEF Changes
  <2>7. /\ spc'[t] \in OldPCs \cup NewPCs \cup LogPCs \cup DropPCs \cup {"idle", "reference", "lock"}
        /\ obj'[t] \in Objects \cup {NoObject} /\ Old'[t] \in Headers \cup {NoHeader}
        /\ New'[t] \in Headers \cup {NoHeader} /\ sd'[t] \in Descriptors \cup {NoDescriptor}
        /\ todo'[t] \in Seq(DropTypes) /\ next'[t] \in {"idle", "reference"}
    BY <1>1, <1>2, <1>7 DEF SdTypes, OldPCs, NewPCs, LogPCs, DropPCs
  <2> QED
    BY <1>1, <1>2, <1>3, <1>7, <2>1, <2>2, <2>6, <2>7, ChangesTypes
<1>9. SdLocals(t)'
  BY <1>3, <1>4, <1>5, <1>6, <1>7 DEF SdLocals, OldPCs, NewPCs, LogPCs, DropPCs
<1>10. S!RefsExact'
  <2>1. ASSUME NEW h \in Headers PROVE HeldBalance(t, h)
    <3>1. h # NoHeader /\ SdFastRefs \in Nat
      BY SdAssumption
    <3>2. S!Held(t, h) = 0
      BY <1>1, <1>2, <1>7, <3>1, HeldBefore DEF HeldNone
    <3>3. S!Held(t, h)' = 0
      BY <1>1, <1>2, <1>7, <3>1, HeldAfter DEF HeldNone
    <3>4. header[h].RefCount \in Int /\ header'[h].RefCount \in Int
      BY <1>1, <1>2, <1>7 DEF SdTypes, HeaderTypes
    <3> QED
      BY <1>7, <3>1, <3>2, <3>3, <3>4 DEF HeldBalance
  <2> QED
    BY <1>4, <1>5, <1>6, <1>7, <1>8, <2>1, SdHeldRefs DEF SdInv
<1>11. Counting(t)
  BY <1>1, <1>2, <1>3, <1>7, <1>8, <1>9, <1>10, StillCounting
<1>12. Claims(t, o)
  BY <1>1, <1>2, <1>3, <1>4, <1>5, <1>6, <1>7, SdAssumption
     DEF Claims, WordFrame, Making, OldPCs, NewPCs, LogPCs, DropPCs
<1>13. ObjectInv' /\ LockedInv'
  BY <1>4, <1>5, <1>8, <1>12, ClaimsInv
<1> QED
  BY <1>11, <1>13, CountingInv

(* The object that is made gets its descriptor. *)
LEMMA SdAssign ==
    ASSUME SdInv, NEW t \in Threads, S!Assign(t) PROVE SdInv'
<1>1. SdTypes /\ SdLocals(t)
  BY DEF SdInv
<1>2. spc[t] = "assign" /\ Old[t] = NoHeader /\ todo[t] = <<>>
  BY <1>1, SdAssumption
     DEF S!Assign, S!Forget, S!Goto, SdLocals, OldPCs, NewPCs, LogPCs, DropPCs
<1>3. PICK o \in Objects : o = obj[t] /\ Making(t)
  BY <1>1, <1>2, UserLive DEF Making, LogPCs
<1>4. state[o] = "made" /\ FastRef[o] = S!NoSecurity /\ \A u \in Threads \ {t} : obj[u] # o
  BY <1>1, <1>2, <1>3, MakerAlone
<1>5. PICK m \in Headers : m = New[t]
  BY <1>1, <1>2, <1>3, <1>4 DEF SdLocals, SdTypes, NewPCs
<1>6. FastRef' = [FastRef EXCEPT ![o] = [header |-> m, refs |-> SdFastRefs]]
  BY <1>1, <1>2, <1>3, <1>4, <1>5 DEF S!Assign, S!Forget, S!Goto, S!NoSecurity
<1>7. [header |-> m, refs |-> SdFastRefs] \in WordTypes
  BY <1>1, <1>2, <1>5, <1>6, SdAssumption DEF WordTypes
<1>8. /\ FastRef' \in [Objects -> WordTypes]
      /\ FastRef'[o] = [header |-> m, refs |-> SdFastRefs]
      /\ WordFrame(o)
  BY <1>1, <1>2, <1>5, <1>6, <1>7 DEF SdTypes, WordFrame
<1>9. FastRef'[o].header = m /\ FastRef'[o].refs = SdFastRefs
  BY <1>3, <1>4, <1>7, <1>8
<1>10. state' = [state EXCEPT ![o] = "live"]
  BY <1>3, <1>4, <1>6, <1>8, <1>9 DEF S!Assign, S!Forget, S!Goto, S!Begin
<1>11. /\ state' \in [Objects -> {"none", "made", "live"}]
       /\ state'[o] = "live"
       /\ \A p \in Objects \ {o} : state'[p] = state[p]
  BY <1>1, <1>2, <1>6, <1>8, <1>9, <1>10 DEF SdTypes
<1>12. /\ spc'[t] = "idle" /\ Old'[t] = NoHeader /\ New'[t] = NoHeader /\ todo'[t] = <<>>
      /\ obj'[t] = NoObject /\ sd'[t] = NoDescriptor /\ next'[t] = next[t]
      /\ header' = header /\ Cache' = Cache
  BY <1>1, <1>2, SdAssumption DEF S!Assign, S!Forget, S!Goto, SdTypes
<1>13. SdTypes' /\ SdFrame(t)
  <2>1. /\ Cache' \in Seq(Headers)
        /\ header' \in [Headers -> HeaderTypes]
        /\ FastRef' \in [Objects -> WordTypes]
    BY <1>1, <1>2, <1>3, <1>4, <1>5, <1>6, <1>7, <1>8, <1>9, <1>10, <1>11, <1>12 DEF SdTypes
  <2>2. state' \in [Objects -> {"none", "made", "live"}]
    BY <1>5, <1>6, <1>9, <1>10, <1>11, <1>12 DEF SdTypes
  <2>3. /\ spc' = [spc EXCEPT ![t] = spc'[t]]
        /\ Old' = [Old EXCEPT ![t] = Old'[t]]
        /\ New' = [New EXCEPT ![t] = New'[t]]
    BY <1>1, <1>2, <1>12 DEF S!Assign, S!Forget, S!Goto, SdTypes
  <2>4. obj' = [obj EXCEPT ![t] = obj'[t]] /\ sd' = [sd EXCEPT ![t] = sd'[t]]
    BY <1>1, <1>2, <1>12 DEF S!Assign, S!Forget, S!Goto, SdTypes
  <2>5. todo' = [todo EXCEPT ![t] = todo'[t]] /\ next' = [next EXCEPT ![t] = next'[t]]
    BY <1>1, <1>2, <1>12 DEF S!Assign, S!Forget, S!Goto, SdTypes
  <2>6. Changes(t)
    BY <2>3, <2>4, <2>5 DEF Changes
  <2>7. /\ spc'[t] \in OldPCs \cup NewPCs \cup LogPCs \cup DropPCs \cup {"idle", "reference", "lock"}
        /\ obj'[t] \in Objects \cup {NoObject} /\ Old'[t] \in Headers \cup {NoHeader}
        /\ New'[t] \in Headers \cup {NoHeader} /\ sd'[t] \in Descriptors \cup {NoDescriptor}
        /\ todo'[t] \in Seq(DropTypes) /\ next'[t] \in {"idle", "reference"}
    BY <1>1, <1>2, <1>12 DEF SdTypes, OldPCs, NewPCs, LogPCs, DropPCs
  <2> QED
    BY <1>1, <1>2, <1>3, <1>4, <1>5, <1>11, <1>12, <2>1, <2>2, <2>6, <2>7, ChangesTypes
<1>14. SdLocals(t)'
  BY <1>1, <1>2, <1>12 DEF SdLocals, OldPCs, NewPCs, LogPCs, DropPCs
<1>15. S!RefsExact'
  <2>1. ASSUME NEW h \in Headers PROVE WordBalance(t, o, h)
    <3>1. h # NoHeader /\ SdFastRefs \in Nat
      BY SdAssumption
    <3>2. S!Held(t, h) = IF m = h THEN SdFastRefs + 1 ELSE 0
      BY <1>1, <1>2, <1>5, <1>9, <1>12, <3>1, HeldBefore DEF HeldNone
    <3>3. S!Held(t, h)' = 0
      BY <1>1, <1>2, <1>12, <3>1, HeldAfter DEF HeldNone
    <3>4. header[h].RefCount \in Int /\ header'[h].RefCount \in Int
      BY <1>1, <1>2, <1>12 DEF SdTypes, HeaderTypes
    <3>5. S!InWord(o, h) = 0
      BY <1>4, <1>6, <1>10, <1>11, <1>12, <3>1 DEF S!InWord, S!Times, S!NoSecurity
    <3>6. S!InWord(o, h)' = IF m = h THEN SdFastRefs + 1 ELSE 0
      BY <1>5, <1>6, <1>7, <1>8, <1>9, <1>10 DEF S!InWord, S!Times, S!NoSecurity
    <3>7. header'[h].RefCount = header[h].RefCount
      BY <1>12
    <3> QED
      BY <3>1, <3>2, <3>3, <3>4, <3>5, <3>6, <3>7 DEF WordBalance
  <2> QED
    BY <1>5, <1>6, <1>7, <1>8, <1>9, <1>10, <1>11, <1>12, <1>13, <2>1, SdWordRefs DEF SdInv
<1>16. Counting(t)
  BY <1>1, <1>2, <1>3, <1>4, <1>5, <1>11, <1>12, <1>13, <1>14, <1>15, StillCounting
<1>17. Claims(t, o)
  BY <1>1, <1>2, <1>3, <1>4, <1>6, <1>8, <1>9, <1>10, <1>11, <1>12, SdAssumption
     DEF Claims, WordFrame, Making, OldPCs, NewPCs, LogPCs, DropPCs
<1>18. ObjectInv' /\ LockedInv'
  BY <1>5, <1>6, <1>7, <1>11, <1>12, <1>13, <1>17, ClaimsInv
<1> QED
  BY <1>16, <1>18, CountingInv

(* The descriptor of an object that nobody uses is to be dropped. *)
LEMMA SdDeassign ==
    ASSUME SdInv, NEW t \in Threads, NEW o \in Objects, S!Deassign(t, o) PROVE SdInv'
<1>1. SdTypes /\ SdLocals(t)
  BY DEF SdInv
<1>2. spc[t] = "idle" /\ Old[t] = NoHeader /\ New[t] = NoHeader /\ todo[t] = <<>>
  BY <1>1, SdAssumption
     DEF S!Deassign, S!Drop, S!Goto, S!References, SdLocals, OldPCs, NewPCs, LogPCs, DropPCs
<1>3. state[o] = "live" /\ (\A u \in Threads : obj[u] # o) /\ obj[t] = NoObject
  BY <1>1, <1>2 DEF S!Deassign, S!Drop, S!Goto, S!References, S!Users, SdLocals
<1>4. PICK g \in Headers : g = FastRef[o].header
  BY <1>1, <1>2, <1>3 DEF SdInv, ObjectInv
<1>5. PICK n \in Nat : n = FastRef[o].refs
  BY <1>1, <1>2, <1>3, <1>4, SdAssumption DEF SdTypes, WordTypes
<1>6. PICK k \in Nat : k = n + 1 /\ k # 0
  BY <1>1, <1>2, <1>5
<1>7. PICK list : list = <<[header |-> g, n |-> k]>>
  OBVIOUS
<1>8. list \in Seq(DropTypes) /\ Len(list) = 1 /\ list[1].header = g
  BY <1>3, <1>4, <1>5, <1>6, <1>7, SdAssumption DEF DropTypes
<1>9. \A l : \A h \in Headers : HeldAt(l, NoHeader, NoHeader, list, h) = IF g = h THEN k ELSE 0
  BY <1>4, <1>6, <1>7, <1>8, HeldOnce
<1>10. FastRef' = [FastRef EXCEPT ![o] = [header |-> NoHeader, refs |-> 0]]
  BY <1>1, <1>2, <1>3 DEF S!Deassign, S!Drop, S!Goto, S!References, S!NoSecurity
<1>11. [header |-> NoHeader, refs |-> 0] \in WordTypes
  BY <1>1, <1>2, SdAssumption DEF WordTypes
<1>12. /\ FastRef' \in [Objects -> WordTypes]
       /\ FastRef'[o] = [header |-> NoHeader, refs |-> 0]
       /\ WordFrame(o)
  BY <1>1, <1>2, <1>3, <1>7, <1>10, <1>11 DEF SdTypes, WordFrame
<1>13. FastRef'[o].header = NoHeader /\ FastRef'[o].refs = 0
  BY <1>1, <1>2, <1>3, <1>10, <1>12
<1>14. state' = [state EXCEPT ![o] = "none"]
  BY <1>3, <1>10, <1>12, <1>13 DEF S!Deassign, S!Drop, S!Goto, S!References, S!Begin
<1>15. /\ state' \in [Objects -> {"none", "made", "live"}]
       /\ state'[o] = "none"
       /\ \A p \in Objects \ {o} : state'[p] = state[p]
  BY <1>1, <1>2, <1>12, <1>13, <1>14 DEF SdTypes
<1>16. /\ spc'[t] = "drop" /\ Old'[t] = NoHeader /\ New'[t] = NoHeader /\ todo'[t] = list
      /\ obj'[t] = NoObject /\ sd'[t] = sd[t] /\ next'[t] = "idle"
      /\ header' = header /\ Cache' = Cache
  BY <1>1, <1>2, <1>3, <1>4, <1>5, <1>6, <1>7, <1>8, <1>9, <1>10, SdAssumption
     DEF S!Deassign, S!Drop, S!Goto, S!References, SdTypes
<1>17. SdTypes' /\ SdFrame(t)
  <2>1. /\ Cache' \in Seq(Headers)
        /\ header' \in [Headers -> HeaderTypes]
        /\ FastRef' \in [Objects -> WordTypes]
    BY <1>1, <1>2, <1>3, <1>4, <1>5, <1>11, <1>12, <1>13, <1>14, <1>15, <1>16 DEF SdTypes
  <2>2. state' \in [Objects -> {"none", "made", "live"}]
    BY <1>6, <1>7, <1>8, <1>12, <1>15, <1>16 DEF SdTypes
  <2>3. /\ spc' = [spc EXCEPT ![t] = spc'[t]]
        /\ Old' = [Old EXCEPT ![t] = Old'[t]]
        /\ New' = [New EXCEPT ![t] = New'[t]]
    BY <1>1, <1>2, <1>16 DEF S!Deassign, S!Drop, S!Goto, S!References, SdTypes
  <2>4. obj' = [obj EXCEPT ![t] = obj'[t]] /\ sd' = [sd EXCEPT ![t] = sd'[t]]
    BY <1>1, <1>2, <1>16 DEF S!Deassign, S!Drop, S!Goto, S!References, SdTypes
  <2>5. todo' = [todo EXCEPT ![t] = todo'[t]] /\ next' = [next EXCEPT ![t] = next'[t]]
    BY <1>1, <1>2, <1>16 DEF S!Deassign, S!Drop, S!Goto, S!References, SdTypes
  <2>6. Changes(t)
    BY <2>3, <2>4, <2>5 DEF Changes
  <2>7. /\ spc'[t] \in OldPCs \cup NewPCs \cup LogPCs \cup DropPCs \cup {"idle", "reference", "lock"}
        /\ obj'[t] \in Objects \cup {NoObject} /\ Old'[t] \in Headers \cup {NoHeader}
        /\ New'[t] \in Headers \cup {NoHeader} /\ sd'[t] \in Descriptors \cup {NoDescriptor}
        /\ todo'[t] \in Seq(DropTypes) /\ next'[t] \in {"idle", "reference"}
    BY <1>1, <1>2, <1>3, <1>4, <1>5, <1>6, <1>7, <1>8, <1>9, <1>10, <1>16
       DEF SdTypes, OldPCs, NewPCs, LogPCs, DropPCs
  <2> QED
    BY <1>1, <1>2, <1>3, <1>4, <1>5, <1>6, <1>13, <1>14, <1>15, <1>16, <2>1, <2>2, <2>6,
       <2>7, ChangesTypes
<1>18. SdLocals(t)'
  BY <1>6, <1>7, <1>8, <1>12, <1>15, <1>16 DEF SdLocals, OldPCs, NewPCs, LogPCs, DropPCs
<1>19. S!RefsExact'
  <2>1. ASSUME NEW h \in Headers PROVE WordBalance(t, o, h)
    <3>1. h # NoHeader /\ SdFastRefs \in Nat
      BY SdAssumption
    <3>2. S!Held(t, h) = 0
      BY <1>1, <1>2, <1>16, <3>1, HeldBefore DEF HeldNone
    <3>3. S!Held(t, h)' = IF g = h THEN k ELSE 0
      BY <1>4, <1>6, <1>8, <1>9, <1>16, <3>1, HeldNext
    <3>4. header[h].RefCount \in Int /\ header'[h].RefCount \in Int
      BY <1>1, <1>2, <1>16 DEF SdTypes, HeaderTypes
    <3>5. S!InWord(o, h) = IF g = h THEN k ELSE 0
      BY <1>1, <1>2, <1>3, <1>4, <1>5, <1>6, <1>7, <1>8, <1>9, <1>10, <1>16, <3>1
         DEF S!InWord, S!Times
    <3>6. S!InWord(o, h)' = 0
      BY <1>10, <1>12, <1>15, <1>16, <3>1 DEF S!InWord, S!Times
    <3>7. header'[h].RefCount = header[h].RefCount
      BY <1>16
    <3> QED
      BY <3>1, <3>2, <3>3, <3>4, <3>5, <3>6, <3>7 DEF WordBalance
  <2> QED
    BY <1>7, <1>8, <1>9, <1>10, <1>11, <1>12, <1>13, <1>14, <1>15, <1>16, <1>17, <2>1,
       SdWordRefs
       DEF SdInv
<1>20. Counting(t)
  BY <1>1, <1>2, <1>3, <1>4, <1>5, <1>6, <1>13, <1>14, <1>15, <1>16, <1>17, <1>18, <1>19,
     StillCounting
<1>21. Claims(t, o)
  BY <1>1, <1>2, <1>3, <1>10, <1>12, <1>13, <1>14, <1>15, <1>16, SdAssumption
     DEF Claims, WordFrame, Making, OldPCs, NewPCs, LogPCs, DropPCs, S!NoSecurity
<1>22. ObjectInv' /\ LockedInv'
  BY <1>7, <1>8, <1>9, <1>10, <1>17, <1>21, ClaimsInv
<1> QED
  BY <1>20, <1>22, CountingInv

-----------------------------------------------------------------------------
(* The list of the cache.                                                  *)

(* A list without its k-th entry. *)
LEMMA SdWithoutShape ==
    ASSUME NEW A, NEW list \in Seq(A), NEW k \in 1 .. Len(list)
    PROVE  /\ S!Without(list, k) \in Seq(A)
           /\ Len(S!Without(list, k)) = Len(list) - 1
           /\ \A j \in 1 .. Len(list) - 1 :
                 S!Without(list, k)[j] = IF j < k THEN list[j] ELSE list[j + 1]
BY WithoutShape DEF C!Without, S!Without

(* A list with x as its k-th entry. *)
LEMMA SdWithShape ==
    ASSUME NEW A, NEW list \in Seq(A), NEW x \in A, NEW k \in 1 .. Len(list) + 1
    PROVE  /\ S!With(list, k, x) \in Seq(A)
           /\ Len(S!With(list, k, x)) = Len(list) + 1
           /\ \A j \in 1 .. Len(list) + 1 :
                 S!With(list, k, x)[j] = IF j < k THEN list[j] ELSE IF j = k THEN x ELSE list[j - 1]
<1> DEFINE a == SubSeq(list, 1, k - 1)
           b == SubSeq(list, k, Len(list))
           c == <<x>>
           n == Len(list)
<1>1. n \in Nat /\ k \in Nat /\ k >= 1 /\ k <= n + 1
  OBVIOUS
<1>2. a \in Seq(A) /\ Len(a) = k - 1 /\ \A j \in 1 .. k - 1 : a[j] = list[j]
  BY <1>1
<1>3. /\ b \in Seq(A) /\ Len(b) = (n + 1) - k
      /\ \A j \in 1 .. (n + 1) - k : b[j] = list[k + j - 1]
  BY <1>1
<1>4. c \in Seq(A) /\ Len(c) = 1 /\ c[1] = x
  OBVIOUS
<1>5. S!With(list, k, x) = (a \o c) \o b
  BY DEF S!With
<1> HIDE DEF a, b, c, n
<1> DEFINE e == a \o c
<1>6. /\ e \in Seq(A) /\ Len(e) = k
      /\ \A j \in 1 .. k : e[j] = IF j < k THEN list[j] ELSE x
  <2>1. /\ a \o c \in Seq(A)
        /\ Len(a \o c) = Len(a) + Len(c)
        /\ \A j \in 1 .. Len(a) + Len(c) :
              (a \o c)[j] = IF j <= Len(a) THEN a[j] ELSE c[j - Len(a)]
    BY <1>2, <1>4, ConcatProperties
  <2>2. Len(a) + Len(c) = k /\ Len(a) = k - 1
    BY <1>1, <1>2, <1>4
  <2>3. \A j \in 1 .. k : (a \o c)[j] = IF j <= k - 1 THEN a[j] ELSE c[j - (k - 1)]
    BY <2>1, <2>2, Zenon
  <2>4. ASSUME NEW j \in 1 .. k PROVE (a \o c)[j] = IF j < k THEN list[j] ELSE x
    <3>1. CASE j < k
      BY <1>1, <1>2, <2>3, <3>1
    <3>2. CASE ~(j < k)
      <4>1. j - (k - 1) = 1 /\ ~(j <= k - 1)
        BY <1>1, <3>2
      <4>2. (a \o c)[j] = c[j - (k - 1)]
        BY <2>3, <4>1
      <4>3. (a \o c)[j] = c[1]
        BY <4>1, <4>2
      <4> QED
        BY <1>4, <3>2, <4>3
    <3> QED
      BY <3>1, <3>2
  <2> QED
    BY <2>1, <2>2, <2>4
<1> HIDE DEF e
<1>7. /\ e \o b \in Seq(A)
      /\ Len(e \o b) = n + 1
      /\ \A j \in 1 .. n + 1 : (e \o b)[j] = IF j <= k THEN e[j] ELSE b[j - k]
  <2>1. /\ e \o b \in Seq(A)
        /\ Len(e \o b) = Len(e) + Len(b)
        /\ \A j \in 1 .. Len(e) + Len(b) :
              (e \o b)[j] = IF j <= Len(e) THEN e[j] ELSE b[j - Len(e)]
    BY <1>3, <1>6, ConcatProperties
  <2>2. Len(e) + Len(b) = n + 1 /\ Len(e) = k
    BY <1>1, <1>3, <1>6
  <2> QED
    BY <2>1, <2>2, Zenon
<1>8. ASSUME NEW j \in 1 .. n + 1
      PROVE  (e \o b)[j] = IF j < k THEN list[j] ELSE IF j = k THEN x ELSE list[j - 1]
  <2>1. CASE j <= k
    BY <1>1, <1>6, <1>7, <2>1
  <2>2. CASE ~(j <= k)
    <3>1. j - k \in 1 .. (n + 1) - k /\ k + (j - k) - 1 = j - 1
      BY <1>1, <2>2
    <3> QED
      BY <1>1, <1>3, <1>7, <2>2, <3>1
  <2> QED
    BY <2>1, <2>2
<1>9. S!With(list, k, x) = e \o b
  BY <1>5 DEF e
<1> QED
  BY <1>7, <1>8, <1>9 DEF n

(* Two threads do not make the same header. *)
LEMMA AgainDistinct ==
    ASSUME SdInv, NEW t \in Threads, NEW u \in Threads, t # u, spc[t] = "again", spc[u] = "again"
    PROVE  New[t] # New[u]
<1> SUFFICES ASSUME New[t] = New[u] PROVE FALSE
  OBVIOUS
<1>1. PICK h \in Headers : h = New[t]
  BY DEF SdInv, SdTypes, SdLocals, NewPCs
<1>2. header[h].RefCount = SdFastRefs + 1 /\ SdFastRefs \in Nat
  BY <1>1, SdAssumption DEF SdInv, AgainInv, S!RefBias
<1>3. ASSUME NEW v \in Threads, spc[v] = "again", New[v] = h
      PROVE  S!Held(v, h) \in Nat /\ S!Held(v, h) >= SdFastRefs + 1
  <2>1. todo[v] = <<>>
    BY <1>3 DEF SdInv, SdLocals, DropPCs
  <2>2. S!Held(v, h) = HeldNone(spc[v], Old[v], New[v], h)
    BY <2>1, HeldBefore
  <2> QED
    BY <1>2, <1>3, <2>2 DEF HeldNone
<1>4. header[h].RefCount >= S!Held(t, h) + S!Held(u, h)
  BY SdCovers DEF SdInv
<1> QED
  BY <1>1, <1>2, <1>3, <1>4

(* What is to be shown of a step that changes the cache or makes or frees  *)
(* a header.                                                               *)
LEMMA SdInvNext ==
    ASSUME SdInv, NEW t \in Threads, SdTypes', SdFrame(t), SdLocals(t)', S!RefsExact',
           ObjectInv', LockedInv', LifeInv', AgainInv', S!CacheExact'
    PROVE  SdInv'
<1>1. ASSUME NEW u \in Threads PROVE SdLocals(u)'
  <2>1. CASE u # t
    BY <2>1 DEF SdInv, SdLocals, SdFrame
  <2> QED
    BY <2>1
<1> QED
  BY <1>1 DEF SdInv

(* The headers that are being made. *)
Made == {New[t] : t \in {u \in Threads : spc[u] = "again"}}

(* The parts of CacheExact. *)
Sorted == \A j, k \in 1 .. Len(Cache) :
             j < k => /\ header[Cache[j]].sd # header[Cache[k]].sd
                      /\ HashOf[header[Cache[j]].sd] <= HashOf[header[Cache[k]].sd]

Listed(h) == \E k \in 1 .. Len(Cache) : Cache[k] = h

(* The cache is exact when it is sorted and has the headers that are *)
(* counted and not being made, *)
LEMMA CacheParts ==
    S!CacheExact <=> /\ Sorted
                     /\ {Cache[k] : k \in 1 .. Len(Cache)} = {h \in Headers : header[h].RefCount > 0} \ Made
BY Zenon DEF S!CacheExact, Sorted, Made

(* and after a step too. *)
LEMMA CachePartsNext ==
    S!CacheExact' <=> /\ Sorted'
                      /\ {Cache'[k] : k \in 1 .. Len(Cache')} = {h \in Headers : header'[h].RefCount > 0} \ Made'
BY Zenon DEF S!CacheExact, Sorted, Made

(* What is listed. *)
LEMMA ListedIs ==
    ASSUME SdInv
    PROVE  /\ Sorted /\ Len(Cache) \in Nat
           /\ \A k \in 1 .. Len(Cache) : Cache[k] \in Headers /\ header[Cache[k]].sd \in Descriptors
           /\ \A h : Listed(h) <=> h \in Headers /\ header[h].RefCount > 0 /\ h \notin Made
           /\ \A j, k \in 1 .. Len(Cache) : Cache[j] = Cache[k] => j = k
<1>1. /\ Sorted
      /\ {Cache[k] : k \in 1 .. Len(Cache)} = {h \in Headers : header[h].RefCount > 0} \ Made
  BY CacheParts DEF SdInv
<1>2. SdTypes
  BY DEF SdInv
<1>3. Len(Cache) \in Nat
  BY <1>2, LenProperties DEF SdTypes
<1>4. ASSUME NEW h PROVE Listed(h) <=> h \in Headers /\ header[h].RefCount > 0 /\ h \notin Made
  BY <1>1 DEF Listed
<1>5. ASSUME NEW k \in 1 .. Len(Cache)
      PROVE  Cache[k] \in Headers /\ header[Cache[k]].sd \in Descriptors
  <2>1. Listed(Cache[k])
    BY DEF Listed
  <2>2. Cache[k] \in Headers /\ header[Cache[k]].RefCount > 0
    BY <1>4, <2>1
  <2>3. header[Cache[k]].RefCount # 0
    BY <2>2
  <2> QED
    BY <2>2, <2>3 DEF SdInv, LifeInv
<1>6. ASSUME NEW j \in 1 .. Len(Cache), NEW k \in 1 .. Len(Cache), Cache[j] = Cache[k] PROVE j = k
  <2>1. ~(j < k) /\ ~(k < j)
    BY <1>1, <1>6 DEF Sorted
  <2>2. j \in Int /\ k \in Int
    BY <1>3
  <2> QED
    BY <2>1, <2>2
<1> QED
  BY <1>1, <1>3, <1>4, <1>5, <1>6

(* The cache is exact after a step if it is sorted and has the right       *)
(* headers.                                                                *)
LEMMA ListedNext ==
    ASSUME Sorted', \A h : Listed(h)' <=> h \in Headers /\ header'[h].RefCount > 0 /\ h \notin Made'
    PROVE  S!CacheExact'
<1>1. \A h : h \in {Cache'[k] : k \in 1 .. Len(Cache')} <=> Listed(h)'
  BY DEF Listed
<1>2. {Cache'[k] : k \in 1 .. Len(Cache')} = {h \in Headers : header'[h].RefCount > 0} \ Made'
  BY <1>1
<1> QED
  BY <1>2, CachePartsNext

(* A header that is known is not being made. *)
LEMMA KnownNotMade ==
    ASSUME SdInv, NEW h, Known(h) PROVE h \notin Made
BY AgainAlone DEF Made

(* The cache after a step that does not change it, *)
LEMMA CacheSame ==
    ASSUME SdInv, Cache' = Cache,
           \A h \in Headers : Listed(h) => header'[h].sd = header[h].sd,
           \A h \in Headers : header'[h].RefCount > 0 /\ h \notin Made'
                              <=> header[h].RefCount > 0 /\ h \notin Made
    PROVE  S!CacheExact'
<1>1. /\ Sorted
      /\ \A k \in 1 .. Len(Cache) : Cache[k] \in Headers
      /\ \A h : Listed(h) <=> h \in Headers /\ header[h].RefCount > 0 /\ h \notin Made
  BY ListedIs
<1>2. \A k \in 1 .. Len(Cache) : header'[Cache[k]].sd = header[Cache[k]].sd
  BY <1>1 DEF Listed
<1>3. Sorted'
  BY <1>1, <1>2 DEF Sorted
<1>4. \A h : Listed(h)' <=> Listed(h)
  BY DEF Listed
<1>5. \A h : Listed(h)' <=> h \in Headers /\ header'[h].RefCount > 0 /\ h \notin Made'
  BY <1>1, <1>4
<1> QED
  BY <1>3, <1>5, ListedNext

(* after a header is removed from it and freed, *)
LEMMA CacheRemove ==
    ASSUME SdInv, NEW g \in Headers, NEW p \in 1 .. Len(Cache), Cache[p] = g,
           Cache' = S!Without(Cache, p), ~(header'[g].RefCount > 0),
           \A h \in Headers : h # g => header'[h] = header[h], Made' = Made
    PROVE  S!CacheExact'
<1>1. /\ Sorted /\ Len(Cache) \in Nat
      /\ \A k \in 1 .. Len(Cache) : Cache[k] \in Headers
      /\ \A h : Listed(h) <=> h \in Headers /\ header[h].RefCount > 0 /\ h \notin Made
      /\ \A j, k \in 1 .. Len(Cache) : Cache[j] = Cache[k] => j = k
  BY ListedIs
<1>2. Cache \in Seq(Headers)
  BY DEF SdInv, SdTypes
<1>3. PICK n \in Nat : n = Len(Cache)
  BY <1>1
<1>4. /\ Len(Cache') = n - 1
      /\ \A j \in 1 .. n - 1 : Cache'[j] = IF j < p THEN Cache[j] ELSE Cache[j + 1]
  BY <1>2, <1>3, SdWithoutShape
<1>5. p \in 1 .. n /\ p \in Nat
  BY <1>3
<1>6. ASSUME NEW j \in 1 .. n - 1
      PROVE  \E k \in 1 .. n : /\ k = (IF j < p THEN j ELSE j + 1) /\ k # p
                               /\ Cache'[j] = Cache[k] /\ Cache[k] # g
                               /\ header'[Cache[k]] = header[Cache[k]]
  <2>1. PICK k \in 1 .. n : k = (IF j < p THEN j ELSE j + 1) /\ k # p
    BY <1>5
  <2>2. Cache'[j] = Cache[k]
    BY <1>4, <2>1
  <2>3. Cache[k] # g /\ Cache[k] \in Headers
    BY <1>1, <1>3, <1>5, <2>1
  <2> QED
    BY <2>1, <2>2, <2>3
<1>7. ASSUME NEW j \in 1 .. n - 1, NEW k \in 1 .. n - 1, j < k
      PROVE  /\ header'[Cache'[j]].sd # header'[Cache'[k]].sd
             /\ HashOf[header'[Cache'[j]].sd] <= HashOf[header'[Cache'[k]].sd]
  <2>1. PICK a \in 1 .. n : /\ a = (IF j < p THEN j ELSE j + 1) /\ Cache'[j] = Cache[a]
                            /\ header'[Cache[a]] = header[Cache[a]]
    BY <1>6
  <2>2. PICK b \in 1 .. n : /\ b = (IF k < p THEN k ELSE k + 1) /\ Cache'[k] = Cache[b]
                            /\ header'[Cache[b]] = header[Cache[b]]
    BY <1>6
  <2>3. a < b
    BY <1>5, <1>7, <2>1, <2>2
  <2>4. /\ header[Cache[a]].sd # header[Cache[b]].sd
        /\ HashOf[header[Cache[a]].sd] <= HashOf[header[Cache[b]].sd]
    BY <1>1, <1>3, <2>3 DEF Sorted
  <2> QED
    BY <2>1, <2>2, <2>4
<1>8. Sorted'
  BY <1>4, <1>7 DEF Sorted
<1>9. ASSUME NEW h PROVE Listed(h)' <=> Listed(h) /\ h # g
  <2>1. ASSUME Listed(h)' PROVE Listed(h) /\ h # g
    <3>1. PICK j \in 1 .. n - 1 : Cache'[j] = h
      BY <1>4, <2>1 DEF Listed
    <3> QED
      BY <1>3, <1>6, <3>1 DEF Listed
  <2>2. ASSUME Listed(h), h # g PROVE Listed(h)'
    <3>1. PICK k \in 1 .. n : Cache[k] = h /\ k # p
      BY <1>3, <2>2 DEF Listed
    <3>2. PICK j \in 1 .. n - 1 : k = IF j < p THEN j ELSE j + 1
      <4>1. CASE k < p
        <5>1. k \in 1 .. n - 1
          BY <1>5, <4>1
        <5> QED
          BY <4>1, <5>1
      <4>2. CASE ~(k < p)
        <5>1. k - 1 \in 1 .. n - 1 /\ ~(k - 1 < p) /\ k = (k - 1) + 1
          BY <1>5, <3>1, <4>2
        <5> QED
          BY <5>1
      <4> QED
        BY <4>1, <4>2
    <3>3. Cache'[j] = h
      BY <1>4, <3>1, <3>2
    <3> QED
      BY <1>4, <3>3 DEF Listed
  <2> QED
    BY <2>1, <2>2
<1>10. \A h : Listed(h)' <=> h \in Headers /\ header'[h].RefCount > 0 /\ h \notin Made'
  BY <1>1, <1>9
<1> QED
  BY <1>8, <1>10, ListedNext

(* and after the one that t makes is inserted. *)
LEMMA CacheAdd ==
    ASSUME SdInv, NEW t \in Threads, spc[t] = "again", ~S!Cached(sd[t]),
           Cache' = S!With(Cache, S!Place(sd[t]), New[t]), header' = header,
           Made' = Made \ {New[t]}
    PROVE  S!CacheExact'
<1>1. /\ Sorted /\ Len(Cache) \in Nat
      /\ \A k \in 1 .. Len(Cache) : Cache[k] \in Headers /\ header[Cache[k]].sd \in Descriptors
      /\ \A h : Listed(h) <=> h \in Headers /\ header[h].RefCount > 0 /\ h \notin Made
  BY ListedIs
<1>2. Cache \in Seq(Headers)
  BY DEF SdInv, SdTypes
<1>3. PICK n \in Nat : n = Len(Cache)
  BY <1>1
<1>4. PICK d \in Descriptors : d = sd[t]
  BY DEF SdInv, SdLocals, LogPCs
<1>5. PICK m \in Headers : m = New[t] /\ header[m].sd = d /\ header[m].RefCount > 0
  <2>1. New[t] \in Headers
    BY DEF SdInv, SdTypes, SdLocals, NewPCs
  <2>2. header[New[t]].sd = d /\ header[New[t]].RefCount = SdFastRefs + 1
    BY <1>4 DEF SdInv, AgainInv, S!RefBias
  <2>3. SdFastRefs + 1 > 0
    BY SdAssumption
  <2> QED
    BY <2>1, <2>2, <2>3
<1>6. PICK p \in 1 .. n + 1 : p = S!Place(d)
  BY <1>3, PlaceIs DEF SdInv
<1>7. /\ p <= n => \/ header[Cache[p]].sd = d
                  \/ HashOf[header[Cache[p]].sd] > HashOf[d]
      /\ \A j \in 1 .. n : j < p => /\ header[Cache[j]].sd # d
                                    /\ ~(HashOf[header[Cache[j]].sd] > HashOf[d])
  BY <1>3, <1>6, PlaceIs DEF SdInv
<1>8. p <= n => header[Cache[p]].sd # d
  BY <1>3, <1>4, <1>6 DEF S!Cached
<1>9. \A e \in Descriptors : HashOf[e] \in Int
  BY SdAssumption DEF HashOf
<1>10. PICK H : H = [j \in 1 .. n |-> HashOf[header[Cache[j]].sd]]
  OBVIOUS
<1>11. H \in [1 .. n -> Int]
  BY <1>1, <1>3, <1>9, <1>10
<1>12. PICK c \in Int : c = HashOf[d]
  BY <1>4, <1>9
<1>13. \A j \in 1 .. n : j < p => header[Cache[j]].sd # d /\ H[j] <= c
  <2> SUFFICES ASSUME NEW j \in 1 .. n, j < p PROVE header[Cache[j]].sd # d /\ H[j] <= c
    OBVIOUS
  <2>1. header[Cache[j]].sd # d /\ ~(H[j] > c)
    BY <1>7, <1>10, <1>12
  <2>2. H[j] \in Int
    BY <1>11
  <2> QED
    BY <1>12, <2>1, <2>2
<1>14. \A j, k \in 1 .. n : j < k => header[Cache[j]].sd # header[Cache[k]].sd /\ H[j] <= H[k]
  BY <1>1, <1>3, <1>10 DEF Sorted
<1>15. \A j \in 1 .. n : p <= j => header[Cache[j]].sd # d /\ c <= H[j] /\ c # H[j]
  <2> SUFFICES ASSUME NEW j \in 1 .. n, p <= j PROVE c < H[j] /\ header[Cache[j]].sd # d
    BY <1>11, <1>12
  <2>1. p \in 1 .. n
    BY <1>3
  <2>2. H[p] > c
    BY <1>7, <1>8, <1>10, <1>12, <2>1
  <2>3. H[p] <= H[j]
    <3>1. CASE p = j
      BY <1>11, <2>1, <3>1
    <3>2. CASE p < j
      BY <1>14, <2>1, <3>2
    <3> QED
      BY <2>1, <3>1, <3>2
  <2>4. H[p] \in Int /\ H[j] \in Int
    BY <1>11, <2>1
  <2>5. c < H[j]
    BY <1>12, <2>2, <2>3, <2>4
  <2>6. header[Cache[j]].sd # d
    <3>1. H[j] # c
      BY <1>12, <2>4, <2>5
    <3> QED
      BY <1>10, <1>12, <3>1
  <2> QED
    BY <2>5, <2>6
<1>16. /\ Len(Cache') = n + 1
       /\ \A j \in 1 .. n + 1 :
             Cache'[j] = IF j < p THEN Cache[j] ELSE IF j = p THEN m ELSE Cache[j - 1]
  BY <1>2, <1>3, <1>4, <1>5, <1>6, SdWithShape
<1>17. PICK K : K = [j \in 1 .. n + 1 |-> HashOf[header[Cache'[j]].sd]]
  OBVIOUS
<1>18. ASSUME NEW j \in 1 .. n + 1
       PROVE  /\ j < p => j \in 1 .. n /\ Cache'[j] = Cache[j] /\ K[j] = H[j]
              /\ j = p => Cache'[j] = m /\ K[j] = c
              /\ p < j => j - 1 \in 1 .. n /\ Cache'[j] = Cache[j - 1] /\ K[j] = H[j - 1] /\ p <= j - 1
  <2>1. CASE j < p
    <3>1. j \in 1 .. n /\ Cache'[j] = Cache[j]
      BY <1>16, <2>1
    <3> QED
      BY <1>10, <1>17, <2>1, <3>1
  <2>2. CASE j = p
    <3>1. Cache'[j] = m
      BY <1>16, <2>2
    <3> QED
      BY <1>5, <1>12, <1>17, <2>2, <3>1
  <2>3. CASE p < j
    <3>1. j - 1 \in 1 .. n /\ ~(j < p) /\ j # p /\ p <= j - 1
      BY <2>3
    <3>2. Cache'[j] = Cache[j - 1]
      BY <1>16, <3>1
    <3> QED
      BY <1>10, <1>17, <2>3, <3>1, <3>2
  <2> QED
    BY <2>1, <2>2, <2>3
<1>19. ASSUME NEW j \in 1 .. n + 1, NEW k \in 1 .. n + 1, j < k
       PROVE  header[Cache'[j]].sd # header[Cache'[k]].sd /\ K[j] <= K[k]
  <2>1. CASE k < p
    <3>1. /\ j \in 1 .. n
          /\ k \in 1 .. n
          /\ Cache'[j] = Cache[j]
          /\ Cache'[k] = Cache[k]
          /\ K[j] = H[j]
          /\ K[k] = H[k]
      BY <1>18, <1>19, <2>1
    <3> QED
      BY <1>14, <1>19, <3>1
  <2>2. CASE k = p
    <3>1. /\ j \in 1 .. n
          /\ j < p
          /\ Cache'[j] = Cache[j]
          /\ K[j] = H[j]
          /\ Cache'[k] = m
          /\ K[k] = c
      BY <1>18, <1>19, <2>2
    <3> QED
      BY <1>5, <1>13, <3>1
  <2>3. CASE p < k /\ j < p
    <3>1. /\ j \in 1 .. n /\ Cache'[j] = Cache[j] /\ K[j] = H[j]
          /\ k - 1 \in 1 .. n /\ Cache'[k] = Cache[k - 1] /\ K[k] = H[k - 1] /\ j < k - 1
      BY <1>18, <2>3
    <3> QED
      BY <1>14, <3>1
  <2>4. CASE p < k /\ j = p
    <3>1. /\ Cache'[j] = m /\ K[j] = c
          /\ k - 1 \in 1 .. n /\ Cache'[k] = Cache[k - 1] /\ K[k] = H[k - 1] /\ p <= k - 1
      BY <1>18, <2>4
    <3> QED
      BY <1>5, <1>15, <3>1
  <2>5. CASE p < k /\ p < j
    <3>1. /\ j - 1 \in 1 .. n /\ Cache'[j] = Cache[j - 1] /\ K[j] = H[j - 1]
          /\ k - 1 \in 1 .. n /\ Cache'[k] = Cache[k - 1] /\ K[k] = H[k - 1] /\ j - 1 < k - 1
      BY <1>18, <1>19, <2>5
    <3> QED
      BY <1>14, <3>1
  <2> QED
    BY <1>3, <2>1, <2>2, <2>3, <2>4, <2>5
<1>20. Sorted'
  <2>1. \A j \in 1 .. n + 1 : K[j] = HashOf[header'[Cache'[j]].sd]
    BY <1>17
  <2> QED
    BY <1>16, <1>19, <2>1 DEF Sorted
<1>21. ASSUME NEW h PROVE Listed(h)' <=> Listed(h) \/ h = m
  <2>1. ASSUME Listed(h)' PROVE Listed(h) \/ h = m
    <3>1. PICK j \in 1 .. n + 1 : Cache'[j] = h
      BY <1>16, <2>1 DEF Listed
    <3>2. j < p \/ j = p \/ p < j
      OBVIOUS
    <3> QED
      BY <1>3, <1>18, <3>1, <3>2 DEF Listed
  <2>2. ASSUME Listed(h) PROVE Listed(h)'
    <3>1. PICK k \in 1 .. n : Cache[k] = h
      BY <1>3, <2>2 DEF Listed
    <3>2. CASE k < p
      <4>1. k \in 1 .. n + 1 /\ Cache'[k] = h
        BY <1>16, <3>1, <3>2
      <4> QED
        BY <1>16, <4>1 DEF Listed
    <3>3. CASE ~(k < p)
      <4>1. k + 1 \in 1 .. n + 1 /\ ~(k + 1 < p) /\ k + 1 # p /\ (k + 1) - 1 = k
        BY <3>3
      <4>2. Cache'[k + 1] = h
        BY <1>16, <3>1, <4>1
      <4> QED
        BY <1>16, <4>1, <4>2 DEF Listed
    <3> QED
      BY <3>2, <3>3
  <2>3. ASSUME h = m PROVE Listed(h)'
    <3>1. Cache'[p] = m
      BY <1>16
    <3> QED
      BY <1>16, <2>3, <3>1 DEF Listed
  <2> QED
    BY <2>1, <2>2, <2>3
<1>22. \A h : Listed(h)' <=> h \in Headers /\ header'[h].RefCount > 0 /\ h \notin Made'
  <2>1. m \in Made
    BY <1>5 DEF Made
  <2> QED
    BY <1>1, <1>5, <1>21, <2>1
<1> QED
  BY <1>20, <1>22, ListedNext

-----------------------------------------------------------------------------
(* Who enters a header in it and who removes it.                           *)

(* The last references are dropped: the header leaves the cache and is freed. *)
LEMMA SdDestroyLast ==
    ASSUME SdInv, NEW t \in Threads, header[Head(todo[t]).header].RefCount = Head(todo[t]).n, S!Destroy(t) PROVE SdInv'
<1>1. SdTypes /\ SdLocals(t)
  BY DEF SdInv
<1>2. spc[t] = "destroy" /\ Old[t] = NoHeader /\ New[t] = NoHeader
  BY <1>1, SdAssumption
     DEF S!Destroy, S!Dropped, S!Goto, SdLocals, OldPCs, NewPCs, LogPCs, DropPCs
<1>3. PICK list \in Seq(DropTypes) : list = todo[t] /\ Len(list) \in 1 .. 2
  BY <1>1, <1>2, DropHeld DEF DropPCs
<1>4. PICK g \in Headers : g = list[1].header /\ Known(g)
  BY <1>1, <1>2, <1>3, DropHeld DEF DropPCs
<1>5. PICK k \in Nat \ {0} : k = list[1].n
  BY <1>1, <1>2, <1>3, <1>4, DropHeld DEF DropPCs
<1>6. header[g].RefCount \in Nat /\ header[g].RefCount >= k
  BY <1>1, <1>2, <1>3, <1>4, <1>5, DropHeld DEF DropPCs
<1>7. Head(todo[t]) = list[1]
  BY <1>1, <1>2, <1>3
<1>8. header[g].RefCount = k /\ header[g].RefCount > 0
  BY <1>3, <1>4, <1>5, <1>6, <1>7
<1>9. header' = [header EXCEPT ![g] = S!Free]
  BY <1>3, <1>4, <1>7, <1>8 DEF S!Destroy, S!Dropped, S!Goto
<1>10. S!Free \in HeaderTypes /\ S!Free.RefCount = 0 /\ S!Free.sd = NoDescriptor
  BY DEF S!Free, HeaderTypes
<1>11. /\ header' \in [Headers -> HeaderTypes]
       /\ header'[g].RefCount = 0
       /\ header'[g].sd = NoDescriptor
       /\ \A h \in Headers : h # g => header'[h] = header[h]
  BY <1>1, <1>9, <1>10 DEF SdTypes
<1>12. PICK rest \in Seq(DropTypes) : rest = Tail(list) /\ Len(rest) = Len(list) - 1 /\ (Len(rest) = 0 => rest = <<>>)
        /\ \A l, m : \A h \in Headers :
              /\ HeldAt(l, NoHeader, NoHeader, list, h) =
                    (IF list[1].header = h THEN list[1].n ELSE 0) + HeldAt(m, NoHeader, NoHeader, rest, h)
              /\ HeldAt(m, NoHeader, NoHeader, rest, h) \in Nat
  BY <1>3, DropTail
<1>13. PICK c \in 1 .. 2 : c = Len(list) /\ Len(rest) = c - 1 /\ (Len(rest) = 0 => rest = <<>>)
  BY <1>3, <1>12
<1>14. next[t] \in {"idle", "reference"} /\ (next[t] = "reference" => obj[t] # NoObject)
  BY <1>1, <1>2 DEF SdTypes, SdLocals
<1>15. PICK p \in 1 .. Len(Cache) : p = S!PlaceOf(g) /\ Cache[p] = g
  <2>1. g \notin Made
    BY <1>4, KnownNotMade
  <2>2. Listed(g)
    BY <1>4, <1>8, <2>1, ListedIs
  <2> QED
    BY <2>2 DEF Listed, S!PlaceOf
<1>16. Cache' = S!Without(Cache, p)
  BY <1>6, <1>7, <1>8, <1>9, <1>10, <1>11, <1>15 DEF S!Destroy, S!Dropped, S!Goto
<1>17. Cache' \in Seq(Headers)
  BY <1>1, <1>15, <1>16, SdWithoutShape DEF SdTypes
<1>18. /\ spc'[t] = (IF Len(list) > 1 THEN "drop" ELSE next[t])
      /\ Old'[t] = NoHeader /\ New'[t] = NoHeader /\ todo'[t] = rest
      /\ obj'[t] = (IF spc'[t] = "idle" THEN NoObject ELSE obj[t]) /\ sd'[t] = sd[t] /\ next'[t] = next[t]
      /\ FastRef' = FastRef /\ state' = state
  BY <1>1, <1>2, <1>3, <1>7, <1>12, SdAssumption DEF S!Destroy, S!Dropped, S!Goto, SdTypes
<1>19. (spc'[t] = "drop" /\ Len(rest) = 1 /\ obj'[t] = obj[t]) \/ (spc'[t] = "idle" /\ rest = <<>> /\ obj'[t] = NoObject) \/ (spc'[t] = "reference" /\ rest = <<>> /\ obj'[t] = obj[t] /\ obj[t] # NoObject)
  BY <1>13, <1>14, <1>18
<1>20. SdTypes' /\ SdFrame(t)
  <2>1. /\ Cache' \in Seq(Headers)
        /\ header' \in [Headers -> HeaderTypes]
        /\ FastRef' \in [Objects -> WordTypes]
    BY <1>1, <1>2, <1>3, <1>4, <1>5, <1>6, <1>7, <1>8, <1>9, <1>10, <1>11, <1>12, <1>13,
       <1>14, <1>15, <1>16, <1>17, <1>18, <1>19
       DEF SdTypes
  <2>2. state' \in [Objects -> {"none", "made", "live"}]
    BY <1>1, <1>2, <1>18, <1>19 DEF SdTypes
  <2>3. /\ spc' = [spc EXCEPT ![t] = spc'[t]]
        /\ Old' = [Old EXCEPT ![t] = Old'[t]]
        /\ New' = [New EXCEPT ![t] = New'[t]]
    BY <1>1, <1>2, <1>18, <1>19 DEF S!Destroy, S!Dropped, S!Goto, SdTypes
  <2>4. obj' = [obj EXCEPT ![t] = obj'[t]] /\ sd' = [sd EXCEPT ![t] = sd'[t]]
    BY <1>1, <1>2, <1>18, <1>19 DEF S!Destroy, S!Dropped, S!Goto, SdTypes
  <2>5. todo' = [todo EXCEPT ![t] = todo'[t]] /\ next' = [next EXCEPT ![t] = next'[t]]
    BY <1>1, <1>2, <1>18, <1>19 DEF S!Destroy, S!Dropped, S!Goto, SdTypes
  <2>6. Changes(t)
    BY <2>3, <2>4, <2>5 DEF Changes
  <2>7. /\ spc'[t] \in OldPCs \cup NewPCs \cup LogPCs \cup DropPCs \cup {"idle", "reference", "lock"}
        /\ obj'[t] \in Objects \cup {NoObject} /\ Old'[t] \in Headers \cup {NoHeader}
        /\ New'[t] \in Headers \cup {NoHeader} /\ sd'[t] \in Descriptors \cup {NoDescriptor}
        /\ todo'[t] \in Seq(DropTypes) /\ next'[t] \in {"idle", "reference"}
    BY <1>1, <1>2, <1>18, <1>19 DEF SdTypes, OldPCs, NewPCs, LogPCs, DropPCs
  <2> QED
    BY <1>1, <1>2, <1>3, <1>4, <1>5, <1>6, <1>7, <1>15, <1>16, <1>17, <1>18, <1>19, <2>1,
       <2>2, <2>6, <2>7, ChangesTypes
<1>21. SdLocals(t)'
  BY <1>1, <1>2, <1>18, <1>19, SdAssumption DEF SdLocals, OldPCs, NewPCs, LogPCs, DropPCs
<1>22. S!RefsExact'
  <2>1. ASSUME NEW h \in Headers PROVE HeldBalance(t, h)
    <3>1. h # NoHeader /\ SdFastRefs \in Nat
      BY SdAssumption
    <3>x. PICK x \in Nat : x = HeldAt(spc'[t], NoHeader, NoHeader, rest, h)
      BY <1>12
    <3>2. S!Held(t, h) = (IF g = h THEN k ELSE 0) + x
      BY <1>2, <1>3, <1>4, <1>5, <1>12, <1>18, <3>x, <3>1, HeldIs
    <3>3. S!Held(t, h)' = x
      BY <1>2, <1>18, <3>x, <3>1, HeldNext
    <3>4. header[h].RefCount \in Int /\ header'[h].RefCount \in Int
      BY <1>7, <1>8, <1>9, <1>10, <1>15, <1>16, <1>20 DEF SdTypes, HeaderTypes
    <3> QED
      BY <1>5, <1>8, <1>11, <3>x, <3>1, <3>2, <3>3, <3>4 DEF HeldBalance
  <2> QED
    BY <1>8, <1>9, <1>10, <1>11, <1>16, <1>17, <1>18, <1>19, <1>20, <2>1, SdHeldRefs DEF SdInv
<1>23. Quiet(t)
  BY <1>1, <1>2, <1>18, <1>19, SdAssumption
     DEF Quiet, Making, WordFrame, OldPCs, NewPCs, LogPCs, DropPCs
<1>24. ObjectInv' /\ LockedInv'
  BY <1>20, <1>21, <1>23, QuietInv
<1>25. LifeInv'
  BY <1>11 DEF SdInv, LifeInv
<1>26. AgainInv'
  <2> SUFFICES ASSUME NEW u \in Threads, spc'[u] = "again"
               PROVE  header'[New'[u]].RefCount = S!RefBias /\ header'[New'[u]].sd = sd'[u]
    BY DEF AgainInv, S!RefBias
  <2>1. u # t
    BY <1>18, <1>19
  <2>2. spc[u] = "again" /\ New'[u] = New[u] /\ sd'[u] = sd[u]
    BY <1>20, <2>1 DEF SdFrame
  <2>3. New[u] \in Headers /\ ~Known(New[u])
    BY <2>2, AgainAlone DEF SdInv, SdLocals, SdTypes, NewPCs
  <2>4. New[u] # g
    BY <2>1, <2>2, <2>3, <1>4
  <2> QED
    BY <1>11, <2>2, <2>3, <2>4 DEF SdInv, AgainInv
<1>27. Made' = Made
  BY <1>20, <1>2, <1>19 DEF Made, SdFrame
<1>28. S!CacheExact'
  BY <1>15, <1>16, <1>11, <1>27, CacheRemove
<1> QED
  BY <1>20, <1>21, <1>22, <1>24, <1>25, <1>26, <1>27, <1>28, SdInvNext

(* A header is made. *)
LEMMA SdCreate ==
    ASSUME SdInv, NEW t \in Threads, NEW g \in Headers, S!Create(t, g) PROVE SdInv'
<1>1. SdTypes /\ SdLocals(t)
  BY DEF SdInv
<1>2. spc[t] = "create" /\ New[t] = NoHeader /\ todo[t] = <<>>
  BY <1>1, SdAssumption
     DEF S!Create, S!Goto, S!RefBias, SdLocals, OldPCs, NewPCs, LogPCs, DropPCs
<1>3. PICK old \in Headers \cup {NoHeader} : old = Old[t]
  BY <1>1, <1>2 DEF SdTypes
<1>4. obj[t] \in Objects /\ obj[t] # NoObject
  BY <1>2, UserLive, SdAssumption
<1>5. header[g] = S!Free /\ header[g].RefCount = 0
  BY DEF S!Create, S!Free
<1>6. PICK x : x = [sd |-> sd[t], RefCount |-> SdFastRefs + 1]
  OBVIOUS
<1>7. sd[t] \in Descriptors
  BY <1>1, <1>2 DEF SdLocals, LogPCs
<1>8. x \in HeaderTypes /\ x.sd = sd[t] /\ x.RefCount = SdFastRefs + 1
  BY <1>6, <1>7, SdAssumption DEF HeaderTypes
<1>9. header' = [header EXCEPT ![g] = x]
  BY <1>6 DEF S!Create, S!RefBias
<1>10. /\ header' \in [Headers -> HeaderTypes]
       /\ header'[g] = x
       /\ \A h \in Headers : h # g => header'[h] = header[h]
  BY <1>1, <1>9, <1>8 DEF SdTypes
<1>11. header'[g].RefCount = SdFastRefs + 1 /\ header'[g].sd = sd[t]
  BY <1>10, <1>8
<1>12. /\ spc'[t] = "again" /\ Old'[t] = old /\ New'[t] = g /\ todo'[t] = <<>>
      /\ obj'[t] = obj[t] /\ sd'[t] = sd[t] /\ next'[t] = next[t]
      /\ Cache' = Cache /\ FastRef' = FastRef /\ state' = state
  BY <1>1, <1>2, <1>3, <1>5, <1>11, SdAssumption DEF S!Create, S!Goto, S!RefBias, SdTypes
<1>13. g # NoHeader
  BY SdAssumption
<1>14. SdTypes' /\ SdFrame(t)
  <2>1. /\ Cache' \in Seq(Headers)
        /\ header' \in [Headers -> HeaderTypes]
        /\ FastRef' \in [Objects -> WordTypes]
    BY <1>1, <1>2, <1>3, <1>4, <1>9, <1>10, <1>11, <1>12, <1>13 DEF SdTypes
  <2>2. state' \in [Objects -> {"none", "made", "live"}]
    BY <1>1, <1>2, <1>12 DEF SdTypes
  <2>3. /\ spc' = [spc EXCEPT ![t] = spc'[t]]
        /\ Old' = [Old EXCEPT ![t] = Old'[t]]
        /\ New' = [New EXCEPT ![t] = New'[t]]
    BY <1>1, <1>2, <1>12 DEF S!Create, S!Goto, S!RefBias, SdTypes
  <2>4. obj' = [obj EXCEPT ![t] = obj'[t]] /\ sd' = [sd EXCEPT ![t] = sd'[t]]
    BY <1>1, <1>2, <1>12 DEF S!Create, S!Goto, S!RefBias, SdTypes
  <2>5. todo' = [todo EXCEPT ![t] = todo'[t]] /\ next' = [next EXCEPT ![t] = next'[t]]
    BY <1>1, <1>2, <1>12 DEF S!Create, S!Goto, S!RefBias, SdTypes
  <2>6. Changes(t)
    BY <2>3, <2>4, <2>5 DEF Changes
  <2>7. /\ spc'[t] \in OldPCs \cup NewPCs \cup LogPCs \cup DropPCs \cup {"idle", "reference", "lock"}
        /\ obj'[t] \in Objects \cup {NoObject} /\ Old'[t] \in Headers \cup {NoHeader}
        /\ New'[t] \in Headers \cup {NoHeader} /\ sd'[t] \in Descriptors \cup {NoDescriptor}
        /\ todo'[t] \in Seq(DropTypes) /\ next'[t] \in {"idle", "reference"}
    BY <1>1, <1>2, <1>12 DEF SdTypes, OldPCs, NewPCs, LogPCs, DropPCs
  <2> QED
    BY <1>1, <1>2, <1>3, <1>4, <1>5, <1>11, <1>12, <1>13, <2>1, <2>2, <2>6, <2>7, ChangesTypes
<1>15. SdLocals(t)'
  BY <1>12, <1>13, <1>4, <1>7 DEF SdLocals, OldPCs, NewPCs, LogPCs, DropPCs
<1>16. S!RefsExact'
  <2>1. ASSUME NEW h \in Headers PROVE HeldBalance(t, h)
    <3>1. h # NoHeader /\ SdFastRefs \in Nat
      BY SdAssumption
    <3>2. S!Held(t, h) = IF old = h THEN 1 ELSE 0
      BY <1>1, <1>2, <1>3, <1>12, <3>1, HeldBefore DEF HeldNone
    <3>3. S!Held(t, h)' = (IF old = h THEN 1 ELSE 0) + (IF g = h THEN SdFastRefs + 1 ELSE 0)
      BY <1>5, <1>9, <1>12, <1>13, <3>1, HeldAfter DEF HeldNone
    <3>4. header[h].RefCount \in Int /\ header'[h].RefCount \in Int
      BY <1>5, <1>6, <1>7, <1>8, <1>9, <1>10, <1>14 DEF SdTypes, HeaderTypes
    <3> QED
      BY <1>5, <1>10, <1>11, <3>1, <3>2, <3>3, <3>4 DEF HeldBalance
  <2> QED
    BY <1>6, <1>7, <1>8, <1>12, <1>13, <1>14, <2>1, SdHeldRefs DEF SdInv
<1>17. Quiet(t)
  BY <1>1, <1>2, <1>3, <1>4, <1>9, <1>10, <1>11, <1>12, <1>13, SdAssumption
     DEF Quiet, Making, WordFrame, OldPCs, NewPCs, LogPCs, DropPCs
<1>18. ObjectInv' /\ LockedInv'
  BY <1>14, <1>15, <1>17, QuietInv
<1>19. LifeInv'
  BY <1>10, <1>11, <1>7, SdAssumption DEF SdInv, LifeInv
<1>20. \A u \in Threads : spc[u] = "again" => New[u] # g /\ New[u] \in Headers
  <2> SUFFICES ASSUME NEW u \in Threads, spc[u] = "again" PROVE New[u] # g /\ New[u] \in Headers
    OBVIOUS
  <2>1. New[u] \in Headers
    BY DEF SdInv, SdLocals, SdTypes, NewPCs
  <2>2. header[New[u]].RefCount = SdFastRefs + 1 /\ SdFastRefs + 1 # 0
    BY SdAssumption DEF SdInv, AgainInv, S!RefBias
  <2> QED
    BY <1>5, <2>1, <2>2
<1>21. AgainInv'
  <2> SUFFICES ASSUME NEW u \in Threads, spc'[u] = "again"
               PROVE  header'[New'[u]].RefCount = SdFastRefs + 1 /\ header'[New'[u]].sd = sd'[u]
    BY DEF AgainInv, S!RefBias
  <2>1. CASE u = t
    BY <1>12, <1>11, <2>1
  <2>2. CASE u # t
    <3>1. spc[u] = "again" /\ New'[u] = New[u] /\ sd'[u] = sd[u]
      BY <1>14, <2>2 DEF SdFrame
    <3>2. header'[New[u]] = header[New[u]]
      BY <1>10, <1>20, <3>1
    <3> QED
      BY <3>1, <3>2 DEF SdInv, AgainInv, S!RefBias
  <2> QED
    BY <2>1, <2>2
<1>22. Made' = Made \cup {g}
  <2>1. spc[t] # "again" /\ spc'[t] = "again" /\ New'[t] = g
    BY <1>2, <1>12
  <2>2. \A u \in Threads : u # t => (spc'[u] = "again" <=> spc[u] = "again") /\ New'[u] = New[u]
    BY <1>14 DEF SdFrame
  <2>3. ASSUME NEW h PROVE h \in Made' <=> h \in Made \/ h = g
    BY <2>1, <2>2 DEF Made
  <2> QED
    BY <2>3
<1>23. S!CacheExact'
  <2>1. g \notin Made
    BY <1>20 DEF Made
  <2>2. ASSUME NEW h \in Headers
        PROVE  header'[h].RefCount > 0 /\ h \notin Made' <=> header[h].RefCount > 0 /\ h \notin Made
    <3>1. CASE h = g
      BY <1>22, <1>5, <3>1
    <3>2. CASE h # g
      BY <1>22, <1>10, <3>2
    <3> QED
      BY <3>1, <3>2
  <2>3. ASSUME NEW h \in Headers, Listed(h) PROVE header'[h].sd = header[h].sd
    <3>1. header[h].RefCount > 0
      BY <2>3, ListedIs
    <3>2. h # g
      BY <1>5, <3>1
    <3> QED
      BY <1>10, <3>2
  <2> QED
    BY <1>12, <2>2, <2>3, CacheSame
<1> QED
  BY <1>14, <1>15, <1>16, <1>18, <1>19, <1>20, <1>21, <1>22, <1>23, SdInvNext

(* Somebody else has inserted the descriptor: the header that was made is freed. *)
LEMMA SdSearchAgainFound ==
    ASSUME SdInv, NEW t \in Threads, S!Cached(sd[t]), S!SearchAgain(t) PROVE SdInv'
<1>1. SdTypes /\ SdLocals(t)
  BY DEF SdInv
<1>2. spc[t] = "again" /\ todo[t] = <<>>
  BY <1>1, SdAssumption
     DEF S!SearchAgain, S!CachedNow, S!Logged, S!Goto, S!RefBias, SdLocals, OldPCs, NewPCs,
         LogPCs, DropPCs
<1>3. PICK old \in Headers \cup {NoHeader} : old = Old[t]
  BY <1>1, <1>2 DEF SdTypes
<1>4. obj[t] \in Objects /\ obj[t] # NoObject
  BY <1>2, UserLive, SdAssumption
<1>5. PICK m \in Headers : m = New[t] /\ ~Known(m) /\ m \in Made /\ header[m].RefCount = SdFastRefs + 1
  BY <1>1, <1>2, AgainAlone DEF SdLocals, SdTypes, NewPCs, Made, SdInv, AgainInv, S!RefBias
<1>6. PICK g \in Headers : g = Cache[S!Place(sd[t])] /\ Known(g) /\ header[g].RefCount \in Nat /\ header[g].RefCount > 0
  BY FoundHeader
<1>7. g # m
  BY <1>6, <1>5
<1>8. PICK r \in Nat : r = header[g].RefCount
  BY <1>6
<1>9. PICK n \in Nat : n = r + (SdFastRefs + 1) /\ n > 0
  BY <1>8, SdAssumption
<1>10. header' = [header EXCEPT ![g].RefCount = n, ![m] = S!Free]
  BY <1>2, <1>5, <1>6, <1>8, <1>9 DEF S!SearchAgain, S!CachedNow, S!RefBias
<1>11. S!Free \in HeaderTypes /\ S!Free.RefCount = 0 /\ S!Free.sd = NoDescriptor
  BY DEF S!Free, HeaderTypes
<1>12. PICK x : x = [header[g] EXCEPT !.RefCount = n]
  OBVIOUS
<1>13. header[g] \in HeaderTypes
  BY <1>1 DEF SdTypes
<1>14. x \in HeaderTypes /\ x.RefCount = n /\ x.sd = header[g].sd
  BY <1>12, <1>9, <1>13 DEF HeaderTypes
<1>15. header' = [header EXCEPT ![g] = x, ![m] = S!Free]
  BY <1>10, <1>12
<1>16. /\ header' \in [Headers -> HeaderTypes]
       /\ header'[g] = x
       /\ header'[m] = S!Free
       /\ \A h \in Headers : h # g /\ h # m => header'[h] = header[h]
  BY <1>1, <1>11, <1>14, <1>15, <1>7 DEF SdTypes
<1>17. /\ header'[g].RefCount = n
       /\ header'[g].sd = header[g].sd
       /\ header'[m].RefCount = 0
       /\ header'[m].sd = NoDescriptor
  BY <1>11, <1>14, <1>16
<1>18. /\ spc'[t] = (IF old = NoHeader THEN "assign" ELSE "swap") /\ Old'[t] = old /\ New'[t] = g /\ todo'[t] = <<>>
      /\ obj'[t] = obj[t] /\ sd'[t] = sd[t] /\ next'[t] = next[t]
      /\ Cache' = Cache /\ FastRef' = FastRef /\ state' = state
  BY <1>1, <1>2, <1>3, <1>6, <1>7, <1>10, <1>16, <1>17, SdAssumption
     DEF S!SearchAgain, S!CachedNow, S!Logged, S!Goto, S!RefBias, SdTypes
<1>19. (old = NoHeader /\ spc'[t] = "assign") \/ (old \in Headers /\ old # NoHeader /\ spc'[t] = "swap")
  BY <1>18, <1>3, SdAssumption
<1>20. g # NoHeader
  BY SdAssumption
<1>21. SdTypes' /\ SdFrame(t)
  <2>1. /\ Cache' \in Seq(Headers)
        /\ header' \in [Headers -> HeaderTypes]
        /\ FastRef' \in [Objects -> WordTypes]
    BY <1>1, <1>2, <1>3, <1>4, <1>5, <1>6, <1>13, <1>14, <1>15, <1>16, <1>17, <1>18, <1>19,
       <1>20
       DEF SdTypes
  <2>2. state' \in [Objects -> {"none", "made", "live"}]
    BY <1>1, <1>2, <1>18, <1>19 DEF SdTypes
  <2>3. /\ spc' = [spc EXCEPT ![t] = spc'[t]]
        /\ Old' = [Old EXCEPT ![t] = Old'[t]]
        /\ New' = [New EXCEPT ![t] = New'[t]]
    BY <1>1, <1>2, <1>18, <1>19
       DEF S!SearchAgain, S!CachedNow, S!Logged, S!Goto, S!RefBias, SdTypes
  <2>4. obj' = [obj EXCEPT ![t] = obj'[t]] /\ sd' = [sd EXCEPT ![t] = sd'[t]]
    BY <1>1, <1>2, <1>18, <1>19
       DEF S!SearchAgain, S!CachedNow, S!Logged, S!Goto, S!RefBias, SdTypes
  <2>5. todo' = [todo EXCEPT ![t] = todo'[t]] /\ next' = [next EXCEPT ![t] = next'[t]]
    BY <1>1, <1>2, <1>18, <1>19
       DEF S!SearchAgain, S!CachedNow, S!Logged, S!Goto, S!RefBias, SdTypes
  <2>6. Changes(t)
    BY <2>3, <2>4, <2>5 DEF Changes
  <2>7. /\ spc'[t] \in OldPCs \cup NewPCs \cup LogPCs \cup DropPCs \cup {"idle", "reference", "lock"}
        /\ obj'[t] \in Objects \cup {NoObject} /\ Old'[t] \in Headers \cup {NoHeader}
        /\ New'[t] \in Headers \cup {NoHeader} /\ sd'[t] \in Descriptors \cup {NoDescriptor}
        /\ todo'[t] \in Seq(DropTypes) /\ next'[t] \in {"idle", "reference"}
    BY <1>1, <1>2, <1>18, <1>19 DEF SdTypes, OldPCs, NewPCs, LogPCs, DropPCs
  <2> QED
    BY <1>1, <1>2, <1>3, <1>4, <1>5, <1>6, <1>7, <1>8, <1>17, <1>18, <1>19, <1>20, <2>1,
       <2>2, <2>6, <2>7, ChangesTypes
<1>22. SdLocals(t)'
  BY <1>18, <1>19, <1>20, <1>4 DEF SdLocals, OldPCs, NewPCs, LogPCs, DropPCs
<1>23. S!RefsExact'
  <2>1. ASSUME NEW h \in Headers PROVE HeldBalance(t, h)
    <3>1. h # NoHeader /\ SdFastRefs \in Nat
      BY SdAssumption
    <3>2. S!Held(t, h) = (IF old = h THEN 1 ELSE 0) + (IF m = h THEN SdFastRefs + 1 ELSE 0)
      BY <1>2, <1>3, <1>5, <1>18, <3>1, HeldBefore DEF HeldNone
    <3>3. S!Held(t, h)' = (IF old = h THEN 1 ELSE 0) + (IF g = h THEN SdFastRefs + 1 ELSE 0)
      BY <1>2, <1>3, <1>18, <3>1, HeldAfter DEF HeldNone
    <3>4. header[h].RefCount \in Int /\ header'[h].RefCount \in Int
      BY <1>1, <1>2, <1>3, <1>4, <1>5, <1>6, <1>7, <1>15, <1>20, <1>21 DEF SdTypes, HeaderTypes
    <3> QED
      BY <1>5, <1>7, <1>8, <1>9, <1>16, <1>17, <3>1, <3>2, <3>3, <3>4 DEF HeldBalance
  <2> QED
    BY <1>8, <1>9, <1>10, <1>11, <1>12, <1>18, <1>19, <1>20, <1>21, <2>1, SdHeldRefs DEF SdInv
<1>24. Quiet(t)
  BY <1>1, <1>2, <1>3, <1>4, <1>5, <1>6, <1>13, <1>14, <1>15, <1>16, <1>17, <1>18, <1>19,
     <1>20, SdAssumption
     DEF Quiet, Making, WordFrame, OldPCs, NewPCs, LogPCs, DropPCs
<1>25. ObjectInv' /\ LockedInv'
  BY <1>21, <1>22, <1>24, QuietInv
<1>26. LifeInv'
  <2>1. header[g].sd \in Descriptors /\ n # 0
    BY <1>6, <1>8, <1>9 DEF SdInv, LifeInv
  <2> QED
    BY <1>16, <1>17, <2>1 DEF SdInv, LifeInv
<1>27. AgainInv'
  <2> SUFFICES ASSUME NEW u \in Threads, spc'[u] = "again"
               PROVE  header'[New'[u]].RefCount = S!RefBias /\ header'[New'[u]].sd = sd'[u]
    BY DEF AgainInv, S!RefBias
  <2>1. u # t
    BY <1>19
  <2>2. spc[u] = "again" /\ New'[u] = New[u] /\ sd'[u] = sd[u]
    BY <1>21, <2>1 DEF SdFrame
  <2>3. New[u] \in Headers /\ New[u] # g /\ New[u] # m
    BY <1>2, <1>6, <1>5, <2>1, <2>2, AgainAlone, AgainDistinct
       DEF SdInv, SdLocals, SdTypes, NewPCs
  <2> QED
    BY <1>16, <2>2, <2>3 DEF SdInv, AgainInv
<1>28. Made' = Made \ {m}
  <2>1. spc[t] = "again" /\ spc'[t] # "again" /\ New[t] = m
    BY <1>2, <1>5, <1>19
  <2>2. \A u \in Threads : u # t => (spc'[u] = "again" <=> spc[u] = "again") /\ New'[u] = New[u]
    BY <1>21 DEF SdFrame
  <2>3. \A u \in Threads : u # t /\ spc[u] = "again" => New[u] # m
    BY <1>2, <1>5, AgainDistinct
  <2>4. ASSUME NEW h PROVE h \in Made' <=> h \in Made /\ h # m
    BY <2>1, <2>2, <2>3 DEF Made
  <2> QED
    BY <2>4
<1>29. S!CacheExact'
  <2>1. ASSUME NEW h \in Headers
        PROVE  header'[h].RefCount > 0 /\ h \notin Made' <=> header[h].RefCount > 0 /\ h \notin Made
    <3>1. CASE h = g
      BY <1>28, <1>6, <1>9, <1>7, <1>17, <3>1
    <3>2. CASE h = m
      BY <1>5, <1>17, <3>2
    <3>3. CASE h # g /\ h # m
      BY <1>28, <1>16, <3>3
    <3> QED
      BY <3>1, <3>2, <3>3
  <2>2. ASSUME NEW h \in Headers, Listed(h) PROVE header'[h].sd = header[h].sd
    <3>1. h # m
      BY <1>5, <2>2, ListedIs
    <3> QED
      BY <1>16, <1>17, <3>1
  <2> QED
    BY <1>18, <2>1, <2>2, CacheSame
<1> QED
  BY <1>21, <1>22, <1>23, <1>25, <1>26, <1>27, <1>28, <1>29, SdInvNext

(* The header that was made is inserted. *)
LEMMA SdSearchAgainNot ==
    ASSUME SdInv, NEW t \in Threads, ~S!Cached(sd[t]), S!SearchAgain(t) PROVE SdInv'
<1>1. SdTypes /\ SdLocals(t)
  BY DEF SdInv
<1>2. spc[t] = "again" /\ todo[t] = <<>>
  BY <1>1, SdAssumption
     DEF S!SearchAgain, S!CachedNow, S!Logged, S!Goto, S!RefBias, SdLocals, OldPCs, NewPCs,
         LogPCs, DropPCs
<1>3. PICK old \in Headers \cup {NoHeader} : old = Old[t]
  BY <1>1, <1>2 DEF SdTypes
<1>4. obj[t] \in Objects /\ obj[t] # NoObject
  BY <1>2, UserLive, SdAssumption
<1>5. PICK m \in Headers : m = New[t] /\ ~Known(m) /\ m \in Made /\ header[m].RefCount = SdFastRefs + 1
  BY <1>1, <1>2, AgainAlone DEF SdLocals, SdTypes, NewPCs, Made, SdInv, AgainInv, S!RefBias
<1>6. Cache' = S!With(Cache, S!Place(sd[t]), New[t])
  BY DEF S!SearchAgain, S!CachedNow
<1>7. Cache' \in Seq(Headers)
  BY <1>1, <1>5, <1>6, PlaceIs, SdWithShape DEF SdTypes
<1>8. /\ spc'[t] = (IF old = NoHeader THEN "assign" ELSE "swap") /\ Old'[t] = old /\ New'[t] = m /\ todo'[t] = <<>>
      /\ obj'[t] = obj[t] /\ sd'[t] = sd[t] /\ next'[t] = next[t]
      /\ header' = header /\ FastRef' = FastRef /\ state' = state
  BY <1>1, <1>2, <1>3, <1>5, SdAssumption
     DEF S!SearchAgain, S!CachedNow, S!Logged, S!Goto, S!RefBias, SdTypes
<1>9. (old = NoHeader /\ spc'[t] = "assign") \/ (old \in Headers /\ old # NoHeader /\ spc'[t] = "swap")
  BY <1>8, <1>3, SdAssumption
<1>10. m # NoHeader
  BY SdAssumption
<1>11. SdTypes' /\ SdFrame(t)
  <2>1. /\ Cache' \in Seq(Headers)
        /\ header' \in [Headers -> HeaderTypes]
        /\ FastRef' \in [Objects -> WordTypes]
    BY <1>1, <1>2, <1>3, <1>7, <1>8, <1>9, <1>10 DEF SdTypes
  <2>2. state' \in [Objects -> {"none", "made", "live"}]
    BY <1>1, <1>2, <1>8, <1>9 DEF SdTypes
  <2>3. /\ spc' = [spc EXCEPT ![t] = spc'[t]]
        /\ Old' = [Old EXCEPT ![t] = Old'[t]]
        /\ New' = [New EXCEPT ![t] = New'[t]]
    BY <1>1, <1>2, <1>8, <1>9
       DEF S!SearchAgain, S!CachedNow, S!Logged, S!Goto, S!RefBias, SdTypes
  <2>4. obj' = [obj EXCEPT ![t] = obj'[t]] /\ sd' = [sd EXCEPT ![t] = sd'[t]]
    BY <1>1, <1>2, <1>8, <1>9
       DEF S!SearchAgain, S!CachedNow, S!Logged, S!Goto, S!RefBias, SdTypes
  <2>5. todo' = [todo EXCEPT ![t] = todo'[t]] /\ next' = [next EXCEPT ![t] = next'[t]]
    BY <1>1, <1>2, <1>8, <1>9
       DEF S!SearchAgain, S!CachedNow, S!Logged, S!Goto, S!RefBias, SdTypes
  <2>6. Changes(t)
    BY <2>3, <2>4, <2>5 DEF Changes
  <2>7. /\ spc'[t] \in OldPCs \cup NewPCs \cup LogPCs \cup DropPCs \cup {"idle", "reference", "lock"}
        /\ obj'[t] \in Objects \cup {NoObject} /\ Old'[t] \in Headers \cup {NoHeader}
        /\ New'[t] \in Headers \cup {NoHeader} /\ sd'[t] \in Descriptors \cup {NoDescriptor}
        /\ todo'[t] \in Seq(DropTypes) /\ next'[t] \in {"idle", "reference"}
    BY <1>1, <1>2, <1>8, <1>9 DEF SdTypes, OldPCs, NewPCs, LogPCs, DropPCs
  <2> QED
    BY <1>1, <1>2, <1>3, <1>4, <1>9, <1>10, <2>1, <2>2, <2>6, <2>7, ChangesTypes
<1>12. SdLocals(t)'
  BY <1>8, <1>9, <1>10, <1>4 DEF SdLocals, OldPCs, NewPCs, LogPCs, DropPCs
<1>13. S!RefsExact'
  <2>1. ASSUME NEW h \in Headers PROVE HeldBalance(t, h)
    <3>1. h # NoHeader /\ SdFastRefs \in Nat
      BY SdAssumption
    <3>2. S!Held(t, h) = (IF old = h THEN 1 ELSE 0) + (IF m = h THEN SdFastRefs + 1 ELSE 0)
      BY <1>1, <1>2, <1>3, <1>5, <1>10, <3>1, HeldBefore DEF HeldNone
    <3>3. S!Held(t, h)' = (IF old = h THEN 1 ELSE 0) + (IF m = h THEN SdFastRefs + 1 ELSE 0)
      BY <1>3, <1>5, <1>8, <1>9, HeldAfter DEF HeldNone
    <3>4. header[h].RefCount \in Int /\ header'[h].RefCount \in Int
      BY <1>1, <1>2, <1>8, <1>9 DEF SdTypes, HeaderTypes
    <3> QED
      BY <1>8, <3>1, <3>2, <3>3, <3>4 DEF HeldBalance
  <2> QED
    BY <1>5, <1>6, <1>7, <1>8, <1>11, <2>1, SdHeldRefs DEF SdInv
<1>14. Quiet(t)
  BY <1>1, <1>2, <1>3, <1>4, <1>5, <1>6, <1>7, <1>8, <1>9, <1>10, SdAssumption
     DEF Quiet, Making, WordFrame, OldPCs, NewPCs, LogPCs, DropPCs
<1>15. ObjectInv' /\ LockedInv'
  BY <1>11, <1>12, <1>14, QuietInv
<1>16. LifeInv'
  BY <1>8 DEF SdInv, LifeInv
<1>17. AgainInv'
  <2> SUFFICES ASSUME NEW u \in Threads, spc'[u] = "again"
               PROVE  header'[New'[u]].RefCount = S!RefBias /\ header'[New'[u]].sd = sd'[u]
    BY DEF AgainInv, S!RefBias
  <2>1. u # t
    BY <1>9
  <2>2. spc[u] = "again" /\ New'[u] = New[u] /\ sd'[u] = sd[u]
    BY <1>11, <2>1 DEF SdFrame
  <2> QED
    BY <1>8, <2>2 DEF SdInv, AgainInv
<1>18. Made' = Made \ {m}
  <2>1. spc[t] = "again" /\ spc'[t] # "again" /\ New[t] = m
    BY <1>2, <1>5, <1>9
  <2>2. \A u \in Threads : u # t => (spc'[u] = "again" <=> spc[u] = "again") /\ New'[u] = New[u]
    BY <1>11 DEF SdFrame
  <2>3. \A u \in Threads : u # t /\ spc[u] = "again" => New[u] # m
    BY <1>2, <1>5, AgainDistinct
  <2>4. ASSUME NEW h PROVE h \in Made' <=> h \in Made /\ h # m
    BY <2>1, <2>2, <2>3 DEF Made
  <2> QED
    BY <2>4
<1>19. S!CacheExact'
  BY <1>2, <1>5, <1>6, <1>8, <1>18, CacheAdd
<1> QED
  BY <1>11, <1>12, <1>13, <1>15, <1>16, <1>17, <1>18, <1>19, SdInvNext

-----------------------------------------------------------------------------
(* The theorems.                                                           *)

(* At first there are no objects and no headers. *)
LEMMA SdInit == S!Init => SdInv
<1> SUFFICES ASSUME S!Init PROVE SdInv
  OBVIOUS
<1>1. S!Free \in HeaderTypes /\ S!Free.RefCount = 0 /\ S!Free.sd = NoDescriptor
  BY DEF S!Free, HeaderTypes
<1>2. S!NoSecurity \in WordTypes /\ S!NoSecurity.header = NoHeader
  BY SdAssumption DEF S!NoSecurity, WordTypes
<1>3. SdTypes
  <2>1. header \in [Headers -> HeaderTypes] /\ FastRef \in [Objects -> WordTypes]
    BY <1>1, <1>2 DEF S!Init
  <2>2. Cache \in Seq(Headers) /\ <<>> \in Seq(DropTypes)
    BY DEF S!Init
  <2> QED
    BY <2>1, <2>2 DEF S!Init, SdTypes
<1>4. \A t \in Threads : SdLocals(t)
  BY DEF S!Init, SdLocals, OldPCs, NewPCs, LogPCs, DropPCs
<1>5. ObjectInv /\ LockedInv /\ AgainInv
  BY DEF S!Init, ObjectInv, LockedInv, AgainInv, Making, LogPCs
<1>6. LifeInv
  BY <1>1 DEF S!Init, LifeInv
<1>7. S!RefsExact
  <2> SUFFICES ASSUME NEW h \in Headers PROVE header[h].RefCount = InWords(h) + InThreads(h)
    BY SdRefsIs
  <2>1. PICK f : f = [o \in Objects |-> S!InWord(o, h)]
    OBVIOUS
  <2>2. PICK g : g = [t \in Threads |-> S!Held(t, h)]
    OBVIOUS
  <2>3. f \in [Objects -> Nat] /\ g \in [Threads -> Nat]
    BY <1>3, <2>1, <2>2, SdNumbers
  <2>4. h # NoHeader
    BY SdAssumption
  <2>5. \A o \in Objects : f[o] = 0
    BY <1>2, <2>1, <2>4 DEF S!Init, S!InWord, S!Times
  <2>6. \A t \in Threads : g[t] = 0
    <3> SUFFICES ASSUME NEW t \in Threads PROVE S!Held(t, h) = 0
      BY <2>2
    <3>1. todo[t] = <<>> /\ Old[t] = NoHeader /\ New[t] = NoHeader
      BY DEF S!Init
    <3> QED
      BY <2>4, <3>1, HeldBefore DEF HeldNone
  <2>7. Total(f) = 0 /\ Total(g) = 0
    BY <2>3, <2>5, <2>6, TotalZero
  <2>8. header[h].RefCount = 0
    BY <1>1 DEF S!Init
  <2> QED
    BY <2>1, <2>2, <2>7, <2>8 DEF InWords, InThreads
<1>8. S!CacheExact
  <2>1. Sorted
    BY DEF S!Init, Sorted
  <2>2. {Cache[k] : k \in 1 .. Len(Cache)} = {}
    BY DEF S!Init
  <2>3. {h \in Headers : header[h].RefCount > 0} = {}
    BY <1>1 DEF S!Init
  <2> QED
    BY <2>1, <2>2, <2>3, CacheParts
<1> QED
  BY <1>3, <1>4, <1>5, <1>6, <1>7, <1>8 DEF SdInv

(* Every step preserves the invariant. *)
LEMMA SdNext ==
    ASSUME SdInv, NEW t \in Threads, S!Call(t) \/ S!Inside(t) PROVE SdInv'
<1>1. CASE S!Call(t)
  BY <1>1, SdAccess, SdDeassign, SdMake DEF S!Call
<1>2. CASE S!Destroy(t)
  BY <1>2, SdDestroyLast, SdDestroyNot
<1>3. CASE S!SearchAgain(t)
  BY <1>3, SdSearchAgainFound, SdSearchAgainNot
<1>4. CASE \/ S!Reference(t) \/ S!Refill(t) \/ S!Insert(t) \/ S!Undo(t) \/ S!Lock(t)
           \/ S!LockedReference(t) \/ S!Used(t) \/ (\E d \in Descriptors : S!Set(t, d))
  BY <1>4, SdReference, SdRefill, SdInsert, SdUndo, SdLock, SdLockedReference, SdUsed, SdSet
<1>5. CASE \/ S!DropReferences(t) \/ S!Search(t) \/ (\E h \in Headers : S!Create(t, h))
           \/ S!CreateFails(t) \/ S!Swap(t) \/ S!Flush(t) \/ S!Assign(t)
  BY <1>5, SdDropReferences, SdSearch, SdCreate, SdCreateFails, SdSwap, SdFlush, SdAssign
<1> QED
  BY <1>1, <1>2, <1>3, <1>4, <1>5 DEF S!Inside

(* Whatever queries, sets, assigns and deassigns descriptors keeps SdInv.  *)
THEOREM SdInvariance == ASpec => []SdInv
<1>1. AInit => SdInv
  BY SdInit DEF AInit
<1>2. SdInv /\ [ANext]_avars => SdInv'
  <2> SUFFICES ASSUME SdInv, [ANext]_avars PROVE SdInv'
    OBVIOUS
  <2>1. CASE UNCHANGED svars
    <3>1. UNCHANGED <<Cache, header, FastRef, state, spc, obj, Old, New, sd, todo, next>>
      BY <2>1 DEF svars
    <3>2. SdTypes' /\ \A t \in Threads : SdLocals(t)'
      BY <3>1 DEF SdInv, SdTypes, SdLocals
    <3>3. ObjectInv' /\ LockedInv' /\ AgainInv' /\ LifeInv'
      BY <3>1
         DEF SdInv, ObjectInv, Making, LockedInv, Covered, AgainInv, S!RefBias, LifeInv,
             S!NoSecurity
    <3>4. S!RefsExact'
      BY <3>1 DEF SdInv, S!RefsExact, S!InWord, S!Held, S!ToDrop
    <3>5. S!CacheExact'
      BY <3>1 DEF SdInv, S!CacheExact
    <3> QED
      BY <3>2, <3>3, <3>4, <3>5 DEF SdInv
  <2>2. CASE \E t \in Threads : S!Call(t) \/ S!Inside(t)
    BY <2>2, SdNext
  <2> QED
    BY <2>1, <2>2 DEF avars, ANext, Callbacks, Calls, Continues
<1> QED
  BY <1>1, <1>2, PTL DEF ASpec

(* A header that a thread has counted a reference to is there. *)
LEMMA SdHeld ==
    ASSUME SdInv, NEW t \in Threads, NEW h \in Headers, h \in S!Refers(t), spc[t] # "locked"
    PROVE  S!Held(t, h) > 0
<1>1. SdTypes /\ SdLocals(t) /\ SdFastRefs \in Nat \ {0}
  BY SdAssumption DEF SdInv
<1> DEFINE A == S!Times(1, Old[t] = h /\ spc[t] # "locked")
           B == S!Times(SdFastRefs, Old[t] = h /\ spc[t] \in {"insert", "undo"})
           C1 == S!Times(S!RefBias, New[t] = h)
           D1 == S!ToDrop(t, 1, h)
           D2 == S!ToDrop(t, 2, h)
<1>2. /\ Len(todo[t]) \in 0 .. 2
      /\ \A k \in 1 .. Len(todo[t]) : todo[t][k].n \in Nat \ {0}
  <2>1. PICK list \in Seq(DropTypes) : list = todo[t]
    BY <1>1 DEF SdTypes
  <2>2. list = <<>> \/ Len(list) \in 1 .. 2
    BY <1>1, <2>1 DEF SdLocals
  <2>3. Len(list) \in 0 .. 2
    BY <2>2
  <2>4. ASSUME NEW k \in 1 .. Len(list) PROVE list[k].n \in Nat \ {0}
    <3>1. list[k] \in DropTypes
      BY ElementOfSeq
    <3> QED
      BY <3>1 DEF DropTypes
  <2> QED
    BY <2>1, <2>3, <2>4
<1>3. D1 \in Nat /\ D2 \in Nat
  <2>1. 1 <= Len(todo[t]) => 1 \in 1 .. Len(todo[t])
    BY <1>2
  <2>2. 2 <= Len(todo[t]) => 2 \in 1 .. Len(todo[t])
    BY <1>2
  <2> QED
    BY <1>2, <2>1, <2>2 DEF S!ToDrop
<1>4. A \in Nat /\ B \in Nat /\ C1 \in Nat
  BY <1>1 DEF S!Times, S!RefBias
<1>5. CASE Old[t] = h
  BY <1>3, <1>4, <1>5 DEF S!Held, S!Times
<1>6. CASE New[t] = h
  <2>1. C1 > 0
    BY <1>1, <1>6 DEF S!Times, S!RefBias
  <2> HIDE DEF A, B, C1, D1, D2
  <2>2. A + B + C1 + D1 + D2 > 0
    BY <1>3, <1>4, <2>1
  <2> QED
    BY <2>2 DEF S!Held, A, B, C1, D1, D2
<1>7. CASE \E k \in 1 .. Len(todo[t]) : todo[t][k].header = h
  <2>1. PICK k \in 1 .. Len(todo[t]) : todo[t][k].header = h
    BY <1>7
  <2>2. (k = 1 \/ k = 2) /\ k <= Len(todo[t]) /\ todo[t][k].n \in Nat \ {0}
    BY <1>2
  <2>3. D1 > 0 \/ D2 > 0
    BY <2>1, <2>2 DEF S!ToDrop
  <2> HIDE DEF A, B, C1, D1, D2
  <2>4. A + B + C1 + D1 + D2 > 0
    BY <1>3, <1>4, <2>3
  <2> QED
    BY <2>4 DEF S!Held, A, B, C1, D1, D2
<1> QED
  BY <1>5, <1>6, <1>7 DEF S!Refers

(* A header that is referred to, or read to be counted, is there. *)
LEMMA SdAlive == SdInv => S!ReferencesLive
<1> SUFFICES ASSUME SdInv, NEW h \in Headers,
                    (\E o \in Objects : FastRef[o].header = h)
                    \/ (\E t \in Threads : h \in S!Refers(t))
             PROVE  header[h].RefCount > 0
  BY DEF S!ReferencesLive
<1>1. ASSUME NEW o \in Objects, FastRef[o].header = h PROVE header[h].RefCount > 0
  <2>1. S!InWord(o, h) = FastRef[o].refs + 1 /\ FastRef[o].refs \in Nat
    BY <1>1, SdAssumption DEF S!InWord, S!Times, SdInv, SdTypes, WordTypes
  <2>2. header[h].RefCount \in Nat /\ header[h].RefCount >= S!InWord(o, h)
    BY SdCovers DEF SdInv
  <2> QED
    BY <2>1, <2>2
<1>2. ASSUME NEW t \in Threads, h \in S!Refers(t) PROVE header[h].RefCount > 0
  <2>1. CASE spc[t] = "locked"
    <3>1. New[t] = NoHeader /\ todo[t] = <<>>
      BY <2>1 DEF SdInv, SdLocals, NewPCs, DropPCs
    <3>2. Old[t] = h
      BY <1>2, <3>1, SdAssumption DEF S!Refers
    <3> QED
      BY <2>1, <3>2, LockedKnown
  <2>2. CASE spc[t] # "locked"
    <3>1. S!Held(t, h) > 0
      BY <1>2, <2>2, SdHeld
    <3>2. header[h].RefCount \in Nat /\ header[h].RefCount >= S!Held(t, h)
      BY SdCovers DEF SdInv
    <3>3. S!Held(t, h) \in Nat
      BY SdNumbers DEF SdInv
    <3> QED
      BY <3>1, <3>2, <3>3
  <2> QED
    BY <2>1, <2>2
<1> QED
  BY <1>1, <1>2

(* The references of the blocks of notify routines and of the headers of   *)
(* the cache are those in the fast references and in the hands of threads  *)
(* (ExAcquireFastReference, ExReleaseFastReference, ObpReferenceSecurity-  *)
(* Descriptor), except what PsSetCreateProcessNotifyRoutine leaves.        *)
THEOREM RefSafety == ASpec => []FastRefsExact
<1>1. NotifyInv /\ SdInv => FastRefsExact
  BY DEF FastRefsExact, NotifyInv, SdInv
<1> QED
  BY <1>1, NotifyInvariance, SdInvariance, PTL

(* A block or a header to which a fast reference, a thread or the drop to  *)
(* come of a reference refers, and one that a thread counts under the lock *)
(* of the slow path (ObpReferenceSecurityDescriptor), has not been freed.  *)
(* It says nothing of the pointer that a new try of ObSetSecurity-         *)
(* DescriptorInfo reads: no reference to it is held.                       *)
THEOREM ReferenceSafety == ASpec => []NoReferenceDangles
<1>1. NotifyInv /\ SdInv => NoReferenceDangles
  BY NotifyAlive, SdAlive DEF NoReferenceDangles
<1> QED
  BY <1>1, NotifyInvariance, SdInvariance, PTL

(* ObpDestroySecurityDescriptorHeader and ObLogSecurityDescriptor keep the *)
(* cache sorted and without duplicates, with every header that is counted. *)
THEOREM CacheSafety == ASpec => []CacheExact
<1>1. SdInv => CacheExact
  BY DEF CacheExact, SdInv
<1> QED
  BY <1>1, SdInvariance, PTL
==============================================================================
