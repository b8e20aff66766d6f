-------------------------- MODULE ObjectLifeProofs --------------------------
(***************************************************************************)
(* Proofs about ObjectLife as MCObjectLife runs it, for any number of      *)
(* threads, objects and calls.                                             *)
(*                                                                         *)
(* What the threads have to do is counted: the steps that are to give a    *)
(* reference back, and so on.  A routine replaces the step at the head of  *)
(* todo by some others, so a count changes by what these count for less    *)
(* what that one did.  The rest of the argument is about who keeps an      *)
(* object alive: every step that uses an object without a reference of its *)
(* own is followed, in the same thread, by the one that gives back the     *)
(* reference it relies on.                                                 *)
(***************************************************************************)
EXTENDS MCObjectLife, FiniteSetTheorems, SequenceTheorems, TLAPS

(* The steps that use an object by a reference that is given back later.   *)
Weak == {"name", "check", "lookup", "uncount", "permanent", "temporary", "open"}

Bodies == Objects \cup {NoObject}

OpSteps == [op : Weak \cup Deletion \cup {"object", "insert", "queue"}, o : Objects]
HandleSteps == [op : HandleOps, o : Objects, context : Bodies, new : Bodies]
StepSet == OpSteps \cup HandleSteps

-----------------------------------------------------------------------------
(* Counting steps.                                                         *)

(* How many places of a sequence hold a member of M, and how many of all   *)
(* the sequences of f do.                                                  *)
Where(M, s) == {k \in DOMAIN s : s[k] \in M}
Hits(M, s) == Cardinality(Where(M, s))

Spots(f, T, M) == UNION {{t} \X Where(M, f[t]) : t \in T}

Among(M) == Cardinality(Spots(todo, Threads, M))

LEMMA HitsFinite ==
    ASSUME NEW M, NEW A, NEW s \in Seq(A)
    PROVE  IsFiniteSet(Where(M, s)) /\ Hits(M, s) \in Nat
<1>1. DOMAIN s = 1 .. Len(s) /\ Len(s) \in Nat
  OBVIOUS
<1>2. IsFiniteSet(1 .. Len(s))
  BY <1>1, FS_Interval
<1>3. Where(M, s) \in SUBSET (1 .. Len(s))
  BY <1>1 DEF Where
<1> QED
  BY <1>2, <1>3, FS_Subset, FS_CardinalityType DEF Hits

(* A sequence and another behind it. *)
LEMMA HitsConcat ==
    ASSUME NEW M, NEW A, NEW a \in Seq(A), NEW b \in Seq(A)
    PROVE  Hits(M, a \o b) = Hits(M, a) + Hits(M, b)
<1> DEFINE n == Len(a)
           P == Where(M, a)
           Q == Where(M, b)
           R == Where(M, a \o b)
           S == {k + n : k \in Q}
           g == [k \in Q |-> k + n]
<1>1. /\ n \in Nat /\ Len(b) \in Nat
      /\ DOMAIN a = 1 .. n /\ DOMAIN b = 1 .. Len(b)
      /\ DOMAIN (a \o b) = 1 .. n + Len(b)
      /\ \A k \in 1 .. n + Len(b) : (a \o b)[k] = IF k <= n THEN a[k] ELSE b[k - n]
  OBVIOUS
<1>2. IsFiniteSet(P) /\ IsFiniteSet(Q) /\ Hits(M, a) \in Nat /\ Hits(M, b) \in Nat
  BY HitsFinite
<1>3. g \in Bijection(Q, S)
  <2>1. Q \subseteq Nat
    BY <1>1 DEF Where
  <2> QED
    BY <1>1, <2>1 DEF Bijection, Injection, Surjection, IsInjective
<1>4. IsFiniteSet(S) /\ Cardinality(S) = Cardinality(Q)
  BY <1>2, <1>3, FS_Bijection DEF ExistsBijection
<1>5. R = P \cup S
  <2>1. ASSUME NEW k \in R PROVE k \in P \cup S
    <3>1. k \in 1 .. n + Len(b) /\ (a \o b)[k] \in M
      BY <1>1 DEF Where
    <3>2. CASE k <= n
      BY <1>1, <3>1, <3>2 DEF Where
    <3>3. CASE ~(k <= n)
      <4>1. k - n \in 1 .. Len(b) /\ (k - n) + n = k
        BY <1>1, <3>1, <3>3
      <4>2. k - n \in Q
        BY <1>1, <3>1, <3>3, <4>1 DEF Where
      <4> QED
        BY <4>1, <4>2
    <3> QED
      BY <3>2, <3>3
  <2>2. ASSUME NEW k \in P PROVE k \in R
    <3>1. k \in 1 .. n /\ k \in 1 .. n + Len(b) /\ a[k] \in M
      BY <1>1 DEF Where
    <3> QED
      BY <1>1, <3>1 DEF Where
  <2>3. ASSUME NEW k \in Q PROVE k + n \in R
    <3>1. /\ k \in 1 .. Len(b) /\ b[k] \in M
          /\ k + n \in 1 .. n + Len(b) /\ ~(k + n <= n) /\ (k + n) - n = k
      BY <1>1 DEF Where
    <3> QED
      BY <1>1, <3>1 DEF Where
  <2> QED
    BY <2>1, <2>2, <2>3
<1>6. P \cap S = {}
  BY <1>1 DEF Where
<1>7. Cardinality(P \cup S) = Cardinality(P) + Cardinality(S) - Cardinality(P \cap S)
  BY <1>2, <1>4, FS_Union
<1>8. Cardinality(P \cap S) = 0
  BY <1>6, FS_EmptySet
<1> HIDE DEF P, Q, R, S
<1> QED
  BY <1>2, <1>4, <1>5, <1>7, <1>8 DEF Hits, P, Q, R

(* Nothing, and one step. *)
LEMMA HitsNone == \A M : Hits(M, <<>>) = 0
<1>1. \A M : Where(M, <<>>) = {}
  BY DEF Where
<1> QED
  BY <1>1, FS_EmptySet DEF Hits

LEMMA HitsOne == \A M, x : Hits(M, <<x>>) = Times(x \in M)
<1> SUFFICES ASSUME NEW M, NEW x PROVE Hits(M, <<x>>) = Times(x \in M)
  OBVIOUS
<1>1. CASE x \in M
  <2>1. Where(M, <<x>>) = {1}
    BY <1>1 DEF Where
  <2> QED
    BY <1>1, <2>1, FS_Singleton DEF Hits, Times
<1>2. CASE x \notin M
  <2>1. Where(M, <<x>>) = {}
    BY <1>2 DEF Where
  <2> QED
    BY <1>2, <2>1, FS_EmptySet DEF Hits, Times
<1> QED
  BY <1>1, <1>2

(* The first step and the rest. *)
LEMMA HitsHead ==
    ASSUME NEW M, NEW A, NEW s \in Seq(A), s # <<>>
    PROVE  /\ Head(s) \in A /\ Tail(s) \in Seq(A) /\ <<Head(s)>> \in Seq(A)
           /\ s = <<Head(s)>> \o Tail(s)
           /\ Hits(M, s) = Times(Head(s) \in M) + Hits(M, Tail(s))
<1>1. /\ Head(s) \in A /\ Tail(s) \in Seq(A) /\ <<Head(s)>> \in Seq(A)
      /\ s = <<Head(s)>> \o Tail(s)
  OBVIOUS
<1>2. Hits(M, <<Head(s)>> \o Tail(s)) = Hits(M, <<Head(s)>>) + Hits(M, Tail(s))
  BY <1>1, HitsConcat
<1> QED
  BY <1>1, <1>2, HitsOne

Todos == [Threads -> Seq(StepSet)]

(* The places in all the sequences. *)
LEMMA SpotsFinite ==
    ASSUME NEW M, NEW T \in SUBSET Threads, NEW f \in Todos
    PROVE  IsFiniteSet(Spots(f, T, M)) /\ Cardinality(Spots(f, T, M)) \in Nat
<1> DEFINE g == [t \in T |-> {t} \X Where(M, f[t])]
           P == {{t} \X Where(M, f[t]) : t \in T}
<1>1. g \in Surjection(T, P)
  BY DEF Surjection
<1>2. IsFiniteSet(T)
  BY ConstantsAssumption, FS_Subset
<1>3. IsFiniteSet(P)
  BY <1>1, <1>2, FS_Surjection
<1>4. \A R \in P : IsFiniteSet(R)
  <2> SUFFICES ASSUME NEW t \in T PROVE IsFiniteSet({t} \X Where(M, f[t]))
    OBVIOUS
  <2>1. IsFiniteSet(Where(M, f[t]))
    BY HitsFinite DEF Todos
  <2>2. IsFiniteSet({t})
    BY FS_Singleton
  <2> QED
    BY <2>1, <2>2, FS_Product
<1>5. IsFiniteSet(UNION P)
  BY <1>3, <1>4, FS_UNION
<1> QED
  BY <1>5, FS_CardinalityType DEF Spots

(* Those of one thread, and those of the others. *)
LEMMA SpotsSplit ==
    ASSUME NEW M, NEW f \in Todos, NEW t \in Threads
    PROVE  /\ Cardinality(Spots(f, Threads \ {t}, M)) \in Nat /\ Hits(M, f[t]) \in Nat
           /\ Cardinality(Spots(f, Threads, M)) =
                 Cardinality(Spots(f, Threads \ {t}, M)) + Hits(M, f[t])
<1> DEFINE P == Spots(f, Threads \ {t}, M)
           W == Where(M, f[t])
           Q == {t} \X W
<1>1. IsFiniteSet(P) /\ Cardinality(P) \in Nat
  <2>1. Threads \ {t} \in SUBSET Threads
    OBVIOUS
  <2> QED
    BY <2>1, SpotsFinite
<1>2. IsFiniteSet(W) /\ Hits(M, f[t]) \in Nat /\ Hits(M, f[t]) = Cardinality(W)
  BY HitsFinite DEF Todos, Hits
<1>3. IsFiniteSet({t}) /\ Cardinality({t}) = 1
  BY FS_Singleton
<1>4. IsFiniteSet(Q) /\ Cardinality(Q) = Cardinality({t}) * Cardinality(W)
  BY <1>2, <1>3, FS_Product
<1>5. Spots(f, Threads, M) = P \cup Q
  BY DEF Spots
<1>6. P \cap Q = {}
  BY DEF Spots
<1>7. Cardinality(P \cup Q) = Cardinality(P) + Cardinality(Q) - Cardinality(P \cap Q)
  BY <1>1, <1>4, FS_Union
<1>8. Cardinality(P \cap Q) = 0
  BY <1>6, FS_EmptySet
<1> HIDE DEF P, W, Q
<1>9. Cardinality(Q) = Hits(M, f[t])
  BY <1>2, <1>3, <1>4
<1>10. Cardinality(Spots(f, Threads, M)) = Cardinality(P) + Hits(M, f[t])
  BY <1>1, <1>2, <1>5, <1>7, <1>8, <1>9
<1> QED
  BY <1>1, <1>2, <1>10 DEF P

(* What one thread does changes its own part of the count. *)
LEMMA AmongChange ==
    ASSUME NEW M, todo \in Todos, todo' \in Todos, NEW t \in Threads,
           \A u \in Threads \ {t} : todo'[u] = todo[u]
    PROVE  /\ Among(M) \in Nat /\ Hits(M, todo[t]) \in Nat /\ Hits(M, todo'[t]) \in Nat
           /\ Among(M)' = Among(M) - Hits(M, todo[t]) + Hits(M, todo'[t])
           /\ Among(M) >= Hits(M, todo[t])
<1> DEFINE P == Spots(todo, Threads \ {t}, M)
           Q == Spots(todo', Threads \ {t}, M)
<1>1. /\ Cardinality(P) \in Nat /\ Hits(M, todo[t]) \in Nat
      /\ Cardinality(Spots(todo, Threads, M)) = Cardinality(P) + Hits(M, todo[t])
  BY SpotsSplit
<1>2. /\ Cardinality(Q) \in Nat /\ Hits(M, todo'[t]) \in Nat
      /\ Cardinality(Spots(todo', Threads, M)) = Cardinality(Q) + Hits(M, todo'[t])
  BY SpotsSplit
<1>3. P = Q
  BY DEF Spots
<1>4. /\ Among(M) = Cardinality(Spots(todo, Threads, M))
      /\ Among(M)' = Cardinality(Spots(todo', Threads, M))
  BY DEF Among, Spots
<1> HIDE DEF P, Q
<1> QED
  BY <1>1, <1>2, <1>3, <1>4

(* Among is a number; a place that counts makes it positive, two make it 2 *)
(* or more, and so does a larger set.                                      *)
LEMMA AmongLeast ==
    ASSUME NEW M, todo \in Todos
    PROVE  /\ Among(M) \in Nat
           /\ \A t \in Threads : \A k \in DOMAIN todo[t] : todo[t][k] \in M => Among(M) >= 1
           /\ \A t, u \in Threads : \A k \in DOMAIN todo[t], j \in DOMAIN todo[u] :
                 todo[t][k] \in M /\ todo[u][j] \in M /\ <<t, k>> # <<u, j>> => Among(M) >= 2
           /\ Among(M) > 0 => \E t \in Threads : \E k \in DOMAIN todo[t] : todo[t][k] \in M
           /\ \A N \in SUBSET M : Among(N) \in Nat /\ Among(N) <= Among(M)
<1> DEFINE P == Spots(todo, Threads, M)
<1>1. IsFiniteSet(P) /\ Among(M) = Cardinality(P) /\ Cardinality(P) \in Nat
  <2>1. Threads \in SUBSET Threads
    OBVIOUS
  <2>2. IsFiniteSet(P) /\ Cardinality(P) \in Nat
    BY <2>1, SpotsFinite
  <2> QED
    BY <2>2 DEF Among
<1>2. ASSUME NEW t \in Threads, NEW k \in DOMAIN todo[t], todo[t][k] \in M
      PROVE  <<t, k>> \in P
  BY <1>2 DEF Spots, Where
<1>3. ASSUME NEW p \in P PROVE Among(M) >= 1
  <2>1. P # {}
    BY <1>3
  <2> QED
    BY <1>1, <2>1, FS_EmptySet
<1>4. ASSUME NEW p \in P, NEW q \in P, p # q PROVE Among(M) >= 2
  <2>1. IsFiniteSet({p}) /\ Cardinality({p}) = 1 /\ q \notin {p}
    BY <1>4, FS_Singleton
  <2>2. Cardinality({p} \cup {q}) = 2
    BY <2>1, FS_AddElement
  <2>3. {p} \cup {q} \in SUBSET P
    OBVIOUS
  <2>4. Cardinality({p} \cup {q}) <= Cardinality(P)
    BY <1>1, <2>3, FS_Subset
  <2> QED
    BY <1>1, <2>2, <2>4
<1>5. ASSUME Among(M) > 0
      PROVE  \E t \in Threads : \E k \in DOMAIN todo[t] : todo[t][k] \in M
  <2>1. P # {}
    BY <1>1, <1>5, FS_EmptySet
  <2> QED
    BY <2>1 DEF Spots, Where
<1>6. ASSUME NEW N \in SUBSET M PROVE Among(N) \in Nat /\ Among(N) <= Among(M)
  <2>1. Spots(todo, Threads, N) \in SUBSET P
    BY DEF Spots, Where
  <2>2. /\ IsFiniteSet(Spots(todo, Threads, N))
        /\ Cardinality(Spots(todo, Threads, N)) <= Cardinality(P)
    BY <1>1, <2>1, FS_Subset
  <2> QED
    BY <1>1, <2>2, FS_CardinalityType DEF Among
<1>7. ASSUME NEW t \in Threads, NEW u \in Threads, NEW k \in DOMAIN todo[t],
             NEW j \in DOMAIN todo[u], todo[t][k] \in M, todo[u][j] \in M, <<t, k>> # <<u, j>>
      PROVE  Among(M) >= 2
  BY <1>2, <1>4, <1>7
<1>8. ASSUME NEW t \in Threads, NEW k \in DOMAIN todo[t], todo[t][k] \in M
      PROVE  Among(M) >= 1
  BY <1>2, <1>3, <1>8
<1> HIDE DEF P
<1> QED
  BY <1>1, <1>5, <1>6, <1>7, <1>8

-----------------------------------------------------------------------------
(* What the steps count for.                                               *)

(* The steps that hold a reference to object x: the one that gives it back *)
(* and the caller of ObInsertObject, the lookup context of a handle in the *)
(* making, its caller's reference, and its own.                            *)
Points(x) == {s \in OpSteps : s.op \in {"object", "insert"} /\ s.o = x}
InContext(x) == {s \in HandleSteps : s.context = x}
IsNew(x) == {s \in HandleSteps : s.new = x}
ForHandle(x) == {s \in HandleSteps : s.o = x /\ (s.new = NoObject \/ s.op = "create")}

(* Those that count as a handle, as a user of the name, as a deletion, as  *)
(* an insertion to come; and the queueing of the work item.                *)
Counted(x) == {s \in StepSet : s.op \in {"release", "create", "uncount"} /\ s.o = x}
Naming(x) == {s \in OpSteps : s.op \in {"name", "insert", "lookup"} /\ s.o = x}
Deleting(x) == {s \in OpSteps : s.op \in Deletion /\ s.o = x}
Inserting(x) == {s \in OpSteps : s.op = "insert" /\ s.o = x}
Queueing == {s \in OpSteps : s.op = "queue"}

RefsDue(x) == Among(Points(x)) + Among(InContext(x)) + Among(IsNew(x)) + Among(ForHandle(x))
NamesDue(x) == Among(Naming(x)) + Among(InContext(x)) + Among(IsNew(x))

RefsIn(x, s) == Hits(Points(x), s) + Hits(InContext(x), s)
                  + Hits(IsNew(x), s) + Hits(ForHandle(x), s)
NamesIn(x, s) == Hits(Naming(x), s) + Hits(InContext(x), s) + Hits(IsNew(x), s)

(* What the steps of s come to for x: references, handles, users of the    *)
(* name, deletions, insertions and queueings.                              *)
Sums(x, s, refs, hands, names, dels, ins, queues) ==
    /\ RefsIn(x, s) = refs
    /\ Hits(Counted(x), s) = hands
    /\ NamesIn(x, s) = names
    /\ Hits(Deleting(x), s) = dels
    /\ Hits(Inserting(x), s) = ins
    /\ Hits(Queueing, s) = queues

(* By how much a step changes what is due for x. *)
Moves(x, refs, hands, names, dels, ins, queues) ==
    /\ RefsDue(x)' = RefsDue(x) + refs
    /\ Among(Counted(x))' = Among(Counted(x)) + hands
    /\ NamesDue(x)' = NamesDue(x) + names
    /\ Among(Deleting(x))' = Among(Deleting(x)) + dels
    /\ Among(Inserting(x))' = Among(Inserting(x)) + ins
    /\ Among(Queueing)' = Among(Queueing) + queues

LEMMA SumsType ==
    ASSUME NEW x, NEW s \in Seq(StepSet)
    PROVE  /\ RefsIn(x, s) \in Nat /\ Hits(Counted(x), s) \in Nat /\ NamesIn(x, s) \in Nat
           /\ Hits(Deleting(x), s) \in Nat /\ Hits(Inserting(x), s) \in Nat
           /\ Hits(Queueing, s) \in Nat
<1>1. \A M : Hits(M, s) \in Nat
  BY HitsFinite
<1> QED
  BY <1>1 DEF RefsIn, NamesIn

LEMMA DueAdd ==
    ASSUME NEW x, NEW a, NEW b,
           \A M : /\ Hits(M, a) \in Nat /\ Hits(M, b) \in Nat /\ Among(M) \in Nat
                  /\ Among(M)' = Among(M) + (Hits(M, b) - Hits(M, a))
    PROVE  /\ RefsDue(x)' = RefsDue(x) + (RefsIn(x, b) - RefsIn(x, a))
           /\ NamesDue(x)' = NamesDue(x) + (NamesIn(x, b) - NamesIn(x, a))
BY DEF RefsIn, NamesIn, RefsDue, NamesDue

LEMMA SumsConcat ==
    ASSUME NEW x, NEW a, NEW b, a \in Seq(StepSet), b \in Seq(StepSet),
           NEW r1, NEW c1, NEW n1, NEW d1, NEW i1, NEW q1,
           NEW r2, NEW c2, NEW n2, NEW d2, NEW i2, NEW q2,
           Sums(x, a, r1, c1, n1, d1, i1, q1), Sums(x, b, r2, c2, n2, d2, i2, q2)
    PROVE  /\ a \o b \in Seq(StepSet)
           /\ Sums(x, a \o b, r1 + r2, c1 + c2, n1 + n2, d1 + d2, i1 + i2, q1 + q2)
<1> DEFINE c == a \o b
<1>1. \A M : /\ Hits(M, c) = Hits(M, a) + Hits(M, b)
             /\ Hits(M, a) \in Nat /\ Hits(M, b) \in Nat
  BY HitsConcat, HitsFinite
<1>2. c \in Seq(StepSet)
  OBVIOUS
<1> HIDE DEF c
<1>3. /\ RefsIn(x, c) = RefsIn(x, a) + RefsIn(x, b)
      /\ NamesIn(x, c) = NamesIn(x, a) + NamesIn(x, b)
  BY ONLY <1>1 DEF RefsIn, NamesIn
<1>4. Sums(x, c, r1 + r2, c1 + c2, n1 + n2, d1 + d2, i1 + i2, q1 + q2)
  BY <1>1, <1>3 DEF Sums
<1> QED
  BY <1>2, <1>4 DEF c

LEMMA SumsNone == \A x : Sums(x, <<>>, 0, 0, 0, 0, 0, 0)
BY HitsNone DEF Sums, RefsIn, NamesIn

(* One step of each kind. *)
LEMMA SumsOp ==
    ASSUME NEW x \in Objects, NEW s \in OpSteps
    PROVE  Sums(x, <<s>>, Times(s.op \in {"object", "insert"} /\ s.o = x),
                          Times(s.op = "uncount" /\ s.o = x),
                          Times(s.op \in {"name", "insert", "lookup"} /\ s.o = x),
                          Times(s.op \in Deletion /\ s.o = x),
                          Times(s.op = "insert" /\ s.o = x), Times(s.op = "queue"))
<1>1. s \notin HandleSteps /\ s \in StepSet
  BY DEF OpSteps, HandleSteps, HandleOps, Weak, Deletion, StepSet
<1>2. /\ s \in Points(x) <=> s.op \in {"object", "insert"} /\ s.o = x
      /\ s \notin InContext(x) /\ s \notin IsNew(x) /\ s \notin ForHandle(x)
      /\ s \in Naming(x) <=> s.op \in {"name", "insert", "lookup"} /\ s.o = x
      /\ s \in Deleting(x) <=> s.op \in Deletion /\ s.o = x
      /\ s \in Inserting(x) <=> s.op = "insert" /\ s.o = x
      /\ s \in Queueing <=> s.op = "queue"
  BY <1>1 DEF Points, InContext, IsNew, ForHandle, Naming, Deleting, Inserting, Queueing
<1>3. s \in Counted(x) <=> s.op = "uncount" /\ s.o = x
  BY <1>1 DEF Counted, OpSteps, Weak, Deletion
<1>4. \A M : Hits(M, <<s>>) = Times(s \in M)
  BY HitsOne
<1> QED
  BY <1>2, <1>3, <1>4 DEF Sums, RefsIn, NamesIn, Times

LEMMA SumsHandle ==
    ASSUME NEW x \in Objects, NEW h \in HandleSteps
    PROVE  Sums(x, <<h>>, Times(h.context = x) + Times(h.new = x)
                             + Times(h.o = x /\ (h.new = NoObject \/ h.op = "create")),
                          Times(h.op \in {"release", "create"} /\ h.o = x),
                          Times(h.context = x) + Times(h.new = x), 0, 0, 0)
<1>1. h \notin OpSteps /\ h \in StepSet
  BY DEF OpSteps, HandleSteps, HandleOps, Weak, Deletion, StepSet
<1>2. /\ h \notin Points(x) /\ h \notin Naming(x) /\ h \notin Deleting(x)
      /\ h \notin Inserting(x) /\ h \notin Queueing
      /\ h \in InContext(x) <=> h.context = x
      /\ h \in IsNew(x) <=> h.new = x
      /\ h \in ForHandle(x) <=> h.o = x /\ (h.new = NoObject \/ h.op = "create")
  BY <1>1 DEF Points, InContext, IsNew, ForHandle, Naming, Deleting, Inserting, Queueing
<1>3. h \in Counted(x) <=> h.op \in {"release", "create"} /\ h.o = x
  BY <1>1 DEF Counted, HandleSteps, HandleOps
<1>4. \A M : Hits(M, <<h>>) = Times(h \in M)
  BY HitsOne
<1> QED
  BY <1>2, <1>3, <1>4 DEF Sums, RefsIn, NamesIn, Times

(* Op and HandleOp are such steps. *)
LEMMA OpIsStep ==
    ASSUME NEW op \in Weak \cup Deletion \cup {"object", "insert", "queue"}, NEW o \in Objects
    PROVE  /\ Op(op, o) \in OpSteps /\ Op(op, o) \in StepSet
           /\ Op(op, o).op = op /\ Op(op, o).o = o
           /\ <<Op(op, o)>> \in Seq(StepSet)
<1>1. Op(op, o) \in OpSteps /\ Op(op, o).op = op /\ Op(op, o).o = o
  BY DEF Op, OpSteps
<1>2. Op(op, o) \in StepSet
  BY <1>1 DEF StepSet
<1> QED
  BY <1>1, <1>2

(* Short sequences as longer ones behind their first step. *)
LEMMA TwoSteps ==
    ASSUME NEW a \in StepSet, NEW b \in StepSet
    PROVE  /\ <<a, b>> = <<a>> \o <<b>>
           /\ <<a>> \in Seq(StepSet) /\ <<b>> \in Seq(StepSet) /\ <<a, b>> \in Seq(StepSet)
<1>1. Len(<<a, b>>) = 2 /\ <<a, b>>[1] = a /\ <<a, b>>[2] = b
  OBVIOUS
<1>2. Len(<<a>> \o <<b>>) = 2 /\ (<<a>> \o <<b>>)[1] = a /\ (<<a>> \o <<b>>)[2] = b
  OBVIOUS
<1>3. /\ <<a>> \in Seq(StepSet) /\ <<b>> \in Seq(StepSet)
      /\ <<a, b>> \in Seq(StepSet) /\ <<a>> \o <<b>> \in Seq(StepSet)
  OBVIOUS
<1>4. 1 .. 2 = {1, 2}
  OBVIOUS
<1> QED
  BY <1>1, <1>2, <1>3, <1>4, SeqEqual

LEMMA ThreeSteps ==
    ASSUME NEW a \in StepSet, NEW b \in StepSet, NEW c \in StepSet
    PROVE  /\ <<a, b, c>> = <<a>> \o <<b, c>>
           /\ <<a>> \in Seq(StepSet) /\ <<b, c>> \in Seq(StepSet)
           /\ <<a, b, c>> \in Seq(StepSet)
<1>1. Len(<<a, b, c>>) = 3 /\ <<a, b, c>>[1] = a /\ <<a, b, c>>[2] = b /\ <<a, b, c>>[3] = c
  OBVIOUS
<1>2. /\ Len(<<a>> \o <<b, c>>) = 3 /\ (<<a>> \o <<b, c>>)[1] = a
      /\ (<<a>> \o <<b, c>>)[2] = b /\ (<<a>> \o <<b, c>>)[3] = c
  OBVIOUS
<1>3. /\ <<a>> \in Seq(StepSet) /\ <<b, c>> \in Seq(StepSet)
      /\ <<a, b, c>> \in Seq(StepSet) /\ <<a>> \o <<b, c>> \in Seq(StepSet)
  OBVIOUS
<1>4. 1 .. 3 = {1, 2, 3}
  OBVIOUS
<1> QED
  BY <1>1, <1>2, <1>3, <1>4, SeqEqual

(* The end of a reference to an object that was looked up by name. *)
LEMMA SumsDrop ==
    ASSUME NEW x \in Objects, NEW o \in Objects
    PROVE  /\ Drop(o) \in Seq(StepSet)
           /\ Sums(x, Drop(o), Times(o = x), 0, Times(o = x), 0, 0, 0)
<1> DEFINE a == Op("name", o)
           b == Op("object", o)
<1>1. /\ a \in OpSteps /\ a \in StepSet /\ a.op = "name" /\ a.o = o
      /\ b \in OpSteps /\ b \in StepSet /\ b.op = "object" /\ b.o = o
  BY OpIsStep DEF Weak
<1>2. Drop(o) = <<a, b>>
  BY DEF Drop
<1> HIDE DEF a, b
<1>3. <<a, b>> = <<a>> \o <<b>> /\ <<a>> \in Seq(StepSet) /\ <<b>> \in Seq(StepSet)
  BY <1>1, TwoSteps
<1>4. Sums(x, <<a>>, 0, 0, Times(o = x), 0, 0, 0)
  BY <1>1, SumsOp DEF Times, Sums, Deletion
<1>5. Sums(x, <<b>>, Times(o = x), 0, 0, 0, 0, 0)
  BY <1>1, SumsOp DEF Times, Sums, Deletion
<1> DEFINE n == Times(o = x)
<1>6. n \in Nat
  BY DEF Times
<1> HIDE DEF n
<1>7. Sums(x, <<a>> \o <<b>>, 0 + n, 0 + 0, n + 0, 0 + 0, 0 + 0, 0 + 0)
  BY <1>3, <1>4, <1>5, SumsConcat DEF n
<1>8. Sums(x, Drop(o), 0 + n, 0 + 0, n + 0, 0 + 0, 0 + 0, 0 + 0)
  BY <1>2, <1>3, <1>7, Zenon
<1>10. Sums(x, Drop(o), n, 0, n, 0, 0, 0)
  BY <1>6, <1>8 DEF Sums
<1>9. <<a, b>> \in Seq(StepSet)
  BY <1>1
<1> QED
  BY <1>2, <1>9, <1>10 DEF n

(* A routine goes on: the step at the head is replaced by ops. *)
LEMMA ThenMoves ==
    ASSUME todo \in Todos, NEW t \in Threads, todo[t] # <<>>,
           NEW ops \in Seq(StepSet), Then(t, ops), NEW x,
           NEW r1, NEW c1, NEW n1, NEW d1, NEW i1, NEW q1,
           NEW r2, NEW c2, NEW n2, NEW d2, NEW i2, NEW q2,
           Sums(x, <<Head(todo[t])>>, r1, c1, n1, d1, i1, q1),
           Sums(x, ops, r2, c2, n2, d2, i2, q2)
    PROVE  Moves(x, r2 - r1, c2 - c1, n2 - n1, d2 - d1, i2 - i1, q2 - q1)
<1>1. todo[t] \in Seq(StepSet) /\ todo' = [todo EXCEPT ![t] = ops \o Tail(todo[t])]
  BY DEF Todos, Then
<1>2. /\ Tail(todo[t]) \in Seq(StepSet)
      /\ ops \o Tail(todo[t]) \in Seq(StepSet)
  BY <1>1
<1>3. todo' \in Todos /\ todo'[t] = ops \o Tail(todo[t])
  BY <1>1, <1>2 DEF Todos
<1>4. \A u \in Threads \ {t} : todo'[u] = todo[u]
  BY <1>1 DEF Todos
<1>5. ASSUME NEW M
      PROVE  /\ Among(M)' = Among(M) + (Hits(M, ops) - Hits(M, <<Head(todo[t])>>))
             /\ Among(M) \in Nat /\ Hits(M, ops) \in Nat /\ Hits(M, <<Head(todo[t])>>) \in Nat
  <2>1. Hits(M, todo[t]) = Hits(M, <<Head(todo[t])>>) + Hits(M, Tail(todo[t]))
    BY <1>1, HitsHead, HitsOne
  <2>2. Hits(M, todo'[t]) = Hits(M, ops) + Hits(M, Tail(todo[t]))
    BY <1>2, <1>3, HitsConcat
  <2>3. <<Head(todo[t])>> \in Seq(StepSet)
    BY <1>1, HitsHead
  <2>4. /\ Hits(M, ops) \in Nat /\ Hits(M, Tail(todo[t])) \in Nat
        /\ Hits(M, <<Head(todo[t])>>) \in Nat
    BY <1>2, <2>3, HitsFinite
  <2>5. /\ Among(M) \in Nat
        /\ Among(M)' = Among(M) - Hits(M, todo[t]) + Hits(M, todo'[t])
    BY <1>3, <1>4, AmongChange
  <2> QED
    BY <2>1, <2>2, <2>4, <2>5
<1>7. /\ RefsDue(x)' = RefsDue(x) + (RefsIn(x, ops) - RefsIn(x, <<Head(todo[t])>>))
      /\ NamesDue(x)' = NamesDue(x) + (NamesIn(x, ops) - NamesIn(x, <<Head(todo[t])>>))
  BY <1>5, DueAdd
<1> QED
  BY <1>5, <1>7 DEF Moves, Sums

(* A call begins. *)
LEMMA BeginMoves ==
    ASSUME todo \in Todos, NEW t \in Threads,
           NEW ops \in Seq(StepSet), Begin(t, ops), NEW x,
           NEW r, NEW c, NEW n, NEW d, NEW i, NEW q,
           Sums(x, ops, r, c, n, d, i, q)
    PROVE  Moves(x, r, c, n, d, i, q)
<1>1. todo[t] = <<>> /\ todo' = [todo EXCEPT ![t] = ops]
  BY DEF Begin
<1>2. todo' \in Todos /\ todo'[t] = ops /\ \A u \in Threads \ {t} : todo'[u] = todo[u]
  BY <1>1 DEF Todos
<1>3. ASSUME NEW M
      PROVE  /\ Among(M)' = Among(M) + (Hits(M, ops) - Hits(M, <<>>))
             /\ Among(M) \in Nat /\ Hits(M, ops) \in Nat /\ Hits(M, <<>>) = 0
  <2>1. Hits(M, todo[t]) = 0 /\ Hits(M, <<>>) = 0
    BY <1>1, HitsNone
  <2>2. /\ Among(M) \in Nat /\ Hits(M, todo'[t]) \in Nat
        /\ Among(M)' = Among(M) - Hits(M, todo[t]) + Hits(M, todo'[t])
    BY <1>2, AmongChange
  <2> QED
    BY <1>2, <2>1, <2>2
<1>4. \A M : Hits(M, <<>>) \in Nat
  BY <1>3
<1>5. /\ RefsDue(x)' = RefsDue(x) + (RefsIn(x, ops) - RefsIn(x, <<>>))
      /\ NamesDue(x)' = NamesDue(x) + (NamesIn(x, ops) - NamesIn(x, <<>>))
  BY <1>3, <1>4, DueAdd
<1>6. RefsIn(x, <<>>) = 0 /\ NamesIn(x, <<>>) = 0
  BY SumsNone DEF Sums
<1>7. RefsIn(x, ops) \in Nat /\ NamesIn(x, ops) \in Nat
  BY SumsType
<1>8. RefsDue(x)' = RefsDue(x) + RefsIn(x, ops) /\ NamesDue(x)' = NamesDue(x) + NamesIn(x, ops)
  BY <1>5, <1>6, <1>7
<1>9. \A M : Among(M)' = Among(M) + Hits(M, ops)
  BY <1>3
<1> QED
  BY <1>8, <1>9 DEF Moves, Sums

-----------------------------------------------------------------------------
(* Whom the steps rely on.                                                 *)

(* A handle in the making has a reference to its object: its own, or that  *)
(* of the context or of the caller; and in the end no context.             *)
OwnPointer(s) ==
    /\ s.op \in {"count", "release"} => s.new = NoObject \/ s.o \in {s.context, s.new}
    /\ s.op = "create" => s.context = NoObject

HasObject(s, o) == \E j \in DOMAIN s : s[j] = Op("object", o)

(* Whatever uses an object, b apart, is followed by the step that gives a  *)
(* reference to it back.                                                   *)
Covered(s, b) ==
    \A k \in DOMAIN s : s[k].op \in Weak =>
       \/ s[k].o = b
       \/ \E j \in DOMAIN s : j > k /\ s[j] = Op("object", s[k].o)

(* The steps of s may be done while the objects of L live, if somebody     *)
(* keeps b alive.                                                          *)
Fit(s, L, b) ==
    /\ s \in Seq(StepSet)
    /\ \A k \in DOMAIN s : OwnPointer(s[k]) /\ (s[k].op # "queue" => s[k].o \in L)
    /\ Covered(s, b)

(* What comes first may rely on what comes then. *)
LEMMA FitBefore ==
    ASSUME NEW L, NEW o, NEW b, NEW p, NEW s, Fit(p, L, o), Fit(s, L, b),
           o = b \/ o = NoObject \/ HasObject(s, o)
    PROVE  Fit(p \o s, L, b)
<1> DEFINE n == Len(p)
           m == Len(s)
           l == p \o s
<1>1. /\ n \in Nat /\ m \in Nat
      /\ DOMAIN p = 1 .. n /\ DOMAIN s = 1 .. m
      /\ l \in Seq(StepSet) /\ DOMAIN l = 1 .. n + m
      /\ \A k \in 1 .. n + m : l[k] = IF k <= n THEN p[k] ELSE s[k - n]
  BY DEF Fit
<1> HIDE DEF n, m, l
<1>2. \A k \in 1 .. n : k \in 1 .. n + m /\ l[k] = p[k]
  BY <1>1
<1>3. \A k \in 1 .. m : k + n \in 1 .. n + m /\ l[k + n] = s[k]
  BY <1>1
<1>4. ASSUME NEW k \in 1 .. n + m
      PROVE  \/ k \in 1 .. n /\ l[k] = p[k]
             \/ k - n \in 1 .. m /\ (k - n) + n = k /\ l[k] = s[k - n]
  BY <1>1
<1>5. ASSUME NEW k \in 1 .. n + m
      PROVE  OwnPointer(l[k]) /\ (l[k].op # "queue" => l[k].o \in L)
  BY <1>1, <1>4 DEF Fit
<1>6. ASSUME NEW k \in 1 .. n + m, l[k].op \in Weak, l[k].o # b
      PROVE  \E j \in 1 .. n + m : j > k /\ l[j] = Op("object", l[k].o)
  <2>1. CASE k - n \in 1 .. m /\ (k - n) + n = k /\ l[k] = s[k - n]
    <3> DEFINE i == k - n
    <3>0. i \in 1 .. m /\ i + n = k /\ l[k] = s[i]
      BY <2>1
    <3> HIDE DEF i
    <3>1. PICK j \in 1 .. m : j > i /\ s[j] = Op("object", l[k].o)
      <4>1. \A q \in 1 .. m : s[q].op \in Weak =>
               s[q].o = b \/ \E j \in 1 .. m : j > q /\ s[j] = Op("object", s[q].o)
        BY <1>1 DEF Fit, Covered
      <4>2. s[i].op \in Weak /\ s[i].o # b
        BY <1>6, <3>0
      <4> QED
        BY <3>0, <4>1, <4>2
    <3>2. j + n > k
      BY <1>1, <3>0, <3>1
    <3> QED
      BY <1>3, <3>1, <3>2
  <2>2. CASE k \in 1 .. n /\ l[k] = p[k] /\ l[k].o # o
    <3>1. PICK j \in 1 .. n : j > k /\ p[j] = Op("object", l[k].o)
      BY <1>1, <1>6, <2>2 DEF Fit, Covered
    <3> QED
      BY <1>2, <3>1
  <2>3. CASE k \in 1 .. n /\ l[k] = p[k] /\ l[k].o = o
    <3>1. l[k].o # NoObject
      <4>1. l[k] \in StepSet
        BY <1>1
      <4>2. l[k].o \in Objects
        BY <4>1 DEF StepSet, OpSteps, HandleSteps
      <4> QED
        BY <4>2, ConstantsAssumption
    <3>2. HasObject(s, o)
      BY <1>6, <2>3, <3>1
    <3>3. PICK j \in 1 .. m : s[j] = Op("object", o)
      BY <1>1, <3>2 DEF HasObject
    <3>4. j + n > k
      BY <1>1, <2>3, <3>3
    <3> QED
      BY <1>3, <2>3, <3>3, <3>4
  <2> QED
    BY <1>4, <2>1, <2>2, <2>3
<1>7. Fit(l, L, b)
  BY <1>1, <1>5, <1>6 DEF Fit, Covered
<1> QED
  BY <1>7 DEF l

LEMMA FitNone == \A L, b : Fit(<<>>, L, b)
<1>1. <<>> \in Seq(StepSet) /\ DOMAIN <<>> = {}
  OBVIOUS
<1> QED
  BY <1>1 DEF Fit, Covered

LEMMA FitOne ==
    ASSUME NEW L, NEW b, NEW s \in StepSet, OwnPointer(s), s.op # "queue" => s.o \in L,
           s.op \in Weak => s.o = b
    PROVE  Fit(<<s>>, L, b)
<1>1. <<s>> \in Seq(StepSet) /\ DOMAIN <<s>> = {1} /\ <<s>>[1] = s
  OBVIOUS
<1> QED
  BY <1>1 DEF Fit, Covered

LEMMA FitOp ==
    ASSUME NEW L, NEW b, NEW o \in Objects,
           NEW op \in Weak \cup Deletion \cup {"object", "insert", "queue"},
           op # "queue" => o \in L, op \in Weak => o = b
    PROVE  Fit(<<Op(op, o)>>, L, b)
<1>1. Op(op, o) \in StepSet /\ Op(op, o).op = op /\ Op(op, o).o = o
  BY OpIsStep
<1>2. OwnPointer(Op(op, o))
  BY <1>1 DEF OwnPointer, Weak, Deletion
<1> QED
  BY <1>1, <1>2, FitOne

(* A step that uses an object, and then a reference to it is given back. *)
LEMMA FitWeak ==
    ASSUME NEW L \in SUBSET Objects, NEW b, NEW o \in L, NEW op \in Weak
    PROVE  /\ Fit(<<Op(op, o), Op("object", o)>>, L, b)
           /\ HasObject(<<Op(op, o), Op("object", o)>>, o)
           /\ <<Op(op, o), Op("object", o)>> = <<Op(op, o)>> \o <<Op("object", o)>>
<1>1. Fit(<<Op(op, o)>>, L, o)
  BY FitOp
<1>2. Fit(<<Op("object", o)>>, L, b)
  BY FitOp DEF Weak
<1>3. HasObject(<<Op("object", o)>>, o)
  BY DEF HasObject
<1>4. Fit(<<Op(op, o)>> \o <<Op("object", o)>>, L, b)
  BY <1>1, <1>2, <1>3, FitBefore
<1>5. Op(op, o) \in StepSet /\ Op("object", o) \in StepSet
  BY OpIsStep
<1>6. <<Op(op, o), Op("object", o)>> = <<Op(op, o)>> \o <<Op("object", o)>>
  BY <1>5, TwoSteps
<1>7. HasObject(<<Op(op, o), Op("object", o)>>, o)
  <2>1. /\ DOMAIN <<Op(op, o), Op("object", o)>> = 1 .. 2
        /\ <<Op(op, o), Op("object", o)>>[2] = Op("object", o)
    OBVIOUS
  <2> QED
    BY <2>1 DEF HasObject
<1> QED
  BY <1>4, <1>6, <1>7, Zenon

LEMMA FitDrop ==
    ASSUME NEW L \in SUBSET Objects, NEW b, NEW o \in L
    PROVE  Fit(Drop(o), L, b) /\ HasObject(Drop(o), o)
BY FitWeak DEF Drop, Weak

(* The rest of a sequence, and more objects. *)
LEMMA FitTail ==
    ASSUME NEW L, NEW s, Fit(s, L, NoObject), s # <<>>
    PROVE  /\ Fit(Tail(s), L, NoObject)
           /\ Head(s) \in StepSet /\ OwnPointer(Head(s))
           /\ Head(s).op # "queue" => Head(s).o \in L
           /\ Head(s).op \in Weak => HasObject(Tail(s), Head(s).o)
<1> DEFINE n == Len(s)
           l == Tail(s)
           h == Head(s)
<1>1. /\ n \in Nat /\ n >= 1 /\ DOMAIN s = 1 .. n /\ h = s[1] /\ s \in Seq(StepSet)
      /\ l \in Seq(StepSet) /\ DOMAIN l = 1 .. n - 1 /\ \A k \in 1 .. n - 1 : l[k] = s[k + 1]
  BY DEF Fit
<1> HIDE DEF n, l, h
<1>2. h \in StepSet /\ OwnPointer(h) /\ (h.op # "queue" => h.o \in L) /\ 1 \in 1 .. n
  BY <1>1 DEF Fit
<1>3. \A k \in 1 .. n - 1 : k + 1 \in 1 .. n
  BY <1>1
<1>4. ASSUME NEW k \in 1 .. n, s[k].op \in Weak
      PROVE  \E j \in 1 .. n - 1 : j + 1 > k /\ l[j] = Op("object", s[k].o)
  <2>1. s[k].o # NoObject
    <3>1. s[k].o \in Objects
      BY <1>1 DEF StepSet, OpSteps, HandleSteps
    <3> QED
      BY <3>1, ConstantsAssumption
  <2>2. PICK j \in 1 .. n : j > k /\ s[j] = Op("object", s[k].o)
    BY <1>1, <1>4, <2>1 DEF Fit, Covered
  <2>3. j - 1 \in 1 .. n - 1 /\ (j - 1) + 1 = j
    BY <1>1, <2>2
  <2> QED
    BY <1>1, <2>2, <2>3
<1>5. h.op \in Weak => HasObject(l, h.o)
  BY <1>1, <1>2, <1>4 DEF HasObject
<1>6. ASSUME NEW k \in 1 .. n - 1
      PROVE  OwnPointer(l[k]) /\ (l[k].op # "queue" => l[k].o \in L)
  BY <1>1, <1>3 DEF Fit
<1>7. ASSUME NEW k \in 1 .. n - 1, l[k].op \in Weak
      PROVE  \E j \in 1 .. n - 1 : j > k /\ l[j] = Op("object", l[k].o)
  <2>1. PICK j \in 1 .. n - 1 : j + 1 > k + 1 /\ l[j] = Op("object", s[k + 1].o)
    BY <1>1, <1>3, <1>4, <1>7
  <2>2. j > k
    BY <1>1, <2>1
  <2> QED
    BY <1>1, <2>1, <2>2
<1>8. Fit(l, L, NoObject)
  BY <1>1, <1>6, <1>7 DEF Fit, Covered
<1> QED
  BY <1>2, <1>5, <1>8 DEF l, h

LEMMA FitMore ==
    ASSUME NEW L, NEW K, L \subseteq K, NEW s, NEW b, Fit(s, L, b)
    PROVE  Fit(s, K, b)
BY DEF Fit

(* So what the threads have to do stays fit. *)
LEMMA ThenFit ==
    ASSUME todo \in Todos, NEW L, NEW K, L \subseteq K, NEW t \in Threads, todo[t] # <<>>,
           NEW ops, Then(t, ops), NEW b, Fit(ops, K, b),
           \A u \in Threads : Fit(todo[u], L, NoObject),
           b = NoObject \/ (Head(todo[t]).op \in Weak /\ b = Head(todo[t]).o)
    PROVE  todo' \in Todos /\ \A u \in Threads : Fit(todo'[u], K, NoObject)
<1> DEFINE l == Tail(todo[t])
<1>1. todo' = [todo EXCEPT ![t] = ops \o l]
  BY DEF Then, Todos
<1>2. Fit(l, L, NoObject) /\ (b # NoObject => HasObject(l, b))
  BY FitTail
<1>3. Fit(l, K, NoObject)
  BY <1>2, FitMore
<1>4. Fit(ops \o l, K, NoObject)
  BY <1>2, <1>3, FitBefore
<1>5. ops \o l \in Seq(StepSet)
  BY <1>4 DEF Fit
<1> HIDE DEF l
<1>6. todo' \in Todos /\ todo'[t] = ops \o l /\ \A u \in Threads \ {t} : todo'[u] = todo[u]
  BY <1>1, <1>5 DEF Todos
<1>7. \A u \in Threads : Fit(todo[u], K, NoObject)
  BY FitMore
<1> QED
  BY <1>4, <1>6, <1>7

LEMMA BeginFit ==
    ASSUME todo \in Todos, NEW L, NEW K, L \subseteq K, NEW t \in Threads,
           NEW ops, Begin(t, ops), Fit(ops, K, NoObject),
           \A u \in Threads : Fit(todo[u], L, NoObject)
    PROVE  todo' \in Todos /\ \A u \in Threads : Fit(todo'[u], K, NoObject)
<1>1. todo' = [todo EXCEPT ![t] = ops] /\ ops \in Seq(StepSet)
  BY DEF Begin, Fit
<1>2. todo' \in Todos /\ todo'[t] = ops /\ \A u \in Threads \ {t} : todo'[u] = todo[u]
  BY <1>1 DEF Todos
<1>3. \A u \in Threads : Fit(todo[u], K, NoObject)
  BY FitMore
<1> QED
  BY <1>2, <1>3

-----------------------------------------------------------------------------
(* The steps of ObpCreateHandle.                                           *)

LEMMA ContextPiece ==
    ASSUME NEW c \in Bodies
    PROVE  /\ ReleaseContext(c) \in Seq(StepSet)
           /\ \A x \in Objects :
                 Sums(x, ReleaseContext(c), Times(c = x), 0, Times(c = x), 0, 0, 0)
           /\ \A L \in SUBSET Objects : \A b :
                 c = NoObject \/ c \in L => Fit(ReleaseContext(c), L, b)
<1>1. CASE c = NoObject
  <2>1. ReleaseContext(c) = <<>> /\ <<>> \in Seq(StepSet)
    BY <1>1 DEF ReleaseContext
  <2>2. \A x \in Objects : Times(c = x) = 0
    BY <1>1, ConstantsAssumption DEF Times
  <2> QED
    BY <2>1, <2>2, SumsNone, FitNone
<1>2. CASE c # NoObject
  <2>1. ReleaseContext(c) = Drop(c) /\ c \in Objects
    BY <1>2 DEF ReleaseContext, Bodies
  <2>2. Drop(c) \in Seq(StepSet)
    BY <2>1, SumsDrop
  <2>3. \A x \in Objects : Sums(x, Drop(c), Times(c = x), 0, Times(c = x), 0, 0, 0)
    BY <2>1, SumsDrop
  <2>4. \A L \in SUBSET Objects : \A b : c \in L => Fit(Drop(c), L, b)
    BY FitDrop
  <2> QED
    BY <1>2, <2>1, <2>2, <2>3, <2>4
<1> QED
  BY <1>1, <1>2

LEMMA InsertedPiece ==
    ASSUME NEW c \in Bodies
    PROVE  Inserted(c) = ReleaseContext(c)
BY DEF Inserted, ReleaseContext

(* The last step of a reference. *)
LEMMA ObjectPiece ==
    ASSUME NEW o \in Objects
    PROVE  /\ <<Op("object", o)>> \in Seq(StepSet)
           /\ \A x \in Objects : Sums(x, <<Op("object", o)>>, Times(o = x), 0, 0, 0, 0, 0)
           /\ \A L \in SUBSET Objects : \A b : o \in L => Fit(<<Op("object", o)>>, L, b)
           /\ HasObject(<<Op("object", o)>>, o)
<1>1. /\ Op("object", o) \in OpSteps /\ Op("object", o).op = "object"
      /\ Op("object", o).o = o /\ <<Op("object", o)>> \in Seq(StepSet)
  BY OpIsStep
<1>2. ASSUME NEW x \in Objects PROVE Sums(x, <<Op("object", o)>>, Times(o = x), 0, 0, 0, 0, 0)
  BY <1>1, SumsOp DEF Times, Sums, Deletion
<1>3. ASSUME NEW L \in SUBSET Objects, NEW b, o \in L PROVE Fit(<<Op("object", o)>>, L, b)
  BY <1>3, FitOp DEF Weak
<1>4. HasObject(<<Op("object", o)>>, o)
  BY DEF HasObject
<1> QED
  BY <1>1, <1>2, <1>3, <1>4

(* A step that neither is a reference nor counts for anything but itself. *)
LEMMA WeakPiece ==
    ASSUME NEW op \in Weak, NEW o \in Objects
    PROVE  /\ <<Op(op, o)>> \in Seq(StepSet)
           /\ \A x \in Objects :
                 Sums(x, <<Op(op, o)>>, 0, Times(op = "uncount" /\ o = x),
                      Times(op \in {"name", "lookup"} /\ o = x), 0, 0, 0)
           /\ \A L \in SUBSET Objects : o \in L => Fit(<<Op(op, o)>>, L, o)
<1>1. /\ Op(op, o) \in OpSteps /\ Op(op, o).op = op
      /\ Op(op, o).o = o /\ <<Op(op, o)>> \in Seq(StepSet)
  BY OpIsStep
<1>2. ASSUME NEW x \in Objects
      PROVE  Sums(x, <<Op(op, o)>>, 0, Times(op = "uncount" /\ o = x),
                      Times(op \in {"name", "lookup"} /\ o = x), 0, 0, 0)
  BY <1>1, SumsOp DEF Times, Sums, Deletion, Weak
<1>3. ASSUME NEW L \in SUBSET Objects, o \in L PROVE Fit(<<Op(op, o)>>, L, o)
  BY <1>3, FitOp DEF Weak
<1> QED
  BY <1>1, <1>2, <1>3

(* Two pieces, one behind the other. *)
LEMMA PieceConcat ==
    ASSUME NEW a \in Seq(StepSet), NEW b \in Seq(StepSet), NEW x,
           NEW r1 \in Nat, NEW c1 \in Nat, NEW n1 \in Nat,
           NEW r2 \in Nat, NEW c2 \in Nat, NEW n2 \in Nat,
           Sums(x, a, r1, c1, n1, 0, 0, 0), Sums(x, b, r2, c2, n2, 0, 0, 0)
    PROVE  /\ a \o b \in Seq(StepSet)
           /\ Sums(x, a \o b, r1 + r2, c1 + c2, n1 + n2, 0, 0, 0)
<1> DEFINE l == a \o b
<1>1. l \in Seq(StepSet) /\ Sums(x, l, r1 + r2, c1 + c2, n1 + n2, 0 + 0, 0 + 0, 0 + 0)
  BY SumsConcat
<1> HIDE DEF l
<1>2. Sums(x, l, r1 + r2, c1 + c2, n1 + n2, 0, 0, 0)
  BY <1>1 DEF Sums
<1> QED
  BY <1>1, <1>2 DEF l

LEMMA TimesType == \A b : Times(b) \in Nat
BY DEF Times

(* What the caller does when there is no handle. *)
LEMMA NotInsertedPiece ==
    ASSUME NEW h \in HandleSteps
    PROVE  /\ NotInserted(h) \in Seq(StepSet)
           /\ \A x \in Objects :
                 Sums(x, NotInserted(h), Times(h.new = x) + Times(h.new = NoObject /\ h.o = x),
                      0, Times(h.new = x), 0, 0, 0)
           /\ \A L \in SUBSET Objects : \A b :
                 h.o \in L /\ (h.new = NoObject \/ h.new \in L) => Fit(NotInserted(h), L, b)
<1>1. h.o \in Objects /\ h.new \in Bodies
  BY DEF HandleSteps
<1>2. CASE h.new = NoObject
  <2>1. NotInserted(h) = <<Op("object", h.o)>>
    BY <1>2 DEF NotInserted
  <2>2. \A x \in Objects : /\ Times(h.new = x) = 0
                           /\ Times(h.new = NoObject /\ h.o = x) = Times(h.o = x)
                           /\ Times(h.o = x) \in Nat
    BY <1>2, ConstantsAssumption DEF Times
  <2>3. \A x \in Objects : Times(h.new = x) + Times(h.new = NoObject /\ h.o = x) = Times(h.o = x)
    BY <2>2
  <2>4. ASSUME NEW x \in Objects
        PROVE  Sums(x, NotInserted(h), Times(h.new = x) + Times(h.new = NoObject /\ h.o = x),
                       0, Times(h.new = x), 0, 0, 0)
    <3>1. Sums(x, <<Op("object", h.o)>>, Times(h.o = x), 0, 0, 0, 0, 0)
      BY <1>1, ObjectPiece
    <3> QED
      BY <2>1, <2>2, <2>3, <3>1
  <2> QED
    BY <1>1, <1>2, <2>1, <2>4, ObjectPiece
<1>3. CASE h.new # NoObject
  <2> DEFINE new == h.new
             a == <<Op("check", new)>>
             d == Drop(new)
  <2>1. new \in Objects /\ NotInserted(h) = a \o d
    BY <1>1, <1>3 DEF NotInserted, Bodies
  <2>2. a \in Seq(StepSet) /\ d \in Seq(StepSet)
    BY <2>1, WeakPiece, SumsDrop DEF Weak
  <2>3. ASSUME NEW x \in Objects
        PROVE  Sums(x, a \o d, Times(new = x), 0, Times(new = x), 0, 0, 0)
    <3>1. Sums(x, a, 0, 0, 0, 0, 0, 0)
      <4>1. Sums(x, a, 0, Times("check" = "uncount" /\ new = x),
                    Times("check" \in {"name", "lookup"} /\ new = x), 0, 0, 0)
        BY <2>1, WeakPiece DEF Weak
      <4>2. /\ Times("check" = "uncount" /\ new = x) = 0
            /\ Times("check" \in {"name", "lookup"} /\ new = x) = 0
        BY DEF Times
      <4> QED
        BY <4>1, <4>2
    <3>2. Sums(x, d, Times(new = x), 0, Times(new = x), 0, 0, 0)
      BY <2>1, SumsDrop
    <3> DEFINE n == Times(new = x)
    <3>3. n \in Nat
      BY TimesType
    <3> HIDE DEF n, a, d, new
    <3>4. Sums(x, a \o d, 0 + n, 0 + 0, 0 + n, 0, 0, 0)
      BY <2>2, <3>1, <3>2, <3>3, PieceConcat DEF n
    <3>5. 0 + n = n /\ 0 + 0 = 0
      BY <3>3
    <3>6. Sums(x, a \o d, n, 0, n, 0, 0, 0)
      BY <3>4, <3>5, Zenon
    <3> QED
      BY <3>6 DEF n
  <2>4. ASSUME NEW L \in SUBSET Objects, NEW b, new \in L PROVE Fit(a \o d, L, b)
    <3>1. Fit(a, L, new)
      BY <2>1, <2>4, WeakPiece DEF Weak
    <3>2. Fit(d, L, b) /\ HasObject(d, new)
      BY <2>4, FitDrop
    <3> QED
      BY <3>1, <3>2, FitBefore
  <2>5. \A x \in Objects : Times(h.new = x) + Times(h.new = NoObject /\ h.o = x) = Times(new = x)
    BY <1>3 DEF Times
  <2>6. a \o d \in Seq(StepSet)
    BY <2>2
  <2> HIDE DEF a, d
  <2>7. ASSUME NEW x \in Objects
        PROVE  Sums(x, NotInserted(h), Times(h.new = x) + Times(h.new = NoObject /\ h.o = x),
                       0, Times(h.new = x), 0, 0, 0)
    <3>1. Sums(x, a \o d, Times(new = x), 0, Times(new = x), 0, 0, 0)
      BY <2>3
    <3>2. Times(h.new = x) + Times(h.new = NoObject /\ h.o = x) = Times(new = x)
      BY <2>5
    <3> QED
      BY <2>1, <3>1, <3>2, Zenon
  <2> QED
    BY <1>3, <2>1, <2>4, <2>6, <2>7
<1> QED
  BY <1>2, <1>3

(* What is to be done when ExCreateHandle fails. *)
LEMMA BackOutPiece ==
    ASSUME NEW h \in HandleSteps
    PROVE  LET ops == BackOut(h) \o NotInserted(h)
           IN  /\ ops \in Seq(StepSet)
               /\ \A x \in Objects :
                     Sums(x, ops, Times(h.o = x) + Times(h.new = x), Times(h.o = x),
                          Times(h.new = x), 0, 0, 0)
               /\ \A L \in SUBSET Objects :
                     h.o \in L /\ (h.new = NoObject \/ h.new \in L) => Fit(ops, L, NoObject)
<1> DEFINE a == <<Op("uncount", h.o)>>
           d == DropAdditional(h)
           e == NotInserted(h)
           ops == (a \o d) \o e
<1>1. h.o \in Objects /\ h.new \in Bodies
  BY DEF HandleSteps
<1>2. BackOut(h) \o NotInserted(h) = ops
  BY DEF BackOut
<1>3. /\ a \in Seq(StepSet)
      /\ \A x \in Objects : Sums(x, a, 0, Times(h.o = x), 0, 0, 0, 0)
      /\ \A L \in SUBSET Objects : h.o \in L => Fit(a, L, h.o)
  <2>1. \A x \in Objects : Sums(x, a, 0, Times("uncount" = "uncount" /\ h.o = x),
                                 Times("uncount" \in {"name", "lookup"} /\ h.o = x), 0, 0, 0)
    BY <1>1, WeakPiece DEF Weak
  <2>2. \A x : /\ Times("uncount" = "uncount" /\ h.o = x) = Times(h.o = x)
               /\ Times("uncount" \in {"name", "lookup"} /\ h.o = x) = 0
    BY DEF Times
  <2>3. \A x \in Objects : Sums(x, a, 0, Times(h.o = x), 0, 0, 0, 0)
    BY <2>1, <2>2
  <2> QED
    BY <1>1, <2>3, WeakPiece DEF Weak
<1>4. /\ d \in Seq(StepSet)
      /\ \A x \in Objects : Sums(x, d, Times(h.new # NoObject /\ h.o = x), 0, 0, 0, 0, 0)
      /\ \A L \in SUBSET Objects : h.o \in L => Fit(d, L, h.o) /\ Fit(d, L, NoObject)
  <2>1. CASE h.new = NoObject
    <3>1. d = <<>> /\ <<>> \in Seq(StepSet)
      BY <2>1 DEF DropAdditional
    <3>2. \A x \in Objects : Times(h.new # NoObject /\ h.o = x) = 0
      BY <2>1 DEF Times
    <3> HIDE DEF d
    <3> QED
      BY <3>1, <3>2, SumsNone, FitNone
  <2>2. CASE h.new # NoObject
    <3>1. d = <<Op("object", h.o)>>
      BY <2>2 DEF DropAdditional
    <3>2. \A x \in Objects : Times(h.new # NoObject /\ h.o = x) = Times(h.o = x)
      BY <2>2 DEF Times
    <3> HIDE DEF d
    <3> QED
      BY <1>1, <3>1, <3>2, ObjectPiece
  <2> QED
    BY <2>1, <2>2
<1>5. /\ e \in Seq(StepSet)
      /\ \A x \in Objects :
            Sums(x, e, Times(h.new = x) + Times(h.new = NoObject /\ h.o = x),
                 0, Times(h.new = x), 0, 0, 0)
  BY NotInsertedPiece
<1>6. ASSUME NEW L \in SUBSET Objects, h.o \in L, h.new = NoObject \/ h.new \in L
      PROVE  Fit(ops, L, NoObject)
  <2>1. CASE h.new = NoObject
    <3>1. Fit(a \o d, L, h.o)
      BY <1>3, <1>4, <1>6, FitBefore
    <3>2. e = <<Op("object", h.o)>>
      BY <2>1 DEF NotInserted
    <3>3. Fit(e, L, NoObject) /\ HasObject(e, h.o)
      BY <1>1, <1>6, <3>2, ObjectPiece
    <3> QED
      BY <3>1, <3>3, FitBefore
  <2>2. CASE h.new # NoObject
    <3>1. d = <<Op("object", h.o)>>
      BY <2>2 DEF DropAdditional
    <3>2. HasObject(d, h.o)
      BY <1>1, <3>1, ObjectPiece
    <3>3. Fit(a \o d, L, NoObject)
      BY <1>3, <1>4, <1>6, <3>2, FitBefore
    <3>4. Fit(e, L, NoObject)
      BY <1>6, NotInsertedPiece
    <3> QED
      BY <3>3, <3>4, FitBefore
  <2> QED
    BY <2>1, <2>2
<1>7. ASSUME NEW x \in Objects
      PROVE  /\ ops \in Seq(StepSet)
             /\ Sums(x, ops, Times(h.o = x) + Times(h.new = x), Times(h.o = x),
                        Times(h.new = x), 0, 0, 0)
  <2> DEFINE p == Times(h.o = x)
             q == Times(h.new # NoObject /\ h.o = x)
             r == Times(h.new = x)
             s == Times(h.new = NoObject /\ h.o = x)
  <2>1. p \in Nat /\ q \in Nat /\ r \in Nat /\ s \in Nat /\ q + s = p
    BY DEF Times
  <2>2. Sums(x, a, 0, p, 0, 0, 0, 0) /\ Sums(x, d, q, 0, 0, 0, 0, 0)
    BY <1>3, <1>4
  <2>3. Sums(x, e, r + s, 0, r, 0, 0, 0)
    BY <1>5
  <2> HIDE DEF a, d, e, p, q, r, s
  <2>4. a \o d \in Seq(StepSet) /\ Sums(x, a \o d, 0 + q, p + 0, 0 + 0, 0, 0, 0)
    BY <1>3, <1>4, <2>1, <2>2, PieceConcat
  <2>5. 0 + q \in Nat /\ p + 0 \in Nat /\ 0 + 0 \in Nat /\ r + s \in Nat
    BY <2>1
  <2>6. /\ ops \in Seq(StepSet)
        /\ Sums(x, ops, (0 + q) + (r + s), (p + 0) + 0, (0 + 0) + r, 0, 0, 0)
    BY <1>5, <2>3, <2>4, <2>1, <2>5, PieceConcat
  <2>7. (0 + q) + (r + s) = p + r /\ (p + 0) + 0 = p /\ (0 + 0) + r = r
    BY <2>1
  <2> HIDE DEF ops
  <2>8. Sums(x, ops, p + r, p, r, 0, 0, 0)
    BY <2>6, <2>7, Zenon
  <2> QED
    BY <2>6, <2>8 DEF p, r
<1>8. ops \in Seq(StepSet)
  BY <1>3, <1>4, <1>5
<1> HIDE DEF ops
<1> QED
  BY <1>2, <1>6, <1>7, <1>8, Zenon

-----------------------------------------------------------------------------
(* The inductive invariant.                                                *)

Headers == [live : BOOLEAN, PointerCount : Int, HandleCount : Int,
            QueryReferences : Int, Directory : BOOLEAN, Permanent : BOOLEAN]

Live == {x \in Objects : header[x].live}

LifeTypes ==
    /\ header \in [Objects -> Headers]
    /\ directory \in SUBSET Objects
    /\ handles \in [Objects -> Nat]
    /\ leaked \in [Objects -> Nat]
    /\ todo \in Todos
    /\ ReaperList \in [items : Seq(Objects), end : {0, 1}]
    /\ queued \in Nat
    /\ reaper \in {"idle", "take", "delete", "check"}
    /\ reaping \in Seq(Objects)

FitInv == \A t \in Threads : Fit(todo[t], Live, NoObject)

(* The counts of one object; and there is at most one thread that is to    *)
(* insert it, before its name has a directory.                             *)
RefsInv(x) == header[x].PointerCount =
                 handles[x] + Times(x \in directory) + leaked[x] + RefsDue(x)

HandlesInv(x) == header[x].HandleCount = handles[x] + Among(Counted(x))

DeleteInv(x) == Times(header[x].live /\ header[x].PointerCount = 0) =
                   Among(Deleting(x)) + Hits({x}, ReaperList.items) + Hits({x}, reaping)

InsertInv(x) == /\ Among(Inserting(x)) <= 1
                /\ Among(Inserting(x)) = 1 => x \notin directory /\ ~ header[x].Directory

ObjectInv(x) == /\ RefsInv(x) /\ HandlesInv(x) /\ DeleteInv(x) /\ InsertInv(x)
                /\ ~ header[x].live => header[x] = None

(* Its name, when no other object has it. *)
NameInv(x) ==
    /\ header[x].QueryReferences =
          Times(x \in directory \/ (header[x].QueryReferences > 0 /\ ~ header[x].Directory))
          + NamesDue(x)
    /\ header[x].PointerCount = 0 => ~ header[x].Directory
    /\ header[x].Directory => header[x].QueryReferences > 0
    /\ x \in directory => header[x].Directory

NamesInv == used # Objects => \A x \in Objects : NameInv(x)

AloneInv == used # Objects => Live \subseteq used /\ \E y : used = {y}

(* The reaper. *)
QueueInv ==
    /\ queued + Times(reaper # "idle") + Among(Queueing)
          = Times(ReaperList # [items |-> <<>>, end |-> 0])
    /\ reaper = "idle" => ReaperList.end = 0
    /\ reaper = "take" => ReaperList.items # <<>>
    /\ reaper \in {"delete", "check"} => ReaperList.end = 1
    /\ reaper = "delete" <=> reaping # <<>>

LifeInv == /\ LifeTypes /\ FitInv
           /\ \A x \in Objects : ObjectInv(x)
           /\ NamesInv /\ AloneInv /\ QueueInv

-----------------------------------------------------------------------------
(* What the invariant says of one object and of one step.                  *)

LEMMA Numbers ==
    ASSUME LifeTypes, NEW x \in Objects
    PROVE  /\ header[x] \in Headers
           /\ header[x].PointerCount \in Int /\ header[x].HandleCount \in Int
           /\ header[x].QueryReferences \in Int
           /\ header[x].live \in BOOLEAN /\ header[x].Directory \in BOOLEAN
           /\ handles[x] \in Nat /\ leaked[x] \in Nat
           /\ RefsDue(x) \in Nat /\ NamesDue(x) \in Nat
           /\ Among(Counted(x)) \in Nat /\ Among(Deleting(x)) \in Nat
           /\ Among(Inserting(x)) \in Nat /\ Among(Queueing) \in Nat
           /\ Hits({x}, ReaperList.items) \in Nat /\ Hits({x}, reaping) \in Nat
<1>1. todo \in Todos
  BY DEF LifeTypes
<1>2. \A M : Among(M) \in Nat
  BY <1>1, AmongLeast
<1>3. RefsDue(x) \in Nat /\ NamesDue(x) \in Nat
  BY <1>2 DEF RefsDue, NamesDue
<1>4. ReaperList.items \in Seq(Objects) /\ reaping \in Seq(Objects)
  BY DEF LifeTypes
<1>5. Hits({x}, ReaperList.items) \in Nat /\ Hits({x}, reaping) \in Nat
  BY <1>4, HitsFinite
<1>6. /\ header[x] \in Headers
      /\ header[x].PointerCount \in Int /\ header[x].HandleCount \in Int
      /\ header[x].QueryReferences \in Int
      /\ header[x].live \in BOOLEAN /\ header[x].Directory \in BOOLEAN
      /\ handles[x] \in Nat /\ leaked[x] \in Nat
  BY DEF LifeTypes, Headers
<1> QED
  BY <1>2, <1>3, <1>5, <1>6

(* What keeps an object alive. *)
LEMMA KeptAlive ==
    ASSUME LifeInv, NEW x \in Objects
    PROVE  /\ header[x].PointerCount \in Nat
           /\ header[x].PointerCount >= 1 => x \in Live
           /\ x \in directory \/ handles[x] > 0 \/ RefsDue(x) >= 1 => header[x].PointerCount >= 1
<1>1. ObjectInv(x) /\ LifeTypes
  BY DEF LifeInv
<1>2. /\ header[x].PointerCount \in Int /\ handles[x] \in Nat /\ leaked[x] \in Nat
      /\ RefsDue(x) \in Nat /\ Times(x \in directory) \in Nat
      /\ x \in directory => Times(x \in directory) = 1
  BY <1>1, Numbers DEF Times
<1>3. header[x].PointerCount = handles[x] + Times(x \in directory) + leaked[x] + RefsDue(x)
  BY <1>1 DEF ObjectInv, RefsInv
<1>4. ~ header[x].live => header[x].PointerCount = 0
  BY <1>1 DEF ObjectInv, None
<1> QED
  BY <1>2, <1>3, <1>4 DEF Live

(* A step that refers to an object, by itself or by a later one. *)
LEMMA StepKeeps ==
    ASSUME LifeInv, NEW t \in Threads, NEW k \in DOMAIN todo[t]
    PROVE  LET s == todo[t][k]
           IN  /\ s \in StepSet /\ s.o \in Objects
               /\ s.op \notin Deletion \cup {"queue"} =>
                     RefsDue(s.o) >= 1 /\ header[s.o].PointerCount >= 1 /\ s.o \in Live
               /\ s.op \in HandleOps =>
                     /\ s \in HandleSteps
                     /\ s.context # NoObject =>
                           s.context \in Objects /\ RefsDue(s.context) >= 1 /\ s.context \in Live
                     /\ s.new # NoObject =>
                           s.new \in Objects /\ RefsDue(s.new) >= 1 /\ s.new \in Live
<1> DEFINE s == todo[t][k]
<1>1. LifeTypes /\ todo \in Todos /\ Fit(todo[t], Live, NoObject)
  BY DEF LifeInv, LifeTypes, FitInv
<1>2. todo[t] \in Seq(StepSet) /\ s \in StepSet
  BY <1>1 DEF Todos
<1>3. s.o \in Objects /\ s.o # NoObject
  BY <1>2, ConstantsAssumption DEF StepSet, OpSteps, HandleSteps
<1>4. \A M : /\ Among(M) \in Nat
             /\ \A j \in DOMAIN todo[t] : todo[t][j] \in M => Among(M) >= 1
  BY <1>1, AmongLeast
<1>5. ASSUME NEW x \in Objects, NEW j \in DOMAIN todo[t],
             todo[t][j] \in Points(x) \cup InContext(x) \cup IsNew(x) \cup ForHandle(x)
      PROVE  RefsDue(x) >= 1
  <2>1. /\ Among(Points(x)) \in Nat /\ Among(InContext(x)) \in Nat
        /\ Among(IsNew(x)) \in Nat /\ Among(ForHandle(x)) \in Nat
    BY <1>4
  <2>2. \/ Among(Points(x)) >= 1 \/ Among(InContext(x)) >= 1
        \/ Among(IsNew(x)) >= 1 \/ Among(ForHandle(x)) >= 1
    BY <1>4, <1>5
  <2> QED
    BY <2>1, <2>2 DEF RefsDue
<1>6. OwnPointer(s)
  BY <1>1 DEF Fit
<1> HIDE DEF s
<1>7. CASE s.op \in {"object", "insert"}
  <2>1. s \in Points(s.o)
    BY <1>2, <1>3, <1>7 DEF Points, StepSet, HandleSteps, HandleOps
  <2>2. RefsDue(s.o) >= 1
    BY <1>3, <1>5, <2>1 DEF s
  <2> QED
    BY <1>2, <1>3, <1>7, <2>2, KeptAlive DEF HandleOps, s
<1>8. CASE s.op \in Weak
  <2>1. PICK j \in DOMAIN todo[t] : todo[t][j] = Op("object", s.o)
    BY <1>1, <1>3, <1>8 DEF Fit, Covered, s
  <2>2. /\ Op("object", s.o) \in OpSteps
        /\ Op("object", s.o).op = "object"
        /\ Op("object", s.o).o = s.o
    BY <1>3, OpIsStep
  <2>3. todo[t][j] \in Points(s.o)
    BY <2>1, <2>2 DEF Points
  <2>4. RefsDue(s.o) >= 1
    BY <1>3, <1>5, <2>3
  <2> QED
    BY <1>2, <1>3, <1>8, <2>4, KeptAlive DEF HandleOps, Weak, s
<1>9. CASE s.op \in HandleOps
  <2>1. s \in HandleSteps
    BY <1>2, <1>9 DEF StepSet, OpSteps, HandleOps, Weak, Deletion
  <2>2. s.context \in Bodies /\ s.new \in Bodies /\ s.op \in HandleOps
    BY <2>1 DEF HandleSteps
  <2>3. ASSUME s.context # NoObject
        PROVE  s.context \in Objects /\ RefsDue(s.context) >= 1 /\ s.context \in Live
    <3>1. s.context \in Objects
      BY <2>2, <2>3 DEF Bodies
    <3>2. s \in InContext(s.context)
      BY <2>1 DEF InContext
    <3>3. RefsDue(s.context) >= 1
      BY <1>5, <3>1, <3>2 DEF s
    <3> QED
      BY <3>1, <3>3, KeptAlive
  <2>4. ASSUME s.new # NoObject
        PROVE  s.new \in Objects /\ RefsDue(s.new) >= 1 /\ s.new \in Live
    <3>1. s.new \in Objects
      BY <2>2, <2>4 DEF Bodies
    <3>2. s \in IsNew(s.new)
      BY <2>1 DEF IsNew
    <3>3. RefsDue(s.new) >= 1
      BY <1>5, <3>1, <3>2 DEF s
    <3> QED
      BY <3>1, <3>3, KeptAlive
  <2>5. RefsDue(s.o) >= 1
    <3>1. CASE s.new = NoObject \/ s.op = "create"
      <4>1. s \in ForHandle(s.o)
        BY <2>1, <3>1 DEF ForHandle
      <4> QED
        BY <1>3, <1>5, <4>1 DEF s
    <3>2. CASE ~(s.new = NoObject \/ s.op = "create")
      <4>1. s.o = s.context \/ s.o = s.new
        BY <1>6, <1>9, <3>2 DEF OwnPointer, HandleOps
      <4> QED
        BY <1>3, <2>3, <2>4, <4>1
    <3> QED
      BY <3>1, <3>2
  <2> QED
    BY <1>2, <1>3, <2>1, <2>3, <2>4, <2>5, KeptAlive DEF s
<1>10. CASE s.op \in Deletion \cup {"queue"}
  BY <1>2, <1>3, <1>10 DEF Deletion, HandleOps, s
<1>11. s.op \in {"object", "insert"} \cup Weak \cup HandleOps \cup Deletion \cup {"queue"}
  BY <1>2 DEF StepSet, OpSteps, HandleSteps
<1> QED
  BY <1>7, <1>8, <1>9, <1>10, <1>11 DEF s

(* The step that a thread is at. *)
LEMMA HeadKeeps ==
    ASSUME LifeInv, NEW t \in Threads, NEW op, At(t, op)
    PROVE  LET s == Head(todo[t])
           IN  /\ todo[t] # <<>> /\ todo \in Todos /\ s = todo[t][1] /\ 1 \in DOMAIN todo[t]
               /\ s.op = op /\ s \in StepSet /\ s.o \in Objects /\ Object(t) = s.o
               /\ OwnPointer(s)
               /\ op \notin Deletion \cup {"queue"} =>
                     RefsDue(s.o) >= 1 /\ header[s.o].PointerCount >= 1 /\ s.o \in Live
               /\ op \in HandleOps =>
                     /\ s \in HandleSteps
                     /\ s.context # NoObject =>
                           s.context \in Objects /\ RefsDue(s.context) >= 1 /\ s.context \in Live
                     /\ s.new # NoObject =>
                           s.new \in Objects /\ RefsDue(s.new) >= 1 /\ s.new \in Live
               /\ op \notin HandleOps => s = Op(op, s.o) /\ s \in OpSteps
<1>1. todo[t] # <<>> /\ Head(todo[t]).op = op
  BY DEF At
<1>2. todo \in Todos /\ todo[t] \in Seq(StepSet) /\ Fit(todo[t], Live, NoObject)
  BY DEF LifeInv, LifeTypes, FitInv, Todos
<1>3. Head(todo[t]) = todo[t][1] /\ 1 \in DOMAIN todo[t]
  BY <1>1, <1>2
<1>4. OwnPointer(todo[t][1])
  BY <1>2, <1>3 DEF Fit
<1>5. todo[t][1] \in StepSet
  BY <1>2, <1>3
<1>6. op \notin HandleOps => todo[t][1] \in OpSteps /\ todo[t][1] = Op(op, todo[t][1].o)
  BY <1>1, <1>3, <1>5 DEF StepSet, HandleSteps, OpSteps, Op
<1>7. Object(t) = todo[t][1].o
  BY <1>3 DEF Object
<1> QED
  BY <1>1, <1>2, <1>3, <1>4, <1>6, <1>7, StepKeeps, Zenon

-----------------------------------------------------------------------------
(* Steps that delete nothing.                                              *)

(* What a thread does to object x when it is to do the steps s in place of *)
(* the steps a: the counts change by as much as what they count, and an    *)
(* object that something points to keeps a reference.                      *)
Effect(x, a, s) ==
    /\ Hits(Deleting(x), s) = Hits(Deleting(x), a) /\ Hits(Queueing, s) = Hits(Queueing, a)
    /\ header'[x].PointerCount =
          header[x].PointerCount + (handles'[x] - handles[x])
          + (Times(x \in directory') - Times(x \in directory)) + (leaked'[x] - leaked[x])
          + (RefsIn(x, s) - RefsIn(x, a))
    /\ header'[x].HandleCount =
          header[x].HandleCount + (handles'[x] - handles[x])
          + (Hits(Counted(x), s) - Hits(Counted(x), a))
    /\ header'[x].live = header[x].live
    /\ \/ header'[x] = header[x]
       \/ header[x].PointerCount >= 1 /\ header'[x].PointerCount >= 1
    /\ \/ Hits(Inserting(x), s) - Hits(Inserting(x), a) = -1
       \/ /\ Hits(Inserting(x), s) = Hits(Inserting(x), a)
          /\ x \in directory' => x \in directory
          /\ header'[x].Directory => header[x].Directory

(* And to its name. *)
NameEffect(x, a, s) ==
    /\ header'[x].QueryReferences = header[x].QueryReferences + (NamesIn(x, s) - NamesIn(x, a))
    /\ header'[x].QueryReferences > 0 <=> header[x].QueryReferences > 0
    /\ header'[x].PointerCount = 0 => header[x].PointerCount = 0
    /\ header'[x].Directory = header[x].Directory
    /\ x \in directory' <=> x \in directory

LEMMA EffectObject ==
    ASSUME LifeTypes, LifeTypes', NEW x \in Objects, ObjectInv(x), UNCHANGED reaperVars,
           NEW a \in Seq(StepSet), NEW s \in Seq(StepSet), Effect(x, a, s),
           Moves(x, RefsIn(x, s) - RefsIn(x, a), Hits(Counted(x), s) - Hits(Counted(x), a),
                 NamesIn(x, s) - NamesIn(x, a), Hits(Deleting(x), s) - Hits(Deleting(x), a),
                 Hits(Inserting(x), s) - Hits(Inserting(x), a),
                 Hits(Queueing, s) - Hits(Queueing, a))
    PROVE  ObjectInv(x)'
<1>1. /\ RefsIn(x, s) \in Nat /\ Hits(Counted(x), s) \in Nat /\ NamesIn(x, s) \in Nat
      /\ Hits(Deleting(x), s) \in Nat /\ Hits(Inserting(x), s) \in Nat /\ Hits(Queueing, s) \in Nat
      /\ RefsIn(x, a) \in Nat /\ Hits(Counted(x), a) \in Nat /\ NamesIn(x, a) \in Nat
      /\ Hits(Deleting(x), a) \in Nat /\ Hits(Inserting(x), a) \in Nat /\ Hits(Queueing, a) \in Nat
  BY SumsType
<1>2. /\ header[x].PointerCount \in Int /\ header[x].HandleCount \in Int
      /\ header[x].live \in BOOLEAN
      /\ handles[x] \in Nat /\ leaked[x] \in Nat
      /\ RefsDue(x) \in Nat /\ Among(Counted(x)) \in Nat /\ Among(Deleting(x)) \in Nat
      /\ Among(Inserting(x)) \in Nat
  BY Numbers
<1>3. handles'[x] \in Nat /\ leaked'[x] \in Nat /\ header'[x].PointerCount \in Int
  BY DEF LifeTypes, Headers
<1>4. Times(x \in directory) \in Nat /\ Times(x \in directory') \in Nat
  BY TimesType
<1>5. RefsInv(x)'
  <2> DEFINE p == header[x].PointerCount
             q == header'[x].PointerCount
             h == handles[x]
             h2 == handles'[x]
             d == Times(x \in directory)
             d2 == Times(x \in directory')
             l == leaked[x]
             l2 == leaked'[x]
             r == RefsDue(x)
             k == RefsIn(x, s)
             m == RefsIn(x, a)
  <2>1. p = h + d + l + r
    BY DEF RefsInv, ObjectInv
  <2>2. q = p + (h2 - h) + (d2 - d) + (l2 - l) + (k - m)
    BY DEF Effect
  <2>3. r' = r + (k - m)
    BY DEF Moves
  <2>4. /\ h \in Nat /\ h2 \in Nat /\ d \in Nat /\ d2 \in Nat /\ l \in Nat /\ l2 \in Nat
        /\ r \in Nat /\ k \in Nat /\ m \in Nat
    BY <1>1, <1>2, <1>3, <1>4
  <2> HIDE DEF p, q, h, h2, d, d2, l, l2, r, k, m
  <2>5. q = h2 + d2 + l2 + (r + (k - m))
    BY <2>1, <2>2, <2>4
  <2>6. q = h2 + d2 + l2 + r'
    BY <2>3, <2>5
  <2> QED
    BY <2>6 DEF RefsInv, q, h2, d2, l2, r
<1>6. HandlesInv(x)'
  <2> DEFINE p == header[x].HandleCount
             q == header'[x].HandleCount
             h == handles[x]
             h2 == handles'[x]
             r == Among(Counted(x))
             k == Hits(Counted(x), s)
             m == Hits(Counted(x), a)
  <2>1. p = h + r
    BY DEF HandlesInv, ObjectInv
  <2>2. q = p + (h2 - h) + (k - m)
    BY DEF Effect
  <2>3. r' = r + (k - m)
    BY DEF Moves
  <2>4. h \in Nat /\ h2 \in Nat /\ r \in Nat /\ k \in Nat /\ m \in Nat
    BY <1>1, <1>2, <1>3
  <2> HIDE DEF p, q, h, h2, r, k, m
  <2>5. q = h2 + (r + (k - m))
    BY <2>1, <2>2, <2>4
  <2>6. q = h2 + r'
    BY <2>3, <2>5
  <2> QED
    BY <2>6 DEF HandlesInv, q, h2, r
<1>7. DeleteInv(x)'
  <2>1. /\ Among(Deleting(x))' = Among(Deleting(x))
        /\ ReaperList' = ReaperList /\ reaping' = reaping
    <3> DEFINE d == Among(Deleting(x))
               k == Hits(Deleting(x), s)
               m == Hits(Deleting(x), a)
    <3>1. d' = d + (k - m) /\ k = m
      BY DEF Effect, Moves
    <3>2. d \in Nat /\ k \in Nat /\ m \in Nat
      BY <1>1, <1>2
    <3> HIDE DEF d, k, m
    <3>3. d + (k - m) = d
      BY <3>1, <3>2
    <3>4. d' = d
      BY <3>1, <3>3
    <3> QED
      BY <3>4 DEF reaperVars, d
  <2>2. header'[x].live /\ header'[x].PointerCount = 0
           <=> header[x].live /\ header[x].PointerCount = 0
    <3>1. \/ header'[x] = header[x]
          \/ header[x].PointerCount >= 1 /\ header'[x].PointerCount >= 1
      BY DEF Effect
    <3>2. ASSUME header[x].PointerCount >= 1, header'[x].PointerCount >= 1
          PROVE  header[x].PointerCount # 0 /\ header'[x].PointerCount # 0
      BY <1>2, <1>3, <3>2
    <3> QED
      BY <3>1, <3>2, Zenon
  <2>3. Times(header'[x].live /\ header'[x].PointerCount = 0)
           = Times(header[x].live /\ header[x].PointerCount = 0)
    BY <2>2 DEF Times
  <2>4. /\ Hits({x}, reaping)' = Hits({x}, reaping)
        /\ Hits({x}, ReaperList.items)' = Hits({x}, ReaperList.items)
    BY <2>1 DEF Hits, Where
  <2> QED
    BY <2>1, <2>3, <2>4 DEF DeleteInv, ObjectInv
<1>8. InsertInv(x)'
  <2> DEFINE m == Among(Inserting(x))
             k == Hits(Inserting(x), s) - Hits(Inserting(x), a)
  <2>1. m' = m + k /\ m \in Nat /\ m <= 1
    BY <1>2 DEF Moves, InsertInv, ObjectInv
  <2>2. m = 1 => x \notin directory /\ ~ header[x].Directory
    BY DEF InsertInv, ObjectInv
  <2>3. \/ k = -1
        \/ /\ k = 0
           /\ x \in directory' => x \in directory
           /\ header'[x].Directory => header[x].Directory
    BY <1>1 DEF Effect
  <2> HIDE DEF m, k
  <2>4. CASE k = -1
    <3>1. m' <= 1 /\ m' # 1
      BY <2>1, <2>4
    <3> QED
      BY <3>1 DEF InsertInv, m
  <2>5. CASE k # -1
    <3>1. m' = m
      BY <2>1, <2>3, <2>5
    <3>2. m' <= 1
      BY <3>1, <2>1
    <3>3. m' = 1 => x \notin directory' /\ ~ header'[x].Directory
      BY <3>1, <2>2, <2>3, <2>5, Zenon
    <3> QED
      BY <3>2, <3>3 DEF InsertInv, m
  <2> QED
    BY <2>4, <2>5
<1>9. ~ header'[x].live => header'[x] = None
  BY <1>2 DEF ObjectInv, Effect, None
<1> QED
  BY <1>5, <1>6, <1>7, <1>8, <1>9 DEF ObjectInv

LEMMA EffectName ==
    ASSUME LifeTypes, LifeTypes', NEW x \in Objects, NameInv(x),
           NEW a \in Seq(StepSet), NEW s \in Seq(StepSet), NameEffect(x, a, s),
           NamesDue(x)' = NamesDue(x) + (NamesIn(x, s) - NamesIn(x, a))
    PROVE  NameInv(x)'
<1> DEFINE p == Times(x \in directory \/ (header[x].QueryReferences > 0 /\ ~ header[x].Directory))
           q == Times(x \in directory' \/ (header'[x].QueryReferences > 0 /\ ~ header'[x].Directory))
<1>1. NamesIn(x, s) \in Nat /\ NamesIn(x, a) \in Nat
  BY SumsType
<1>2. NamesDue(x) \in Nat /\ header[x].QueryReferences \in Int
  BY Numbers
<1>3. p = q /\ p \in Nat
  BY DEF NameEffect, Times
<1>4. header[x].QueryReferences = p + NamesDue(x)
  BY DEF NameInv
<1> HIDE DEF p, q
<1>5. header'[x].QueryReferences = q + NamesDue(x)'
  BY <1>1, <1>2, <1>3, <1>4 DEF NameEffect
<1> QED
  BY <1>5 DEF NameInv, NameEffect, q

(* A thread goes on with a routine... *)
LEMMA ThenStep ==
    ASSUME LifeInv, NEW t \in Threads, NEW op, At(t, op), NEW ops, Then(t, ops),
           NEW b, Fit(ops, Live, b), b = NoObject \/ (op \in Weak /\ b = Object(t)),
           header' \in [Objects -> Headers], directory' \in SUBSET Objects,
           handles' \in [Objects -> Nat], leaked' \in [Objects -> Nat],
           UNCHANGED <<reaperVars, used>>,
           \A x \in Objects : Effect(x, <<Head(todo[t])>>, ops),
           used # Objects =>
              \A x \in Objects : NameInv(x)' \/ NameEffect(x, <<Head(todo[t])>>, ops)
    PROVE  LifeInv'
<1> DEFINE a == <<Head(todo[t])>>
<1>1. /\ LifeTypes /\ FitInv /\ NamesInv /\ AloneInv /\ QueueInv
      /\ \A x \in Objects : ObjectInv(x)
  BY DEF LifeInv
<1>2. /\ todo[t] # <<>> /\ todo \in Todos /\ Head(todo[t]).op = op
      /\ Head(todo[t]).o \in Objects /\ Object(t) = Head(todo[t]).o /\ Head(todo[t]) \in StepSet
  BY HeadKeeps
<1>3. Live' = Live
  BY DEF Live, Effect
<1>4. ops \in Seq(StepSet) /\ a \in Seq(StepSet)
  BY <1>2 DEF Fit
<1>5. todo' \in Todos /\ \A u \in Threads : Fit(todo'[u], Live, NoObject)
  BY <1>1, <1>2, ThenFit DEF FitInv
<1>6. LifeTypes'
  BY <1>1, <1>5 DEF LifeTypes, reaperVars
<1>7. FitInv'
  BY <1>3, <1>5 DEF FitInv
<1>8. ASSUME NEW x \in Objects
      PROVE Moves(x, RefsIn(x, ops) - RefsIn(x, a), Hits(Counted(x), ops) - Hits(Counted(x), a),
                 NamesIn(x, ops) - NamesIn(x, a), Hits(Deleting(x), ops) - Hits(Deleting(x), a),
                 Hits(Inserting(x), ops) - Hits(Inserting(x), a),
                 Hits(Queueing, ops) - Hits(Queueing, a))
  <2>1. /\ Sums(x, a, RefsIn(x, a), Hits(Counted(x), a), NamesIn(x, a), Hits(Deleting(x), a),
                Hits(Inserting(x), a), Hits(Queueing, a))
        /\ Sums(x, ops, RefsIn(x, ops), Hits(Counted(x), ops), NamesIn(x, ops), Hits(Deleting(x), ops),
                Hits(Inserting(x), ops), Hits(Queueing, ops))
    BY DEF Sums
  <2> QED
    BY <1>2, <1>4, <2>1, ThenMoves
<1> HIDE DEF a
<1>9. ASSUME NEW x \in Objects PROVE ObjectInv(x)'
  BY <1>1, <1>4, <1>6, <1>8, EffectObject DEF a
<1>10. NamesInv'
  <2> SUFFICES ASSUME used' # Objects, NEW x \in Objects PROVE NameInv(x)'
    BY DEF NamesInv
  <2>1. NameInv(x) /\ (NameInv(x)' \/ NameEffect(x, a, ops))
    BY <1>1 DEF NamesInv, a
  <2>2. NamesDue(x)' = NamesDue(x) + (NamesIn(x, ops) - NamesIn(x, a))
    BY <1>8 DEF Moves
  <2> QED
    BY <1>1, <1>4, <1>6, <2>1, <2>2, EffectName
<1>11. AloneInv'
  BY <1>1, <1>3 DEF AloneInv
<1>12. QueueInv'
  <2>1. PICK x \in Objects : TRUE
    BY <1>2
  <2>2. Hits(Queueing, ops) \in Nat /\ Hits(Queueing, ops) = Hits(Queueing, a)
    BY <1>4, SumsType DEF Effect, a
  <2>3. /\ Among(Queueing) \in Nat
        /\ Among(Queueing)' = Among(Queueing) + (Hits(Queueing, ops) - Hits(Queueing, a))
    BY <1>1, <1>8, Numbers DEF Moves
  <2>4. Among(Queueing)' = Among(Queueing)
    BY <2>2, <2>3
  <2> QED
    BY <1>1, <2>4 DEF QueueInv, reaperVars
<1> QED
  BY <1>6, <1>7, <1>9, <1>10, <1>11, <1>12 DEF LifeInv

(* ... or enters one. *)
LEMMA BeginStep ==
    ASSUME LifeInv, NEW t \in Threads, NEW o \in Objects, NEW ops, Begin(t, ops),
           Fit(ops, Live, NoObject),
           header' \in [Objects -> Headers], directory' \in SUBSET Objects,
           handles' \in [Objects -> Nat], leaked' \in [Objects -> Nat],
           UNCHANGED <<reaperVars, used>>,
           \A x \in Objects : Effect(x, <<>>, ops),
           used # Objects => \A x \in Objects : NameEffect(x, <<>>, ops)
    PROVE  LifeInv'
<1> DEFINE a == <<>>
<1>1. /\ LifeTypes /\ FitInv /\ NamesInv /\ AloneInv /\ QueueInv
      /\ \A x \in Objects : ObjectInv(x)
  BY DEF LifeInv
<1>2. todo \in Todos
  BY <1>1 DEF LifeTypes
<1>3. Live' = Live
  BY DEF Live, Effect
<1>4. ops \in Seq(StepSet) /\ a \in Seq(StepSet)
  BY DEF Fit
<1>5. todo' \in Todos /\ \A u \in Threads : Fit(todo'[u], Live, NoObject)
  BY <1>1, <1>2, BeginFit DEF FitInv
<1>6. LifeTypes'
  BY <1>1, <1>5 DEF LifeTypes, reaperVars
<1>7. FitInv'
  BY <1>3, <1>5 DEF FitInv
<1>8. ASSUME NEW x \in Objects
      PROVE Moves(x, RefsIn(x, ops) - RefsIn(x, a), Hits(Counted(x), ops) - Hits(Counted(x), a),
                 NamesIn(x, ops) - NamesIn(x, a), Hits(Deleting(x), ops) - Hits(Deleting(x), a),
                 Hits(Inserting(x), ops) - Hits(Inserting(x), a),
                 Hits(Queueing, ops) - Hits(Queueing, a))
  <2>1. Sums(x, ops, RefsIn(x, ops), Hits(Counted(x), ops), NamesIn(x, ops), Hits(Deleting(x), ops),
                Hits(Inserting(x), ops), Hits(Queueing, ops))
    BY DEF Sums
  <2>2. Moves(x, RefsIn(x, ops), Hits(Counted(x), ops), NamesIn(x, ops), Hits(Deleting(x), ops),
                Hits(Inserting(x), ops), Hits(Queueing, ops))
    BY <1>2, <1>4, <2>1, BeginMoves
  <2>3. /\ RefsIn(x, ops) \in Nat /\ Hits(Counted(x), ops) \in Nat /\ NamesIn(x, ops) \in Nat
        /\ Hits(Deleting(x), ops) \in Nat /\ Hits(Inserting(x), ops) \in Nat
        /\ Hits(Queueing, ops) \in Nat
    BY <1>4, SumsType
  <2>4. Sums(x, a, 0, 0, 0, 0, 0, 0)
    BY SumsNone
  <2> QED
    BY <2>2, <2>3, <2>4 DEF Moves, Sums
<1> HIDE DEF a
<1>9. ASSUME NEW x \in Objects PROVE ObjectInv(x)'
  BY <1>1, <1>4, <1>6, <1>8, EffectObject DEF a
<1>10. NamesInv'
  <2> SUFFICES ASSUME used' # Objects, NEW x \in Objects PROVE NameInv(x)'
    BY DEF NamesInv
  <2>1. NameInv(x) /\ NameEffect(x, a, ops)
    BY <1>1 DEF NamesInv, a
  <2>2. NamesDue(x)' = NamesDue(x) + (NamesIn(x, ops) - NamesIn(x, a))
    BY <1>8 DEF Moves
  <2> QED
    BY <1>1, <1>4, <1>6, <2>1, <2>2, EffectName
<1>11. AloneInv'
  BY <1>1, <1>3 DEF AloneInv
<1>12. QueueInv'
  <2>2. Hits(Queueing, ops) \in Nat /\ Hits(Queueing, ops) = Hits(Queueing, a)
    BY <1>4, SumsType DEF Effect, a
  <2>3. /\ Among(Queueing) \in Nat
        /\ Among(Queueing)' = Among(Queueing) + (Hits(Queueing, ops) - Hits(Queueing, a))
    BY <1>1, <1>8, Numbers DEF Moves
  <2>4. Among(Queueing)' = Among(Queueing)
    BY <2>2, <2>3
  <2> QED
    BY <1>1, <2>4 DEF QueueInv, reaperVars
<1> QED
  BY <1>6, <1>7, <1>9, <1>10, <1>11, <1>12 DEF LifeInv

-----------------------------------------------------------------------------
(* The steps of the threads, one by one.                                   *)

(* How the header of x changes. *)
Shift(g, h, p, c, n) ==
    /\ g.live = h.live
    /\ g.PointerCount = h.PointerCount + p
    /\ g.HandleCount = h.HandleCount + c
    /\ g.QueryReferences = h.QueryReferences + n
    /\ g.Directory = h.Directory

HeaderMoves(x, p, c, n) == Shift(header'[x], header[x], p, c, n)

(* A number of those that are for o. *)
For(o, x, n) == IF o = x THEN n ELSE 0

LEMMA HeaderMoved ==
    ASSUME LifeTypes, NEW o \in Objects, NEW h \in Headers, header' = [header EXCEPT ![o] = h],
           NEW p, NEW c, NEW n, Shift(h, header[o], p, c, n)
    PROVE  /\ header' \in [Objects -> Headers]
           /\ \A x \in Objects : /\ HeaderMoves(x, For(o, x, p), For(o, x, c), For(o, x, n))
                                 /\ x # o => header'[x] = header[x]
<1>1. /\ header' \in [Objects -> Headers] /\ header'[o] = h
      /\ \A x \in Objects : x # o => header'[x] = header[x]
  BY DEF LifeTypes
<1>2. HeaderMoves(o, For(o, o, p), For(o, o, c), For(o, o, n))
  BY <1>1 DEF HeaderMoves, For
<1>3. ASSUME NEW x \in Objects, x # o
      PROVE  HeaderMoves(x, For(o, x, p), For(o, x, c), For(o, x, n))
  <2>1. header'[x] = header[x]
    BY <1>1, <1>3
  <2>2. /\ header[x].PointerCount \in Int /\ header[x].HandleCount \in Int
        /\ header[x].QueryReferences \in Int
    BY Numbers
  <2> QED
    BY <1>3, <2>1, <2>2 DEF HeaderMoves, For, Shift
<1> QED
  BY <1>1, <1>2, <1>3

(* One of its fields does. *)
LEMMA PointerUp ==
    ASSUME LifeTypes, NEW o \in Objects, header' = [header EXCEPT ![o].PointerCount = @ + 1]
    PROVE  /\ header' \in [Objects -> Headers]
           /\ \A x \in Objects : /\ HeaderMoves(x, For(o, x, 1), For(o, x, 0), For(o, x, 0))
                                 /\ x # o => header'[x] = header[x]
<1> DEFINE h == [header[o] EXCEPT !.PointerCount = header[o].PointerCount + 1]
<1>1. header[o] \in Headers
  BY Numbers
<1>2. h \in Headers /\ Shift(h, header[o], 1, 0, 0)
  BY <1>1 DEF Headers, Shift
<1>3. header' = [header EXCEPT ![o] = h]
  OBVIOUS
<1> HIDE DEF h
<1> QED
  BY <1>2, <1>3, HeaderMoved

LEMMA PointerDown ==
    ASSUME LifeTypes, NEW o \in Objects, header' = [header EXCEPT ![o].PointerCount = @ - 1]
    PROVE  /\ header' \in [Objects -> Headers]
           /\ \A x \in Objects : /\ HeaderMoves(x, For(o, x, -1), For(o, x, 0), For(o, x, 0))
                                 /\ x # o => header'[x] = header[x]
<1> DEFINE h == [header[o] EXCEPT !.PointerCount = header[o].PointerCount - 1]
<1>1. header[o] \in Headers
  BY Numbers
<1>2. h \in Headers /\ Shift(h, header[o], -1, 0, 0)
  BY <1>1 DEF Headers, Shift
<1>3. header' = [header EXCEPT ![o] = h]
  OBVIOUS
<1> HIDE DEF h
<1> QED
  BY <1>2, <1>3, HeaderMoved

LEMMA CountUp ==
    ASSUME LifeTypes, NEW o \in Objects, header' = [header EXCEPT ![o].HandleCount = @ + 1]
    PROVE  /\ header' \in [Objects -> Headers]
           /\ \A x \in Objects : /\ HeaderMoves(x, For(o, x, 0), For(o, x, 1), For(o, x, 0))
                                 /\ x # o => header'[x] = header[x]
<1> DEFINE h == [header[o] EXCEPT !.HandleCount = header[o].HandleCount + 1]
<1>1. header[o] \in Headers
  BY Numbers
<1>2. h \in Headers /\ Shift(h, header[o], 0, 1, 0)
  BY <1>1 DEF Headers, Shift
<1>3. header' = [header EXCEPT ![o] = h]
  OBVIOUS
<1> HIDE DEF h
<1> QED
  BY <1>2, <1>3, HeaderMoved

LEMMA CountDown ==
    ASSUME LifeTypes, NEW o \in Objects, header' = [header EXCEPT ![o].HandleCount = @ - 1]
    PROVE  /\ header' \in [Objects -> Headers]
           /\ \A x \in Objects : /\ HeaderMoves(x, For(o, x, 0), For(o, x, -1), For(o, x, 0))
                                 /\ x # o => header'[x] = header[x]
<1> DEFINE h == [header[o] EXCEPT !.HandleCount = header[o].HandleCount - 1]
<1>1. header[o] \in Headers
  BY Numbers
<1>2. h \in Headers /\ Shift(h, header[o], 0, -1, 0)
  BY <1>1 DEF Headers, Shift
<1>3. header' = [header EXCEPT ![o] = h]
  OBVIOUS
<1> HIDE DEF h
<1> QED
  BY <1>2, <1>3, HeaderMoved

LEMMA PermanentMoved ==
    ASSUME LifeTypes, NEW o \in Objects, NEW b \in BOOLEAN,
           header' = [header EXCEPT ![o].Permanent = b]
    PROVE  /\ header' \in [Objects -> Headers]
           /\ \A x \in Objects : /\ HeaderMoves(x, For(o, x, 0), For(o, x, 0), For(o, x, 0))
                                 /\ x # o => header'[x] = header[x]
<1> DEFINE h == [header[o] EXCEPT !.Permanent = b]
<1>1. header[o] \in Headers
  BY Numbers
<1>2. h \in Headers /\ Shift(h, header[o], 0, 0, 0)
  BY <1>1 DEF Headers, Shift
<1>3. header' = [header EXCEPT ![o] = h]
  OBVIOUS
<1> HIDE DEF h
<1> QED
  BY <1>2, <1>3, HeaderMoved

LEMMA LookedUpMoved ==
    ASSUME LifeTypes, NEW o \in Objects, NEW p \in Int, header' = LookedUp(o, p)
    PROVE  /\ header' \in [Objects -> Headers]
           /\ \A x \in Objects : /\ HeaderMoves(x, For(o, x, p), For(o, x, 0), For(o, x, 1))
                                 /\ x # o => header'[x] = header[x]
<1> DEFINE g == [header[o] EXCEPT !.QueryReferences = header[o].QueryReferences + 1]
           h == [g EXCEPT !.PointerCount = g.PointerCount + p]
<1>1. header[o] \in Headers /\ header \in [Objects -> Headers]
  BY Numbers DEF LifeTypes
<1>4. g \in Headers /\ Shift(g, header[o], 0, 0, 1)
  BY <1>1 DEF Headers, Shift
<1> HIDE DEF g
<1>5. h \in Headers /\ Shift(h, g, p, 0, 0)
  BY <1>4 DEF Headers, Shift
<1>6. /\ header[o].PointerCount \in Int
      /\ header[o].HandleCount \in Int
      /\ header[o].QueryReferences \in Int
  BY <1>1 DEF Headers
<1>2. h \in Headers /\ Shift(h, header[o], p, 0, 1)
  <2> HIDE DEF h
  <2> QED
    BY <1>4, <1>5, <1>6 DEF Shift
<1>3. header' = [header EXCEPT ![o] = h]
  BY <1>1 DEF LookedUp, g
<1> HIDE DEF h
<1> QED
  BY <1>2, <1>3, HeaderMoved

LEMMA NobodyMoved ==
    ASSUME LifeTypes, UNCHANGED header
    PROVE  /\ header' \in [Objects -> Headers]
           /\ \A x \in Objects : HeaderMoves(x, 0, 0, 0) /\ header'[x] = header[x]
<1> SUFFICES ASSUME NEW x \in Objects PROVE HeaderMoves(x, 0, 0, 0)
  BY DEF LifeTypes
<1>1. /\ header[x].PointerCount \in Int /\ header[x].HandleCount \in Int
      /\ header[x].QueryReferences \in Int
  BY Numbers
<1> QED
  BY <1>1 DEF HeaderMoves, Shift

(* The object keeps a reference. *)
LEMMA StillAlive ==
    ASSUME LifeTypes, NEW o \in Objects, NEW p \in Nat, NEW c, NEW n,
           header[o].PointerCount >= 1, NEW x \in Objects, HeaderMoves(x, For(o, x, p), c, n),
           x # o => header'[x] = header[x]
    PROVE  \/ header'[x] = header[x]
           \/ header[x].PointerCount >= 1 /\ header'[x].PointerCount >= 1
<1>1. header[x].PointerCount \in Int
  BY Numbers
<1>2. CASE x = o
  <2>1. header'[x].PointerCount = header[x].PointerCount + p
    BY <1>2 DEF HeaderMoves, Shift, For
  <2> QED
    BY <1>1, <1>2, <2>1
<1> QED
  BY <1>2

(* What the step at the head counts for, the change of the header, and     *)
(* what the steps in its place count for.                                  *)
Agree(r1, c1, n1, i1, p, c, n, r2, c2, n2, i2) ==
    /\ r1 \in Int /\ c1 \in Int /\ n1 \in Int /\ i1 \in Int /\ i2 \in Int
    /\ p \in Int /\ c \in Int /\ n \in Int
    /\ r1 + p = r2 /\ c1 + c = c2 /\ n1 + n = n2
    /\ i1 = i2 \/ i2 - i1 = -1

(* A step that leaves the directory and the handles alone. *)
LEMMA EffectPlain ==
    ASSUME LifeTypes, NEW x \in Objects, UNCHANGED <<directory, handles, leaked>>,
           NEW a, NEW s, NEW p, NEW c, NEW n, HeaderMoves(x, p, c, n),
           NEW r1, NEW c1, NEW n1, NEW i1, NEW r2, NEW c2, NEW n2, NEW i2,
           Sums(x, a, r1, c1, n1, 0, i1, 0), Sums(x, s, r2, c2, n2, 0, i2, 0),
           Agree(r1, c1, n1, i1, p, c, n, r2, c2, n2, i2),
           \/ header'[x] = header[x]
           \/ header[x].PointerCount >= 1 /\ header'[x].PointerCount >= 1
    PROVE  /\ Effect(x, a, s)
           /\ n = 0 \/ (header[x].QueryReferences > 0 /\ header'[x].QueryReferences > 0)
                 => NameEffect(x, a, s)
<1>1. /\ RefsIn(x, a) = r1 /\ Hits(Counted(x), a) = c1 /\ NamesIn(x, a) = n1
      /\ Hits(Deleting(x), a) = 0 /\ Hits(Inserting(x), a) = i1 /\ Hits(Queueing, a) = 0
      /\ RefsIn(x, s) = r2 /\ Hits(Counted(x), s) = c2 /\ NamesIn(x, s) = n2
      /\ Hits(Deleting(x), s) = 0 /\ Hits(Inserting(x), s) = i2 /\ Hits(Queueing, s) = 0
  BY DEF Sums
<1>2. /\ header[x].PointerCount \in Int /\ header[x].HandleCount \in Int
      /\ header[x].QueryReferences \in Int
      /\ handles[x] \in Nat /\ leaked[x] \in Nat /\ Times(x \in directory) \in Nat
  BY Numbers, TimesType
<1>10. /\ r1 \in Int /\ c1 \in Int /\ n1 \in Int /\ i1 \in Int /\ i2 \in Int
       /\ p \in Int /\ c \in Int /\ n \in Int
       /\ r1 + p = r2 /\ c1 + c = c2 /\ n1 + n = n2
       /\ i1 = i2 \/ i2 - i1 = -1
  BY DEF Agree
<1>3. handles'[x] - handles[x] = 0 /\ leaked'[x] - leaked[x] = 0
  BY <1>2
<1>4. Times(x \in directory') - Times(x \in directory) = 0
  BY <1>2
<1>5. /\ header[x].PointerCount + p = header[x].PointerCount + 0 + 0 + 0 + (r2 - r1)
      /\ header[x].HandleCount + c = header[x].HandleCount + 0 + (c2 - c1)
      /\ header[x].QueryReferences + n = header[x].QueryReferences + (n2 - n1)
  BY <1>2, <1>10
<1>6. /\ header'[x].PointerCount =
          header[x].PointerCount + (handles'[x] - handles[x])
          + (Times(x \in directory') - Times(x \in directory)) + (leaked'[x] - leaked[x])
          + (RefsIn(x, s) - RefsIn(x, a))
      /\ header'[x].HandleCount =
          header[x].HandleCount + (handles'[x] - handles[x])
          + (Hits(Counted(x), s) - Hits(Counted(x), a))
      /\ header'[x].QueryReferences =
           header[x].QueryReferences + (NamesIn(x, s) - NamesIn(x, a))
  BY <1>1, <1>3, <1>4, <1>5, Zenon DEF HeaderMoves, Shift
<1>7. \/ Hits(Inserting(x), s) - Hits(Inserting(x), a) = -1
      \/ /\ Hits(Inserting(x), s) = Hits(Inserting(x), a)
         /\ x \in directory' => x \in directory
         /\ header'[x].Directory => header[x].Directory
  BY <1>1, <1>10, Zenon DEF HeaderMoves, Shift
<1>8. Effect(x, a, s)
  BY <1>1, <1>6, <1>7, Zenon DEF Effect, HeaderMoves, Shift
<1>9. ASSUME n = 0 \/ (header[x].QueryReferences > 0 /\ header'[x].QueryReferences > 0)
      PROVE  NameEffect(x, a, s)
  <2>1. header'[x].QueryReferences > 0 <=> header[x].QueryReferences > 0
    BY <1>2, <1>9, <1>10 DEF HeaderMoves, Shift
  <2>2. header'[x].PointerCount = 0 => header[x].PointerCount = 0
    BY <1>2
  <2> QED
    BY <1>6, <2>1, <2>2, Zenon DEF NameEffect, HeaderMoves, Shift
<1> QED
  BY <1>8, <1>9

(* MakePermanent *)
LEMMA MakePermanentKeeps ==
    ASSUME LifeInv, UNCHANGED used, NEW t \in Threads, MakePermanent(t)
    PROVE  LifeInv'
<1> DEFINE o == Object(t)
<1>1. /\ At(t, "permanent") /\ Then(t, <<>>) /\ header' = [header EXCEPT ![o].Permanent = TRUE]
      /\ UNCHANGED <<directory, handles, leaked, reaperVars>>
  BY DEF MakePermanent
<1>2. "permanent" \notin HandleOps /\ "permanent" \notin Deletion \cup {"queue"}
  BY DEF HandleOps, Deletion
<1>3. /\ LifeTypes /\ o \in Objects /\ Head(todo[t]) = Op("permanent", o)
      /\ header[o].PointerCount >= 1
  BY <1>1, <1>2, HeadKeeps DEF LifeInv
<1> HIDE DEF o
<1>4. /\ header' \in [Objects -> Headers]
      /\ \A x \in Objects : /\ HeaderMoves(x, For(o, x, 0), For(o, x, 0), For(o, x, 0))
                            /\ x # o => header'[x] = header[x]
  BY <1>1, <1>3, PermanentMoved
<1>5. ASSUME NEW x \in Objects
      PROVE  Effect(x, <<Head(todo[t])>>, <<>>) /\ NameEffect(x, <<Head(todo[t])>>, <<>>)
  <2>1. Sums(x, <<Head(todo[t])>>, 0, 0, 0, 0, 0, 0)
    BY <1>3, WeakPiece DEF Weak, Times
  <2>2. Sums(x, <<>>, 0, 0, 0, 0, 0, 0)
    BY SumsNone
  <2>3. HeaderMoves(x, 0, 0, 0)
    BY <1>4 DEF For
  <2>4. header'[x] = header[x] \/ (header[x].PointerCount >= 1 /\ header'[x].PointerCount >= 1)
    BY <1>3, <1>4, StillAlive
  <2>5. Agree(0, 0, 0, 0, 0, 0, 0, 0, 0, 0, 0)
    BY DEF Agree
  <2> QED
    BY <1>1, <1>3, <2>1, <2>2, <2>3, <2>4, <2>5, EffectPlain
<1>6. /\ directory' \in SUBSET Objects
      /\ handles' \in [Objects -> Nat]
      /\ leaked' \in [Objects -> Nat]
  BY <1>1, <1>3 DEF LifeTypes
<1> QED
  BY <1>1, <1>4, <1>5, <1>6, FitNone, ThenStep

(* ObpSetPermanentObject, and the look at the name. *)
LEMMA MakeTemporaryKeeps ==
    ASSUME LifeInv, UNCHANGED used, NEW t \in Threads, MakeTemporary(t)
    PROVE  LifeInv'
<1> DEFINE o == Object(t)
           ops == <<Op("check", o)>>
<1>1. /\ At(t, "temporary") /\ Then(t, ops) /\ header' = [header EXCEPT ![o].Permanent = FALSE]
      /\ UNCHANGED <<directory, handles, leaked, reaperVars>>
  BY DEF MakeTemporary, TemporaryThen
<1>2. /\ "temporary" \notin HandleOps /\ "temporary" \notin Deletion \cup {"queue"}
      /\ "temporary" \in Weak /\ "check" \in Weak
  BY DEF HandleOps, Deletion, Weak
<1>3. /\ LifeTypes /\ o \in Objects /\ Head(todo[t]) = Op("temporary", o)
      /\ header[o].PointerCount >= 1 /\ o \in Live /\ Live \in SUBSET Objects
  BY <1>1, <1>2, HeadKeeps DEF LifeInv, Live
<1>4. Fit(ops, Live, o)
  BY <1>2, <1>3, WeakPiece
<1>5. ASSUME NEW x \in Objects
      PROVE  Sums(x, <<Head(todo[t])>>, 0, 0, 0, 0, 0, 0) /\ Sums(x, ops, 0, 0, 0, 0, 0, 0)
  BY <1>2, <1>3, WeakPiece DEF Times
<1>6. /\ header' \in [Objects -> Headers]
      /\ \A x \in Objects : /\ HeaderMoves(x, For(o, x, 0), For(o, x, 0), For(o, x, 0))
                            /\ x # o => header'[x] = header[x]
  BY <1>1, <1>3, PermanentMoved
<1> HIDE DEF ops
<1>7. ASSUME NEW x \in Objects
      PROVE  Effect(x, <<Head(todo[t])>>, ops) /\ NameEffect(x, <<Head(todo[t])>>, ops)
  <2>1. HeaderMoves(x, 0, 0, 0)
    BY <1>6 DEF For
  <2>2. header'[x] = header[x] \/ (header[x].PointerCount >= 1 /\ header'[x].PointerCount >= 1)
    BY <1>3, <1>6, StillAlive
  <2>3. Agree(0, 0, 0, 0, 0, 0, 0, 0, 0, 0, 0)
    BY DEF Agree
  <2> QED
    BY <1>1, <1>3, <1>5, <2>1, <2>2, <2>3, EffectPlain
<1>8. /\ directory' \in SUBSET Objects
      /\ handles' \in [Objects -> Nat]
      /\ leaked' \in [Objects -> Nat]
  BY <1>1, <1>3 DEF LifeTypes
<1> QED
  BY <1>1, <1>2, <1>4, <1>6, <1>7, <1>8, ThenStep

(* A handle step: its parts. *)
LEMMA HandleIsStep ==
    ASSUME NEW op \in HandleOps, NEW o \in Objects, NEW c \in Bodies, NEW n \in Bodies
    PROVE  LET h == HandleOp(op, o, c, n)
           IN  /\ h \in HandleSteps /\ h \in StepSet
               /\ h.op = op /\ h.o = o /\ h.context = c /\ h.new = n
               /\ <<h>> \in Seq(StepSet)
BY DEF HandleOp, HandleSteps, StepSet

(* ObOpenObjectByPointer *)
LEMMA OpenByPointerKeeps ==
    ASSUME LifeInv, UNCHANGED used, NEW t \in Threads, OpenByPointer(t)
    PROVE  LifeInv'
<1> DEFINE o == Object(t)
           h == HandleOp("count", o, NoObject, NoObject)
           ops == <<h>>
<1>1. /\ At(t, "open") /\ Then(t, ops) /\ header' = [header EXCEPT ![o].PointerCount = @ + 1]
      /\ UNCHANGED <<directory, handles, leaked, reaperVars>>
  BY DEF OpenByPointer
<1>2. /\ "open" \notin HandleOps /\ "open" \notin Deletion \cup {"queue"}
      /\ "open" \in Weak /\ "count" \in HandleOps /\ NoObject \in Bodies
  BY DEF HandleOps, Deletion, Weak, Bodies
<1>3. /\ LifeTypes /\ o \in Objects /\ Head(todo[t]) = Op("open", o)
      /\ header[o].PointerCount >= 1 /\ o \in Live /\ Live \in SUBSET Objects
  BY <1>1, <1>2, HeadKeeps DEF LifeInv, Live
<1>4. /\ h \in HandleSteps /\ h \in StepSet
      /\ h.op = "count" /\ h.o = o /\ h.context = NoObject /\ h.new = NoObject
  BY <1>2, <1>3, HandleIsStep
<1> HIDE DEF h
<1>5. Fit(ops, Live, NoObject)
  BY <1>3, <1>4, FitOne DEF OwnPointer, Weak
<1>6. ASSUME NEW x \in Objects
      PROVE  Sums(x, <<Head(todo[t])>>, 0, 0, 0, 0, 0, 0) /\ Sums(x, ops, For(o, x, 1), 0, 0, 0, 0, 0)
  <2>1. Sums(x, <<Head(todo[t])>>, 0, 0, 0, 0, 0, 0)
    BY <1>2, <1>3, WeakPiece DEF Times
  <2>2. x # NoObject
    BY ConstantsAssumption
  <2>3. Sums(x, <<h>>, Times(h.context = x) + Times(h.new = x)
                          + Times(h.o = x /\ (h.new = NoObject \/ h.op = "create")),
                       Times(h.op \in {"release", "create"} /\ h.o = x),
                       Times(h.context = x) + Times(h.new = x), 0, 0, 0)
    BY <1>4, SumsHandle
  <2> QED
    BY <1>4, <2>1, <2>2, <2>3 DEF Times, For
<1>7. /\ header' \in [Objects -> Headers]
      /\ \A x \in Objects : /\ HeaderMoves(x, For(o, x, 1), For(o, x, 0), For(o, x, 0))
                            /\ x # o => header'[x] = header[x]
  BY <1>1, <1>3, PointerUp
<1> HIDE DEF ops
<1>8. ASSUME NEW x \in Objects
      PROVE  Effect(x, <<Head(todo[t])>>, ops) /\ NameEffect(x, <<Head(todo[t])>>, ops)
  <2>1. HeaderMoves(x, For(o, x, 1), 0, 0)
    BY <1>7 DEF For
  <2>2. header'[x] = header[x] \/ (header[x].PointerCount >= 1 /\ header'[x].PointerCount >= 1)
    BY <1>3, <1>7, StillAlive
  <2>3. Agree(0, 0, 0, 0, For(o, x, 1), 0, 0, For(o, x, 1), 0, 0, 0)
    BY DEF Agree, For
  <2> QED
    BY <1>1, <1>3, <1>6, <2>1, <2>2, <2>3, EffectPlain
<1>9. /\ directory' \in SUBSET Objects
      /\ handles' \in [Objects -> Nat]
      /\ leaked' \in [Objects -> Nat]
  BY <1>1, <1>3 DEF LifeTypes
<1> QED
  BY <1>1, <1>5, <1>7, <1>8, <1>9, ThenStep

(* ObpDecrementHandleCount *)
LEMMA UncountKeeps ==
    ASSUME LifeInv, UNCHANGED used, NEW t \in Threads, Uncount(t)
    PROVE  LifeInv'
<1> DEFINE o == Object(t)
           ops == <<Op("check", o)>>
<1>1. /\ At(t, "uncount") /\ Then(t, ops) /\ header' = [header EXCEPT ![o].HandleCount = @ - 1]
      /\ UNCHANGED <<directory, handles, leaked, reaperVars>>
  BY DEF Uncount
<1>2. /\ "uncount" \notin HandleOps /\ "uncount" \notin Deletion \cup {"queue"}
      /\ "uncount" \in Weak /\ "check" \in Weak
  BY DEF HandleOps, Deletion, Weak
<1>3. /\ LifeTypes /\ o \in Objects /\ Head(todo[t]) = Op("uncount", o)
      /\ header[o].PointerCount >= 1 /\ o \in Live /\ Live \in SUBSET Objects
  BY <1>1, <1>2, HeadKeeps DEF LifeInv, Live
<1>4. Fit(ops, Live, o)
  BY <1>2, <1>3, WeakPiece
<1>5. ASSUME NEW x \in Objects
      PROVE  /\ Sums(x, <<Head(todo[t])>>, 0, For(o, x, 1), 0, 0, 0, 0)
             /\ Sums(x, ops, 0, 0, 0, 0, 0, 0)
  BY <1>2, <1>3, WeakPiece DEF Times, For
<1>6. /\ header' \in [Objects -> Headers]
      /\ \A x \in Objects : /\ HeaderMoves(x, For(o, x, 0), For(o, x, -1), For(o, x, 0))
                            /\ x # o => header'[x] = header[x]
  BY <1>1, <1>3, CountDown
<1> HIDE DEF ops
<1>7. ASSUME NEW x \in Objects
      PROVE  Effect(x, <<Head(todo[t])>>, ops) /\ NameEffect(x, <<Head(todo[t])>>, ops)
  <2>1. HeaderMoves(x, 0, For(o, x, -1), 0)
    BY <1>6 DEF For
  <2>2. header'[x] = header[x] \/ (header[x].PointerCount >= 1 /\ header'[x].PointerCount >= 1)
    BY <1>3, <1>6, StillAlive
  <2>3. Agree(0, For(o, x, 1), 0, 0, 0, For(o, x, -1), 0, 0, 0, 0, 0)
    BY DEF Agree, For
  <2> QED
    BY <1>1, <1>3, <1>5, <2>1, <2>2, <2>3, EffectPlain
<1>8. /\ directory' \in SUBSET Objects
      /\ handles' \in [Objects -> Nat]
      /\ leaked' \in [Objects -> Nat]
  BY <1>1, <1>3 DEF LifeTypes
<1> QED
  BY <1>1, <1>2, <1>4, <1>6, <1>7, <1>8, ThenStep

(* The name of an object in the directory, and of one whose count is not 0 *)
LEMMA NameHeld ==
    ASSUME LifeInv, used # Objects, NEW b \in Objects,
           b \in directory \/ header[b].QueryReferences # 0,
           NEW x \in Objects, NEW p, NEW c, HeaderMoves(x, p, c, For(b, x, 1))
    PROVE  \/ For(b, x, 1) = 0
           \/ header[x].QueryReferences > 0 /\ header'[x].QueryReferences > 0
<1>1. CASE x = b
  <2> DEFINE d == Times(b \in directory \/ (header[b].QueryReferences > 0 /\ ~ header[b].Directory))
  <2>1. /\ header[b].QueryReferences = d + NamesDue(b)
        /\ b \in directory => header[b].Directory
        /\ header[b].Directory => header[b].QueryReferences > 0
    BY DEF LifeInv, NamesInv, NameInv
  <2>2. NamesDue(b) \in Nat /\ header[b].QueryReferences \in Int /\ d \in Nat
    BY Numbers, TimesType DEF LifeInv
  <2> HIDE DEF d
  <2>3. header[b].QueryReferences > 0
    BY <2>1, <2>2
  <2>4. header'[x].QueryReferences = header[b].QueryReferences + 1
    BY <1>1 DEF HeaderMoves, Shift, For
  <2> QED
    BY <1>1, <2>2, <2>3, <2>4
<1> QED
  BY <1>1 DEF For

LEMMA NameUp ==
    ASSUME LifeTypes, NEW o \in Objects, header' = [header EXCEPT ![o].QueryReferences = @ + 1]
    PROVE  /\ header' \in [Objects -> Headers]
           /\ \A x \in Objects : /\ HeaderMoves(x, For(o, x, 0), For(o, x, 0), For(o, x, 1))
                                 /\ x # o => header'[x] = header[x]
<1> DEFINE h == [header[o] EXCEPT !.QueryReferences = header[o].QueryReferences + 1]
<1>1. header[o] \in Headers
  BY Numbers
<1>2. h \in Headers /\ Shift(h, header[o], 0, 0, 1)
  BY <1>1 DEF Headers, Shift
<1>3. header' = [header EXCEPT ![o] = h]
  OBVIOUS
<1> HIDE DEF h
<1> QED
  BY <1>2, <1>3, HeaderMoved

(* ObpDeleteNameCheck *)
LEMMA CheckKeeps ==
    ASSUME LifeInv, UNCHANGED used, NEW t \in Threads, Check(t)
    PROVE  LifeInv'
<1> DEFINE o == Object(t)
<1>1. /\ At(t, "check")
      /\ UNCHANGED <<directory, handles, leaked, reaperVars>>
      /\ \/ Then(t, <<>>) /\ UNCHANGED header
         \/ /\ header[o].QueryReferences # 0
            /\ header' = [header EXCEPT ![o].QueryReferences = @ + 1]
            /\ \E op \in {"lookup", "name"} : Then(t, <<Op(op, o)>>)
  BY DEF Check
<1>2. /\ "check" \notin HandleOps /\ "check" \notin Deletion \cup {"queue"}
      /\ "check" \in Weak /\ "lookup" \in Weak /\ "name" \in Weak
  BY DEF HandleOps, Deletion, Weak
<1>3. /\ LifeTypes /\ o \in Objects /\ Head(todo[t]) = Op("check", o)
      /\ header[o].PointerCount >= 1 /\ o \in Live /\ Live \in SUBSET Objects
  BY <1>1, <1>2, HeadKeeps DEF LifeInv, Live
<1>4. ASSUME NEW x \in Objects PROVE Sums(x, <<Head(todo[t])>>, 0, 0, 0, 0, 0, 0)
  BY <1>2, <1>3, WeakPiece DEF Times
<1>5. /\ directory' \in SUBSET Objects
      /\ handles' \in [Objects -> Nat]
      /\ leaked' \in [Objects -> Nat]
  BY <1>1, <1>3 DEF LifeTypes
<1>6. CASE Then(t, <<>>) /\ UNCHANGED header
  <2>1. /\ header' \in [Objects -> Headers]
        /\ \A x \in Objects : HeaderMoves(x, 0, 0, 0) /\ header'[x] = header[x]
    BY <1>3, <1>6, NobodyMoved
  <2>2. ASSUME NEW x \in Objects
        PROVE  Effect(x, <<Head(todo[t])>>, <<>>) /\ NameEffect(x, <<Head(todo[t])>>, <<>>)
    <3>1. Sums(x, <<>>, 0, 0, 0, 0, 0, 0)
      BY SumsNone
    <3>2. Agree(0, 0, 0, 0, 0, 0, 0, 0, 0, 0, 0)
      BY DEF Agree
    <3> QED
      BY <1>1, <1>3, <1>4, <2>1, <3>1, <3>2, EffectPlain
  <2> QED
    BY <1>1, <1>5, <1>6, <2>1, <2>2, FitNone, ThenStep
<1>7. CASE /\ header[o].QueryReferences # 0
           /\ header' = [header EXCEPT ![o].QueryReferences = @ + 1]
           /\ \E op \in {"lookup", "name"} : Then(t, <<Op(op, o)>>)
  <2> PICK op \in {"lookup", "name"} : Then(t, <<Op(op, o)>>)
    BY <1>7
  <2> DEFINE ops == <<Op(op, o)>>
  <2>1. op \in Weak
    BY <1>2
  <2>2. Fit(ops, Live, o)
    BY <1>3, <2>1, WeakPiece
  <2>3. ASSUME NEW x \in Objects PROVE Sums(x, ops, 0, 0, For(o, x, 1), 0, 0, 0)
    BY <1>3, <2>1, WeakPiece DEF Times, For
  <2>4. /\ header' \in [Objects -> Headers]
        /\ \A x \in Objects : /\ HeaderMoves(x, For(o, x, 0), For(o, x, 0), For(o, x, 1))
                              /\ x # o => header'[x] = header[x]
    BY <1>3, <1>7, NameUp
  <2>5. Then(t, ops)
    OBVIOUS
  <2> HIDE DEF ops
  <2>6. ASSUME NEW x \in Objects
        PROVE  /\ Effect(x, <<Head(todo[t])>>, ops)
               /\ used # Objects => NameEffect(x, <<Head(todo[t])>>, ops)
    <3>1. HeaderMoves(x, 0, 0, For(o, x, 1))
      BY <2>4 DEF For
    <3>2. header'[x] = header[x] \/ (header[x].PointerCount >= 1 /\ header'[x].PointerCount >= 1)
      BY <1>3, <2>4, StillAlive
    <3>3. Agree(0, 0, 0, 0, 0, 0, For(o, x, 1), 0, 0, For(o, x, 1), 0)
      BY DEF Agree, For
    <3>4. used # Objects => \/ For(o, x, 1) = 0
                            \/ header[x].QueryReferences > 0 /\ header'[x].QueryReferences > 0
      BY <1>3, <1>7, <3>1, NameHeld
    <3> QED
      BY <1>1, <1>3, <1>4, <2>3, <3>1, <3>2, <3>3, <3>4, EffectPlain
  <2> QED
    BY <1>1, <1>2, <1>5, <2>2, <2>4, <2>5, <2>6, ThenStep
<1> QED
  BY <1>1, <1>6, <1>7

(* ObpLookupEntryDirectory finds nothing. *)
LEMMA LookupNothingKeeps ==
    ASSUME LifeInv, UNCHANGED used, NEW t \in Threads, LookupNothing(t)
    PROVE  LifeInv'
<1> DEFINE o == Object(t)
           ops == <<Op("name", o)>>
<1>1. /\ At(t, "lookup") /\ Then(t, ops)
      /\ UNCHANGED <<header, directory, handles, leaked, reaperVars>>
  BY DEF LookupNothing
<1>2. /\ "lookup" \notin HandleOps /\ "lookup" \notin Deletion \cup {"queue"}
      /\ "lookup" \in Weak /\ "name" \in Weak
  BY DEF HandleOps, Deletion, Weak
<1>3. /\ LifeTypes /\ o \in Objects /\ Head(todo[t]) = Op("lookup", o)
      /\ o \in Live /\ Live \in SUBSET Objects
  BY <1>1, <1>2, HeadKeeps DEF LifeInv, Live
<1>4. Fit(ops, Live, o)
  BY <1>2, <1>3, WeakPiece
<1>5. ASSUME NEW x \in Objects
      PROVE  /\ Sums(x, <<Head(todo[t])>>, 0, 0, For(o, x, 1), 0, 0, 0)
             /\ Sums(x, ops, 0, 0, For(o, x, 1), 0, 0, 0)
  BY <1>2, <1>3, WeakPiece DEF Times, For
<1>6. /\ header' \in [Objects -> Headers]
      /\ \A x \in Objects : HeaderMoves(x, 0, 0, 0) /\ header'[x] = header[x]
  BY <1>1, <1>3, NobodyMoved
<1> HIDE DEF ops
<1>7. ASSUME NEW x \in Objects
      PROVE  Effect(x, <<Head(todo[t])>>, ops) /\ NameEffect(x, <<Head(todo[t])>>, ops)
  <2>1. Agree(0, 0, For(o, x, 1), 0, 0, 0, 0, 0, 0, For(o, x, 1), 0)
    BY DEF Agree, For
  <2> QED
    BY <1>1, <1>3, <1>5, <1>6, <2>1, EffectPlain
<1>8. /\ directory' \in SUBSET Objects
      /\ handles' \in [Objects -> Nat]
      /\ leaked' \in [Objects -> Nat]
  BY <1>1, <1>3 DEF LifeTypes
<1> QED
  BY <1>1, <1>2, <1>4, <1>6, <1>7, <1>8, ThenStep

(* ObpIncrementHandleCount *)
LEMMA CountKeeps ==
    ASSUME LifeInv, UNCHANGED used, NEW t \in Threads, Count(t)
    PROVE  LifeInv'
<1> DEFINE h == Head(todo[t])
           g == [h EXCEPT !.op = "release"]
           o == h.o
<1>1. /\ At(t, "count") /\ Then(t, <<g>>) /\ header' = [header EXCEPT ![o].HandleCount = @ + 1]
      /\ UNCHANGED <<directory, handles, leaked, reaperVars>>
  BY DEF Count
<1>2. "count" \in HandleOps /\ "count" \notin Deletion \cup {"queue"}
  BY DEF HandleOps, Deletion
<1>3. /\ LifeTypes /\ o \in Objects /\ h \in HandleSteps /\ h.op = "count" /\ OwnPointer(h)
      /\ header[o].PointerCount >= 1 /\ o \in Live
  BY <1>1, <1>2, HeadKeeps DEF LifeInv
<1>4. /\ g \in HandleSteps /\ g \in StepSet
      /\ g.op = "release" /\ g.o = h.o /\ g.context = h.context /\ g.new = h.new
  BY <1>3 DEF HandleSteps, HandleOps, StepSet
<1> HIDE DEF h, g, o
<1>5. Fit(<<g>>, Live, NoObject)
  BY <1>3, <1>4, FitOne DEF OwnPointer, Weak, o
<1>6. /\ header' \in [Objects -> Headers]
      /\ \A x \in Objects : /\ HeaderMoves(x, For(o, x, 0), For(o, x, 1), For(o, x, 0))
                            /\ x # o => header'[x] = header[x]
  BY <1>1, <1>3, CountUp
<1>7. ASSUME NEW x \in Objects
      PROVE  Effect(x, <<h>>, <<g>>) /\ NameEffect(x, <<h>>, <<g>>)
  <2> DEFINE r == Times(h.context = x) + Times(h.new = x)
                    + Times(h.o = x /\ (h.new = NoObject \/ h.op = "create"))
             n == Times(h.context = x) + Times(h.new = x)
  <2>1. Sums(x, <<h>>, r, 0, n, 0, 0, 0)
    BY <1>3, SumsHandle DEF Times
  <2>2. Sums(x, <<g>>, r, For(o, x, 1), n, 0, 0, 0)
    BY <1>3, <1>4, SumsHandle DEF Times, For, o
  <2>3. r \in Int /\ n \in Int
    BY DEF Times
  <2> HIDE DEF r, n
  <2>4. Agree(r, 0, n, 0, 0, For(o, x, 1), 0, r, For(o, x, 1), n, 0)
    BY <2>3 DEF Agree, For
  <2>5. HeaderMoves(x, 0, For(o, x, 1), 0)
    BY <1>6 DEF For
  <2>6. header'[x] = header[x] \/ (header[x].PointerCount >= 1 /\ header'[x].PointerCount >= 1)
    BY <1>3, <1>6, StillAlive
  <2> QED
    BY <1>1, <1>3, <2>1, <2>2, <2>4, <2>5, <2>6, EffectPlain
<1>8. /\ directory' \in SUBSET Objects
      /\ handles' \in [Objects -> Nat]
      /\ leaked' \in [Objects -> Nat]
  BY <1>1, <1>3 DEF LifeTypes
<1> QED
  BY <1>1, <1>5, <1>6, <1>7, <1>8, ThenStep DEF h

(* ObpCreateHandle without a handle count, and then its caller. *)
LEMMA CountFailsKeeps ==
    ASSUME LifeInv, UNCHANGED used, NEW t \in Threads, CountFails(t)
    PROVE  LifeInv'
<1> DEFINE h == Head(todo[t])
           a == ReleaseContext(h.context)
           b == NotInserted(h)
<1>1. /\ At(t, "count") /\ Then(t, a \o b)
      /\ UNCHANGED <<header, directory, handles, leaked, reaperVars>>
  BY DEF CountFails
<1>2. "count" \in HandleOps /\ "count" \notin Deletion \cup {"queue"}
  BY DEF HandleOps, Deletion
<1>3. /\ LifeTypes /\ h.o \in Objects /\ h \in HandleSteps /\ h.op = "count"
      /\ h.o \in Live /\ Live \in SUBSET Objects
      /\ h.context = NoObject \/ h.context \in Live
      /\ h.new = NoObject \/ h.new \in Live
  BY <1>1, <1>2, HeadKeeps DEF LifeInv, Live
<1>4. h.context \in Bodies /\ h.new \in Bodies
  BY <1>3 DEF HandleSteps
<1> HIDE DEF h
<1>5. /\ a \in Seq(StepSet) /\ b \in Seq(StepSet)
      /\ Fit(a, Live, NoObject) /\ Fit(b, Live, NoObject)
  BY <1>3, <1>4, ContextPiece, NotInsertedPiece
<1>6. ASSUME NEW x \in Objects
      PROVE  /\ Sums(x, a, Times(h.context = x), 0, Times(h.context = x), 0, 0, 0)
             /\ Sums(x, b, Times(h.new = x) + Times(h.new = NoObject /\ h.o = x),
                     0, Times(h.new = x), 0, 0, 0)
  BY <1>3, <1>4, ContextPiece, NotInsertedPiece
<1> HIDE DEF a, b
<1>7. Fit(a \o b, Live, NoObject)
  BY <1>5, FitBefore
<1>8. /\ header' \in [Objects -> Headers]
      /\ \A x \in Objects : HeaderMoves(x, 0, 0, 0) /\ header'[x] = header[x]
  BY <1>1, <1>3, NobodyMoved
<1>9. ASSUME NEW x \in Objects
      PROVE  Effect(x, <<h>>, a \o b) /\ NameEffect(x, <<h>>, a \o b)
  <2> DEFINE p == Times(h.context = x)
             q == Times(h.new = x)
             r == Times(h.new = NoObject /\ h.o = x)
  <2>1. Sums(x, <<h>>, (p + q) + r, 0, p + q, 0, 0, 0)
    <3>1. r = Times(h.o = x /\ (h.new = NoObject \/ h.op = "create"))
      BY <1>3 DEF Times
    <3>2. Times(h.op \in {"release", "create"} /\ h.o = x) = 0
      BY <1>3 DEF Times
    <3> QED
      BY <1>3, <3>1, <3>2, SumsHandle
  <2>2. Sums(x, a, p, 0, p, 0, 0, 0) /\ Sums(x, b, q + r, 0, q, 0, 0, 0)
    BY <1>6
  <2>3. p \in Nat /\ q \in Nat /\ r \in Nat
    BY TimesType
  <2> HIDE DEF p, q, r
  <2>4. q + r \in Nat
    BY <2>3
  <2>5. Sums(x, a \o b, p + (q + r), 0 + 0, p + q, 0, 0, 0)
    BY <1>5, <2>2, <2>3, <2>4, PieceConcat
  <2>6. Agree((p + q) + r, 0, p + q, 0, 0, 0, 0, p + (q + r), 0 + 0, p + q, 0)
    BY <2>3 DEF Agree
  <2> DEFINE s == a \o b
  <2>7. Sums(x, s, p + (q + r), 0 + 0, p + q, 0, 0, 0)
    BY <2>5
  <2> HIDE DEF s
  <2>8. Effect(x, <<h>>, s) /\ NameEffect(x, <<h>>, s)
    BY <1>1, <1>3, <1>8, <2>1, <2>6, <2>7, EffectPlain
  <2> QED
    BY <2>8 DEF s
<1>10. /\ directory' \in SUBSET Objects
       /\ handles' \in [Objects -> Nat]
       /\ leaked' \in [Objects -> Nat]
  BY <1>1, <1>3 DEF LifeTypes
<1> DEFINE s == a \o b
<1>11. /\ Then(t, s) /\ Fit(s, Live, NoObject)
       /\ \A x \in Objects : Effect(x, <<h>>, s) /\ NameEffect(x, <<h>>, s)
  BY <1>1, <1>7, <1>9
<1> HIDE DEF s
<1> QED
  BY <1>1, <1>8, <1>10, <1>11, ThenStep DEF h

(* The context is released and the object may be referenced again. *)
LEMMA ReleaseKeeps ==
    ASSUME LifeInv, UNCHANGED used, NEW t \in Threads, Release(t)
    PROVE  LifeInv'
<1> DEFINE h == Head(todo[t])
           g == [h EXCEPT !.op = "create", !.context = NoObject]
           o == h.o
           a == ReleaseContext(h.context)
           b == <<g>>
<1>1. /\ At(t, "release") /\ Then(t, a \o b)
      /\ header' = [header EXCEPT ![o].PointerCount = @ + AdditionalReferences(h)]
      /\ UNCHANGED <<directory, handles, leaked, reaperVars>>
  BY DEF Release
<1>2. "release" \in HandleOps /\ "release" \notin Deletion \cup {"queue"}
  BY DEF HandleOps, Deletion
<1>3. /\ LifeTypes /\ o \in Objects /\ h \in HandleSteps /\ h.op = "release"
      /\ o \in Live /\ Live \in SUBSET Objects /\ header[o].PointerCount >= 1
      /\ h.context = NoObject \/ h.context \in Live
  BY <1>1, <1>2, HeadKeeps DEF LifeInv, Live
<1>4. h.context \in Bodies /\ h.new \in Bodies
  BY <1>3 DEF HandleSteps
<1>5. /\ g \in HandleSteps /\ g \in StepSet
      /\ g.op = "create" /\ g.o = h.o /\ g.context = NoObject /\ g.new = h.new
  BY <1>3 DEF HandleSteps, HandleOps, StepSet, Bodies
<1> HIDE DEF h, g
<1>6. Fit(b, Live, NoObject)
  BY <1>3, <1>5, FitOne DEF OwnPointer, Weak
<1>7. a \in Seq(StepSet) /\ b \in Seq(StepSet) /\ Fit(a, Live, NoObject)
  BY <1>3, <1>4, <1>5, ContextPiece
<1>8. ASSUME NEW x \in Objects
      PROVE  Sums(x, a, Times(h.context = x), 0, Times(h.context = x), 0, 0, 0)
  BY <1>3, <1>4, ContextPiece
<1> DEFINE k == IF h.new = NoObject THEN 0 ELSE 1
<1>9. /\ header' \in [Objects -> Headers]
      /\ \A x \in Objects : /\ HeaderMoves(x, For(o, x, k), For(o, x, 0), For(o, x, 0))
                            /\ x # o => header'[x] = header[x]
  <2>1. CASE h.new = NoObject
    <3>1. AdditionalReferences(h) = 0 /\ k = 0
      BY <2>1 DEF AdditionalReferences
    <3>2. /\ header[o].PointerCount \in Int
          /\ header[o] \in Headers
          /\ header \in [Objects -> Headers]
      BY <1>3, Numbers DEF LifeTypes
    <3>6. header[o].PointerCount + AdditionalReferences(h) = header[o].PointerCount
      BY <3>1, <3>2
    <3>3. header' = [header EXCEPT ![o] = [header[o] EXCEPT !.PointerCount = header[o].PointerCount]]
      BY <1>1, <3>6, Zenon
    <3>4. [header[o] EXCEPT !.PointerCount = header[o].PointerCount] = header[o]
      BY <3>2 DEF Headers
    <3>5. header' = header
      BY <3>2, <3>3, <3>4
    <3> HIDE DEF k
    <3> QED
      BY <1>3, <3>1, <3>5, NobodyMoved DEF For
  <2>2. CASE h.new # NoObject
    <3>1. AdditionalReferences(h) = 1 /\ k = 1
      BY <2>2 DEF AdditionalReferences
    <3>2. header' = [header EXCEPT ![o].PointerCount = @ + 1]
      BY <1>1, <3>1
    <3> HIDE DEF k
    <3> QED
      BY <1>3, <3>1, <3>2, PointerUp
  <2> QED
    BY <2>1, <2>2
<1>10. k \in Nat /\ (k = 0 <=> h.new = NoObject) /\ (k = 1 <=> h.new # NoObject)
  OBVIOUS
<1> HIDE DEF a, b, k
<1>11. Fit(a \o b, Live, NoObject)
  BY <1>6, <1>7, FitBefore
<1>12. ASSUME NEW x \in Objects
       PROVE  Effect(x, <<h>>, a \o b) /\ NameEffect(x, <<h>>, a \o b)
  <2> DEFINE p == Times(h.context = x)
             q == Times(h.new = x)
             r == Times(h.o = x /\ (h.new = NoObject \/ h.op = "create"))
             m == Times(h.o = x)
  <2>1. Sums(x, <<h>>, (p + q) + r, m, p + q, 0, 0, 0)
    <3>1. Times(h.op \in {"release", "create"} /\ h.o = x) = m
      BY <1>3 DEF Times
    <3> QED
      BY <1>3, <3>1, SumsHandle
  <2>2. Sums(x, b, (0 + q) + m, m, 0 + q, 0, 0, 0)
    <3>1. /\ Times(g.context = x) = 0 /\ Times(g.new = x) = q
          /\ Times(g.o = x /\ (g.new = NoObject \/ g.op = "create")) = m
          /\ Times(g.op \in {"release", "create"} /\ g.o = x) = m
      BY <1>5, ConstantsAssumption DEF Times
    <3>2. Sums(x, <<g>>, Times(g.context = x) + Times(g.new = x)
                            + Times(g.o = x /\ (g.new = NoObject \/ g.op = "create")),
                         Times(g.op \in {"release", "create"} /\ g.o = x),
                         Times(g.context = x) + Times(g.new = x), 0, 0, 0)
      BY <1>5, SumsHandle
    <3> HIDE DEF q, m
    <3> QED
      BY <3>1, <3>2, Zenon DEF b
  <2>3. Sums(x, a, p, 0, p, 0, 0, 0)
    BY <1>8
  <2>4. /\ p \in Nat /\ q \in Nat /\ r \in Nat /\ m \in Nat
        /\ For(o, x, k) = m - r
    BY <1>3, <1>10 DEF Times, For
  <2> HIDE DEF p, q, r, m
  <2>5. (0 + q) + m \in Nat /\ 0 + q \in Nat
    BY <2>4
  <2>6. Sums(x, a \o b, p + ((0 + q) + m), 0 + m, p + (0 + q), 0, 0, 0)
    BY <1>7, <2>2, <2>3, <2>4, <2>5, PieceConcat
  <2>7. For(o, x, k) \in Int
    BY <2>4
  <2> DEFINE s == a \o b
  <2>8. Sums(x, s, p + ((0 + q) + m), 0 + m, p + (0 + q), 0, 0, 0)
    BY <2>6
  <2> HIDE DEF s
  <2>9. Agree((p + q) + r, m, p + q, 0, For(o, x, k), 0, 0, p + ((0 + q) + m), 0 + m, p + (0 + q), 0)
    BY <2>4, <2>7 DEF Agree
  <2>10. HeaderMoves(x, For(o, x, k), 0, 0)
    BY <1>9 DEF For
  <2>11. header'[x] = header[x] \/ (header[x].PointerCount >= 1 /\ header'[x].PointerCount >= 1)
    BY <1>3, <1>9, <1>10, StillAlive
  <2>12. Effect(x, <<h>>, s) /\ NameEffect(x, <<h>>, s)
    BY <1>1, <1>3, <2>1, <2>8, <2>9, <2>10, <2>11, EffectPlain
  <2> QED
    BY <2>12 DEF s
<1>13. /\ directory' \in SUBSET Objects
       /\ handles' \in [Objects -> Nat]
       /\ leaked' \in [Objects -> Nat]
  BY <1>1, <1>3 DEF LifeTypes
<1> DEFINE s == a \o b
<1>14. /\ Then(t, s) /\ Fit(s, Live, NoObject)
       /\ \A x \in Objects : Effect(x, <<h>>, s) /\ NameEffect(x, <<h>>, s)
  BY <1>1, <1>11, <1>12 DEF b
<1> HIDE DEF s
<1> QED
  BY <1>1, <1>9, <1>13, <1>14, ThenStep DEF h

(* ExCreateHandle fails. *)
LEMMA CreateFailsKeeps ==
    ASSUME LifeInv, UNCHANGED used, NEW t \in Threads, CreateFails(t)
    PROVE  LifeInv'
<1> DEFINE h == Head(todo[t])
           s == BackOut(h) \o NotInserted(h)
<1>1. /\ At(t, "create") /\ Then(t, s)
      /\ UNCHANGED <<header, directory, handles, leaked, reaperVars>>
  BY DEF CreateFails
<1>2. "create" \in HandleOps /\ "create" \notin Deletion \cup {"queue"}
  BY DEF HandleOps, Deletion
<1>3. /\ LifeTypes /\ h.o \in Objects /\ h \in HandleSteps /\ h.op = "create"
      /\ h.o \in Live /\ Live \in SUBSET Objects /\ OwnPointer(h)
      /\ h.new = NoObject \/ h.new \in Live
  BY <1>1, <1>2, HeadKeeps DEF LifeInv, Live
<1>4. h.context = NoObject
  BY <1>3 DEF OwnPointer
<1> HIDE DEF h
<1>5. /\ s \in Seq(StepSet) /\ Fit(s, Live, NoObject)
      /\ \A x \in Objects :
            Sums(x, s, Times(h.o = x) + Times(h.new = x), Times(h.o = x), Times(h.new = x), 0, 0, 0)
  BY <1>3, BackOutPiece, Zenon
<1> HIDE DEF s
<1>6. /\ header' \in [Objects -> Headers]
      /\ \A x \in Objects : HeaderMoves(x, 0, 0, 0) /\ header'[x] = header[x]
  BY <1>1, <1>3, NobodyMoved
<1>7. ASSUME NEW x \in Objects PROVE Effect(x, <<h>>, s) /\ NameEffect(x, <<h>>, s)
  <2> DEFINE p == Times(h.o = x)
             q == Times(h.new = x)
  <2>1. Sums(x, <<h>>, (0 + q) + p, p, 0 + q, 0, 0, 0)
    <3>1. /\ Times(h.context = x) = 0 /\ Times(h.new = x) = q
          /\ Times(h.o = x /\ (h.new = NoObject \/ h.op = "create")) = p
          /\ Times(h.op \in {"release", "create"} /\ h.o = x) = p
      BY <1>3, <1>4, ConstantsAssumption DEF Times
    <3>2. Sums(x, <<h>>, Times(h.context = x) + Times(h.new = x)
                            + Times(h.o = x /\ (h.new = NoObject \/ h.op = "create")),
                         Times(h.op \in {"release", "create"} /\ h.o = x),
                         Times(h.context = x) + Times(h.new = x), 0, 0, 0)
      BY <1>3, SumsHandle
    <3> HIDE DEF q, p
    <3> QED
      BY <3>1, <3>2, Zenon
  <2>2. Sums(x, s, p + q, p, q, 0, 0, 0)
    BY <1>5
  <2>3. p \in Nat /\ q \in Nat
    BY TimesType
  <2> HIDE DEF p, q
  <2>4. Agree((0 + q) + p, p, 0 + q, 0, 0, 0, 0, p + q, p, q, 0)
    BY <2>3 DEF Agree
  <2> QED
    BY <1>1, <1>3, <1>6, <2>1, <2>2, <2>4, EffectPlain
<1>8. /\ directory' \in SUBSET Objects
      /\ handles' \in [Objects -> Nat]
      /\ leaked' \in [Objects -> Nat]
  BY <1>1, <1>3 DEF LifeTypes
<1> QED
  BY <1>1, <1>5, <1>6, <1>7, <1>8, ThenStep DEF h

(* The caller of ObInsertObject has a reference to the object, and one to  *)
(* its name.                                                               *)
LEMMA InsertPiece ==
    ASSUME NEW o \in Objects, NEW x \in Objects
    PROVE  Sums(x, <<Op("insert", o)>>, Times(o = x), 0, Times(o = x), 0, Times(o = x), 0)
<1>1. /\ Op("insert", o) \in OpSteps /\ Op("insert", o).op = "insert" /\ Op("insert", o).o = o
  BY OpIsStep
<1> DEFINE s == Op("insert", o)
<1> HIDE DEF s
<1>2. Sums(x, <<s>>, Times(s.op \in {"object", "insert"} /\ s.o = x),
                     Times(s.op = "uncount" /\ s.o = x),
                     Times(s.op \in {"name", "insert", "lookup"} /\ s.o = x),
                     Times(s.op \in Deletion /\ s.o = x),
                     Times(s.op = "insert" /\ s.o = x), Times(s.op = "queue"))
  BY <1>1, SumsOp DEF s
<1>3. /\ Times(s.op \in {"object", "insert"} /\ s.o = x) = Times(o = x)
      /\ Times(s.op = "uncount" /\ s.o = x) = 0
      /\ Times(s.op \in {"name", "insert", "lookup"} /\ s.o = x) = Times(o = x)
      /\ Times(s.op \in Deletion /\ s.o = x) = 0
      /\ Times(s.op = "insert" /\ s.o = x) = Times(o = x)
      /\ Times(s.op = "queue") = 0
  BY <1>1 DEF s, Times, Deletion
<1> QED
  BY <1>2, <1>3, Zenon DEF s

(* The facts about a thread in ObInsertObject. *)
LEMMA AtInsert ==
    ASSUME LifeInv, NEW t \in Threads, At(t, "insert")
    PROVE  /\ LifeTypes /\ Object(t) \in Objects /\ Head(todo[t]) = Op("insert", Object(t))
           /\ header[Object(t)].PointerCount >= 1 /\ Object(t) \in Live
           /\ Live \in SUBSET Objects /\ todo \in Todos
           /\ 1 \in DOMAIN todo[t] /\ todo[t][1] = Op("insert", Object(t))
<1>1. "insert" \notin HandleOps /\ "insert" \notin Deletion \cup {"queue"}
  BY DEF HandleOps, Deletion
<1> QED
  BY <1>1, HeadKeeps DEF LifeInv, Live

(* An object that was looked up. *)
LEMMA FoundLives ==
    ASSUME LifeInv, NEW o, NEW b \in Found(o)
    PROVE  b \in Objects /\ b \in directory /\ header[b].PointerCount >= 1 /\ b \in Live
<1>1. b \in directory /\ b \in Objects
  BY DEF Found, LifeInv, LifeTypes
<1> QED
  BY <1>1, KeptAlive

(* ObInsertObject fails. *)
LEMMA InsertFailsKeeps ==
    ASSUME LifeInv, UNCHANGED used, NEW t \in Threads, InsertFails(t)
    PROVE  LifeInv'
<1> DEFINE o == Object(t)
           s == Drop(o)
<1>1. /\ At(t, "insert") /\ Then(t, s)
      /\ UNCHANGED <<header, directory, handles, leaked, reaperVars>>
  BY DEF InsertFails
<1>2. /\ LifeTypes
      /\ o \in Objects
      /\ Head(todo[t]) = Op("insert", o)
      /\ o \in Live
      /\ Live \in SUBSET Objects
  BY <1>1, AtInsert
<1> HIDE DEF o
<1>3. Fit(s, Live, NoObject)
  BY <1>2, FitDrop
<1>4. /\ header' \in [Objects -> Headers]
      /\ \A x \in Objects : HeaderMoves(x, 0, 0, 0) /\ header'[x] = header[x]
  BY <1>1, <1>2, NobodyMoved
<1>5. ASSUME NEW x \in Objects
      PROVE  Effect(x, <<Head(todo[t])>>, s) /\ NameEffect(x, <<Head(todo[t])>>, s)
  <2> DEFINE p == Times(o = x)
  <2>1. Sums(x, <<Head(todo[t])>>, p, 0, p, 0, p, 0)
    BY <1>2, InsertPiece
  <2>2. Sums(x, s, p, 0, p, 0, 0, 0)
    BY <1>2, SumsDrop
  <2>3. p \in {0, 1}
    BY DEF Times
  <2> HIDE DEF p, s
  <2>4. Agree(p, 0, p, p, 0, 0, 0, p, 0, p, 0)
    BY <2>3 DEF Agree
  <2> QED
    BY <1>1, <1>2, <1>4, <2>1, <2>2, <2>4, EffectPlain
<1>6. /\ directory' \in SUBSET Objects
      /\ handles' \in [Objects -> Nat]
      /\ leaked' \in [Objects -> Nat]
  BY <1>1, <1>2 DEF LifeTypes
<1> HIDE DEF s
<1> QED
  BY <1>1, <1>3, <1>4, <1>5, <1>6, ThenStep

(* An object of that name is in the way. *)
LEMMA CollisionKeeps ==
    ASSUME LifeInv, UNCHANGED used, NEW t \in Threads, Collision(t)
    PROVE  LifeInv'
<1> DEFINE o == Object(t)
<1> PICK b \in Found(o) : header' = LookedUp(b, 1) /\ Then(t, Drop(b) \o Drop(o))
  BY DEF Collision
<1> DEFINE s == Drop(b) \o Drop(o)
<1>1. At(t, "insert") /\ Then(t, s) /\ UNCHANGED <<directory, handles, leaked, reaperVars>>
  BY DEF Collision
<1>2. /\ LifeTypes
      /\ o \in Objects
      /\ Head(todo[t]) = Op("insert", o)
      /\ o \in Live
      /\ Live \in SUBSET Objects
  BY <1>1, AtInsert
<1>3. b \in Objects /\ b \in directory /\ header[b].PointerCount >= 1 /\ b \in Live
  BY FoundLives
<1> HIDE DEF o
<1>4. Fit(s, Live, NoObject)
  <2>1. Fit(Drop(b), Live, NoObject) /\ Fit(Drop(o), Live, NoObject)
    BY <1>2, <1>3, FitDrop
  <2> QED
    BY <2>1, FitBefore
<1>5. /\ header' \in [Objects -> Headers]
      /\ \A x \in Objects : /\ HeaderMoves(x, For(b, x, 1), For(b, x, 0), For(b, x, 1))
                            /\ x # b => header'[x] = header[x]
  BY <1>2, <1>3, LookedUpMoved
<1>6. ASSUME NEW x \in Objects
      PROVE  /\ Effect(x, <<Head(todo[t])>>, s)
             /\ used # Objects => NameEffect(x, <<Head(todo[t])>>, s)
  <2> DEFINE p == Times(o = x)
             q == Times(b = x)
  <2>1. Sums(x, <<Head(todo[t])>>, p, 0, p, 0, p, 0)
    BY <1>2, InsertPiece
  <2>2. /\ Sums(x, Drop(b), q, 0, q, 0, 0, 0) /\ Sums(x, Drop(o), p, 0, p, 0, 0, 0)
        /\ Drop(b) \in Seq(StepSet) /\ Drop(o) \in Seq(StepSet)
    BY <1>2, <1>3, SumsDrop
  <2>3. p \in {0, 1} /\ q \in {0, 1} /\ For(b, x, 1) = q /\ For(b, x, 0) = 0
    BY DEF Times, For
  <2> HIDE DEF p, q, s
  <2>4. p \in Nat /\ q \in Nat
    BY <2>3
  <2>5. Sums(x, s, q + p, 0 + 0, q + p, 0, 0, 0)
    BY <2>2, <2>4, PieceConcat DEF s
  <2>6. Agree(p, 0, p, p, q, 0, q, q + p, 0 + 0, q + p, 0)
    BY <2>3 DEF Agree
  <2>7. HeaderMoves(x, q, 0, q)
    BY <1>5, <2>3
  <2>8. header'[x] = header[x] \/ (header[x].PointerCount >= 1 /\ header'[x].PointerCount >= 1)
    BY <1>2, <1>3, <1>5, StillAlive
  <2>9. used # Objects => \/ q = 0
                          \/ header[x].QueryReferences > 0 /\ header'[x].QueryReferences > 0
    BY <1>3, <1>5, <2>3, NameHeld
  <2> QED
    BY <1>1, <1>2, <2>1, <2>5, <2>6, <2>7, <2>8, <2>9, EffectPlain
<1>7. /\ directory' \in SUBSET Objects
      /\ handles' \in [Objects -> Nat]
      /\ leaked' \in [Objects -> Nat]
  BY <1>1, <1>2 DEF LifeTypes
<1> HIDE DEF s
<1> QED
  BY <1>1, <1>4, <1>5, <1>6, <1>7, ThenStep

(* It is opened instead. *)
LEMMA OpenIfKeeps ==
    ASSUME LifeInv, UNCHANGED used, NEW t \in Threads, OpenIf(t)
    PROVE  LifeInv'
<1> DEFINE o == Object(t)
<1> PICK b \in Found(o) : header' = LookedUp(b, 1) /\ Then(t, <<HandleOp("count", b, b, o)>>)
  BY DEF OpenIf
<1> DEFINE h == HandleOp("count", b, b, o)
           s == <<h>>
<1>1. At(t, "insert") /\ Then(t, s) /\ UNCHANGED <<directory, handles, leaked, reaperVars>>
  BY DEF OpenIf
<1>2. /\ LifeTypes
      /\ o \in Objects
      /\ Head(todo[t]) = Op("insert", o)
      /\ o \in Live
      /\ Live \in SUBSET Objects
  BY <1>1, AtInsert
<1>3. b \in Objects /\ b \in directory /\ header[b].PointerCount >= 1 /\ b \in Live
  BY FoundLives
<1> HIDE DEF o
<1>4. /\ h \in HandleSteps /\ h \in StepSet
      /\ h.op = "count" /\ h.o = b /\ h.context = b /\ h.new = o
  BY <1>2, <1>3, HandleIsStep DEF HandleOps, Bodies
<1> HIDE DEF h
<1>5. Fit(s, Live, NoObject)
  BY <1>3, <1>4, FitOne DEF OwnPointer, Weak
<1>6. /\ header' \in [Objects -> Headers]
      /\ \A x \in Objects : /\ HeaderMoves(x, For(b, x, 1), For(b, x, 0), For(b, x, 1))
                            /\ x # b => header'[x] = header[x]
  BY <1>2, <1>3, LookedUpMoved
<1>7. ASSUME NEW x \in Objects
      PROVE  /\ Effect(x, <<Head(todo[t])>>, s)
             /\ used # Objects => NameEffect(x, <<Head(todo[t])>>, s)
  <2> DEFINE p == Times(o = x)
             q == Times(b = x)
  <2>1. Sums(x, <<Head(todo[t])>>, p, 0, p, 0, p, 0)
    BY <1>2, InsertPiece
  <2>2. Sums(x, s, (q + p) + 0, 0, q + p, 0, 0, 0)
    <3>1. /\ Times(h.context = x) = q /\ Times(h.new = x) = p
          /\ Times(h.o = x /\ (h.new = NoObject \/ h.op = "create")) = 0
          /\ Times(h.op \in {"release", "create"} /\ h.o = x) = 0
      BY <1>2, <1>4, ConstantsAssumption DEF Times
    <3>2. Sums(x, <<h>>, Times(h.context = x) + Times(h.new = x)
                            + Times(h.o = x /\ (h.new = NoObject \/ h.op = "create")),
                         Times(h.op \in {"release", "create"} /\ h.o = x),
                         Times(h.context = x) + Times(h.new = x), 0, 0, 0)
      BY <1>4, SumsHandle
    <3> HIDE DEF q, p
    <3> QED
      BY <3>1, <3>2, Zenon
  <2>3. p \in {0, 1} /\ q \in {0, 1} /\ For(b, x, 1) = q /\ For(b, x, 0) = 0
    BY DEF Times, For
  <2> HIDE DEF p, q, s
  <2>6. Agree(p, 0, p, p, q, 0, q, (q + p) + 0, 0, q + p, 0)
    BY <2>3 DEF Agree
  <2>7. HeaderMoves(x, q, 0, q)
    BY <1>6, <2>3
  <2>8. header'[x] = header[x] \/ (header[x].PointerCount >= 1 /\ header'[x].PointerCount >= 1)
    BY <1>2, <1>3, <1>6, StillAlive
  <2>9. used # Objects => \/ q = 0
                          \/ header[x].QueryReferences > 0 /\ header'[x].QueryReferences > 0
    BY <1>3, <1>6, <2>3, NameHeld
  <2> QED
    BY <1>1, <1>2, <2>1, <2>2, <2>6, <2>7, <2>8, <2>9, EffectPlain
<1>8. /\ directory' \in SUBSET Objects
      /\ handles' \in [Objects -> Nat]
      /\ leaked' \in [Objects -> Nat]
  BY <1>1, <1>2 DEF LifeTypes
<1> HIDE DEF s
<1> QED
  BY <1>1, <1>5, <1>6, <1>7, <1>8, ThenStep

(* ObOpenObjectByName *)
LEMMA OpenByNameKeeps ==
    ASSUME LifeInv, UNCHANGED used, NEW t \in Threads, NEW o, OpenByName(t, o)
    PROVE  LifeInv'
<1> PICK b \in Found(o) :
       header' = LookedUp(b, 2) /\ Begin(t, <<HandleOp("count", b, b, NoObject)>>)
  BY DEF OpenByName
<1> DEFINE h == HandleOp("count", b, b, NoObject)
           s == <<h>>
<1>1. Begin(t, s) /\ UNCHANGED <<directory, handles, leaked, reaperVars>>
  BY DEF OpenByName
<1>2. LifeTypes /\ Live \in SUBSET Objects
  BY DEF LifeInv, Live
<1>3. b \in Objects /\ b \in directory /\ header[b].PointerCount >= 1 /\ b \in Live
  BY FoundLives
<1>4. /\ h \in HandleSteps /\ h \in StepSet
      /\ h.op = "count" /\ h.o = b /\ h.context = b /\ h.new = NoObject
  BY <1>3, HandleIsStep DEF HandleOps, Bodies
<1> HIDE DEF h
<1>5. Fit(s, Live, NoObject)
  BY <1>3, <1>4, FitOne DEF OwnPointer, Weak
<1>6. /\ header' \in [Objects -> Headers]
      /\ \A x \in Objects : /\ HeaderMoves(x, For(b, x, 2), For(b, x, 0), For(b, x, 1))
                            /\ x # b => header'[x] = header[x]
  BY <1>2, <1>3, LookedUpMoved
<1>7. ASSUME NEW x \in Objects
      PROVE  /\ Effect(x, <<>>, s)
             /\ used # Objects => NameEffect(x, <<>>, s)
  <2> DEFINE q == Times(b = x)
  <2>1. Sums(x, <<>>, 0, 0, 0, 0, 0, 0)
    BY SumsNone
  <2>2. Sums(x, s, (q + 0) + q, 0, q + 0, 0, 0, 0)
    <3>1. /\ Times(h.context = x) = q /\ Times(h.new = x) = 0
          /\ Times(h.o = x /\ (h.new = NoObject \/ h.op = "create")) = q
          /\ Times(h.op \in {"release", "create"} /\ h.o = x) = 0
      BY <1>4, ConstantsAssumption DEF Times
    <3>2. Sums(x, <<h>>, Times(h.context = x) + Times(h.new = x)
                            + Times(h.o = x /\ (h.new = NoObject \/ h.op = "create")),
                         Times(h.op \in {"release", "create"} /\ h.o = x),
                         Times(h.context = x) + Times(h.new = x), 0, 0, 0)
      BY <1>4, SumsHandle
    <3> HIDE DEF q
    <3> QED
      BY <3>1, <3>2, Zenon
  <2>3. q \in {0, 1} /\ For(b, x, 2) = q + q /\ For(b, x, 1) = q /\ For(b, x, 0) = 0
    BY DEF Times, For
  <2> HIDE DEF q, s
  <2>6. Agree(0, 0, 0, 0, q + q, 0, q, (q + 0) + q, 0, q + 0, 0)
    BY <2>3 DEF Agree
  <2>7. HeaderMoves(x, q + q, 0, q)
    BY <1>6, <2>3, Zenon
  <2>8. header'[x] = header[x] \/ (header[x].PointerCount >= 1 /\ header'[x].PointerCount >= 1)
    BY <1>2, <1>3, <1>6, StillAlive
  <2>9. used # Objects => \/ q = 0
                          \/ header[x].QueryReferences > 0 /\ header'[x].QueryReferences > 0
    BY <1>3, <1>6, <2>3, NameHeld
  <2> QED
    BY <1>1, <1>2, <2>1, <2>2, <2>6, <2>7, <2>8, <2>9, EffectPlain
<1>8. /\ directory' \in SUBSET Objects
      /\ handles' \in [Objects -> Nat]
      /\ leaked' \in [Objects -> Nat]
  BY <1>1, <1>2 DEF LifeTypes
<1> HIDE DEF s
<1> QED
  BY <1>1, <1>3, <1>5, <1>6, <1>7, <1>8, BeginStep

(* The object is of another type. *)
LEMMA OpenFailsKeeps ==
    ASSUME LifeInv, UNCHANGED used, NEW t \in Threads, NEW o, OpenFails(t, o)
    PROVE  LifeInv'
<1> PICK b \in Found(o) : header' = LookedUp(b, 1) /\ Begin(t, Drop(b))
  BY DEF OpenFails
<1> DEFINE s == Drop(b)
<1>1. Begin(t, s) /\ UNCHANGED <<directory, handles, leaked, reaperVars>>
  BY DEF OpenFails
<1>2. LifeTypes /\ Live \in SUBSET Objects
  BY DEF LifeInv, Live
<1>3. b \in Objects /\ b \in directory /\ header[b].PointerCount >= 1 /\ b \in Live
  BY FoundLives
<1>4. Fit(s, Live, NoObject)
  BY <1>2, <1>3, FitDrop
<1>5. /\ header' \in [Objects -> Headers]
      /\ \A x \in Objects : /\ HeaderMoves(x, For(b, x, 1), For(b, x, 0), For(b, x, 1))
                            /\ x # b => header'[x] = header[x]
  BY <1>2, <1>3, LookedUpMoved
<1>6. ASSUME NEW x \in Objects
      PROVE  /\ Effect(x, <<>>, s)
             /\ used # Objects => NameEffect(x, <<>>, s)
  <2> DEFINE q == Times(b = x)
  <2>1. Sums(x, <<>>, 0, 0, 0, 0, 0, 0)
    BY SumsNone
  <2>2. Sums(x, s, q, 0, q, 0, 0, 0)
    BY <1>3, SumsDrop
  <2>3. q \in {0, 1} /\ For(b, x, 1) = q /\ For(b, x, 0) = 0
    BY DEF Times, For
  <2> HIDE DEF q, s
  <2>6. Agree(0, 0, 0, 0, q, 0, q, q, 0, q, 0)
    BY <2>3 DEF Agree
  <2>7. HeaderMoves(x, q, 0, q)
    BY <1>5, <2>3
  <2>8. header'[x] = header[x] \/ (header[x].PointerCount >= 1 /\ header'[x].PointerCount >= 1)
    BY <1>2, <1>3, <1>5, StillAlive
  <2>9. used # Objects => \/ q = 0
                          \/ header[x].QueryReferences > 0 /\ header'[x].QueryReferences > 0
    BY <1>3, <1>5, <2>3, NameHeld
  <2> QED
    BY <1>1, <1>2, <2>1, <2>2, <2>6, <2>7, <2>8, <2>9, EffectPlain
<1>7. /\ directory' \in SUBSET Objects
      /\ handles' \in [Objects -> Nat]
      /\ leaked' \in [Objects -> Nat]
  BY <1>1, <1>2 DEF LifeTypes
<1> HIDE DEF s
<1> QED
  BY <1>1, <1>3, <1>4, <1>5, <1>6, <1>7, BeginStep

(* ObReferenceObjectByHandle *)
LEMMA ReferenceKeeps ==
    ASSUME LifeInv, UNCHANGED used, NEW t \in Threads, NEW o \in Objects,
           NEW ops \in Uses(o), Reference(t, o, ops)
    PROVE  LifeInv'
<1> DEFINE s == ops \o <<Op("object", o)>>
<1>1. /\ Begin(t, s) /\ header' = [header EXCEPT ![o].PointerCount = @ + 1]
      /\ UNCHANGED <<directory, handles, leaked, reaperVars>> /\ handles[o] > 0
  BY DEF Reference
<1>2. LifeTypes /\ Live \in SUBSET Objects
  BY DEF LifeInv, Live
<1>3. header[o].PointerCount >= 1 /\ o \in Live
  BY <1>1, KeptAlive
<1>4. /\ Fit(ops, Live, o)
      /\ \A x \in Objects : Sums(x, ops, 0, 0, 0, 0, 0, 0)
  <2>1. CASE ops = <<>>
    BY <2>1, FitNone, SumsNone
  <2>2. ASSUME NEW op \in {"permanent", "temporary", "open"}, ops = <<Op(op, o)>>
        PROVE  Fit(ops, Live, o) /\ \A x \in Objects : Sums(x, ops, 0, 0, 0, 0, 0, 0)
    <3>1. op \in Weak
      BY DEF Weak
    <3>2. \A x : Times(op = "uncount" /\ o = x) = 0 /\ Times(op \in {"name", "lookup"} /\ o = x) = 0
      BY DEF Times
    <3> QED
      BY <1>2, <1>3, <2>2, <3>1, <3>2, WeakPiece
  <2> QED
    BY <2>1, <2>2 DEF Uses
<1> DEFINE e == <<Op("object", o)>>
<1>5. /\ Fit(e, Live, NoObject) /\ HasObject(e, o)
      /\ \A x \in Objects : Sums(x, e, Times(o = x), 0, 0, 0, 0, 0)
  BY <1>2, <1>3, ObjectPiece
<1>6. s = ops \o e
  OBVIOUS
<1> HIDE DEF e, s
<1>7. Fit(s, Live, NoObject) /\ ops \in Seq(StepSet) /\ e \in Seq(StepSet)
  BY <1>4, <1>5, <1>6, FitBefore DEF Fit
<1>8. /\ header' \in [Objects -> Headers]
      /\ \A x \in Objects : /\ HeaderMoves(x, For(o, x, 1), For(o, x, 0), For(o, x, 0))
                            /\ x # o => header'[x] = header[x]
  BY <1>1, <1>2, PointerUp
<1>9. ASSUME NEW x \in Objects
      PROVE  Effect(x, <<>>, s) /\ NameEffect(x, <<>>, s)
  <2> DEFINE q == Times(o = x)
  <2>1. Sums(x, <<>>, 0, 0, 0, 0, 0, 0)
    BY SumsNone
  <2>2. Sums(x, e, q, 0, 0, 0, 0, 0) /\ Sums(x, ops, 0, 0, 0, 0, 0, 0)
    BY <1>4, <1>5
  <2>3. q \in {0, 1} /\ For(o, x, 1) = q /\ For(o, x, 0) = 0
    BY DEF Times, For
  <2> HIDE DEF q
  <2>4. q \in Nat
    BY <2>3
  <2>5. Sums(x, ops \o e, 0 + q, 0 + 0, 0 + 0, 0, 0, 0)
    BY <1>7, <2>2, <2>4, PieceConcat
  <2>9. Sums(x, s, 0 + q, 0 + 0, 0 + 0, 0, 0, 0)
    BY <1>6, <2>5, Zenon
  <2>6. Agree(0, 0, 0, 0, q, 0, 0, 0 + q, 0 + 0, 0 + 0, 0)
    BY <2>3 DEF Agree
  <2>7. HeaderMoves(x, q, 0, 0)
    BY <1>8, <2>3
  <2>8. header'[x] = header[x] \/ (header[x].PointerCount >= 1 /\ header'[x].PointerCount >= 1)
    BY <1>2, <1>3, <1>8, StillAlive
  <2> QED
    BY <1>1, <1>2, <2>1, <2>9, <2>6, <2>7, <2>8, EffectPlain
<1>10. /\ directory' \in SUBSET Objects
       /\ handles' \in [Objects -> Nat]
       /\ leaked' \in [Objects -> Nat]
  BY <1>1, <1>2 DEF LifeTypes
<1> QED
  BY <1>1, <1>7, <1>8, <1>9, <1>10, BeginStep

(* A step that adds k handles to x, for which k references and counts were *)
(* due.                                                                    *)
HandleMoves(x, k, m) == k \in Int /\ m = -k /\ handles'[x] = handles[x] + k

LEMMA EffectHandle ==
    ASSUME LifeTypes, NEW x \in Objects, UNCHANGED <<header, directory, leaked>>,
           NEW a, NEW s, NEW k, NEW m, HandleMoves(x, k, m),
           NEW r1, NEW c1, NEW n1, NEW r2, NEW c2, NEW n2,
           Sums(x, a, r1, c1, n1, 0, 0, 0), Sums(x, s, r2, c2, n2, 0, 0, 0),
           Agree(r1, c1, n1, 0, m, m, 0, r2, c2, n2, 0)
    PROVE  Effect(x, a, s) /\ NameEffect(x, a, s)
<1>1. /\ RefsIn(x, a) = r1 /\ Hits(Counted(x), a) = c1 /\ NamesIn(x, a) = n1
      /\ Hits(Deleting(x), a) = 0 /\ Hits(Inserting(x), a) = 0 /\ Hits(Queueing, a) = 0
      /\ RefsIn(x, s) = r2 /\ Hits(Counted(x), s) = c2 /\ NamesIn(x, s) = n2
      /\ Hits(Deleting(x), s) = 0 /\ Hits(Inserting(x), s) = 0 /\ Hits(Queueing, s) = 0
  BY DEF Sums
<1>2. /\ header[x].PointerCount \in Int /\ header[x].HandleCount \in Int
      /\ header[x].QueryReferences \in Int
      /\ handles[x] \in Nat /\ leaked[x] \in Nat /\ Times(x \in directory) \in Nat
  BY Numbers, TimesType
<1>3. /\ r1 \in Int /\ c1 \in Int /\ n1 \in Int /\ k \in Int
      /\ r2 = r1 - k /\ c2 = c1 - k /\ n2 = n1
  BY DEF Agree, HandleMoves
<1>4. handles'[x] - handles[x] = k /\ leaked'[x] - leaked[x] = 0
      /\ Times(x \in directory') - Times(x \in directory) = 0
  BY <1>2, <1>3 DEF HandleMoves
<1>5. /\ header[x].PointerCount = header[x].PointerCount + k + 0 + 0 + (r2 - r1)
      /\ header[x].HandleCount = header[x].HandleCount + k + (c2 - c1)
      /\ header[x].QueryReferences = header[x].QueryReferences + (n2 - n1)
  BY <1>2, <1>3
<1>6. /\ header'[x].PointerCount =
          header[x].PointerCount + (handles'[x] - handles[x])
          + (Times(x \in directory') - Times(x \in directory)) + (leaked'[x] - leaked[x])
          + (RefsIn(x, s) - RefsIn(x, a))
      /\ header'[x].HandleCount =
          header[x].HandleCount + (handles'[x] - handles[x])
          + (Hits(Counted(x), s) - Hits(Counted(x), a))
      /\ header'[x].QueryReferences =
           header[x].QueryReferences + (NamesIn(x, s) - NamesIn(x, a))
  BY <1>1, <1>4, <1>5, Zenon
<1> QED
  BY <1>1, <1>6, Zenon DEF Effect, NameEffect

(* ExCreateHandle *)
LEMMA CreateHandleKeeps ==
    ASSUME LifeInv, UNCHANGED used, NEW t \in Threads, CreateHandle(t)
    PROVE  LifeInv'
<1> DEFINE h == Head(todo[t])
           s == Inserted(h.new)
<1>1. /\ At(t, "create") /\ Then(t, s)
      /\ handles' = [handles EXCEPT ![h.o] = @ + 1]
      /\ UNCHANGED <<header, directory, leaked, reaperVars>>
  BY DEF CreateHandle
<1>2. "create" \in HandleOps /\ "create" \notin Deletion \cup {"queue"}
  BY DEF HandleOps, Deletion
<1>3. /\ LifeTypes /\ h.o \in Objects /\ h \in HandleSteps /\ h.op = "create"
      /\ h.o \in Live /\ Live \in SUBSET Objects /\ OwnPointer(h)
      /\ h.new = NoObject \/ h.new \in Live
  BY <1>1, <1>2, HeadKeeps DEF LifeInv, Live
<1>4. h.context = NoObject /\ h.new \in Bodies
  BY <1>3 DEF OwnPointer, HandleSteps
<1> HIDE DEF h
<1>5. s = ReleaseContext(h.new)
  BY <1>4, InsertedPiece
<1> HIDE DEF s
<1>6. /\ s \in Seq(StepSet) /\ Fit(s, Live, NoObject)
      /\ \A x \in Objects : Sums(x, s, Times(h.new = x), 0, Times(h.new = x), 0, 0, 0)
  BY <1>3, <1>4, <1>5, ContextPiece
<1>7. ASSUME NEW x \in Objects PROVE Effect(x, <<h>>, s) /\ NameEffect(x, <<h>>, s)
  <2> DEFINE p == Times(h.o = x)
             q == Times(h.new = x)
  <2>1. Sums(x, <<h>>, (0 + q) + p, p, 0 + q, 0, 0, 0)
    <3>1. /\ Times(h.context = x) = 0 /\ Times(h.new = x) = q
          /\ Times(h.o = x /\ (h.new = NoObject \/ h.op = "create")) = p
          /\ Times(h.op \in {"release", "create"} /\ h.o = x) = p
      BY <1>3, <1>4, ConstantsAssumption DEF Times
    <3>2. Sums(x, <<h>>, Times(h.context = x) + Times(h.new = x)
                            + Times(h.o = x /\ (h.new = NoObject \/ h.op = "create")),
                         Times(h.op \in {"release", "create"} /\ h.o = x),
                         Times(h.context = x) + Times(h.new = x), 0, 0, 0)
      BY <1>3, SumsHandle
    <3> HIDE DEF q, p
    <3> QED
      BY <3>1, <3>2, Zenon
  <2>2. Sums(x, s, q, 0, q, 0, 0, 0)
    BY <1>6
  <2>3. p \in Nat /\ q \in Nat
    BY TimesType
  <2>4. handles \in [Objects -> Nat]
    BY <1>3 DEF LifeTypes
  <2>5. HandleMoves(x, p, -p)
    BY <1>1, <1>3, <2>4 DEF HandleMoves, Times
  <2> HIDE DEF p, q
  <2>6. Agree((0 + q) + p, p, 0 + q, 0, -p, -p, 0, q, 0, q, 0)
    BY <2>3 DEF Agree
  <2> QED
    BY <1>1, <1>3, <2>1, <2>2, <2>5, <2>6, EffectHandle
<1>8. /\ directory' \in SUBSET Objects /\ handles' \in [Objects -> Nat]
      /\ leaked' \in [Objects -> Nat] /\ header' \in [Objects -> Headers]
  BY <1>1, <1>3 DEF LifeTypes
<1> QED
  BY <1>1, <1>6, <1>7, <1>8, ThenStep DEF h

(* ObpCloseHandleTableEntry *)
LEMMA CloseKeeps ==
    ASSUME LifeInv, UNCHANGED used, NEW t \in Threads, NEW o \in Objects, Close(t, o)
    PROVE  LifeInv'
<1> DEFINE s == <<Op("uncount", o), Op("object", o)>>
           e == <<Op("uncount", o)>>
           f == <<Op("object", o)>>
<1>1. /\ handles[o] > 0 /\ Begin(t, s)
      /\ handles' = [handles EXCEPT ![o] = @ - 1]
      /\ UNCHANGED <<header, directory, leaked, reaperVars>>
  BY DEF Close
<1>2. /\ LifeTypes
      /\ Live \in SUBSET Objects
      /\ "uncount" \in Weak
      /\ handles \in [Objects -> Nat]
  BY DEF LifeInv, Live, Weak, LifeTypes
<1>3. header[o].PointerCount >= 1 /\ o \in Live
  BY <1>1, KeptAlive
<1>4. Fit(s, Live, NoObject) /\ s = e \o f
  BY <1>2, <1>3, FitWeak
<1>5. /\ e \in Seq(StepSet) /\ f \in Seq(StepSet)
      /\ \A x \in Objects : Sums(x, f, Times(o = x), 0, 0, 0, 0, 0)
  BY <1>2, WeakPiece, ObjectPiece
<1>6. \A x \in Objects : Sums(x, e, 0, Times(o = x), 0, 0, 0, 0)
  <2>1. \A x \in Objects : Sums(x, e, 0, Times("uncount" = "uncount" /\ o = x),
                                 Times("uncount" \in {"name", "lookup"} /\ o = x), 0, 0, 0)
    BY <1>2, WeakPiece
  <2>2. \A x : /\ Times("uncount" = "uncount" /\ o = x) = Times(o = x)
               /\ Times("uncount" \in {"name", "lookup"} /\ o = x) = 0
    BY DEF Times
  <2> QED
    BY <2>1, <2>2
<1> HIDE DEF s, e, f
<1>7. ASSUME NEW x \in Objects PROVE Effect(x, <<>>, s) /\ NameEffect(x, <<>>, s)
  <2> DEFINE p == Times(o = x)
  <2>1. Sums(x, <<>>, 0, 0, 0, 0, 0, 0)
    BY SumsNone
  <2>2. Sums(x, e, 0, p, 0, 0, 0, 0) /\ Sums(x, f, p, 0, 0, 0, 0, 0)
    BY <1>5, <1>6
  <2>3. p \in Nat
    BY TimesType
  <2>4. HandleMoves(x, -p, p)
    BY <1>1, <1>2 DEF HandleMoves, Times
  <2> HIDE DEF p
  <2>5. Sums(x, e \o f, 0 + p, p + 0, 0 + 0, 0, 0, 0)
    BY <1>5, <2>2, <2>3, PieceConcat
  <2>6. Sums(x, s, 0 + p, p + 0, 0 + 0, 0, 0, 0)
    BY <1>4, <2>5, Zenon
  <2>7. Agree(0, 0, 0, 0, p, p, 0, 0 + p, p + 0, 0 + 0, 0)
    BY <2>3 DEF Agree
  <2> QED
    BY <1>1, <1>2, <2>1, <2>4, <2>6, <2>7, EffectHandle
<1>8. /\ directory' \in SUBSET Objects /\ handles' \in [Objects -> Nat]
      /\ leaked' \in [Objects -> Nat] /\ header' \in [Objects -> Headers]
  BY <1>1, <1>2 DEF LifeTypes
<1> QED
  BY <1>1, <1>4, <1>7, <1>8, BeginStep

(* What a step makes of the number of those that use a name. *)
LEMMA ThenNames ==
    ASSUME LifeInv, NEW t \in Threads, NEW op, At(t, op), NEW s \in Seq(StepSet), Then(t, s),
           NEW x \in Objects,
           NEW r1, NEW c1, NEW n1, NEW d1, NEW i1, NEW q1,
           NEW r2, NEW c2, NEW n2, NEW d2, NEW i2, NEW q2,
           Sums(x, <<Head(todo[t])>>, r1, c1, n1, d1, i1, q1),
           Sums(x, s, r2, c2, n2, d2, i2, q2)
    PROVE  NamesDue(x)' = NamesDue(x) + (n2 - n1)
<1>1. todo[t] # <<>> /\ todo \in Todos
  BY HeadKeeps
<1>2. Moves(x, r2 - r1, c2 - c1, n2 - n1, d2 - d1, i2 - i1, q2 - q1)
  BY <1>1, ThenMoves
<1> QED
  BY <1>2 DEF Moves

(* The name that a thread is to give back is in use. *)
LEMMA NameUsed ==
    ASSUME LifeInv, used # Objects, NEW t \in Threads, NEW op \in {"name", "lookup", "insert"},
           At(t, op)
    PROVE  /\ NameInv(Object(t)) /\ NamesDue(Object(t)) \in Nat /\ NamesDue(Object(t)) >= 1
           /\ header[Object(t)].QueryReferences \in Int
           /\ header[Object(t)].QueryReferences >= 1
<1> DEFINE o == Object(t)
           d == Times(o \in directory \/ (header[o].QueryReferences > 0 /\ ~ header[o].Directory))
<1>1. op \notin HandleOps
  BY DEF HandleOps
<1>2. /\ o \in Objects /\ todo[t][1] = Op(op, o) /\ todo[t][1] \in OpSteps /\ todo \in Todos
      /\ 1 \in DOMAIN todo[t] /\ todo[t][1].op = op /\ todo[t][1].o = o
  BY <1>1, HeadKeeps
<1> HIDE DEF o
<1>3. todo[t][1] \in Naming(o)
  BY <1>2 DEF Naming
<1>4. Among(Naming(o)) >= 1 /\ \A M : Among(M) \in Nat
  BY <1>2, <1>3, AmongLeast
<1>5. NamesDue(o) \in Nat /\ NamesDue(o) >= 1
  BY <1>4 DEF NamesDue
<1>6. NameInv(o) /\ header[o].QueryReferences \in Int /\ d \in Nat
  BY <1>2, Numbers, TimesType DEF LifeInv, NamesInv
<1>7. header[o].QueryReferences = d + NamesDue(o)
  BY <1>6 DEF NameInv
<1> HIDE DEF d
<1>8. header[o].QueryReferences >= 1
  BY <1>5, <1>6, <1>7
<1> QED
  BY <1>5, <1>6, <1>8 DEF o

(* ObInsertObject puts the object into its directory. *)
LEMMA InsertKeeps ==
    ASSUME LifeInv, UNCHANGED used, NEW t \in Threads, Insert(t)
    PROVE  LifeInv'
<1> DEFINE o == Object(t)
           h == HandleOp("count", o, NoObject, o)
           s == <<h>>
           g == [header[o] EXCEPT !.PointerCount = header[o].PointerCount + 1]
           f == [g EXCEPT !.Directory = TRUE]
<1>1. /\ At(t, "insert") /\ Then(t, s) /\ directory' = directory \cup {o}
      /\ header' = [header EXCEPT ![o].PointerCount = @ + 1, ![o].Directory = TRUE]
      /\ UNCHANGED <<handles, leaked, reaperVars>>
  BY DEF Insert
<1>2. /\ LifeTypes /\ o \in Objects /\ Head(todo[t]) = Op("insert", o) /\ o \in Live
      /\ Live \in SUBSET Objects /\ header[o].PointerCount >= 1 /\ todo \in Todos
      /\ 1 \in DOMAIN todo[t] /\ todo[t][1] = Op("insert", o)
  BY <1>1, AtInsert
<1>3. /\ header[o] \in Headers
      /\ header \in [Objects -> Headers]
      /\ header[o].PointerCount \in Int
  BY <1>2, Numbers DEF LifeTypes
<1>4. /\ f \in Headers /\ f.live = header[o].live /\ f.PointerCount = header[o].PointerCount + 1
      /\ f.HandleCount = header[o].HandleCount /\ f.QueryReferences = header[o].QueryReferences
      /\ f.Directory
  <2>1. /\ g \in Headers /\ g.live = header[o].live /\ g.PointerCount = header[o].PointerCount + 1
        /\ g.HandleCount = header[o].HandleCount /\ g.QueryReferences = header[o].QueryReferences
    BY <1>3 DEF Headers
  <2> HIDE DEF g
  <2> QED
    BY <2>1 DEF Headers
<1>5. /\ header' \in [Objects -> Headers] /\ header'[o] = f
      /\ \A x \in Objects : x # o => header'[x] = header[x]
  <2>1. header' = [header EXCEPT ![o] = f]
    BY <1>1, <1>2, <1>3
  <2> HIDE DEF f
  <2> QED
    BY <1>2, <1>3, <1>4, <2>1
<1>6. o \notin directory /\ ~ header[o].Directory
  <2>1. Op("insert", o) \in Inserting(o)
    BY <1>2, OpIsStep DEF Inserting
  <2>2. Among(Inserting(o)) >= 1 /\ Among(Inserting(o)) \in Nat
    BY <1>2, <2>1, AmongLeast
  <2>3. InsertInv(o)
    BY <1>2 DEF LifeInv, ObjectInv
  <2> QED
    BY <2>2, <2>3 DEF InsertInv
<1>7. /\ h \in HandleSteps /\ h \in StepSet
      /\ h.op = "count" /\ h.o = o /\ h.context = NoObject /\ h.new = o
  BY <1>2, HandleIsStep DEF HandleOps, Bodies
<1> HIDE DEF h, f
<1>8. Fit(s, Live, NoObject) /\ s \in Seq(StepSet)
  BY <1>2, <1>7, FitOne DEF OwnPointer, Weak
<1>9. ASSUME NEW x \in Objects
      PROVE  /\ Sums(x, <<Head(todo[t])>>, Times(o = x), 0, Times(o = x), 0, Times(o = x), 0)
             /\ Sums(x, s, Times(o = x), 0, Times(o = x), 0, 0, 0)
  <2>1. Sums(x, <<Head(todo[t])>>, Times(o = x), 0, Times(o = x), 0, Times(o = x), 0)
    BY <1>2, InsertPiece
  <2>2. Sums(x, s, (0 + Times(o = x)) + 0, 0, 0 + Times(o = x), 0, 0, 0)
    <3>1. /\ Times(h.context = x) = 0 /\ Times(h.new = x) = Times(o = x)
          /\ Times(h.o = x /\ (h.new = NoObject \/ h.op = "create")) = 0
          /\ Times(h.op \in {"release", "create"} /\ h.o = x) = 0
      BY <1>2, <1>7, ConstantsAssumption DEF Times
    <3>2. Sums(x, <<h>>, Times(h.context = x) + Times(h.new = x)
                            + Times(h.o = x /\ (h.new = NoObject \/ h.op = "create")),
                         Times(h.op \in {"release", "create"} /\ h.o = x),
                         Times(h.context = x) + Times(h.new = x), 0, 0, 0)
      BY <1>7, SumsHandle
    <3> QED
      BY <3>1, <3>2, Zenon
  <2>3. (0 + Times(o = x)) + 0 = Times(o = x) /\ 0 + Times(o = x) = Times(o = x)
    BY TimesType
  <2>4. Sums(x, s, Times(o = x), 0, Times(o = x), 0, 0, 0)
    BY <2>2, <2>3, Zenon
  <2> QED
    BY <2>1, <2>4
<1> HIDE DEF s, o
<1>10. ASSUME NEW x \in Objects PROVE Effect(x, <<Head(todo[t])>>, s)
  <2>1. /\ header[x].PointerCount \in Int /\ header[x].HandleCount \in Int
        /\ handles[x] \in Nat /\ leaked[x] \in Nat
    BY <1>2, Numbers
  <2>2. handles'[x] - handles[x] = 0 /\ leaked'[x] - leaked[x] = 0
    BY <1>1, <2>1
  <2> DEFINE a == <<Head(todo[t])>>
             p == Times(o = x)
  <2>3. /\ RefsIn(x, a) = p /\ Hits(Counted(x), a) = 0 /\ Hits(Deleting(x), a) = 0
        /\ Hits(Inserting(x), a) = p /\ Hits(Queueing, a) = 0
        /\ RefsIn(x, s) = p /\ Hits(Counted(x), s) = 0 /\ Hits(Deleting(x), s) = 0
        /\ Hits(Inserting(x), s) = 0 /\ Hits(Queueing, s) = 0
    BY <1>9 DEF Sums
  <2>4. Times(x \in directory') - Times(x \in directory) = p
    BY <1>1, <1>6 DEF Times
  <2>5. /\ header'[x].PointerCount = header[x].PointerCount + p
        /\ p \in {0, 1}
        /\ (p = 1 <=> x = o)
    BY <1>4, <1>5, <2>1 DEF Times
  <2>6. /\ header'[x].HandleCount = header[x].HandleCount /\ header'[x].live = header[x].live
        /\ p = 0 => header'[x] = header[x]
    BY <1>4, <1>5, <2>5
  <2> HIDE DEF a, p
  <2>7. /\ header[x].PointerCount + p = header[x].PointerCount + 0 + p + 0 + (p - p)
        /\ header[x].HandleCount = header[x].HandleCount + 0 + (0 - 0)
    BY <2>1, <2>5
  <2>8. /\ header'[x].PointerCount =
              header[x].PointerCount + (handles'[x] - handles[x])
              + (Times(x \in directory') - Times(x \in directory)) + (leaked'[x] - leaked[x])
              + (RefsIn(x, s) - RefsIn(x, a))
        /\ header'[x].HandleCount =
              header[x].HandleCount + (handles'[x] - handles[x])
              + (Hits(Counted(x), s) - Hits(Counted(x), a))
    BY <2>2, <2>3, <2>4, <2>5, <2>6, <2>7, Zenon
  <2>9. \/ header'[x] = header[x]
        \/ header[x].PointerCount >= 1 /\ header'[x].PointerCount >= 1
    BY <1>2, <2>1, <2>5, <2>6
  <2>10. \/ Hits(Inserting(x), s) - Hits(Inserting(x), a) = -1
         \/ /\ Hits(Inserting(x), s) = Hits(Inserting(x), a)
            /\ x \in directory' => x \in directory
            /\ header'[x].Directory => header[x].Directory
    BY <1>1, <2>3, <2>5, <2>6
  <2>11. Effect(x, a, s)
    BY <2>3, <2>6, <2>8, <2>9, <2>10, Zenon DEF Effect
  <2> QED
    BY <2>11 DEF a
<1>11. ASSUME used # Objects, NEW x \in Objects
       PROVE  NameInv(x)' \/ NameEffect(x, <<Head(todo[t])>>, s)
  <2>1. header[x].QueryReferences \in Int
    BY <1>2, Numbers
  <2>2. CASE x # o
    <3>1. Times(o = x) = 0
      BY <2>2 DEF Times
    <3>2. NamesIn(x, s) = 0 /\ NamesIn(x, <<Head(todo[t])>>) = 0
      BY <1>9, <3>1 DEF Sums
    <3>3. header'[x] = header[x] /\ (x \in directory' <=> x \in directory)
      BY <1>1, <1>5, <2>2
    <3>4. header[x].QueryReferences = header[x].QueryReferences + (0 - 0)
      BY <2>1
    <3> QED
      BY <3>2, <3>3, <3>4, Zenon DEF NameEffect
  <2>3. CASE x = o
    <3>1. NamesDue(x)' = NamesDue(x) + (Times(o = x) - Times(o = x))
      BY <1>1, <1>2, <1>8, <1>9, ThenNames
    <3>2. /\ NameInv(x) /\ NamesDue(x) \in Nat /\ header[x].QueryReferences >= 1
          /\ header[x].QueryReferences \in Int
      BY <1>1, <1>11, <2>3, NameUsed DEF o
    <3>3. NamesDue(x)' = NamesDue(x)
      BY <3>1, <3>2, TimesType
    <3>4. header[x].QueryReferences = 1 + NamesDue(x)
      BY <1>6, <2>3, <3>2 DEF NameInv, Times
    <3>5. /\ header'[x].QueryReferences = 1 + NamesDue(x)' /\ header'[x].QueryReferences > 0
          /\ header'[x].PointerCount # 0 /\ header'[x].Directory /\ x \in directory'
      BY <1>1, <1>2, <1>3, <1>4, <1>5, <2>3, <3>2, <3>3, <3>4
    <3> QED
      BY <3>5 DEF NameInv, Times
  <2> QED
    BY <2>2, <2>3
<1>12. /\ directory' \in SUBSET Objects
       /\ handles' \in [Objects -> Nat]
       /\ leaked' \in [Objects -> Nat]
  BY <1>1, <1>2 DEF LifeTypes
<1> QED
  BY <1>1, <1>5, <1>8, <1>10, <1>11, <1>12, ThenStep

(* ObpDereferenceNameInfo *)
LEMMA DereferenceNameKeeps ==
    ASSUME LifeInv, UNCHANGED used, NEW t \in Threads, DereferenceName(t)
    PROVE  LifeInv'
<1> DEFINE o == Object(t)
           g == [header[o] EXCEPT !.QueryReferences = header[o].QueryReferences - 1]
           f == [g EXCEPT !.Directory = g.Directory /\ header[o].QueryReferences # 1]
<1>1. /\ At(t, "name") /\ Then(t, <<>>)
      /\ header' = [header EXCEPT ![o].QueryReferences = @ - 1,
                                  ![o].Directory = @ /\ header[o].QueryReferences # 1]
      /\ UNCHANGED <<directory, handles, leaked, reaperVars>>
  BY DEF DereferenceName
<1>2. /\ "name" \notin HandleOps /\ "name" \notin Deletion \cup {"queue"} /\ "name" \in Weak
  BY DEF HandleOps, Deletion, Weak
<1>3. /\ LifeTypes /\ o \in Objects /\ Head(todo[t]) = Op("name", o)
      /\ header[o].PointerCount >= 1
  BY <1>1, <1>2, HeadKeeps DEF LifeInv
<1>4. /\ header[o] \in Headers
      /\ header \in [Objects -> Headers]
      /\ header[o].QueryReferences \in Int
      /\ header[o].PointerCount \in Int
  BY <1>3, Numbers DEF LifeTypes
<1>5. /\ f \in Headers /\ f.live = header[o].live /\ f.PointerCount = header[o].PointerCount
      /\ f.HandleCount = header[o].HandleCount
      /\ f.QueryReferences = header[o].QueryReferences - 1
      /\ f.Directory <=> header[o].Directory /\ header[o].QueryReferences # 1
  <2>1. /\ g \in Headers /\ g.live = header[o].live /\ g.PointerCount = header[o].PointerCount
        /\ g.HandleCount = header[o].HandleCount
        /\ g.QueryReferences = header[o].QueryReferences - 1
        /\ g.Directory = header[o].Directory /\ g.Directory \in BOOLEAN
    BY <1>4 DEF Headers
  <2> HIDE DEF g
  <2> DEFINE b == g.Directory /\ header[o].QueryReferences # 1
  <2>2. b \in BOOLEAN /\ (b <=> header[o].Directory /\ header[o].QueryReferences # 1)
    BY <2>1, Zenon
  <2> HIDE DEF b
  <2>3. LET e == [g EXCEPT !.Directory = b]
        IN  /\ e \in Headers /\ e.live = g.live /\ e.PointerCount = g.PointerCount
            /\ e.HandleCount = g.HandleCount /\ e.QueryReferences = g.QueryReferences
            /\ e.Directory = b
    BY <2>1, <2>2 DEF Headers
  <2>4. f = [g EXCEPT !.Directory = b]
    BY DEF b
  <2> HIDE DEF f
  <2> QED
    BY <2>1, <2>2, <2>3, <2>4, Zenon
<1>6. /\ header' \in [Objects -> Headers] /\ header'[o] = f
      /\ \A x \in Objects : x # o => header'[x] = header[x]
  <2>1. header' = [header EXCEPT ![o] = f]
    BY <1>1, <1>3, <1>4
  <2> HIDE DEF f
  <2> QED
    BY <1>3, <1>4, <1>5, <2>1
<1>7. ASSUME NEW x \in Objects
      PROVE  /\ Sums(x, <<Head(todo[t])>>, 0, 0, Times(o = x), 0, 0, 0)
             /\ Sums(x, <<>>, 0, 0, 0, 0, 0, 0)
  BY <1>2, <1>3, WeakPiece, SumsNone DEF Times
<1> HIDE DEF f, o
<1>8. ASSUME NEW x \in Objects, x # o
      PROVE  Effect(x, <<Head(todo[t])>>, <<>>) /\ NameEffect(x, <<Head(todo[t])>>, <<>>)
  <2>1. Times(o = x) = 0
    BY <1>8 DEF Times
  <2>2. header'[x] = header[x]
    BY <1>6, <1>8
  <2>3. /\ header[x].PointerCount \in Int /\ header[x].HandleCount \in Int
        /\ header[x].QueryReferences \in Int
    BY <1>3, Numbers
  <2>4. HeaderMoves(x, 0, 0, 0)
    BY <2>2, <2>3 DEF HeaderMoves, Shift
  <2>5. Agree(0, 0, 0, 0, 0, 0, 0, 0, 0, 0, 0)
    BY DEF Agree
  <2> QED
    BY <1>1, <1>3, <1>7, <2>1, <2>2, <2>4, <2>5, EffectPlain
<1>9. ASSUME NEW x \in Objects, x = o
      PROVE  Effect(x, <<Head(todo[t])>>, <<>>)
  <2> DEFINE a == <<Head(todo[t])>>
  <2>1. /\ header[x].PointerCount \in Int /\ header[x].HandleCount \in Int
        /\ handles[x] \in Nat /\ leaked[x] \in Nat /\ Times(x \in directory) \in Nat
    BY <1>3, Numbers, TimesType
  <2>2. handles'[x] - handles[x] = 0 /\ leaked'[x] - leaked[x] = 0
        /\ Times(x \in directory') - Times(x \in directory) = 0
    BY <1>1, <2>1
  <2>3. /\ RefsIn(x, a) = 0 /\ Hits(Counted(x), a) = 0 /\ Hits(Deleting(x), a) = 0
        /\ Hits(Inserting(x), a) = 0 /\ Hits(Queueing, a) = 0
        /\ RefsIn(x, <<>>) = 0 /\ Hits(Counted(x), <<>>) = 0 /\ Hits(Deleting(x), <<>>) = 0
        /\ Hits(Inserting(x), <<>>) = 0 /\ Hits(Queueing, <<>>) = 0
    BY <1>7 DEF Sums
  <2>4. /\ header[x].PointerCount = header[x].PointerCount + 0 + 0 + 0 + (0 - 0)
        /\ header[x].HandleCount = header[x].HandleCount + 0 + (0 - 0)
    BY <2>1
  <2>5. /\ header'[x].PointerCount = header[x].PointerCount
        /\ header'[x].HandleCount = header[x].HandleCount
        /\ header'[x].live = header[x].live
        /\ header'[x].Directory => header[x].Directory
        /\ header[x].PointerCount >= 1
    BY <1>3, <1>5, <1>6, <1>9, Zenon
  <2>6. /\ header'[x].PointerCount =
              header[x].PointerCount + (handles'[x] - handles[x])
              + (Times(x \in directory') - Times(x \in directory)) + (leaked'[x] - leaked[x])
              + (RefsIn(x, <<>>) - RefsIn(x, a))
        /\ header'[x].HandleCount =
              header[x].HandleCount + (handles'[x] - handles[x])
              + (Hits(Counted(x), <<>>) - Hits(Counted(x), a))
    BY <2>2, <2>3, <2>4, <2>5, Zenon
  <2>7. x \in directory' => x \in directory
    BY <1>1
  <2>8. header'[x].PointerCount >= 1
    BY <2>5
  <2> QED
    BY <2>3, <2>5, <2>6, <2>7, <2>8, Zenon DEF Effect
<1>10. ASSUME used # Objects, NEW x \in Objects, x = o
       PROVE  NameInv(x)'
  <2>1. /\ NameInv(x) /\ NamesDue(x) \in Nat /\ header[x].QueryReferences >= 1
        /\ header[x].QueryReferences \in Int /\ NamesDue(x) >= 1
    BY <1>1, <1>10, NameUsed DEF o
  <2>2. NamesDue(x)' = NamesDue(x) + (0 - Times(o = x))
    <3> DEFINE s == <<>>
    <3>1. /\ s \in Seq(StepSet) /\ Then(t, s) /\ Sums(x, s, 0, 0, 0, 0, 0, 0)
          /\ Sums(x, <<Head(todo[t])>>, 0, 0, Times(o = x), 0, 0, 0)
      BY <1>1, <1>7
    <3> HIDE DEF s
    <3> QED
      BY <1>1, <3>1, ThenNames
  <2>3. NamesDue(x)' = NamesDue(x) - 1
    <3>1. Times(o = x) = 1
      BY <1>10 DEF Times
    <3> QED
      BY <2>1, <2>2, <3>1
  <2>4. /\ header'[x].QueryReferences = header[x].QueryReferences - 1
        /\ header'[x].Directory <=> header[x].Directory /\ header[x].QueryReferences # 1
        /\ header'[x].PointerCount = header[x].PointerCount /\ header[x].PointerCount >= 1
    BY <1>3, <1>5, <1>6, <1>10, Zenon
  <2>5. /\ x \in directory' <=> x \in directory
        /\ header'[x].PointerCount # 0
    BY <1>1, <1>4, <1>10, <2>4
  <2> DEFINE d == Times(x \in directory \/ (header[x].QueryReferences > 0 /\ ~ header[x].Directory))
             e == Times(x \in directory' \/ (header'[x].QueryReferences > 0 /\ ~ header'[x].Directory))
  <2>6. /\ header[x].QueryReferences = d + NamesDue(x) /\ d \in Nat
        /\ x \in directory => header[x].Directory
    BY <2>1, TimesType DEF NameInv
  <2>7. CASE header[x].QueryReferences = 1
    <3>1. d = 0 /\ NamesDue(x) = 1
      BY <2>1, <2>6, <2>7
    <3>2. x \notin directory
      BY <3>1 DEF Times
    <3>3. /\ header'[x].QueryReferences = 0 /\ ~ (header'[x].QueryReferences > 0)
          /\ ~ header'[x].Directory /\ NamesDue(x)' = 0
      BY <2>3, <2>4, <2>7, <3>1
    <3>4. e = 0
      BY <2>5, <3>2, <3>3 DEF Times
    <3>5. header'[x].QueryReferences = e + NamesDue(x)'
      BY <3>3, <3>4
    <3> QED
      BY <2>5, <3>2, <3>3, <3>5 DEF NameInv
  <2>8. CASE header[x].QueryReferences # 1
    <3>1. /\ header[x].QueryReferences > 0 /\ header'[x].QueryReferences > 0
          /\ header'[x].Directory <=> header[x].Directory
      BY <2>1, <2>4, <2>8
    <3>2. e = d
      BY <2>5, <3>1 DEF Times
    <3> HIDE DEF d, e
    <3>3. header'[x].QueryReferences = e + NamesDue(x)'
      BY <2>1, <2>3, <2>4, <2>6, <3>2
    <3> QED
      BY <2>5, <2>6, <3>1, <3>3 DEF NameInv, e
  <2> QED
    BY <2>7, <2>8
<1>11. /\ directory' \in SUBSET Objects
       /\ handles' \in [Objects -> Nat]
       /\ leaked' \in [Objects -> Nat]
  BY <1>1, <1>3 DEF LifeTypes
<1>12. /\ \A x \in Objects : Effect(x, <<Head(todo[t])>>, <<>>)
       /\ used # Objects => \A x \in Objects :
             NameInv(x)' \/ NameEffect(x, <<Head(todo[t])>>, <<>>)
  BY <1>8, <1>9, <1>10
<1> QED
  BY <1>1, <1>6, <1>11, <1>12, FitNone, ThenStep

(* The steps when the name has been deleted, and when it has not. *)
LEMMA LookupPiece ==
    ASSUME NEW o \in Objects, NEW b \in Objects
    PROVE  /\ Drop(b) \o <<Op("name", o)>> \in Seq(StepSet)
           /\ Drop(b) \o <<Op("name", o), Op("name", o), Op("object", b)>> \in Seq(StepSet)
           /\ \A x \in Objects :
                 /\ Sums(x, Drop(b) \o <<Op("name", o)>>,
                         Times(b = x), 0, Times(b = x) + Times(o = x), 0, 0, 0)
                 /\ Sums(x, Drop(b) \o <<Op("name", o), Op("name", o), Op("object", b)>>,
                         Times(b = x) + Times(b = x), 0,
                         Times(b = x) + (Times(o = x) + Times(o = x)), 0, 0, 0)
           /\ \A L \in SUBSET Objects : o \in L /\ b \in L =>
                 /\ Fit(Drop(b) \o <<Op("name", o)>>, L, o)
                 /\ Fit(Drop(b) \o <<Op("name", o), Op("name", o), Op("object", b)>>, L, o)
<1> DEFINE d == Drop(b)
           n == Op("name", o)
           f == Op("object", b)
<1>1. n \in StepSet /\ f \in StepSet /\ "name" \in Weak
  BY OpIsStep DEF Weak
<1>2. /\ <<n>> \in Seq(StepSet)
      /\ \A x \in Objects : Sums(x, <<n>>, 0, 0, Times(o = x), 0, 0, 0)
      /\ \A L \in SUBSET Objects : o \in L => Fit(<<n>>, L, o)
  <2>1. \A x \in Objects : Sums(x, <<n>>, 0, Times("name" = "uncount" /\ o = x),
                                 Times("name" \in {"name", "lookup"} /\ o = x), 0, 0, 0)
    BY <1>1, WeakPiece
  <2>2. \A x : /\ Times("name" = "uncount" /\ o = x) = 0
               /\ Times("name" \in {"name", "lookup"} /\ o = x) = Times(o = x)
    BY DEF Times
  <2>3. \A x \in Objects : Sums(x, <<n>>, 0, 0, Times(o = x), 0, 0, 0)
    BY <2>1, <2>2
  <2> QED
    BY <1>1, <2>3, WeakPiece
<1>3. /\ <<f>> \in Seq(StepSet)
      /\ \A x \in Objects : Sums(x, <<f>>, Times(b = x), 0, 0, 0, 0, 0)
      /\ \A L \in SUBSET Objects : b \in L => Fit(<<f>>, L, o)
  BY ObjectPiece
<1>4. /\ d \in Seq(StepSet)
      /\ \A x \in Objects : Sums(x, d, Times(b = x), 0, Times(b = x), 0, 0, 0)
      /\ \A L \in SUBSET Objects : b \in L => Fit(d, L, o)
  BY SumsDrop, FitDrop
<1> HIDE DEF d, n, f
<1> DEFINE e == <<n, f>>
           c == <<n, n, f>>
<1>5. e = <<n>> \o <<f>> /\ c = <<n>> \o e /\ e \in Seq(StepSet) /\ c \in Seq(StepSet)
  BY <1>1, TwoSteps, ThreeSteps
<1> HIDE DEF e, c
<1>6. d \o <<n>> \in Seq(StepSet) /\ d \o c \in Seq(StepSet)
  BY <1>2, <1>4, <1>5
<1>7. ASSUME NEW x \in Objects
      PROVE  /\ Sums(x, d \o <<n>>, Times(b = x), 0, Times(b = x) + Times(o = x), 0, 0, 0)
             /\ Sums(x, d \o c, Times(b = x) + Times(b = x), 0,
                     Times(b = x) + (Times(o = x) + Times(o = x)), 0, 0, 0)
  <2> DEFINE p == Times(b = x)
             q == Times(o = x)
  <2>1. /\ Sums(x, d, p, 0, p, 0, 0, 0) /\ Sums(x, <<n>>, 0, 0, q, 0, 0, 0)
        /\ Sums(x, <<f>>, p, 0, 0, 0, 0, 0)
    BY <1>2, <1>3, <1>4
  <2>2. p \in Nat /\ q \in Nat
    BY TimesType
  <2> HIDE DEF p, q
  <2>3. Sums(x, d \o <<n>>, p + 0, 0 + 0, p + q, 0, 0, 0)
    BY <1>2, <1>4, <2>1, <2>2, PieceConcat
  <2>4. p + 0 = p /\ 0 + 0 = 0 /\ 0 + p = p /\ q + 0 = q /\ p + q \in Nat /\ q + q \in Nat
    BY <2>2
  <2>5. Sums(x, d \o <<n>>, p, 0, p + q, 0, 0, 0)
    BY <2>3, <2>4, Zenon
  <2>6. Sums(x, <<n>> \o <<f>>, 0 + p, 0 + 0, q + 0, 0, 0, 0)
    BY <1>2, <1>3, <2>1, <2>2, PieceConcat
  <2>7. Sums(x, e, p, 0, q, 0, 0, 0)
    BY <1>5, <2>4, <2>6, Zenon
  <2>8. Sums(x, <<n>> \o e, 0 + p, 0 + 0, q + q, 0, 0, 0)
    BY <1>2, <1>5, <2>1, <2>2, <2>7, PieceConcat
  <2>9. Sums(x, c, p, 0, q + q, 0, 0, 0)
    BY <1>5, <2>4, <2>8, Zenon
  <2>10. Sums(x, d \o c, p + p, 0 + 0, p + (q + q), 0, 0, 0)
    BY <1>4, <1>5, <2>1, <2>2, <2>4, <2>9, PieceConcat
  <2>11. Sums(x, d \o c, p + p, 0, p + (q + q), 0, 0, 0)
    BY <2>4, <2>10, Zenon
  <2> QED
    BY <2>5, <2>11 DEF p, q
<1>8. ASSUME NEW L \in SUBSET Objects, o \in L, b \in L
      PROVE  Fit(d \o <<n>>, L, o) /\ Fit(d \o c, L, o)
  <2>1. Fit(d, L, o) /\ Fit(<<n>>, L, o) /\ Fit(<<f>>, L, o)
    BY <1>2, <1>3, <1>4, <1>8
  <2>2. Fit(d \o <<n>>, L, o)
    BY <2>1, FitBefore
  <2>3. Fit(<<n>> \o <<f>>, L, o)
    BY <2>1, FitBefore
  <2>4. Fit(e, L, o)
    BY <1>5, <2>3, Zenon
  <2>5. Fit(<<n>> \o e, L, o)
    BY <2>1, <2>4, FitBefore
  <2>6. Fit(c, L, o)
    BY <1>5, <2>5, Zenon
  <2>7. Fit(d \o c, L, o)
    BY <2>1, <2>6, FitBefore
  <2> QED
    BY <2>2, <2>7
<1> QED
  BY <1>6, <1>7, <1>8 DEF d, n, f, c

(* ObpDeleteNameCheck looks the name up again, and deletes the entry if    *)
(* the object is not open.                                                 *)
LEMMA LookupAndDeleteKeeps ==
    ASSUME LifeInv, UNCHANGED used, NEW t \in Threads, LookupAndDelete(t)
    PROVE  LifeInv'
<1> DEFINE o == Object(t)
           ops(b) == Drop(b) \o <<Op("name", o), Op("name", o), Op("object", b)>>
<1> PICK b \in Found(o) :
       /\ header' = LookedUp(b, 1)
       /\ \/ directory' = directory \ {b} /\ Then(t, ops(b))
          \/ Then(t, Drop(b) \o <<Op("name", o)>>) /\ UNCHANGED directory
  BY DEF LookupAndDelete
<1>1. /\ At(t, "lookup") /\ UNCHANGED <<handles, leaked, reaperVars>>
  BY DEF LookupAndDelete
<1>2. /\ "lookup" \notin HandleOps /\ "lookup" \notin Deletion \cup {"queue"} /\ "lookup" \in Weak
  BY DEF HandleOps, Deletion, Weak
<1>3. /\ LifeTypes /\ o \in Objects /\ Head(todo[t]) = Op("lookup", o)
      /\ o \in Live /\ Live \in SUBSET Objects
  BY <1>1, <1>2, HeadKeeps DEF LifeInv, Live
<1>4. b \in Objects /\ b \in directory /\ header[b].PointerCount >= 1 /\ b \in Live
  BY FoundLives
<1>5. /\ header' \in [Objects -> Headers]
      /\ \A x \in Objects : /\ HeaderMoves(x, For(b, x, 1), For(b, x, 0), For(b, x, 1))
                            /\ x # b => header'[x] = header[x]
  BY <1>3, <1>4, LookedUpMoved
<1>6. ASSUME NEW x \in Objects
      PROVE  Sums(x, <<Head(todo[t])>>, 0, 0, Times(o = x), 0, 0, 0)
  BY <1>2, <1>3, WeakPiece DEF Times
<1>7. /\ directory' \in SUBSET Objects
      /\ handles' \in [Objects -> Nat]
      /\ leaked' \in [Objects -> Nat]
  BY <1>1, <1>3 DEF LifeTypes
<1>8. ASSUME NEW x \in Objects
      PROVE  header'[x] = header[x] \/ (header[x].PointerCount >= 1 /\ header'[x].PointerCount >= 1)
  BY <1>3, <1>4, <1>5, <1>8, StillAlive
<1>9. CASE Then(t, Drop(b) \o <<Op("name", o)>>) /\ UNCHANGED directory
  <2> DEFINE s == Drop(b) \o <<Op("name", o)>>
  <2>1. /\ s \in Seq(StepSet) /\ Fit(s, Live, o)
        /\ \A x \in Objects : Sums(x, s, Times(b = x), 0, Times(b = x) + Times(o = x), 0, 0, 0)
    BY <1>3, <1>4, LookupPiece
  <2>2. Then(t, s)
    BY <1>9
  <2> HIDE DEF s
  <2>3. ASSUME NEW x \in Objects
        PROVE  /\ Effect(x, <<Head(todo[t])>>, s)
               /\ used # Objects => NameEffect(x, <<Head(todo[t])>>, s)
    <3> DEFINE p == Times(b = x)
               q == Times(o = x)
    <3>1. Sums(x, <<Head(todo[t])>>, 0, 0, q, 0, 0, 0) /\ Sums(x, s, p, 0, p + q, 0, 0, 0)
      BY <1>6, <2>1
    <3>2. p \in Nat /\ q \in Nat /\ For(b, x, 1) = p /\ For(b, x, 0) = 0
      BY DEF Times, For
    <3> HIDE DEF p, q
    <3>3. Agree(0, 0, q, 0, p, 0, p, p, 0, p + q, 0)
      BY <3>2 DEF Agree
    <3>4. HeaderMoves(x, p, 0, p)
      BY <1>5, <3>2
    <3>5. used # Objects => \/ p = 0
                            \/ header[x].QueryReferences > 0 /\ header'[x].QueryReferences > 0
      BY <1>4, <1>5, <3>2, NameHeld
    <3> QED
      BY <1>1, <1>3, <1>8, <1>9, <3>1, <3>3, <3>4, <3>5, EffectPlain
  <2> QED
    BY <1>1, <1>2, <1>5, <1>7, <2>1, <2>2, <2>3, ThenStep
<1>10. CASE directory' = directory \ {b} /\ Then(t, ops(b))
  <2> DEFINE s == ops(b)
             a == <<Head(todo[t])>>
  <2>1. /\ s \in Seq(StepSet) /\ Fit(s, Live, o)
        /\ \A x \in Objects : Sums(x, s, Times(b = x) + Times(b = x), 0,
                                   Times(b = x) + (Times(o = x) + Times(o = x)), 0, 0, 0)
    BY <1>3, <1>4, LookupPiece
  <2>2. Then(t, s)
    BY <1>10
  <2> HIDE DEF s, a
  <2>3. ASSUME NEW x \in Objects PROVE Effect(x, a, s)
    <3> DEFINE p == Times(b = x)
               q == Times(o = x)
    <3>1. Sums(x, a, 0, 0, q, 0, 0, 0) /\ Sums(x, s, p + p, 0, p + (q + q), 0, 0, 0)
      BY <1>6, <2>1 DEF a
    <3>2. /\ p \in Nat /\ q \in Nat /\ For(b, x, 1) = p /\ For(b, x, 0) = 0
          /\ Times(x \in directory') - Times(x \in directory) = -p
      BY <1>4, <1>10 DEF Times, For
    <3> HIDE DEF p, q
    <3>3. /\ RefsIn(x, a) = 0 /\ Hits(Counted(x), a) = 0 /\ Hits(Deleting(x), a) = 0
          /\ Hits(Inserting(x), a) = 0 /\ Hits(Queueing, a) = 0
          /\ RefsIn(x, s) = p + p /\ Hits(Counted(x), s) = 0 /\ Hits(Deleting(x), s) = 0
          /\ Hits(Inserting(x), s) = 0 /\ Hits(Queueing, s) = 0
      BY <3>1 DEF Sums
    <3>4. HeaderMoves(x, p, 0, p)
      BY <1>5, <3>2
    <3>5. /\ header[x].PointerCount \in Int /\ header[x].HandleCount \in Int
          /\ handles[x] \in Nat /\ leaked[x] \in Nat
      BY <1>3, Numbers
    <3>6. handles'[x] - handles[x] = 0 /\ leaked'[x] - leaked[x] = 0
      BY <1>1, <3>5
    <3>7. /\ header[x].PointerCount + p = header[x].PointerCount + 0 + (-p) + 0 + ((p + p) - 0)
          /\ header[x].HandleCount + 0 = header[x].HandleCount + 0 + (0 - 0)
      BY <3>2, <3>5
    <3>8. /\ header'[x].PointerCount =
                header[x].PointerCount + (handles'[x] - handles[x])
                + (Times(x \in directory') - Times(x \in directory)) + (leaked'[x] - leaked[x])
                + (RefsIn(x, s) - RefsIn(x, a))
          /\ header'[x].HandleCount =
                header[x].HandleCount + (handles'[x] - handles[x])
                + (Hits(Counted(x), s) - Hits(Counted(x), a))
      BY <3>2, <3>3, <3>4, <3>6, <3>7, Zenon DEF HeaderMoves, Shift
    <3>9. /\ x \in directory' => x \in directory
          /\ header'[x].live = header[x].live /\ header'[x].Directory = header[x].Directory
      BY <1>10, <3>4 DEF HeaderMoves, Shift
    <3> QED
      BY <1>8, <3>3, <3>8, <3>9, Zenon DEF Effect
  <2>4. ASSUME used # Objects, NEW x \in Objects PROVE NameInv(x)' \/ NameEffect(x, a, s)
    <3>1. b = o
      <4>1. Live \subseteq used /\ \E y : used = {y}
        BY <2>4 DEF LifeInv, AloneInv
      <4> QED
        BY <1>3, <1>4, <4>1
    <3>2. NameInv(x) /\ NamesDue(x) \in Nat /\ header[x].QueryReferences \in Int
          /\ header[x].PointerCount \in Int
      BY <1>3, <2>4, Numbers DEF LifeInv, NamesInv
    <3>3. CASE x # b
      <4>1. Times(o = x) = 0 /\ Times(b = x) = 0
        BY <3>1, <3>3 DEF Times
      <4>2. NamesIn(x, a) = 0 /\ NamesIn(x, s) = 0 + (0 + 0)
        BY <1>6, <2>1, <4>1 DEF Sums, a
      <4>3. header'[x] = header[x] /\ (x \in directory' <=> x \in directory)
        BY <1>5, <1>10, <3>3
      <4>4. header[x].QueryReferences = header[x].QueryReferences + ((0 + (0 + 0)) - 0)
        BY <3>2
      <4> QED
        BY <4>2, <4>3, <4>4, Zenon DEF NameEffect
    <3>4. CASE x = b
      <4>1. Times(o = x) = 1 /\ Times(b = x) = 1
        BY <3>1, <3>4 DEF Times
      <4>2. /\ Sums(x, <<Head(todo[t])>>, 0, 0, 1, 0, 0, 0)
            /\ Sums(x, s, 1 + 1, 0, 1 + (1 + 1), 0, 0, 0)
        BY <1>6, <2>1, <4>1
      <4>3. NamesDue(x)' = NamesDue(x) + ((1 + (1 + 1)) - 1)
        BY <1>1, <2>1, <2>2, <4>2, ThenNames
      <4>4. NamesDue(x)' = NamesDue(x) + 2
        BY <3>2, <4>3
      <4>5. header[x].QueryReferences = 1 + NamesDue(x) /\ header[x].Directory
        BY <1>4, <3>2, <3>4 DEF NameInv, Times
      <4>6. For(b, x, 1) = 1
        BY <3>4 DEF For
      <4>7. /\ header'[x].QueryReferences = header[x].QueryReferences + 1
            /\ header'[x].PointerCount = header[x].PointerCount + 1
            /\ header'[x].Directory = header[x].Directory
        BY <1>5, <4>6 DEF HeaderMoves, Shift
      <4>9. header'[x].Directory /\ x \notin directory'
        BY <1>10, <3>4, <4>5, <4>7, Zenon
      <4>10. header[x].PointerCount >= 1
        BY <1>4, <3>4
      <4>8. /\ header'[x].QueryReferences = 0 + NamesDue(x)' /\ header'[x].QueryReferences > 0
            /\ header'[x].PointerCount # 0
        BY <3>2, <4>4, <4>5, <4>7, <4>10
      <4> QED
        BY <4>8, <4>9 DEF NameInv, Times
    <3> QED
      BY <3>3, <3>4
  <2> QED
    BY <1>1, <1>2, <1>5, <1>7, <2>1, <2>2, <2>3, <2>4, ThenStep DEF a
<1> QED
  BY <1>9, <1>10

(* A look at a count changes nothing else. *)
LEMMA LookKeeps ==
    ASSUME LifeInv, UNCHANGED <<header, directory, handles, todo, leaked, reaperVars, used>>
    PROVE  LifeInv'
<1>1. \A M : Among(M)' = Among(M)
  BY DEF Among
<1>2. \A x : /\ RefsDue(x)' = RefsDue(x) /\ NamesDue(x)' = NamesDue(x)
             /\ Among(Counted(x))' = Among(Counted(x)) /\ Among(Deleting(x))' = Among(Deleting(x))
             /\ Among(Inserting(x))' = Among(Inserting(x))
  BY <1>1 DEF RefsDue, NamesDue
<1>3. Live' = Live /\ Among(Queueing)' = Among(Queueing)
  BY <1>1 DEF Live
<1>4. /\ LifeTypes /\ FitInv /\ NamesInv /\ AloneInv /\ QueueInv
      /\ \A x \in Objects : ObjectInv(x)
  BY DEF LifeInv
<1>5. LifeTypes' /\ FitInv' /\ AloneInv'
  BY <1>3, <1>4 DEF LifeTypes, FitInv, AloneInv, reaperVars
<1>6. QueueInv'
  BY <1>3, <1>4 DEF QueueInv, reaperVars
<1>7. ASSUME NEW x \in Objects PROVE ObjectInv(x)'
  <2>1. ObjectInv(x)
    BY <1>4
  <2>2. ReaperList' = ReaperList /\ reaping' = reaping
    BY DEF reaperVars
  <2> QED
    BY <1>2, <2>1, <2>2 DEF ObjectInv, RefsInv, HandlesInv, DeleteInv, InsertInv
<1>8. NamesInv'
  <2> SUFFICES ASSUME used' # Objects, NEW x \in Objects PROVE NameInv(x)'
    BY DEF NamesInv
  <2>1. NameInv(x)
    BY <1>4 DEF NamesInv
  <2> QED
    BY <1>2, <2>1 DEF NameInv
<1> QED
  BY <1>5, <1>6, <1>7, <1>8 DEF LifeInv

(* Who dereferences an object last is the last to refer to its name: every *)
(* other use of the name is covered by a reference that is to be given     *)
(* back.                                                                   *)
LEMMA LastHasNoName ==
    ASSUME LifeInv, used # Objects, NEW t \in Threads, At(t, "object"),
           header[Object(t)].PointerCount = 1
    PROVE  ~ header[Object(t)].Directory
<1> DEFINE o == Object(t)
<1>1. "object" \notin HandleOps /\ "object" \notin Deletion \cup {"queue"}
  BY DEF HandleOps, Deletion
<1>2. /\ o \in Objects /\ todo[t][1] = Op("object", o) /\ todo[t][1] \in OpSteps /\ todo \in Todos
      /\ 1 \in DOMAIN todo[t] /\ todo[t][1].op = "object" /\ todo[t][1].o = o
      /\ RefsDue(o) >= 1
  BY <1>1, HeadKeeps
<1> HIDE DEF o
<1> SUFFICES ASSUME header[o].Directory PROVE FALSE
  BY DEF o
<1>3. /\ RefsInv(o) /\ NameInv(o) /\ LifeTypes /\ o # NoObject
  BY <1>2, ConstantsAssumption DEF LifeInv, ObjectInv, NamesInv
<1>4. /\ handles[o] \in Nat /\ leaked[o] \in Nat /\ RefsDue(o) \in Nat /\ NamesDue(o) \in Nat
      /\ header[o].QueryReferences \in Int /\ header[o].PointerCount = 1
  BY <1>2, <1>3, Numbers DEF o
<1>5. RefsDue(o) = 1 /\ o \notin directory
  <2>1. Times(o \in directory) \in Nat /\ (o \in directory => Times(o \in directory) = 1)
    BY DEF Times
  <2>2. 1 = handles[o] + Times(o \in directory) + leaked[o] + RefsDue(o)
    BY <1>3, <1>4 DEF RefsInv
  <2>3. Times(o \in directory) = 0 /\ RefsDue(o) = 1
    BY <1>2, <1>4, <2>1, <2>2
  <2> QED
    BY <2>1, <2>3
<1>6. NamesDue(o) > 0
  <2>1. header[o].QueryReferences > 0
    BY <1>3 DEF NameInv
  <2>2. header[o].QueryReferences = 0 + NamesDue(o)
    BY <1>3, <1>5 DEF NameInv, Times
  <2> QED
    BY <1>4, <2>1, <2>2
<1>7. todo[t][1] \in Points(o)
  BY <1>2 DEF Points
<1>8. \A M : Among(M) \in Nat
  BY <1>2, AmongLeast
<1>9. Among(Points(o)) >= 1
  BY <1>2, <1>7, AmongLeast
<1>10. Among(Points(o)) = 1 /\ Among(InContext(o)) = 0 /\ Among(IsNew(o)) = 0
  <2>1. /\ Among(Points(o)) \in Nat /\ Among(InContext(o)) \in Nat
        /\ Among(IsNew(o)) \in Nat /\ Among(ForHandle(o)) \in Nat
    BY <1>8
  <2> QED
    BY <1>5, <1>9, <2>1 DEF RefsDue
<1>11. Among(Naming(o)) > 0
  <2>1. Among(Naming(o)) \in Nat
    BY <1>8
  <2> QED
    BY <1>6, <1>10, <2>1 DEF NamesDue
<1>12. PICK u \in Threads : \E k \in DOMAIN todo[u] : todo[u][k] \in Naming(o)
  BY <1>2, <1>11, AmongLeast
<1>13. PICK k \in DOMAIN todo[u] : todo[u][k] \in Naming(o)
  BY <1>12
<1>14. PICK j \in DOMAIN todo[u] : todo[u][j] \in Points(o) /\ <<t, 1>> # <<u, j>>
  <2>1. /\ todo[u][k] \in OpSteps /\ todo[u][k].op \in {"name", "insert", "lookup"}
        /\ todo[u][k].o = o
    BY <1>13 DEF Naming
  <2>2. CASE todo[u][k].op = "insert"
    <3>1. todo[u][k] \in Points(o)
      BY <2>1, <2>2 DEF Points
    <3>2. <<t, 1>> # <<u, k>>
      BY <1>2, <2>2
    <3> QED
      BY <3>1, <3>2
  <2>3. CASE todo[u][k].op # "insert"
    <3>1. todo[u][k].op \in Weak
      BY <2>1, <2>3 DEF Weak
    <3>2. Covered(todo[u], NoObject) /\ todo[u] \in Seq(StepSet)
      BY DEF LifeInv, FitInv, Fit
    <3>3. PICK j \in DOMAIN todo[u] : j > k /\ todo[u][j] = Op("object", o)
      BY <1>3, <2>1, <3>1, <3>2 DEF Covered
    <3>4. k \in Nat /\ k >= 1 /\ j \in Nat
      BY <3>2
    <3>5. todo[u][j] \in Points(o)
      BY <1>2, <3>3 DEF Points
    <3>6. j # 1
      BY <3>3, <3>4
    <3> QED
      BY <3>5, <3>6
  <2> QED
    BY <2>2, <2>3
<1>15. Among(Points(o)) >= 2
  BY <1>2, <1>7, <1>14, AmongLeast
<1> QED
  BY <1>10, <1>15

(* The reference is not given back, because a count looks wrong... *)
LEMMA MisbehavingKeeps ==
    ASSUME LifeInv, UNCHANGED <<used, header, directory, handles, reaperVars>>,
           NEW t \in Threads, At(t, "object"), Then(t, <<>>),
           leaked' = [leaked EXCEPT ![Object(t)] = @ + 1]
    PROVE  LifeInv'
<1> DEFINE o == Object(t)
           a == <<Head(todo[t])>>
           s == <<>>
<1>1. "object" \notin HandleOps /\ "object" \notin Deletion \cup {"queue"}
  BY DEF HandleOps, Deletion
<1>2. LifeTypes /\ o \in Objects /\ Head(todo[t]) = Op("object", o)
  BY <1>1, HeadKeeps DEF LifeInv
<1>3. /\ header' \in [Objects -> Headers] /\ directory' \in SUBSET Objects
      /\ handles' \in [Objects -> Nat] /\ leaked' \in [Objects -> Nat]
      /\ \A x \in Objects : leaked'[x] = leaked[x] + Times(o = x)
  BY <1>2 DEF LifeTypes, Times
<1> HIDE DEF o
<1>4. ASSUME NEW x \in Objects PROVE Effect(x, a, s) /\ NameEffect(x, a, s)
  <2> DEFINE p == Times(o = x)
  <2>1. Sums(x, a, p, 0, 0, 0, 0, 0) /\ Sums(x, s, 0, 0, 0, 0, 0, 0)
    BY <1>2, ObjectPiece, SumsNone
  <2>2. p \in Nat /\ leaked'[x] = leaked[x] + p
    BY <1>3, TimesType
  <2> HIDE DEF a, s, p
  <2>3. /\ RefsIn(x, a) = p /\ Hits(Counted(x), a) = 0 /\ Hits(Deleting(x), a) = 0
        /\ Hits(Inserting(x), a) = 0 /\ Hits(Queueing, a) = 0 /\ NamesIn(x, a) = 0
        /\ RefsIn(x, s) = 0 /\ Hits(Counted(x), s) = 0 /\ Hits(Deleting(x), s) = 0
        /\ Hits(Inserting(x), s) = 0 /\ Hits(Queueing, s) = 0 /\ NamesIn(x, s) = 0
    BY <2>1 DEF Sums
  <2>4. /\ header[x].PointerCount \in Int /\ header[x].HandleCount \in Int
        /\ header[x].QueryReferences \in Int
        /\ handles[x] \in Nat /\ leaked[x] \in Nat /\ Times(x \in directory) \in Nat
    BY <1>2, Numbers, TimesType
  <2>5. /\ handles'[x] - handles[x] = 0 /\ leaked'[x] - leaked[x] = p
        /\ Times(x \in directory') - Times(x \in directory) = 0
    BY <2>2, <2>4
  <2>6. /\ header[x].PointerCount = header[x].PointerCount + 0 + 0 + p + (0 - p)
        /\ header[x].HandleCount = header[x].HandleCount + 0 + (0 - 0)
        /\ header[x].QueryReferences = header[x].QueryReferences + (0 - 0)
    <3>1. \A i \in Int : i = i + 0 + 0 + p + (0 - p) /\ i = i + 0 + (0 - 0) /\ i = i + (0 - 0)
      BY <2>2
    <3> QED
      BY <2>4, <3>1
  <2>7. /\ header'[x].PointerCount =
              header[x].PointerCount + (handles'[x] - handles[x])
              + (Times(x \in directory') - Times(x \in directory)) + (leaked'[x] - leaked[x])
              + (RefsIn(x, s) - RefsIn(x, a))
        /\ header'[x].HandleCount =
              header[x].HandleCount + (handles'[x] - handles[x])
              + (Hits(Counted(x), s) - Hits(Counted(x), a))
        /\ header'[x].QueryReferences = header[x].QueryReferences + (NamesIn(x, s) - NamesIn(x, a))
    BY <2>3, <2>5, <2>6, Zenon
  <2> QED
    BY <2>3, <2>7, Zenon DEF Effect, NameEffect
<1>5. Fit(s, Live, NoObject) /\ Then(t, s)
  BY FitNone
<1> HIDE DEF s
<1> QED
  BY <1>3, <1>4, <1>5, ThenStep

(* ... or it is, and it is not the last... *)
LEMMA DereferenceKeeps ==
    ASSUME LifeInv, UNCHANGED <<used, leaked, directory, handles, reaperVars>>,
           NEW t \in Threads, At(t, "object"), Then(t, <<>>),
           header' = [header EXCEPT ![Object(t)].PointerCount = @ - 1],
           header[Object(t)].PointerCount # 1
    PROVE  LifeInv'
<1> DEFINE o == Object(t)
           a == <<Head(todo[t])>>
           s == <<>>
<1>1. "object" \notin HandleOps /\ "object" \notin Deletion \cup {"queue"}
  BY DEF HandleOps, Deletion
<1>2. /\ LifeTypes /\ o \in Objects /\ Head(todo[t]) = Op("object", o)
      /\ header[o].PointerCount >= 1
  BY <1>1, HeadKeeps DEF LifeInv
<1>3. /\ header' \in [Objects -> Headers]
      /\ \A x \in Objects : /\ HeaderMoves(x, For(o, x, -1), For(o, x, 0), For(o, x, 0))
                            /\ x # o => header'[x] = header[x]
  BY <1>2, PointerDown
<1>4. /\ directory' \in SUBSET Objects /\ handles' \in [Objects -> Nat]
      /\ leaked' \in [Objects -> Nat] /\ header[o].PointerCount \in Int
  BY <1>2, Numbers DEF LifeTypes
<1>5. header[o].PointerCount >= 2
  BY <1>2, <1>4
<1> HIDE DEF o
<1>6. ASSUME NEW x \in Objects PROVE Effect(x, a, s) /\ NameEffect(x, a, s)
  <2> DEFINE p == Times(o = x)
  <2>1. Sums(x, a, p, 0, 0, 0, 0, 0) /\ Sums(x, s, 0, 0, 0, 0, 0, 0)
    BY <1>2, ObjectPiece, SumsNone
  <2>2. p \in Nat /\ For(o, x, -1) = -p /\ For(o, x, 0) = 0 /\ (x = o => p = 1)
    BY DEF Times, For
  <2> HIDE DEF a, s, p
  <2>3. HeaderMoves(x, -p, 0, 0)
    BY <1>3, <2>2
  <2>4. Agree(p, 0, 0, 0, -p, 0, 0, 0, 0, 0, 0)
    BY <2>2 DEF Agree
  <2>5. header'[x] = header[x] \/ (header[x].PointerCount >= 1 /\ header'[x].PointerCount >= 1)
    <3>1. CASE x = o
      <4>1. header'[x].PointerCount = header[x].PointerCount + (-1)
        BY <2>2, <2>3, <3>1 DEF HeaderMoves, Shift
      <4> QED
        BY <1>4, <1>5, <3>1, <4>1
    <3> QED
      BY <1>3, <3>1
  <2> QED
    BY <1>2, <2>1, <2>3, <2>4, <2>5, EffectPlain
<1>7. Fit(s, Live, NoObject) /\ Then(t, s)
  BY FitNone
<1> HIDE DEF s
<1> QED
  BY <1>3, <1>4, <1>6, <1>7, ThenStep

(* ... or it is the last: the object is to be deleted. *)
LEMMA LastReferenceKeeps ==
    ASSUME LifeInv, UNCHANGED <<used, leaked, directory, handles, reaperVars>>,
           NEW t \in Threads, At(t, "object"), NEW d \in Deletion,
           Then(t, <<Op(d, Object(t))>>),
           header' = [header EXCEPT ![Object(t)].PointerCount = @ - 1],
           header[Object(t)].PointerCount = 1
    PROVE  LifeInv'
<1> DEFINE o == Object(t)
           a == <<Head(todo[t])>>
           s == <<Op(d, o)>>
<1>1. "object" \notin HandleOps /\ "object" \notin Deletion \cup {"queue"}
  BY DEF HandleOps, Deletion
<1>2. /\ LifeTypes /\ o \in Objects /\ Head(todo[t]) = Op("object", o) /\ o \in Live
      /\ todo[t] # <<>> /\ todo \in Todos /\ FitInv
  BY <1>1, HeadKeeps DEF LifeInv
<1>3. /\ header' \in [Objects -> Headers]
      /\ \A x \in Objects : /\ HeaderMoves(x, For(o, x, -1), For(o, x, 0), For(o, x, 0))
                            /\ x # o => header'[x] = header[x]
  BY <1>2, PointerDown
<1>4. /\ Op(d, o) \in OpSteps /\ Op(d, o).op = d /\ Op(d, o).o = o /\ s \in Seq(StepSet)
      /\ Fit(s, Live, NoObject)
  BY <1>2, OpIsStep, FitOp DEF Deletion, Weak
<1>5. ASSUME NEW x \in Objects
      PROVE  /\ Sums(x, a, Times(o = x), 0, 0, 0, 0, 0)
             /\ Sums(x, s, 0, 0, 0, Times(o = x), 0, 0)
  <2> DEFINE e == Op(d, o)
  <2>1. e \in OpSteps /\ e.op = d /\ e.o = o
    BY <1>4
  <2> HIDE DEF e
  <2>2. Sums(x, <<e>>, Times(e.op \in {"object", "insert"} /\ e.o = x),
                       Times(e.op = "uncount" /\ e.o = x),
                       Times(e.op \in {"name", "insert", "lookup"} /\ e.o = x),
                       Times(e.op \in Deletion /\ e.o = x),
                       Times(e.op = "insert" /\ e.o = x), Times(e.op = "queue"))
    BY <2>1, SumsOp
  <2>3. /\ Times(e.op \in {"object", "insert"} /\ e.o = x) = 0
        /\ Times(e.op = "uncount" /\ e.o = x) = 0
        /\ Times(e.op \in {"name", "insert", "lookup"} /\ e.o = x) = 0
        /\ Times(e.op \in Deletion /\ e.o = x) = Times(o = x)
        /\ Times(e.op = "insert" /\ e.o = x) = 0 /\ Times(e.op = "queue") = 0
    BY <2>1 DEF Times, Deletion
  <2>4. Sums(x, s, 0, 0, 0, Times(o = x), 0, 0)
    BY <2>2, <2>3, Zenon DEF e
  <2> QED
    BY <1>2, <2>4, ObjectPiece
<1>6. Then(t, s)
  OBVIOUS
<1> HIDE DEF o, s, a
<1>7. Live' = Live
  BY <1>3 DEF Live, HeaderMoves, Shift
<1>8. todo' \in Todos /\ \A u \in Threads : Fit(todo'[u], Live, NoObject)
  BY <1>2, <1>4, <1>6, ThenFit DEF FitInv
<1>9. LifeTypes' /\ FitInv' /\ AloneInv'
  BY <1>2, <1>3, <1>7, <1>8 DEF LifeTypes, reaperVars, FitInv, AloneInv, LifeInv
<1>10. ASSUME NEW x \in Objects
       PROVE  /\ RefsDue(x)' = RefsDue(x) - Times(o = x)
              /\ Among(Counted(x))' = Among(Counted(x)) /\ NamesDue(x)' = NamesDue(x)
              /\ Among(Deleting(x))' = Among(Deleting(x)) + Times(o = x)
              /\ Among(Inserting(x))' = Among(Inserting(x)) /\ Among(Queueing)' = Among(Queueing)
  <2> DEFINE p == Times(o = x)
  <2>1. Sums(x, <<Head(todo[t])>>, p, 0, 0, 0, 0, 0) /\ Sums(x, s, 0, 0, 0, p, 0, 0)
    BY <1>5 DEF a
  <2>2. p \in Nat
    BY TimesType
  <2> HIDE DEF p
  <2>3. Moves(x, 0 - p, 0 - 0, 0 - 0, p - 0, 0 - 0, 0 - 0)
    BY <1>2, <1>4, <1>6, <2>1, ThenMoves
  <2>4. /\ RefsDue(x) \in Nat /\ NamesDue(x) \in Nat
        /\ Among(Counted(x)) \in Nat /\ Among(Deleting(x)) \in Nat
        /\ Among(Inserting(x)) \in Nat /\ Among(Queueing) \in Nat
    BY <1>2, Numbers
  <2>5. /\ RefsDue(x)' = RefsDue(x) - p
        /\ Among(Counted(x))' = Among(Counted(x)) /\ NamesDue(x)' = NamesDue(x)
        /\ Among(Deleting(x))' = Among(Deleting(x)) + p
        /\ Among(Inserting(x))' = Among(Inserting(x)) /\ Among(Queueing)' = Among(Queueing)
    BY <2>2, <2>3, <2>4 DEF Moves
  <2> QED
    BY <2>5 DEF p
<1>11. ASSUME NEW x \in Objects PROVE ObjectInv(x)'
  <2>1. /\ RefsInv(x) /\ HandlesInv(x) /\ DeleteInv(x) /\ InsertInv(x)
        /\ ~ header[x].live => header[x] = None
    BY DEF LifeInv, ObjectInv
  <2>2. ReaperList' = ReaperList /\ reaping' = reaping
    BY DEF reaperVars
  <2>3. CASE x # o
    <3>1. Times(o = x) = 0
      BY <2>3 DEF Times
    <3>2. RefsDue(x) \in Nat /\ Among(Deleting(x)) \in Nat
      BY <1>2, Numbers
    <3>3. RefsDue(x)' = RefsDue(x) /\ Among(Deleting(x))' = Among(Deleting(x))
      BY <1>10, <3>1, <3>2
    <3>4. header'[x] = header[x]
      BY <1>3, <2>3
    <3> QED
      BY <1>10, <2>1, <2>2, <3>3, <3>4
         DEF ObjectInv, RefsInv, HandlesInv, DeleteInv, InsertInv
  <2>4. CASE x = o
    <3>1. Times(o = x) = 1 /\ For(o, x, -1) = -1 /\ For(o, x, 0) = 0
      BY <2>4 DEF Times, For
    <3>2. /\ header[x].PointerCount = 1 /\ header[x].live
          /\ header[x].HandleCount \in Int /\ header[x].PointerCount \in Int
          /\ RefsDue(x) \in Nat /\ handles[x] \in Nat /\ leaked[x] \in Nat
          /\ Among(Deleting(x)) \in Nat
          /\ Hits({x}, ReaperList.items) \in Nat /\ Hits({x}, reaping) \in Nat
      BY <1>2, <2>4, Numbers DEF Live, o
    <3>3. HeaderMoves(x, -1, 0, 0)
      BY <1>3, <3>1
    <3>4. /\ header'[x].PointerCount = 0 /\ header'[x].HandleCount = header[x].HandleCount
          /\ header'[x].live = header[x].live /\ header'[x].Directory = header[x].Directory
      <4>1. /\ header'[x].live = header[x].live /\ header'[x].Directory = header[x].Directory
            /\ header'[x].PointerCount = header[x].PointerCount + (-1)
            /\ header'[x].HandleCount = header[x].HandleCount + 0
        BY <3>3 DEF HeaderMoves, Shift
      <4>2. /\ header[x].PointerCount + (-1) = 0
            /\ header[x].HandleCount + 0 = header[x].HandleCount
        BY <3>2
      <4> QED
        BY <4>1, <4>2, Zenon
    <3>5. RefsInv(x)'
      <4> DEFINE e == Times(x \in directory)
                 r == RefsDue(x)
      <4>1. e' = e /\ e \in Nat
        BY TimesType
      <4>2. r' = r - 1
        BY <1>10, <3>1
      <4>3. 1 = handles[x] + e + leaked[x] + r /\ r \in Nat
        BY <2>1, <3>2 DEF RefsInv
      <4> HIDE DEF e, r
      <4>4. 0 = handles[x] + e + leaked[x] + (r - 1)
        BY <3>2, <4>1, <4>3
      <4>5. header'[x].PointerCount = handles'[x] + e' + leaked'[x] + r'
        BY <3>4, <4>1, <4>2, <4>4, Zenon
      <4> QED
        BY <4>5 DEF RefsInv, e, r
    <3>6. HandlesInv(x)'
      BY <1>10, <2>1, <3>4 DEF HandlesInv
    <3>7. DeleteInv(x)'
      <4>1. Times(header[x].live /\ header[x].PointerCount = 0) = 0
        BY <3>2 DEF Times
      <4>2. 0 = Among(Deleting(x)) + Hits({x}, ReaperList.items) + Hits({x}, reaping)
        BY <2>1, <4>1 DEF DeleteInv
      <4>3. Among(Deleting(x))' = Among(Deleting(x)) + 1
        BY <1>10, <3>1
      <4>4. Times(header'[x].live /\ header'[x].PointerCount = 0) = 1
        BY <3>2, <3>4 DEF Times
      <4>5. 1 = (Among(Deleting(x)) + 1) + Hits({x}, ReaperList.items) + Hits({x}, reaping)
        BY <3>2, <4>2
      <4> QED
        BY <2>2, <4>3, <4>4, <4>5, Zenon DEF DeleteInv
    <3>8. InsertInv(x)'
      BY <1>10, <2>1, <3>4 DEF InsertInv
    <3> QED
      BY <3>2, <3>4, <3>5, <3>6, <3>7, <3>8 DEF ObjectInv
  <2> QED
    BY <2>3, <2>4
<1>12. NamesInv'
  <2> SUFFICES ASSUME used' # Objects, NEW x \in Objects PROVE NameInv(x)'
    BY DEF NamesInv
  <2>1. NameInv(x) /\ NamesDue(x)' = NamesDue(x) /\ header[x].QueryReferences \in Int
    BY <1>2, <1>10, Numbers DEF LifeInv, NamesInv
  <2>2. CASE x # o
    <3>1. header'[x] = header[x]
      BY <1>3, <2>2
    <3> QED
      BY <2>1, <3>1 DEF NameInv
  <2>3. CASE x = o
    <3>1. ~ header[x].Directory
      BY <2>3, LastHasNoName DEF o
    <3>2. HeaderMoves(x, -1, 0, 0)
      BY <1>3, <2>3 DEF For
    <3>3. /\ header'[x].QueryReferences = header[x].QueryReferences
          /\ header'[x].Directory = header[x].Directory
      BY <2>1, <3>2 DEF HeaderMoves, Shift
    <3> QED
      BY <2>1, <3>1, <3>3 DEF NameInv
  <2> QED
    BY <2>2, <2>3
<1>13. QueueInv'
  BY <1>2, <1>10 DEF QueueInv, LifeInv, reaperVars
<1> QED
  BY <1>9, <1>11, <1>12, <1>13 DEF LifeInv

-----------------------------------------------------------------------------
(* Deletion.                                                               *)

(* Nobody uses an object that nothing points to, but who deletes it. *)
LEMMA Forsaken ==
    ASSUME LifeInv, NEW x \in Objects, header[x].PointerCount = 0
    PROVE  /\ handles[x] = 0 /\ x \notin directory /\ leaked[x] = 0 /\ RefsDue(x) = 0
           /\ NamesDue(x) = 0 /\ Among(Counted(x)) = 0 /\ Among(Inserting(x)) = 0
           /\ \A t \in Threads : \A k \in DOMAIN todo[t] :
                 todo[t][k].o = x => todo[t][k] \in Deleting(x) \/ todo[t][k].op = "queue"
<1>1. LifeTypes /\ RefsInv(x) /\ todo \in Todos
  BY DEF LifeInv, ObjectInv, LifeTypes
<1>2. /\ handles[x] \in Nat /\ leaked[x] \in Nat /\ RefsDue(x) \in Nat /\ NamesDue(x) \in Nat
      /\ Times(x \in directory) \in Nat /\ (x \in directory => Times(x \in directory) = 1)
  BY <1>1, Numbers DEF Times
<1>3. handles[x] = 0 /\ Times(x \in directory) = 0 /\ leaked[x] = 0 /\ RefsDue(x) = 0
  <2> DEFINE h == handles[x]
             e == Times(x \in directory)
             l == leaked[x]
             r == RefsDue(x)
  <2>1. 0 = h + e + l + r
    BY <1>1, Zenon DEF RefsInv
  <2>2. h \in Nat /\ e \in Nat /\ l \in Nat /\ r \in Nat
    BY <1>2
  <2> HIDE DEF h, e, l, r
  <2>3. h = 0 /\ e = 0 /\ l = 0 /\ r = 0
    BY <2>1, <2>2
  <2> QED
    BY <2>3 DEF h, e, l, r
<1>4. x \notin directory
  BY <1>2, <1>3
<1>5. ASSUME NEW t \in Threads, NEW k \in DOMAIN todo[t], todo[t][k].o = x
      PROVE  todo[t][k].op \in Deletion \cup {"queue"}
  <2>1. todo[t][k].op \notin Deletion \cup {"queue"} => RefsDue(todo[t][k].o) >= 1
    BY StepKeeps
  <2>2. ~ (RefsDue(todo[t][k].o) >= 1)
    BY <1>3, <1>5
  <2> QED
    BY <2>1, <2>2
<1>6. \A M : /\ Among(M) \in Nat
             /\ Among(M) > 0 => \E t \in Threads : \E k \in DOMAIN todo[t] : todo[t][k] \in M
  BY <1>1, AmongLeast
<1>7. ASSUME NEW M, \A s \in M : s.o = x /\ s.op \notin Deletion \cup {"queue"}
      PROVE  Among(M) = 0
  <2>1. ~ (Among(M) > 0)
    BY <1>5, <1>6, <1>7
  <2>2. Among(M) \in Nat
    BY <1>6
  <2> QED
    BY <2>1, <2>2
<1>8. \A s \in Counted(x) : s.o = x /\ s.op \notin Deletion \cup {"queue"}
  BY DEF Counted, Deletion
<1>9. \A s \in Inserting(x) : s.o = x /\ s.op \notin Deletion \cup {"queue"}
  BY DEF Inserting, Deletion
<1>10. \A s \in Naming(x) : s.o = x /\ s.op \notin Deletion \cup {"queue"}
  BY DEF Naming, Deletion
<1>11. Among(Counted(x)) = 0 /\ Among(Inserting(x)) = 0 /\ Among(Naming(x)) = 0
  BY <1>7, <1>8, <1>9, <1>10
<1>12. Among(InContext(x)) = 0 /\ Among(IsNew(x)) = 0
  <2>1. /\ Among(Points(x)) \in Nat /\ Among(InContext(x)) \in Nat
        /\ Among(IsNew(x)) \in Nat /\ Among(ForHandle(x)) \in Nat
    BY <1>6
  <2> QED
    BY <1>3, <2>1 DEF RefsDue
<1>13. NamesDue(x) = 0
  BY <1>11, <1>12 DEF NamesDue
<1>14. ASSUME NEW t \in Threads, NEW k \in DOMAIN todo[t], todo[t][k].o = x
       PROVE  todo[t][k] \in Deleting(x) \/ todo[t][k].op = "queue"
  <2>1. todo[t][k] \in StepSet
    BY StepKeeps
  <2>2. todo[t][k].op \in Deletion \cup {"queue"}
    BY <1>5, <1>14
  <2>3. todo[t][k] \in OpSteps
    BY <2>1, <2>2 DEF StepSet, HandleSteps, HandleOps, Deletion
  <2> QED
    BY <1>14, <2>2, <2>3 DEF Deleting
<1> QED
  BY <1>3, <1>4, <1>11, <1>13, <1>14

LEMMA FitFewer ==
    ASSUME NEW L, NEW o, NEW s, Fit(s, L, NoObject),
           \A k \in DOMAIN s : s[k].o = o => s[k].op = "queue"
    PROVE  Fit(s, L \ {o}, NoObject)
BY DEF Fit

(* Who is to delete an object. *)
Doomed(x) == Among(Deleting(x)) + Hits({x}, ReaperList.items) + Hits({x}, reaping)

LEMMA DoomedType ==
    ASSUME LifeInv, NEW x \in Objects
    PROVE  /\ Doomed(x) \in Nat
           /\ Doomed(x) = Times(header[x].live /\ header[x].PointerCount = 0)
<1>1. LifeTypes /\ DeleteInv(x)
  BY DEF LifeInv, ObjectInv
<1>2. Doomed(x) \in Nat
  BY <1>1, Numbers DEF Doomed
<1> QED
  BY <1>1, <1>2, Zenon DEF DeleteInv, Doomed

(* The object o goes. *)
LEMMA ObjectGoes ==
    ASSUME LifeInv, UNCHANGED <<directory, handles, used>>, NEW o \in Objects,
           header[o].live, header[o].PointerCount = 0, Deleted(o),
           LifeTypes', QueueInv', \A u \in Threads : Fit(todo'[u], Live \ {o}, NoObject),
           \A x \in Objects :
              /\ RefsDue(x)' = RefsDue(x) /\ NamesDue(x)' = NamesDue(x)
              /\ Among(Counted(x))' = Among(Counted(x))
              /\ Among(Inserting(x))' = Among(Inserting(x))
              /\ Doomed(x)' = Doomed(x) - Times(o = x)
    PROVE  LifeInv'
<1>1. /\ LifeTypes /\ header \in [Objects -> Headers] /\ leaked \in [Objects -> Nat]
      /\ AloneInv /\ NamesInv
  BY DEF LifeInv, LifeTypes
<1>2. /\ header'[o] = None /\ leaked'[o] = 0
      /\ \A x \in Objects : x # o => header'[x] = header[x] /\ leaked'[x] = leaked[x]
  BY <1>1 DEF Deleted
<1>3. /\ ~ None.live /\ None.PointerCount = 0 /\ None.HandleCount = 0
      /\ None.QueryReferences = 0 /\ ~ None.Directory
  BY DEF None
<1>4. Live' = Live \ {o}
  BY <1>2, <1>3 DEF Live
<1>5. FitInv' /\ AloneInv'
  BY <1>1, <1>4 DEF FitInv, AloneInv
<1>6. /\ handles[o] = 0 /\ o \notin directory /\ RefsDue(o) = 0
      /\ NamesDue(o) = 0 /\ Among(Counted(o)) = 0 /\ Among(Inserting(o)) = 0
  BY Forsaken
<1>7. ASSUME NEW x \in Objects, x # o PROVE ObjectInv(x)'
  <2>1. /\ RefsInv(x) /\ HandlesInv(x) /\ DeleteInv(x) /\ InsertInv(x)
        /\ ~ header[x].live => header[x] = None
    BY DEF LifeInv, ObjectInv
  <2>2. header'[x] = header[x] /\ leaked'[x] = leaked[x] /\ Times(o = x) = 0
    BY <1>2, <1>7 DEF Times
  <2>3. RefsInv(x)' /\ HandlesInv(x)' /\ InsertInv(x)'
    BY <2>1, <2>2 DEF RefsInv, HandlesInv, InsertInv
  <2>4. Doomed(x)' = Doomed(x) - 0
    BY <2>2, Zenon
  <2>5. Doomed(x) \in Nat /\ Times(header[x].live /\ header[x].PointerCount = 0) = Doomed(x)
    BY DoomedType
  <2>7. Doomed(x)' = Doomed(x)
    BY <2>4, <2>5
  <2>8. Times(header'[x].live /\ header'[x].PointerCount = 0) = Doomed(x)'
    BY <2>2, <2>5, <2>7, Zenon
  <2>9. DeleteInv(x)'
    BY <2>8 DEF DeleteInv, Doomed
  <2> QED
    BY <2>1, <2>2, <2>3, <2>9 DEF ObjectInv
<1>8. ObjectInv(o)'
  <2>0. Times(o \in directory') = 0 /\ Times(o = o) = 1
    BY <1>6 DEF Times
  <2>1. RefsInv(o)'
    <3>1. header'[o].PointerCount = 0 /\ handles'[o] = 0 /\ leaked'[o] = 0 /\ RefsDue(o)' = 0
      BY <1>2, <1>3, <1>6
    <3>2. 0 = 0 + 0 + 0 + 0
      OBVIOUS
    <3> QED
      BY <2>0, <3>1, <3>2, Zenon DEF RefsInv
  <2>2. HandlesInv(o)' /\ InsertInv(o)'
    BY <1>2, <1>3, <1>6 DEF HandlesInv, InsertInv
  <2>3. Doomed(o)' = Doomed(o) - 1 /\ Doomed(o) = 1
    BY <2>0, DoomedType DEF Times
  <2>4. Doomed(o)' = 0
    BY <2>3
  <2>5. DeleteInv(o)'
    BY <1>2, <1>3, <2>4 DEF DeleteInv, Times, Doomed
  <2> QED
    BY <1>2, <2>1, <2>2, <2>5 DEF ObjectInv
<1>9. NamesInv'
  <2> SUFFICES ASSUME used' # Objects, NEW x \in Objects PROVE NameInv(x)'
    BY DEF NamesInv
  <2>1. NameInv(x) /\ NamesDue(x)' = NamesDue(x)
    BY <1>1 DEF NamesInv
  <2>2. CASE x # o
    <3>1. header'[x] = header[x]
      BY <1>2, <2>2
    <3> QED
      BY <2>1, <3>1 DEF NameInv
  <2>3. CASE x = o
    BY <1>2, <1>3, <1>6, <2>1, <2>3 DEF NameInv, Times
  <2> QED
    BY <2>2, <2>3
<1> QED
  BY <1>5, <1>7, <1>8, <1>9 DEF LifeInv


(* Only those who are to delete an object, or to queue the work item,      *)
(* change.                                                                 *)
LEMMA QuietMoves ==
    ASSUME LifeInv, NEW t \in Threads, NEW op \in Deletion \cup {"queue"}, At(t, op),
           NEW ops \in Seq(StepSet), Then(t, ops), NEW x \in Objects, NEW q \in Nat,
           Sums(x, ops, 0, 0, 0, 0, 0, q)
    PROVE  /\ RefsDue(x)' = RefsDue(x) /\ NamesDue(x)' = NamesDue(x)
           /\ Among(Counted(x))' = Among(Counted(x))
           /\ Among(Inserting(x))' = Among(Inserting(x))
           /\ Among(Deleting(x))' = Among(Deleting(x)) - Times(op \in Deletion /\ Object(t) = x)
           /\ Among(Queueing)' = Among(Queueing) + (q - Times(op = "queue"))
<1> DEFINE e == Head(todo[t])
           d == Times(op \in Deletion /\ Object(t) = x)
           n == Times(op = "queue")
<1>1. op \notin HandleOps
  BY DEF HandleOps, Deletion
<1>2. /\ LifeTypes /\ todo \in Todos /\ todo[t] # <<>>
      /\ e \in OpSteps /\ e.op = op /\ e.o = Object(t)
  BY <1>1, HeadKeeps DEF LifeInv
<1>3. d \in Nat /\ n \in Nat
  BY TimesType
<1> HIDE DEF e
<1>4. Sums(x, <<e>>, Times(e.op \in {"object", "insert"} /\ e.o = x),
                     Times(e.op = "uncount" /\ e.o = x),
                     Times(e.op \in {"name", "insert", "lookup"} /\ e.o = x),
                     Times(e.op \in Deletion /\ e.o = x),
                     Times(e.op = "insert" /\ e.o = x), Times(e.op = "queue"))
  BY <1>2, SumsOp
<1>5. /\ Times(e.op \in {"object", "insert"} /\ e.o = x) = 0
      /\ Times(e.op = "uncount" /\ e.o = x) = 0
      /\ Times(e.op \in {"name", "insert", "lookup"} /\ e.o = x) = 0
      /\ Times(e.op \in Deletion /\ e.o = x) = d
      /\ Times(e.op = "insert" /\ e.o = x) = 0 /\ Times(e.op = "queue") = n
  BY <1>2 DEF Times, Deletion
<1> HIDE DEF d, n
<1>6. Sums(x, <<Head(todo[t])>>, 0, 0, 0, d, 0, n)
  BY <1>4, <1>5, Zenon DEF e
<1>7. Moves(x, 0 - 0, 0 - 0, 0 - 0, 0 - d, 0 - 0, q - n)
  BY <1>2, <1>6, ThenMoves
<1>8. /\ RefsDue(x) \in Nat /\ NamesDue(x) \in Nat
      /\ Among(Counted(x)) \in Nat /\ Among(Deleting(x)) \in Nat
      /\ Among(Inserting(x)) \in Nat /\ Among(Queueing) \in Nat
  BY <1>2, Numbers
<1>9. /\ RefsDue(x)' = RefsDue(x) /\ NamesDue(x)' = NamesDue(x)
      /\ Among(Counted(x))' = Among(Counted(x))
      /\ Among(Inserting(x))' = Among(Inserting(x))
      /\ Among(Deleting(x))' = Among(Deleting(x)) - d
      /\ Among(Queueing)' = Among(Queueing) + (q - n)
  BY <1>3, <1>7, <1>8 DEF Moves
<1> QED
  BY <1>9 DEF d, n

(* Who is to delete an object is the only one. *)
LEMMA OneDeletes ==
    ASSUME LifeInv, NEW t \in Threads, NEW op \in Deletion, At(t, op)
    PROVE  LET o == Object(t)
           IN  /\ o \in Objects /\ header[o].live /\ header[o].PointerCount = 0
               /\ Among(Deleting(o)) = 1
<1> DEFINE o == Object(t)
           e == Head(todo[t])
<1>1. op \notin HandleOps
  BY DEF HandleOps, Deletion
<1>2. /\ LifeTypes /\ todo \in Todos /\ todo[t] # <<>> /\ 1 \in DOMAIN todo[t] /\ e = todo[t][1]
      /\ e \in OpSteps /\ e.op = op /\ e.o = o /\ o \in Objects
  BY <1>1, HeadKeeps DEF LifeInv
<1>3. todo[t][1] \in Deleting(o)
  BY <1>2 DEF Deleting
<1> HIDE DEF o, e
<1>4. Among(Deleting(o)) \in Nat /\ Among(Deleting(o)) >= 1
  BY <1>2, <1>3, AmongLeast
<1>5. Hits({o}, ReaperList.items) \in Nat /\ Hits({o}, reaping) \in Nat
  BY <1>2, Numbers
<1>6. Doomed(o) = Times(header[o].live /\ header[o].PointerCount = 0)
  BY <1>2, DoomedType
<1> DEFINE m == Among(Deleting(o))
           i == Hits({o}, ReaperList.items)
           j == Hits({o}, reaping)
           n == Times(header[o].live /\ header[o].PointerCount = 0)
<1>7. n = m + i + j /\ m \in Nat /\ m >= 1 /\ i \in Nat /\ j \in Nat
  BY <1>4, <1>5, <1>6, Zenon DEF Doomed
<1>8. n = 0 \/ n = 1
  BY DEF Times
<1> HIDE DEF m, i, j, n
<1>9. n = 1 /\ m = 1
  BY <1>7, <1>8
<1>10. header[o].live /\ header[o].PointerCount = 0
  BY <1>9 DEF n, Times
<1> QED
  BY <1>2, <1>9, <1>10 DEF o, m

(* ObpDeleteObject in the thread that gave the last reference back. *)
LEMMA DeleteKeeps ==
    ASSUME LifeInv, UNCHANGED <<used, directory, handles, reaperVars>>, NEW t \in Threads,
           At(t, "delete"), Deleted(Object(t)), Then(t, <<>>)
    PROVE  LifeInv'
<1> DEFINE o == Object(t)
           s == <<>>
<1>1. /\ "delete" \notin HandleOps
      /\ "delete" \in Deletion
      /\ "delete" \in Deletion \cup {"queue"}
  BY DEF HandleOps, Deletion
<1>2. /\ LifeTypes /\ todo \in Todos /\ todo[t] # <<>> /\ 1 \in DOMAIN todo[t]
      /\ Head(todo[t]) = todo[t][1] /\ Head(todo[t]).op = "delete"
      /\ Head(todo[t]) \in OpSteps /\ Head(todo[t]).o = o /\ FitInv
  BY <1>1, HeadKeeps DEF LifeInv
<1>3. o \in Objects /\ header[o].live /\ header[o].PointerCount = 0 /\ Among(Deleting(o)) = 1
  BY <1>1, OneDeletes
<1>4. s \in Seq(StepSet) /\ Fit(s, Live, NoObject) /\ Then(t, s)
  BY FitNone
<1>5. \A x \in Objects : Sums(x, s, 0, 0, 0, 0, 0, 0)
  BY SumsNone
<1>6. /\ todo[t] \in Seq(StepSet) /\ Tail(todo[t]) \in Seq(StepSet)
      /\ todo'[t] = Tail(todo[t]) /\ \A u \in Threads \ {t} : todo'[u] = todo[u]
  BY <1>2 DEF Then, Todos
<1> HIDE DEF o, s
<1>7. todo' \in Todos /\ \A u \in Threads : Fit(todo'[u], Live, NoObject)
  BY <1>2, <1>4, ThenFit DEF FitInv
<1>8. ASSUME NEW u \in Threads, NEW k \in DOMAIN todo[u], <<u, k>> # <<t, 1>>,
             todo[u][k].o = o
      PROVE  todo[u][k].op = "queue"
  <2>1. todo[u][k] \in Deleting(o) \/ todo[u][k].op = "queue"
    BY <1>3, <1>8, Forsaken
  <2>2. todo[t][1] \in Deleting(o)
    BY <1>1, <1>2 DEF Deleting
  <2>3. todo[u][k] \in Deleting(o) => Among(Deleting(o)) >= 2
    BY <1>2, <1>8, <2>2, AmongLeast
  <2> QED
    BY <1>3, <2>1, <2>3
<1>9. ASSUME NEW u \in Threads, NEW k \in DOMAIN todo'[u], todo'[u][k].o = o
      PROVE  todo'[u][k].op = "queue"
  <2>1. CASE u # t
    <3>1. todo'[u] = todo[u] /\ <<u, k>> # <<t, 1>>
      BY <1>6, <2>1
    <3> QED
      BY <1>8, <1>9, <3>1
  <2>2. CASE u = t
    <3>1. /\ k + 1 \in DOMAIN todo[t] /\ Tail(todo[t])[k] = todo[t][k + 1] /\ k + 1 # 1
      <4> DEFINE l == todo[t]
      <4>1. l \in Seq(StepSet) /\ l # <<>> /\ k \in DOMAIN Tail(l)
        BY <1>2, <1>6, <2>2
      <4> HIDE DEF l
      <4>2. k + 1 \in DOMAIN l /\ Tail(l)[k] = l[k + 1] /\ k + 1 # 1
        BY <4>1
      <4> QED
        BY <4>2 DEF l
    <3>2. <<t, k + 1>> # <<t, 1>> /\ todo[t][k + 1].o = o
      BY <1>6, <1>9, <2>2, <3>1
    <3>3. todo[t][k + 1].op = "queue"
      BY <1>8, <3>1, <3>2
    <3> QED
      BY <1>6, <2>2, <3>1, <3>3
  <2> QED
    BY <2>1, <2>2
<1>10. \A u \in Threads : Fit(todo'[u], Live \ {o}, NoObject)
  BY <1>7, <1>9, FitFewer
<1>11. header' \in [Objects -> Headers] /\ leaked' \in [Objects -> Nat] /\ Deleted(o)
  BY <1>2, <1>3 DEF Deleted, LifeTypes, Headers, None, o
<1>12. LifeTypes'
  BY <1>2, <1>7, <1>11 DEF LifeTypes, reaperVars
<1>13. ASSUME NEW x \in Objects
       PROVE  /\ RefsDue(x)' = RefsDue(x) /\ NamesDue(x)' = NamesDue(x)
              /\ Among(Counted(x))' = Among(Counted(x))
              /\ Among(Inserting(x))' = Among(Inserting(x))
              /\ Doomed(x)' = Doomed(x) - Times(o = x)
              /\ Among(Queueing)' = Among(Queueing)
  <2>1. /\ Times("delete" \in Deletion /\ Object(t) = x) = Times(o = x)
        /\ Times("delete" = "queue") = 0
    BY <1>1 DEF Times, o
  <2>2. /\ RefsDue(x)' = RefsDue(x) /\ NamesDue(x)' = NamesDue(x)
        /\ Among(Counted(x))' = Among(Counted(x))
        /\ Among(Inserting(x))' = Among(Inserting(x))
        /\ Among(Deleting(x))' = Among(Deleting(x)) - Times("delete" \in Deletion /\ Object(t) = x)
        /\ Among(Queueing)' = Among(Queueing) + (0 - Times("delete" = "queue"))
    BY <1>1, <1>4, <1>5, QuietMoves
  <2> DEFINE m == Among(Deleting(x))
             i == Hits({x}, ReaperList.items)
             j == Hits({x}, reaping)
             n == Times(o = x)
  <2>3. m \in Nat /\ i \in Nat /\ j \in Nat /\ n \in Nat /\ Among(Queueing) \in Nat
    BY <1>2, Numbers, TimesType
  <2>4. m' = m - n /\ i' = i /\ j' = j
    BY <2>1, <2>2, Zenon DEF reaperVars
  <2>5. Among(Queueing)' = Among(Queueing)
    BY <2>1, <2>2, <2>3
  <2>6. Doomed(x) = m + i + j /\ Doomed(x)' = m' + i' + j'
    BY DEF Doomed
  <2> HIDE DEF m, i, j, n
  <2>7. (m - n) + i + j = (m + i + j) - n
    BY <2>3
  <2>8. Doomed(x)' = Doomed(x) - n
    BY <2>4, <2>6, <2>7, Zenon
  <2> QED
    BY <2>2, <2>5, <2>8 DEF n
<1>14. QueueInv'
  BY <1>3, <1>13 DEF QueueInv, LifeInv, reaperVars
<1> QED
  BY <1>3, <1>10, <1>11, <1>12, <1>13, <1>14, ObjectGoes

-----------------------------------------------------------------------------
(* The reaper.                                                             *)

(* What passes an object from one who is to delete it to another. *)
LEMMA Passes ==
    ASSUME LifeInv, UNCHANGED <<header, directory, handles, leaked, used>>,
           LifeTypes', FitInv', QueueInv',
           \A x \in Objects :
              /\ RefsDue(x)' = RefsDue(x) /\ NamesDue(x)' = NamesDue(x)
              /\ Among(Counted(x))' = Among(Counted(x))
              /\ Among(Inserting(x))' = Among(Inserting(x))
              /\ Doomed(x)' = Doomed(x)
    PROVE  LifeInv'
<1>1. NamesInv /\ AloneInv /\ \A x \in Objects : ObjectInv(x)
  BY DEF LifeInv
<1>2. AloneInv'
  BY <1>1 DEF AloneInv, Live
<1>3. ASSUME NEW x \in Objects PROVE ObjectInv(x)'
  <2>1. /\ RefsInv(x) /\ HandlesInv(x) /\ DeleteInv(x) /\ InsertInv(x)
        /\ ~ header[x].live => header[x] = None
    BY <1>1 DEF ObjectInv
  <2>2. RefsInv(x)' /\ HandlesInv(x)' /\ InsertInv(x)'
    BY <2>1 DEF RefsInv, HandlesInv, InsertInv
  <2>3. DeleteInv(x)'
    BY <2>1, Zenon DEF DeleteInv, Doomed
  <2> QED
    BY <2>1, <2>2, <2>3 DEF ObjectInv
<1>4. NamesInv'
  <2> SUFFICES ASSUME used' # Objects, NEW x \in Objects PROVE NameInv(x)'
    BY DEF NamesInv
  <2>1. NameInv(x)
    BY <1>1 DEF NamesInv
  <2> QED
    BY <2>1 DEF NameInv
<1> QED
  BY <1>2, <1>3, <1>4 DEF LifeInv

(* The threads have the same to do. *)
LEMMA SameTodo ==
    ASSUME todo' = todo
    PROVE  /\ \A M : Among(M)' = Among(M)
           /\ \A x : RefsDue(x)' = RefsDue(x) /\ NamesDue(x)' = NamesDue(x)
<1>1. \A M : Among(M)' = Among(M)
  BY DEF Among
<1> QED
  BY <1>1 DEF RefsDue, NamesDue

(* ObpReapObject starts, finds more to do, or returns. *)
LEMMA ReaperStep ==
    ASSUME LifeInv, UNCHANGED <<header, directory, handles, todo, leaked, used>>,
           ReapObject \/ ReapMore \/ ReaperReturns
    PROVE  LifeInv'
<1>1. LifeTypes /\ FitInv /\ QueueInv
  BY DEF LifeInv
<1>2. reaping' = reaping /\ ReaperList'.items = ReaperList.items
  BY <1>1 DEF ReapObject, ReapMore, ReaperReturns, LifeTypes
<1>3. FitInv'
  BY <1>1 DEF FitInv, Live
<1>4. LifeTypes'
  <2>1. /\ queued \in Nat /\ ReaperList \in [items : Seq(Objects), end : {0, 1}]
        /\ reaper \in {"idle", "take", "delete", "check"}
    BY <1>1 DEF LifeTypes
  <2>2. queued' \in Nat
    BY <2>1 DEF ReapObject, ReapMore, ReaperReturns
  <2>3. ReaperList' \in [items : Seq(Objects), end : {0, 1}]
    BY <2>1 DEF ReapObject, ReapMore, ReaperReturns
  <2>4. reaper' \in {"idle", "take", "delete", "check"}
    BY DEF ReapObject, ReapMore, ReaperReturns
  <2> QED
    BY <1>1, <1>2, <2>2, <2>3, <2>4 DEF LifeTypes
<1>5. Among(Queueing)' = Among(Queueing) /\ Among(Queueing) \in Nat
  BY <1>1, SameTodo, AmongLeast DEF LifeTypes
<1> DEFINE a == Among(Queueing)
           none == [items |-> <<>>, end |-> 0]
<1>6. a' = a /\ a \in Nat /\ queued \in Nat
  BY <1>1, <1>5 DEF LifeTypes
<1>7. queued + Times(reaper # "idle") + a = Times(ReaperList # none)
  BY <1>1 DEF QueueInv
<1> HIDE DEF a
<1>8. CASE ReapObject
  <2>1. /\ reaper = "idle" /\ queued > 0 /\ queued' = queued - 1 /\ reaper' = "take"
        /\ ReaperList' = ReaperList
    BY <1>8 DEF ReapObject
  <2>2. Times(reaper # "idle") = 0 /\ Times(reaper' # "idle") = 1
    BY <2>1 DEF Times
  <2>3. Times(ReaperList # none) = 0 \/ (Times(ReaperList # none) = 1 /\ ReaperList # none)
    BY DEF Times
  <2>4. queued' + Times(reaper' # "idle") + a' = Times(ReaperList' # none) /\ ReaperList # none
    BY <1>6, <1>7, <2>1, <2>2, <2>3
  <2>5. ReaperList.items # <<>>
    <3>1. ReaperList.end = 0 /\ ReaperList \in [items : Seq(Objects), end : {0, 1}]
      BY <1>1, <2>1 DEF QueueInv, LifeTypes
    <3> QED
      BY <2>4, <3>1
  <2>6. QueueInv'
    BY <1>1, <1>2, <2>1, <2>4, <2>5 DEF QueueInv, a
  <2> QED
    BY <2>6, <1>2, <1>3, <1>4, SameTodo, Passes DEF Doomed
<1>9. CASE ReapMore
  <2>1. /\ reaper = "check" /\ ReaperList.items # <<>> /\ reaper' = "take"
        /\ ReaperList' = ReaperList /\ queued' = queued
    BY <1>9 DEF ReapMore, NothingNew
  <2>2. Times(reaper # "idle") = Times(reaper' # "idle")
    BY <2>1 DEF Times
  <2>3. QueueInv'
    BY <1>1, <1>2, <1>6, <1>7, <2>1, <2>2 DEF QueueInv, a
  <2> QED
    BY <2>3, <1>2, <1>3, <1>4, SameTodo, Passes DEF Doomed
<1>10. CASE ReaperReturns
  <2>1. /\ reaper = "check" /\ ReaperList.items = <<>> /\ reaper' = "idle" /\ queued' = queued
        /\ ReaperList' = [ReaperList EXCEPT !.end = 0]
    BY <1>10 DEF ReaperReturns, NothingNew
  <2>2. ReaperList.end = 1 /\ ReaperList \in [items : Seq(Objects), end : {0, 1}]
    BY <1>1, <2>1 DEF QueueInv, LifeTypes
  <2>3. ReaperList' = none /\ ReaperList # none
    BY <2>1, <2>2
  <2>4. /\ Times(reaper # "idle") = 1 /\ Times(reaper' # "idle") = 0
        /\ Times(ReaperList # none) = 1 /\ Times(ReaperList' # none) = 0
    BY <2>1, <2>3 DEF Times
  <2>5. queued' + Times(reaper' # "idle") + a' = Times(ReaperList' # none)
    BY <1>6, <1>7, <2>1, <2>4
  <2>6. QueueInv'
    BY <1>1, <1>2, <2>1, <2>3, <2>5 DEF QueueInv, a
  <2> QED
    BY <2>6, <1>2, <1>3, <1>4, SameTodo, Passes DEF Doomed
<1> QED
  BY <1>8, <1>9, <1>10

(* It takes its list. *)
LEMMA TakeListKeeps ==
    ASSUME LifeInv, TakeList, UNCHANGED used
    PROVE  LifeInv'
<1>1. LifeTypes /\ FitInv /\ QueueInv
  BY DEF LifeInv
<1>2. /\ reaper = "take" /\ reaping' = ReaperList.items /\ reaper' = "delete" /\ queued' = queued
      /\ ReaperList' = [items |-> <<>>, end |-> 1] /\ todo' = todo
      /\ UNCHANGED <<header, directory, handles, leaked>>
  BY DEF TakeList, threadVars
<1>3. ReaperList.items # <<>> /\ reaping = <<>> /\ ReaperList.items \in Seq(Objects)
  BY <1>1, <1>2 DEF QueueInv, LifeTypes
<1>4. FitInv'
  BY <1>1, <1>2 DEF FitInv, Live
<1>5. LifeTypes'
  BY <1>1, <1>2, <1>3 DEF LifeTypes
<1>6. Among(Queueing)' = Among(Queueing)
  BY <1>2, SameTodo
<1>7. QueueInv'
  <2>1. ReaperList # [items |-> <<>>, end |-> 0] /\ ReaperList' # [items |-> <<>>, end |-> 0]
    BY <1>2, <1>3
  <2>2. /\ Times(reaper # "idle") = Times(reaper' # "idle")
        /\ Times(ReaperList # [items |-> <<>>, end |-> 0])
              = Times(ReaperList' # [items |-> <<>>, end |-> 0])
    BY <1>2, <2>1 DEF Times
  <2>3. /\ queued' + Times(reaper' # "idle") + Among(Queueing)'
             = Times(ReaperList' # [items |-> <<>>, end |-> 0])
    BY <1>1, <1>2, <1>6, <2>2, Zenon DEF QueueInv
  <2> QED
    BY <1>2, <1>3, <2>3 DEF QueueInv
<1>8. ASSUME NEW x \in Objects PROVE Doomed(x)' = Doomed(x)
  <2>1. /\ Hits({x}, ReaperList'.items) = 0 /\ Hits({x}, reaping) = 0
        /\ Hits({x}, reaping') = Hits({x}, ReaperList.items)
    BY <1>2, <1>3, HitsNone
  <2>2. Among(Deleting(x))' = Among(Deleting(x)) /\ Among(Deleting(x)) \in Nat
    BY <1>1, <1>2, SameTodo, Numbers
  <2>3. Hits({x}, ReaperList.items) \in Nat
    BY <1>1, Numbers
  <2>4. /\ Doomed(x) = Among(Deleting(x)) + Hits({x}, ReaperList.items) + 0
        /\ Doomed(x)' = Among(Deleting(x)) + 0 + Hits({x}, ReaperList.items)
    BY <2>1, <2>2, Zenon DEF Doomed
  <2> QED
    BY <2>2, <2>3, <2>4
<1> QED
  BY <1>2, <1>4, <1>5, <1>7, <1>8, SameTodo, Passes

(* It deletes the first object of what it took. *)
LEMMA ReapKeeps ==
    ASSUME LifeInv, Reap, UNCHANGED used
    PROVE  LifeInv'
<1> DEFINE o == Head(reaping)
           l == Tail(reaping)
<1>1. LifeTypes /\ FitInv /\ QueueInv /\ todo \in Todos
  BY DEF LifeInv, LifeTypes
<1>2. /\ reaper = "delete" /\ Deleted(o) /\ reaping' = l
      /\ reaper' = IF Len(reaping) = 1 THEN "check" ELSE "delete"
      /\ ReaperList' = ReaperList /\ queued' = queued /\ todo' = todo
      /\ UNCHANGED <<directory, handles>>
  BY DEF Reap, threadVars
<1>3. reaping # <<>> /\ reaping \in Seq(Objects) /\ ReaperList.end = 1
  BY <1>1, <1>2 DEF QueueInv, LifeTypes
<1>4. o \in Objects /\ l \in Seq(Objects) /\ (Len(reaping) = 1 <=> l = <<>>)
  <2> DEFINE r == reaping
  <2>1. r \in Seq(Objects) /\ r # <<>>
    BY <1>3
  <2> HIDE DEF r
  <2>2. Head(r) \in Objects /\ Tail(r) \in Seq(Objects)
    BY <2>1
  <2>3. Len(Tail(r)) = Len(r) - 1 /\ Len(r) \in Nat
    BY <2>1
  <2>4. Len(r) = 1 <=> Tail(r) = <<>>
    <3>1. Len(Tail(r)) = 0 <=> Tail(r) = <<>>
      BY <2>2, EmptySeq
    <3> QED
      BY <2>3, <3>1
  <2> QED
    BY <2>2, <2>4 DEF r
<1>5. \A M : Hits(M, reaping) = Times(o \in M) + Hits(M, l) /\ Hits(M, l) \in Nat
  BY <1>3, <1>4, HitsHead, HitsFinite
<1> HIDE DEF o, l
<1>6. /\ Among(Deleting(o)) \in Nat /\ Hits({o}, ReaperList.items) \in Nat
      /\ Hits({o}, reaping) \in Nat
  BY <1>1, <1>4, Numbers
<1>7. /\ header[o].live /\ header[o].PointerCount = 0 /\ Among(Deleting(o)) = 0
  <2> DEFINE m == Among(Deleting(o))
             i == Hits({o}, ReaperList.items)
             j == Hits({o}, l)
             n == Times(header[o].live /\ header[o].PointerCount = 0)
  <2>1. Hits({o}, reaping) = 1 + j /\ j \in Nat /\ m \in Nat /\ i \in Nat
    BY <1>5, <1>6 DEF Times
  <2>2. n = m + i + (1 + j)
    <3>1. Doomed(o) = n
      BY <1>4, DoomedType
    <3> QED
      BY <2>1, <3>1 DEF Doomed
  <2>3. n = 0 \/ n = 1
    BY DEF Times
  <2> HIDE DEF m, i, j, n
  <2>4. n = 1 /\ m = 0
    BY <2>1, <2>2, <2>3
  <2>5. header[o].live /\ header[o].PointerCount = 0
    BY <2>4 DEF n, Times
  <2> QED
    BY <2>4, <2>5 DEF m
<1>8. \A u \in Threads : Fit(todo'[u], Live \ {o}, NoObject)
  <2> SUFFICES ASSUME NEW u \in Threads PROVE Fit(todo[u], Live \ {o}, NoObject)
    BY <1>2
  <2>1. Fit(todo[u], Live, NoObject)
    BY <1>1 DEF FitInv
  <2>2. ASSUME NEW k \in DOMAIN todo[u], todo[u][k].o = o PROVE todo[u][k].op = "queue"
    <3>1. todo[u][k] \in Deleting(o) \/ todo[u][k].op = "queue"
      BY <1>4, <1>7, <2>2, Forsaken
    <3>2. todo[u][k] \in Deleting(o) => Among(Deleting(o)) >= 1
      BY <1>1, AmongLeast
    <3> QED
      BY <1>7, <3>1, <3>2
  <2> QED
    BY <2>1, <2>2, FitFewer
<1>9. header' \in [Objects -> Headers] /\ leaked' \in [Objects -> Nat]
  <2>1. header \in [Objects -> Headers] /\ leaked \in [Objects -> Nat]
    BY <1>1 DEF LifeTypes
  <2>2. header' = [header EXCEPT ![o] = None] /\ leaked' = [leaked EXCEPT ![o] = 0]
    BY <1>2 DEF Deleted
  <2>3. None \in Headers
    BY DEF Headers, None
  <2> QED
    BY <2>1, <2>2, <2>3
<1>10. LifeTypes'
  BY <1>1, <1>2, <1>4, <1>9 DEF LifeTypes
<1>11. Among(Queueing)' = Among(Queueing)
  BY <1>2, SameTodo
<1>12. QueueInv'
  <2>1. Times(reaper # "idle") = Times(reaper' # "idle")
    BY <1>2 DEF Times
  <2>2. queued' + Times(reaper' # "idle") + Among(Queueing)'
             = Times(ReaperList' # [items |-> <<>>, end |-> 0])
    BY <1>1, <1>2, <1>11, <2>1, Zenon DEF QueueInv
  <2> QED
    BY <1>2, <1>3, <1>4, <2>2 DEF QueueInv
<1>13. ASSUME NEW x \in Objects
       PROVE  /\ RefsDue(x)' = RefsDue(x) /\ NamesDue(x)' = NamesDue(x)
              /\ Among(Counted(x))' = Among(Counted(x))
              /\ Among(Inserting(x))' = Among(Inserting(x))
              /\ Doomed(x)' = Doomed(x) - Times(o = x)
  <2> DEFINE m == Among(Deleting(x))
             i == Hits({x}, ReaperList.items)
             j == Hits({x}, l)
             n == Times(o = x)
  <2>1. Times(o \in {x}) = n
    BY DEF Times
  <2>2. m \in Nat /\ i \in Nat /\ j \in Nat /\ n \in Nat /\ Hits({x}, reaping) = n + j
    BY <1>1, <1>5, <2>1, Numbers, TimesType
  <2>3. m' = m /\ i' = i
    BY <1>2, SameTodo
  <2>4. Doomed(x) = m + i + (n + j) /\ Doomed(x)' = m + i + j
    BY <1>2, <2>2, <2>3, Zenon DEF Doomed
  <2> HIDE DEF m, i, j, n
  <2>5. Doomed(x)' = Doomed(x) - n
    BY <2>2, <2>4
  <2> QED
    BY <1>2, <2>5, SameTodo DEF n
<1> QED
  BY <1>2, <1>4, <1>7, <1>8, <1>10, <1>12, <1>13, ObjectGoes

(* The queueing of the work item, as a step to come. *)
LEMMA QueuePiece ==
    ASSUME NEW o \in Objects
    PROVE  /\ <<Op("queue", o)>> \in Seq(StepSet)
           /\ \A x \in Objects : Sums(x, <<Op("queue", o)>>, 0, 0, 0, 0, 0, 1)
           /\ \A L : Fit(<<Op("queue", o)>>, L, NoObject)
<1> DEFINE e == Op("queue", o)
<1>1. e \in OpSteps /\ e.op = "queue" /\ e.o = o /\ <<e>> \in Seq(StepSet)
  BY OpIsStep
<1>2. \A L : Fit(<<e>>, L, NoObject)
  BY FitOp DEF Weak
<1> HIDE DEF e
<1>3. ASSUME NEW x \in Objects PROVE Sums(x, <<e>>, 0, 0, 0, 0, 0, 1)
  <2>1. Sums(x, <<e>>, Times(e.op \in {"object", "insert"} /\ e.o = x),
                       Times(e.op = "uncount" /\ e.o = x),
                       Times(e.op \in {"name", "insert", "lookup"} /\ e.o = x),
                       Times(e.op \in Deletion /\ e.o = x),
                       Times(e.op = "insert" /\ e.o = x), Times(e.op = "queue"))
    BY <1>1, SumsOp
  <2>2. /\ Times(e.op \in {"object", "insert"} /\ e.o = x) = 0
        /\ Times(e.op = "uncount" /\ e.o = x) = 0
        /\ Times(e.op \in {"name", "insert", "lookup"} /\ e.o = x) = 0
        /\ Times(e.op \in Deletion /\ e.o = x) = 0
        /\ Times(e.op = "insert" /\ e.o = x) = 0 /\ Times(e.op = "queue") = 1
    BY <1>1 DEF Times, Deletion
  <2> QED
    BY <2>1, <2>2, Zenon
<1> QED
  BY <1>1, <1>2, <1>3 DEF e

(* ObpDeferObjectDeletion: the object is put on the list... *)
LEMMA DeferKeeps ==
    ASSUME LifeInv, NEW t \in Threads, Defer(t), UNCHANGED used
    PROVE  LifeInv'
<1> DEFINE o == Object(t)
           s == IF Queues THEN <<Op("queue", o)>> ELSE <<>>
           n == IF Queues THEN 1 ELSE 0
           none == [items |-> <<>>, end |-> 0]
<1>1. "defer" \in Deletion /\ "defer" \in Deletion \cup {"queue"}
  BY DEF Deletion
<1>2. /\ At(t, "defer") /\ ReaperList' = [ReaperList EXCEPT !.items = <<o>> \o @]
      /\ Then(t, s)
      /\ UNCHANGED <<header, directory, handles, leaked, queued, reaper, reaping>>
  BY DEF Defer
<1>3. /\ LifeTypes /\ FitInv /\ QueueInv /\ todo \in Todos /\ todo[t] # <<>>
      /\ o \in Objects /\ ReaperList \in [items : Seq(Objects), end : {0, 1}]
  <2>1. LifeTypes /\ FitInv /\ QueueInv
    BY DEF LifeInv
  <2>2. todo \in Todos /\ todo[t] # <<>> /\ o \in Objects
    BY <1>2, HeadKeeps
  <2> QED
    BY <2>1, <2>2 DEF LifeTypes
<1>4. /\ s \in Seq(StepSet) /\ Fit(s, Live, NoObject)
      /\ \A x \in Objects : Sums(x, s, 0, 0, 0, 0, 0, n)
  <2>1. CASE Queues
    BY <1>3, <2>1, QueuePiece
  <2>2. CASE ~ Queues
    BY <2>2, SumsNone, FitNone
  <2> QED
    BY <2>1, <2>2
<1>5. n \in Nat /\ n + Times(ReaperList # none) = 1
  BY DEF Queues, Times
<1>6. /\ ReaperList'.items = <<o>> \o ReaperList.items /\ ReaperList'.end = ReaperList.end
      /\ ReaperList' \in [items : Seq(Objects), end : {0, 1}]
      /\ <<o>> \in Seq(Objects) /\ ReaperList.items \in Seq(Objects)
      /\ ReaperList'.items # <<>>
  <2> DEFINE l == ReaperList.items
  <2>1. l \in Seq(Objects) /\ <<o>> \in Seq(Objects)
    BY <1>3
  <2>2. ReaperList'.items = <<o>> \o l /\ ReaperList'.end = ReaperList.end
    BY <1>2, <1>3
  <2>3. <<o>> \o l \in Seq(Objects) /\ <<o>> \o l # <<>>
    <3> HIDE DEF l, o
    <3>1. <<o>> \o l \in Seq(Objects) /\ Len(<<o>> \o l) = 1 + Len(l) /\ Len(l) \in Nat
      BY <2>1
    <3>2. Len(<<o>> \o l) # 0
      BY <3>1
    <3> QED
      BY <3>1, <3>2
  <2> HIDE DEF l, o
  <2>4. ReaperList' = [items |-> <<o>> \o l, end |-> ReaperList.end]
    BY <1>2, <1>3 DEF l
  <2>5. ReaperList' \in [items : Seq(Objects), end : {0, 1}]
    BY <1>3, <2>3, <2>4
  <2> QED
    BY <2>1, <2>2, <2>3, <2>5 DEF l
<1> HIDE DEF o, s, n
<1>7. todo' \in Todos /\ \A u \in Threads : Fit(todo'[u], Live, NoObject)
  BY <1>2, <1>3, <1>4, ThenFit DEF FitInv
<1>8. LifeTypes' /\ FitInv'
  BY <1>2, <1>3, <1>6, <1>7 DEF LifeTypes, FitInv, Live
<1>9. ASSUME NEW x \in Objects
      PROVE  /\ RefsDue(x)' = RefsDue(x) /\ NamesDue(x)' = NamesDue(x)
             /\ Among(Counted(x))' = Among(Counted(x))
             /\ Among(Inserting(x))' = Among(Inserting(x))
             /\ Doomed(x)' = Doomed(x)
             /\ Among(Queueing)' = Among(Queueing) + n
  <2>1. /\ Times("defer" \in Deletion /\ Object(t) = x) = Times(o = x)
        /\ Times("defer" = "queue") = 0
    BY <1>1 DEF Times, o
  <2>2. /\ RefsDue(x)' = RefsDue(x) /\ NamesDue(x)' = NamesDue(x)
        /\ Among(Counted(x))' = Among(Counted(x))
        /\ Among(Inserting(x))' = Among(Inserting(x))
        /\ Among(Deleting(x))' = Among(Deleting(x)) - Times("defer" \in Deletion /\ Object(t) = x)
        /\ Among(Queueing)' = Among(Queueing) + (n - Times("defer" = "queue"))
    BY <1>1, <1>2, <1>4, <1>5, QuietMoves
  <2> DEFINE m == Among(Deleting(x))
             i == Hits({x}, ReaperList.items)
             j == Hits({x}, reaping)
             k == Times(o = x)
  <2>3. m \in Nat /\ i \in Nat /\ j \in Nat /\ k \in Nat /\ Among(Queueing) \in Nat
    BY <1>3, Numbers, TimesType
  <2>4. i' = k + i
    <3>1. Hits({x}, <<o>> \o ReaperList.items) = Hits({x}, <<o>>) + i
      BY <1>6, HitsConcat
    <3>2. Hits({x}, <<o>>) = Times(o \in {x}) /\ Times(o \in {x}) = k
      BY HitsOne DEF Times
    <3> QED
      BY <1>6, <3>1, <3>2, Zenon
  <2>5. m' = m - k /\ j' = j
    BY <1>2, <2>1, <2>2, Zenon
  <2>6. Among(Queueing)' = Among(Queueing) + n
    BY <1>5, <2>1, <2>2, <2>3
  <2>7. Doomed(x) = m + i + j /\ Doomed(x)' = m' + i' + j'
    BY DEF Doomed
  <2> HIDE DEF m, i, j, k
  <2>8. (m - k) + (k + i) + j = m + i + j
    BY <2>3
  <2>9. Doomed(x)' = Doomed(x)
    BY <2>4, <2>5, <2>7, <2>8, Zenon
  <2> QED
    BY <2>2, <2>6, <2>9
<1>10. QueueInv'
  <2> DEFINE a == Among(Queueing)
             r == Times(reaper # "idle")
             e == Times(ReaperList # none)
  <2>1. queued + r + a = e
    BY <1>3 DEF QueueInv
  <2>2. queued \in Nat /\ r \in Nat /\ a \in Nat /\ e \in Nat
    BY <1>3, Numbers, TimesType DEF LifeTypes
  <2>3. a' = a + n /\ queued' = queued /\ r' = r
    BY <1>2, <1>3, <1>9
  <2>4. n + e = 1
    BY <1>5
  <2>5. e' = 1
    BY <1>6 DEF Times
  <2> HIDE DEF a, r, e
  <2>6. queued' + r' + a' = e'
    BY <1>5, <2>1, <2>2, <2>3, <2>4, <2>5
  <2>7. queued' + Times(reaper' # "idle") + Among(Queueing)'
             = Times(ReaperList' # [items |-> <<>>, end |-> 0])
    BY <2>6 DEF a, r, e
  <2> QED
    BY <1>2, <1>3, <1>6, <2>7 DEF QueueInv
<1> QED
  BY <1>2, <1>8, <1>9, <1>10, Passes

(* ... and whoever finds it empty queues the work item. *)
LEMMA QueueWorkItemKeeps ==
    ASSUME LifeInv, NEW t \in Threads, QueueWorkItem(t), UNCHANGED used
    PROVE  LifeInv'
<1> DEFINE s == <<>>
<1>1. "queue" \in Deletion \cup {"queue"} /\ "queue" \notin Deletion
  BY DEF Deletion
<1>2. /\ At(t, "queue") /\ queued' = queued + 1 /\ Then(t, s)
      /\ UNCHANGED <<header, directory, handles, leaked, ReaperList, reaper, reaping>>
  BY DEF QueueWorkItem
<1>3. /\ LifeTypes /\ FitInv /\ QueueInv /\ todo \in Todos /\ todo[t] # <<>>
      /\ Object(t) \in Objects /\ queued \in Nat
  <2>1. LifeTypes /\ FitInv /\ QueueInv
    BY DEF LifeInv
  <2>2. todo \in Todos /\ todo[t] # <<>> /\ Object(t) \in Objects
    BY <1>2, HeadKeeps
  <2> QED
    BY <2>1, <2>2 DEF LifeTypes
<1>4. /\ s \in Seq(StepSet) /\ Fit(s, Live, NoObject)
      /\ \A x \in Objects : Sums(x, s, 0, 0, 0, 0, 0, 0)
  BY SumsNone, FitNone
<1> HIDE DEF s
<1>5. todo' \in Todos /\ \A u \in Threads : Fit(todo'[u], Live, NoObject)
  BY <1>2, <1>3, <1>4, ThenFit DEF FitInv
<1>6. LifeTypes' /\ FitInv'
  <2>1. queued' \in Nat
    BY <1>2, <1>3
  <2> QED
    BY <1>2, <1>3, <1>5, <2>1 DEF LifeTypes, FitInv, Live
<1>7. ASSUME NEW x \in Objects
      PROVE  /\ RefsDue(x)' = RefsDue(x) /\ NamesDue(x)' = NamesDue(x)
             /\ Among(Counted(x))' = Among(Counted(x))
             /\ Among(Inserting(x))' = Among(Inserting(x))
             /\ Doomed(x)' = Doomed(x)
             /\ Among(Queueing)' = Among(Queueing) - 1
  <2>1. Times("queue" \in Deletion /\ Object(t) = x) = 0 /\ Times("queue" = "queue") = 1
    BY <1>1 DEF Times
  <2>2. /\ RefsDue(x)' = RefsDue(x) /\ NamesDue(x)' = NamesDue(x)
        /\ Among(Counted(x))' = Among(Counted(x))
        /\ Among(Inserting(x))' = Among(Inserting(x))
        /\ Among(Deleting(x))' = Among(Deleting(x)) - Times("queue" \in Deletion /\ Object(t) = x)
        /\ Among(Queueing)' = Among(Queueing) + (0 - Times("queue" = "queue"))
    BY <1>1, <1>2, <1>4, QuietMoves
  <2>3. Among(Deleting(x)) \in Nat /\ Among(Queueing) \in Nat
    BY <1>3, Numbers
  <2>4. Among(Deleting(x))' = Among(Deleting(x)) /\ Among(Queueing)' = Among(Queueing) - 1
    BY <2>1, <2>2, <2>3
  <2>5. Doomed(x)' = Doomed(x)
    BY <1>2, <2>4, Zenon DEF Doomed
  <2> QED
    BY <2>2, <2>4, <2>5
<1>8. QueueInv'
  <2> DEFINE a == Among(Queueing)
             r == Times(reaper # "idle")
             e == Times(ReaperList # [items |-> <<>>, end |-> 0])
  <2>1. queued + r + a = e
    BY <1>3 DEF QueueInv
  <2>2. queued \in Nat /\ r \in Nat /\ a \in Nat /\ e \in Nat
    BY <1>3, Numbers, TimesType DEF LifeTypes
  <2>3. a' = a - 1 /\ queued' = queued + 1 /\ r' = r /\ e' = e
    BY <1>2, <1>3, <1>7
  <2> HIDE DEF a, r, e
  <2>6. queued' + r' + a' = e'
    BY <2>1, <2>2, <2>3
  <2>7. queued' + Times(reaper' # "idle") + Among(Queueing)'
             = Times(ReaperList' # [items |-> <<>>, end |-> 0])
    BY <2>6 DEF a, r, e
  <2> QED
    BY <1>2, <1>3, <2>7 DEF QueueInv
<1> QED
  BY <1>2, <1>6, <1>7, <1>8, Passes

-----------------------------------------------------------------------------
(* ObCreateObject *)

LEMMA CreateKeeps ==
    ASSUME LifeInv, NEW t \in Threads, NEW o \in Objects, NEW permanent \in BOOLEAN,
           Create(t, o, permanent), UNCHANGED used,
           \A x \in Objects \ used : ~ header'[x].live
    PROVE  LifeInv'
<1> DEFINE s == <<Op("insert", o)>>
           h == header'[o]
<1>1. /\ header[o] = None /\ Begin(t, s)
      /\ UNCHANGED <<directory, handles, leaked, reaperVars>>
      /\ header' = [header EXCEPT ![o] = [None EXCEPT !.live = TRUE, !.PointerCount = 1,
                                          !.QueryReferences = 2, !.Permanent = permanent]]
  BY DEF Create
<1>2. /\ LifeTypes /\ FitInv /\ NamesInv /\ AloneInv /\ QueueInv
      /\ todo \in Todos /\ header \in [Objects -> Headers]
  BY DEF LifeInv, LifeTypes
<1>3. /\ h = [live |-> TRUE, PointerCount |-> 1, HandleCount |-> 0,
              QueryReferences |-> 2, Directory |-> FALSE, Permanent |-> permanent]
      /\ \A x \in Objects : x # o => header'[x] = header[x]
  BY <1>1, <1>2 DEF None
<1>4. /\ header' \in [Objects -> Headers] /\ h.live /\ h.PointerCount = 1 /\ h.HandleCount = 0
      /\ h.QueryReferences = 2 /\ ~ h.Directory
  <2>1. h \in Headers
    BY <1>3 DEF Headers
  <2>2. header' = [header EXCEPT ![o] = h]
    BY <1>1, <1>2
  <2> HIDE DEF h
  <2> QED
    BY <1>2, <1>3, <2>1, <2>2
<1>5. header[o].PointerCount = 0 /\ ~ header[o].live
  BY <1>1 DEF None
<1>6. Live' = Live \cup {o} /\ Live \subseteq Live'
  BY <1>3, <1>4 DEF Live
<1>7. /\ s \in Seq(StepSet) /\ Fit(s, Live', NoObject)
      /\ \A x \in Objects : Sums(x, s, Times(o = x), 0, Times(o = x), 0, Times(o = x), 0)
  <2>1. s \in Seq(StepSet)
    BY OpIsStep
  <2>2. Fit(s, Live', NoObject)
    BY <1>6, FitOp DEF Weak
  <2>3. \A x \in Objects : Sums(x, s, Times(o = x), 0, Times(o = x), 0, Times(o = x), 0)
    BY InsertPiece
  <2> QED
    BY <2>1, <2>2, <2>3
<1> HIDE DEF s, h
<1>8. todo' \in Todos /\ \A u \in Threads : Fit(todo'[u], Live', NoObject)
  <2> DEFINE L == Live'
  <2>1. Live \subseteq L /\ Fit(s, L, NoObject)
    BY <1>6, <1>7
  <2> HIDE DEF L
  <2>2. todo' \in Todos /\ \A u \in Threads : Fit(todo'[u], L, NoObject)
    BY <1>1, <1>2, <2>1, BeginFit DEF FitInv
  <2> QED
    BY <2>2 DEF L
<1>9. LifeTypes' /\ FitInv'
  BY <1>1, <1>2, <1>4, <1>8 DEF LifeTypes, FitInv, reaperVars
<1>10. AloneInv'
  BY <1>2 DEF AloneInv, Live
<1>11. /\ handles[o] = 0 /\ o \notin directory /\ leaked[o] = 0 /\ RefsDue(o) = 0
       /\ NamesDue(o) = 0 /\ Among(Counted(o)) = 0 /\ Among(Inserting(o)) = 0
  BY <1>5, Forsaken
<1>12. ASSUME NEW x \in Objects
       PROVE  /\ RefsDue(x)' = RefsDue(x) + Times(o = x)
              /\ NamesDue(x)' = NamesDue(x) + Times(o = x)
              /\ Among(Counted(x))' = Among(Counted(x))
              /\ Among(Inserting(x))' = Among(Inserting(x)) + Times(o = x)
              /\ Doomed(x)' = Doomed(x) /\ Among(Queueing)' = Among(Queueing)
  <2> DEFINE p == Times(o = x)
  <2>1. Sums(x, s, p, 0, p, 0, p, 0)
    BY <1>7
  <2> HIDE DEF p
  <2>2. Moves(x, p, 0, p, 0, p, 0)
    BY <1>1, <1>2, <1>7, <2>1, BeginMoves
  <2>3. /\ Among(Counted(x)) \in Nat /\ Among(Deleting(x)) \in Nat /\ Among(Queueing) \in Nat
    BY <1>2, Numbers
  <2>4. /\ RefsDue(x)' = RefsDue(x) + p /\ NamesDue(x)' = NamesDue(x) + p
        /\ Among(Counted(x))' = Among(Counted(x))
        /\ Among(Inserting(x))' = Among(Inserting(x)) + p
        /\ Among(Deleting(x))' = Among(Deleting(x)) /\ Among(Queueing)' = Among(Queueing)
    BY <2>2, <2>3 DEF Moves
  <2>5. Doomed(x)' = Doomed(x)
    BY <1>1, <2>4, Zenon DEF Doomed, reaperVars
  <2> QED
    BY <2>4, <2>5 DEF p
<1>13. QueueInv'
  BY <1>1, <1>2, <1>12 DEF QueueInv, reaperVars
<1>14. ASSUME NEW x \in Objects, x # o
       PROVE  /\ header'[x] = header[x] /\ RefsDue(x)' = RefsDue(x) /\ NamesDue(x)' = NamesDue(x)
              /\ Among(Inserting(x))' = Among(Inserting(x))
  <2>1. RefsDue(x) \in Nat /\ NamesDue(x) \in Nat /\ Among(Inserting(x)) \in Nat
    BY <1>2, Numbers
  <2>2. Times(o = x) = 0
    BY <1>14 DEF Times
  <2>3. /\ RefsDue(x)' = RefsDue(x) + 0 /\ NamesDue(x)' = NamesDue(x) + 0
        /\ Among(Inserting(x))' = Among(Inserting(x)) + 0
    BY <1>12, <2>2
  <2>4. header'[x] = header[x]
    BY <1>3, <1>14
  <2> QED
    BY <2>1, <2>3, <2>4
<1>15. Times(o = o) = 1 /\ Times(o \in directory') = 0
  BY <1>1, <1>11 DEF Times
<1>16. /\ RefsDue(o)' = 1 /\ NamesDue(o)' = 1 /\ Among(Counted(o))' = 0
       /\ Among(Inserting(o))' = 1 /\ Doomed(o)' = 0
  <2>1. Doomed(o) = 0
    BY <1>5, DoomedType DEF Times
  <2>2. /\ RefsDue(o)' = RefsDue(o) + 1 /\ NamesDue(o)' = NamesDue(o) + 1
        /\ Among(Counted(o))' = Among(Counted(o))
        /\ Among(Inserting(o))' = Among(Inserting(o)) + 1 /\ Doomed(o)' = Doomed(o)
    BY <1>12, <1>15
  <2> QED
    BY <1>11, <2>1, <2>2
<1>17. ASSUME NEW x \in Objects, x # o PROVE ObjectInv(x)'
  <2>1. /\ RefsInv(x) /\ HandlesInv(x) /\ DeleteInv(x) /\ InsertInv(x)
        /\ ~ header[x].live => header[x] = None
    BY DEF LifeInv, ObjectInv
  <2>2. RefsInv(x)' /\ HandlesInv(x)' /\ InsertInv(x)'
    BY <1>1, <1>12, <1>14, <1>17, <2>1 DEF RefsInv, HandlesInv, InsertInv
  <2>3. DeleteInv(x)'
    <3>1. Doomed(x)' = Doomed(x) /\ header'[x] = header[x]
      BY <1>12, <1>14, <1>17
    <3> QED
      BY <2>1, <3>1, Zenon DEF DeleteInv, Doomed
  <2> QED
    BY <1>14, <1>17, <2>1, <2>2, <2>3 DEF ObjectInv
<1>18. ObjectInv(o)'
  <2>1. RefsInv(o)'
    <3>1. 1 = 0 + 0 + 0 + 1
      OBVIOUS
    <3>2. h.PointerCount = handles'[o] + Times(o \in directory') + leaked'[o] + RefsDue(o)'
      <4>1. handles'[o] = 0 /\ leaked'[o] = 0
        BY <1>1, <1>11
      <4> QED
        BY <1>4, <1>15, <1>16, <3>1, <4>1, Zenon
    <3> QED
      BY <3>2 DEF RefsInv, h
  <2>2. HandlesInv(o)'
    <3>1. handles'[o] = 0 /\ h.HandleCount = 0 /\ Among(Counted(o))' = 0
      BY <1>1, <1>4, <1>11, <1>16
    <3> QED
      BY <3>1 DEF HandlesInv, h
  <2>3. DeleteInv(o)'
    <3>1. Times(h.live /\ h.PointerCount = 0) = 0
      BY <1>4 DEF Times
    <3> QED
      BY <1>16, <3>1 DEF DeleteInv, Doomed, h
  <2>4. InsertInv(o)'
    BY <1>1, <1>4, <1>11, <1>16 DEF InsertInv, h
  <2> QED
    BY <1>4, <2>1, <2>2, <2>3, <2>4 DEF ObjectInv, h
<1>19. NamesInv'
  <2> SUFFICES ASSUME used' # Objects, NEW x \in Objects PROVE NameInv(x)'
    BY DEF NamesInv
  <2>1. CASE x # o
    <3>1. NameInv(x) /\ header'[x] = header[x] /\ NamesDue(x)' = NamesDue(x)
      BY <1>2, <1>14, <2>1 DEF NamesInv
    <3> QED
      BY <1>1, <3>1 DEF NameInv
  <2>2. NameInv(o)'
    <3>1. Times(o \in directory' \/ (h.QueryReferences > 0 /\ ~ h.Directory)) = 1
      BY <1>4 DEF Times
    <3>2. h.QueryReferences = 1 + NamesDue(o)'
      BY <1>4, <1>16
    <3> QED
      BY <1>1, <1>4, <1>11, <3>1, <3>2 DEF NameInv, h
  <2> QED
    BY <2>1, <2>2
<1> QED
  BY <1>9, <1>10, <1>13, <1>17, <1>18, <1>19 DEF LifeInv

-----------------------------------------------------------------------------
(* The invariant of the specification.                                     *)

LEMMA DereferenceStep ==
    ASSUME LifeInv, UNCHANGED used, NEW t \in Threads, Dereference(t)
    PROVE  LifeInv'
<1>1. /\ At(t, "object") /\ UNCHANGED <<directory, handles, reaperVars>>
      /\ \/ leaked' = [leaked EXCEPT ![Object(t)] = @ + 1] /\ Then(t, <<>>) /\ UNCHANGED header
         \/ /\ header' = [header EXCEPT ![Object(t)].PointerCount = @ - 1] /\ UNCHANGED leaked
            /\ \/ /\ header[Object(t)].PointerCount = 1
                  /\ \E d \in Deletion : Then(t, <<Op(d, Object(t))>>)
               \/ header[Object(t)].PointerCount # 1 /\ Then(t, <<>>)
  BY Zenon DEF Dereference
<1>2. CASE leaked' = [leaked EXCEPT ![Object(t)] = @ + 1] /\ Then(t, <<>>) /\ UNCHANGED header
  BY <1>1, <1>2, MisbehavingKeeps
<1>3. CASE /\ header' = [header EXCEPT ![Object(t)].PointerCount = @ - 1] /\ UNCHANGED leaked
           /\ header[Object(t)].PointerCount # 1 /\ Then(t, <<>>)
  BY <1>1, <1>3, DereferenceKeeps
<1>4. CASE /\ header' = [header EXCEPT ![Object(t)].PointerCount = @ - 1] /\ UNCHANGED leaked
           /\ header[Object(t)].PointerCount = 1
           /\ \E d \in Deletion : Then(t, <<Op(d, Object(t))>>)
  <2>1. PICK d \in Deletion : Then(t, <<Op(d, Object(t))>>)
    BY <1>4
  <2> QED
    BY <1>1, <1>4, <2>1, LastReferenceKeeps
<1> QED
  BY <1>1, <1>2, <1>3, <1>4, Zenon

LEMMA DeleteStep ==
    ASSUME LifeInv, UNCHANGED used, NEW t \in Threads, Delete(t)
    PROVE  LifeInv'
BY DeleteKeeps DEF Delete

LEMMA LookStep ==
    ASSUME LifeInv, UNCHANGED used, NEW t \in Threads, NEW count, Look(t, count)
    PROVE  LifeInv'
BY LookKeeps DEF Look

(* A thread inside a routine. *)
LEMMA InsideKeeps ==
    ASSUME LifeInv, UNCHANGED used, NEW t \in Threads, Inside(t)
    PROVE  LifeInv'
<1>1. CASE Insert(t) \/ InsertFails(t) \/ OpenIf(t) \/ Collision(t)
  BY <1>1, InsertKeeps, InsertFailsKeeps, OpenIfKeeps, CollisionKeeps, Zenon
<1>2. CASE MakePermanent(t) \/ MakeTemporary(t) \/ OpenByPointer(t)
  BY <1>2, MakePermanentKeeps, MakeTemporaryKeeps, OpenByPointerKeeps, Zenon
<1>3. CASE Count(t) \/ CountFails(t) \/ Release(t) \/ CreateHandle(t) \/ CreateFails(t)
  BY <1>3, CountKeeps, CountFailsKeeps, ReleaseKeeps, CreateHandleKeeps, CreateFailsKeeps,
     Zenon
<1>4. CASE Uncount(t) \/ Check(t) \/ LookupAndDelete(t) \/ LookupNothing(t) \/ DereferenceName(t)
  BY <1>4, UncountKeeps, CheckKeeps, LookupAndDeleteKeeps, LookupNothingKeeps,
     DereferenceNameKeeps, Zenon
<1>5. CASE (\E count \in Counts : Look(t, count)) \/ Dereference(t)
  BY <1>5, LookStep, DereferenceStep, Zenon
<1>6. CASE Delete(t) \/ Defer(t) \/ QueueWorkItem(t)
  BY <1>6, DeleteStep, DeferKeeps, QueueWorkItemKeeps, Zenon
<1> QED
  BY <1>1, <1>2, <1>3, <1>4, <1>5, <1>6, Zenon DEF Inside

(* A call, and the reaper. *)
LEMMA LCallKeeps ==
    ASSUME LifeInv, NEW t \in Threads, LCall(t)
    PROVE  LifeInv'
<1>1. UNCHANGED used /\ (\A x \in Objects \ used : ~ header'[x].live) /\ Call(t)
  BY DEF LCall
<1>2. PICK o \in Objects : \/ \E permanent \in BOOLEAN : Create(t, o, permanent)
                           \/ OpenByName(t, o) \/ OpenFails(t, o) \/ Close(t, o)
                           \/ \E ops \in Uses(o) : Reference(t, o, ops)
  BY <1>1, Zenon DEF Call
<1>3. ASSUME NEW permanent \in BOOLEAN, Create(t, o, permanent) PROVE LifeInv'
  BY <1>1, <1>3, CreateKeeps
<1>4. CASE OpenByName(t, o) \/ OpenFails(t, o) \/ Close(t, o)
  BY <1>1, <1>4, OpenByNameKeeps, OpenFailsKeeps, CloseKeeps, Zenon
<1>5. ASSUME NEW ops \in Uses(o), Reference(t, o, ops) PROVE LifeInv'
  BY <1>1, <1>5, ReferenceKeeps
<1> QED
  BY <1>2, <1>3, <1>4, <1>5, Zenon

LEMMA LReaperKeeps ==
    ASSUME LifeInv, LReaper
    PROVE  LifeInv'
<1>1. UNCHANGED used
  BY DEF LReaper
<1>2. CASE ReapObject \/ ReapMore \/ ReaperReturns
  <2>1. UNCHANGED <<header, directory, handles, todo, leaked>>
    BY <1>2 DEF ReapObject, ReapMore, ReaperReturns, threadVars
  <2> QED
    BY <1>1, <1>2, <2>1, ReaperStep
<1>3. CASE TakeList \/ Reap
  BY <1>1, <1>3, TakeListKeeps, ReapKeeps
<1> QED
  BY <1>2, <1>3, Zenon DEF LReaper, Reaper

LEMMA LifeStart ==
    ASSUME LInit
    PROVE  LifeInv
<1>1. /\ header = [o \in Objects |-> None] /\ directory = {} /\ handles = [o \in Objects |-> 0]
      /\ todo = [t \in Threads |-> <<>>] /\ leaked = [o \in Objects |-> 0]
      /\ ReaperList = [items |-> <<>>, end |-> 0] /\ queued = 0 /\ reaper = "idle"
      /\ reaping = <<>>
      /\ used = Objects \/ used = {CHOOSE o \in Objects : TRUE}
  BY DEF LInit, Init
<1>2. None \in Headers /\ ~ None.live /\ None.PointerCount = 0 /\ None.HandleCount = 0
      /\ None.QueryReferences = 0 /\ ~ None.Directory
  BY DEF None, Headers
<1>3. \A x \in Objects : header[x] = None /\ handles[x] = 0 /\ leaked[x] = 0
  BY <1>1
<1>4. todo \in Todos
  BY <1>1 DEF Todos
<1>5. LifeTypes
  BY <1>1, <1>2, <1>4 DEF LifeTypes
<1>6. FitInv
  BY <1>1, FitNone DEF FitInv
<1>7. ASSUME NEW M PROVE Among(M) = 0
  <2>1. /\ Among(M) \in Nat
        /\ Among(M) > 0 => \E t \in Threads : \E k \in DOMAIN todo[t] : todo[t][k] \in M
    BY <1>4, AmongLeast
  <2>2. ASSUME NEW t \in Threads, NEW k \in DOMAIN todo[t] PROVE FALSE
    BY <1>1
  <2> QED
    BY <2>1, <2>2
<1>8. ASSUME NEW x \in Objects
      PROVE  /\ RefsDue(x) = 0 /\ NamesDue(x) = 0 /\ Among(Counted(x)) = 0
             /\ Among(Deleting(x)) = 0 /\ Among(Inserting(x)) = 0 /\ Among(Queueing) = 0
             /\ Hits({x}, ReaperList.items) = 0 /\ Hits({x}, reaping) = 0
             /\ Times(x \in directory) = 0
  <2>1. RefsDue(x) = 0 /\ NamesDue(x) = 0
    BY <1>7 DEF RefsDue, NamesDue
  <2>2. Hits({x}, ReaperList.items) = 0 /\ Hits({x}, reaping) = 0
    BY <1>1, HitsNone
  <2>3. Times(x \in directory) = 0
    BY <1>1 DEF Times
  <2> QED
    BY <1>7, <2>1, <2>2, <2>3
<1>9. ASSUME NEW x \in Objects PROVE ObjectInv(x) /\ NameInv(x)
  <2>1. RefsInv(x) /\ HandlesInv(x) /\ InsertInv(x)
    <3>1. /\ header[x].PointerCount = 0 /\ header[x].HandleCount = 0 /\ handles[x] = 0
          /\ leaked[x] = 0
      BY <1>2, <1>3
    <3>2. 0 = 0 + 0 + 0 + 0 /\ 0 = 0 + 0 /\ 0 <= 1 /\ 0 # 1
      OBVIOUS
    <3> QED
      BY <1>8, <3>1, <3>2, Zenon DEF RefsInv, HandlesInv, InsertInv
  <2>2. DeleteInv(x)
    BY <1>2, <1>3, <1>8 DEF DeleteInv, Times
  <2>3. NameInv(x)
    <3>1. header[x].QueryReferences = 0 /\ ~ header[x].Directory /\ x \notin directory
      BY <1>1, <1>2, <1>3
    <3>2. Times(x \in directory \/ (header[x].QueryReferences > 0 /\ ~ header[x].Directory)) = 0
      BY <3>1 DEF Times
    <3>3. 0 = 0 + 0
      OBVIOUS
    <3> QED
      BY <1>8, <3>1, <3>2, <3>3, Zenon DEF NameInv
  <2> QED
    BY <1>3, <2>1, <2>2, <2>3 DEF ObjectInv
<1>10. NamesInv /\ AloneInv
  BY <1>1, <1>2, <1>3, <1>9 DEF NamesInv, AloneInv, Live
<1>11. QueueInv
  BY <1>1, <1>7 DEF QueueInv, Times
<1> QED
  BY <1>5, <1>6, <1>9, <1>10, <1>11 DEF LifeInv

(* The inductive invariant holds of every behaviour. *)
THEOREM LifeInvariance == LFairSpec => []LifeInv
<1>1. LInit => LifeInv
  BY LifeStart
<1>2. LifeInv /\ [LNext]_lvars => LifeInv'
  <2> SUFFICES ASSUME LifeInv, [LNext]_lvars PROVE LifeInv'
    OBVIOUS
  <2>1. CASE LReaper
    BY <2>1, LReaperKeeps
  <2>2. ASSUME NEW t \in Threads, LCall(t) PROVE LifeInv'
    BY <2>2, LCallKeeps
  <2>3. ASSUME NEW t \in Threads, LInside(t) PROVE LifeInv'
    BY <2>3, InsideKeeps DEF LInside
  <2>4. CASE UNCHANGED lvars
    BY <2>4, LookKeeps DEF lvars, vars, threadVars
  <2> QED
    BY <2>1, <2>2, <2>3, <2>4, Zenon DEF LNext
<1> QED
  BY <1>1, <1>2, PTL DEF LFairSpec

-----------------------------------------------------------------------------
(* What it says in the terms of the properties.                            *)

(* The steps that the properties count. *)
LEMMA StepKinds ==
    ASSUME NEW s \in StepSet
    PROVE  /\ s \in HandleSteps <=> s.op \in HandleOps
           /\ s \in OpSteps <=> s.op \notin HandleOps
BY DEF StepSet, HandleSteps, OpSteps, HandleOps, Weak, Deletion

LEMMA TodoSteps ==
    ASSUME todo \in Todos, NEW t \in Threads, NEW k \in DOMAIN todo[t]
    PROVE  /\ todo[t][k] \in StepSet
           /\ todo[t][k] \in HandleSteps <=> todo[t][k].op \in HandleOps
           /\ todo[t][k] \in OpSteps <=> todo[t][k].op \notin HandleOps
<1>1. todo[t] \in Seq(StepSet)
  BY DEF Todos
<1>2. todo[t][k] \in StepSet
  BY <1>1
<1> QED
  BY <1>2, StepKinds

LEMMA RefSteps ==
    ASSUME todo \in Todos, NEW x \in Objects
    PROVE  /\ AllSteps(LAMBDA s : s.op \in {"object", "insert"} /\ s.o = x) = Among(Points(x))
           /\ AllSteps(LAMBDA s : s.op \in HandleOps /\ s.context = x) = Among(InContext(x))
           /\ AllSteps(LAMBDA s : s.op \in HandleOps /\ s.new = x) = Among(IsNew(x))
           /\ AllSteps(LAMBDA s : s.op \in HandleOps /\ s.o = x
                                  /\ (s.new = NoObject \/ s.op = "create")) = Among(ForHandle(x))
<1>1. AllSteps(LAMBDA s : s.op \in {"object", "insert"} /\ s.o = x) = Among(Points(x))
  <2> DEFINE W(t) == {k \in DOMAIN todo[t] :
                        todo[t][k].op \in {"object", "insert"} /\ todo[t][k].o = x}
  <2>1. \A t \in Threads : W(t) = Where(Points(x), todo[t])
    BY TodoSteps DEF Where, Points, HandleOps
  <2>2. UNION {{t} \X W(t) : t \in Threads}
           = UNION {{t} \X Where(Points(x), todo[t]) : t \in Threads}
    BY <2>1
  <2> QED
    BY <2>2 DEF AllSteps, Among, Spots
<1>2. AllSteps(LAMBDA s : s.op \in HandleOps /\ s.context = x) = Among(InContext(x))
  <2> DEFINE W(t) == {k \in DOMAIN todo[t] : todo[t][k].op \in HandleOps /\ todo[t][k].context = x}
  <2>1. \A t \in Threads : W(t) = Where(InContext(x), todo[t])
    BY TodoSteps DEF Where, InContext
  <2>2. UNION {{t} \X W(t) : t \in Threads}
           = UNION {{t} \X Where(InContext(x), todo[t]) : t \in Threads}
    BY <2>1
  <2> QED
    BY <2>2 DEF AllSteps, Among, Spots
<1>3. AllSteps(LAMBDA s : s.op \in HandleOps /\ s.new = x) = Among(IsNew(x))
  <2> DEFINE W(t) == {k \in DOMAIN todo[t] : todo[t][k].op \in HandleOps /\ todo[t][k].new = x}
  <2>1. \A t \in Threads : W(t) = Where(IsNew(x), todo[t])
    BY TodoSteps DEF Where, IsNew
  <2>2. UNION {{t} \X W(t) : t \in Threads}
           = UNION {{t} \X Where(IsNew(x), todo[t]) : t \in Threads}
    BY <2>1
  <2> QED
    BY <2>2 DEF AllSteps, Among, Spots
<1>4. AllSteps(LAMBDA s : s.op \in HandleOps /\ s.o = x
                          /\ (s.new = NoObject \/ s.op = "create")) = Among(ForHandle(x))
  <2> DEFINE W(t) == {k \in DOMAIN todo[t] : todo[t][k].op \in HandleOps /\ todo[t][k].o = x
                  /\ (todo[t][k].new = NoObject \/ todo[t][k].op = "create")}
  <2>1. \A t \in Threads : W(t) = Where(ForHandle(x), todo[t])
    BY TodoSteps DEF Where, ForHandle
  <2>2. UNION {{t} \X W(t) : t \in Threads}
           = UNION {{t} \X Where(ForHandle(x), todo[t]) : t \in Threads}
    BY <2>1
  <2> QED
    BY <2>2 DEF AllSteps, Among, Spots
<1> QED
  BY <1>1, <1>2, <1>3, <1>4

LEMMA OtherSteps ==
    ASSUME todo \in Todos, NEW x \in Objects
    PROVE  /\ AllSteps(LAMBDA s : s.op \in {"release", "create", "uncount"} /\ s.o = x)
                 = Among(Counted(x))
           /\ AllSteps(LAMBDA s : s.op \in {"name", "insert", "lookup"} /\ s.o = x)
                 = Among(Naming(x))
           /\ AllSteps(LAMBDA s : s.op \in Deletion /\ s.o = x) = Among(Deleting(x))
<1>1. AllSteps(LAMBDA s : s.op \in {"release", "create", "uncount"} /\ s.o = x) = Among(Counted(x))
  <2> DEFINE W(t) == {k \in DOMAIN todo[t] :
                        todo[t][k].op \in {"release", "create", "uncount"} /\ todo[t][k].o = x}
  <2>1. \A t \in Threads : W(t) = Where(Counted(x), todo[t])
    BY TodoSteps DEF Where, Counted
  <2>2. UNION {{t} \X W(t) : t \in Threads}
           = UNION {{t} \X Where(Counted(x), todo[t]) : t \in Threads}
    BY <2>1
  <2> QED
    BY <2>2 DEF AllSteps, Among, Spots
<1>2. AllSteps(LAMBDA s : s.op \in {"name", "insert", "lookup"} /\ s.o = x) = Among(Naming(x))
  <2> DEFINE W(t) == {k \in DOMAIN todo[t] :
                        todo[t][k].op \in {"name", "insert", "lookup"} /\ todo[t][k].o = x}
  <2>1. \A t \in Threads : W(t) = Where(Naming(x), todo[t])
    BY TodoSteps DEF Where, Naming, HandleOps
  <2>2. UNION {{t} \X W(t) : t \in Threads}
           = UNION {{t} \X Where(Naming(x), todo[t]) : t \in Threads}
    BY <2>1
  <2> QED
    BY <2>2 DEF AllSteps, Among, Spots
<1>3. AllSteps(LAMBDA s : s.op \in Deletion /\ s.o = x) = Among(Deleting(x))
  <2> DEFINE W(t) == {k \in DOMAIN todo[t] : todo[t][k].op \in Deletion /\ todo[t][k].o = x}
  <2>1. \A t \in Threads : W(t) = Where(Deleting(x), todo[t])
    BY TodoSteps DEF Where, Deleting, HandleOps, Deletion
  <2>2. UNION {{t} \X W(t) : t \in Threads}
           = UNION {{t} \X Where(Deleting(x), todo[t]) : t \in Threads}
    BY <2>1
  <2> QED
    BY <2>2 DEF AllSteps, Among, Spots
<1> QED
  BY <1>1, <1>2, <1>3

LEMMA QueueSteps ==
    ASSUME todo \in Todos
    PROVE  AllSteps(LAMBDA s : s.op = "queue") = Among(Queueing)
<1> DEFINE W(t) == {k \in DOMAIN todo[t] : todo[t][k].op = "queue"}
<1>1. \A t \in Threads : W(t) = Where(Queueing, todo[t])
  BY TodoSteps DEF Where, Queueing, HandleOps
<1>2. UNION {{t} \X W(t) : t \in Threads} = UNION {{t} \X Where(Queueing, todo[t]) : t \in Threads}
  BY <1>1
<1> QED
  BY <1>2 DEF AllSteps, Among, Spots

LEMMA OccurrencesAre == \A x, s : Occurrences(x, s) = Hits({x}, s)
<1> SUFFICES ASSUME NEW x, NEW s PROVE Occurrences(x, s) = Hits({x}, s)
  OBVIOUS
<1>1. {k \in DOMAIN s : s[k] = x} = Where({x}, s)
  BY DEF Where
<1> QED
  BY <1>1 DEF Occurrences, Hits

LEMMA ExactCounts ==
    ASSUME LifeInv
    PROVE  CountsExact
<1>1. LifeTypes /\ todo \in Todos /\ NamesInv /\ \A x \in Objects : ObjectInv(x)
  BY DEF LifeInv, LifeTypes
<1>2. RefsExact
  <2> SUFFICES ASSUME NEW x \in Objects
      PROVE  header[x].PointerCount =
                handles[x] + Times(x \in directory) + leaked[x]
                + AllSteps(LAMBDA s : s.op \in {"object", "insert"} /\ s.o = x)
                + AllSteps(LAMBDA s : s.op \in HandleOps /\ s.context = x)
                + AllSteps(LAMBDA s : s.op \in HandleOps /\ s.new = x)
                + AllSteps(LAMBDA s : s.op \in HandleOps /\ s.o = x
                                      /\ (s.new = NoObject \/ s.op = "create"))
    BY DEF RefsExact
  <2> DEFINE p == header[x].PointerCount
             h == handles[x]
             e == Times(x \in directory)
             l == leaked[x]
             a == Among(Points(x))
             b == Among(InContext(x))
             c == Among(IsNew(x))
             d == Among(ForHandle(x))
  <2>1. p = h + e + l + (a + b + c + d)
    BY <1>1 DEF ObjectInv, RefsInv, RefsDue
  <2>2. h \in Nat /\ e \in Nat /\ l \in Nat
    BY <1>1, Numbers, TimesType
  <2>3. a \in Nat /\ b \in Nat /\ c \in Nat /\ d \in Nat
    BY <1>1, AmongLeast
  <2>4. /\ AllSteps(LAMBDA s : s.op \in {"object", "insert"} /\ s.o = x) = a
        /\ AllSteps(LAMBDA s : s.op \in HandleOps /\ s.context = x) = b
        /\ AllSteps(LAMBDA s : s.op \in HandleOps /\ s.new = x) = c
        /\ AllSteps(LAMBDA s : s.op \in HandleOps /\ s.o = x
                                  /\ (s.new = NoObject \/ s.op = "create")) = d
    BY <1>1, RefSteps
  <2> HIDE DEF p, h, e, l, a, b, c, d
  <2>5. p = h + e + l + a + b + c + d
    BY <2>1, <2>2, <2>3
  <2> QED
    BY <2>4, <2>5, Zenon DEF p, h, e, l
<1>3. HandlesExact
  <2> SUFFICES ASSUME NEW x \in Objects
      PROVE  header[x].HandleCount = handles[x]
                + AllSteps(LAMBDA s : s.op \in {"release", "create", "uncount"} /\ s.o = x)
    BY DEF HandlesExact
  <2>1. AllSteps(LAMBDA s : s.op \in {"release", "create", "uncount"} /\ s.o = x) = Among(Counted(x))
    BY <1>1, OtherSteps
  <2>2. header[x].HandleCount = handles[x] + Among(Counted(x))
    BY <1>1 DEF ObjectInv, HandlesInv
  <2> QED
    BY <2>1, <2>2, Zenon
<1>4. ASSUME used # Objects PROVE NamesExact
  <2> SUFFICES ASSUME NEW x \in Objects
      PROVE  /\ header[x].QueryReferences =
                   Times(x \in directory \/ (header[x].QueryReferences > 0 /\ ~ header[x].Directory))
                   + AllSteps(LAMBDA s : s.op \in {"name", "insert", "lookup"} /\ s.o = x)
                   + AllSteps(LAMBDA s : s.op \in HandleOps /\ s.context = x)
                   + AllSteps(LAMBDA s : s.op \in HandleOps /\ s.new = x)
             /\ header[x].PointerCount = 0 => ~ header[x].Directory
    BY DEF NamesExact
  <2> DEFINE p == header[x].QueryReferences
             e == Times(x \in directory \/ (header[x].QueryReferences > 0 /\ ~ header[x].Directory))
             a == Among(Naming(x))
             b == Among(InContext(x))
             c == Among(IsNew(x))
  <2>1. p = e + (a + b + c) /\ (header[x].PointerCount = 0 => ~ header[x].Directory)
    BY <1>1, <1>4 DEF NamesInv, NameInv, NamesDue
  <2>2. e \in Nat
    BY TimesType
  <2>3. a \in Nat /\ b \in Nat /\ c \in Nat
    BY <1>1, AmongLeast
  <2>4. /\ AllSteps(LAMBDA s : s.op \in {"name", "insert", "lookup"} /\ s.o = x) = a
        /\ AllSteps(LAMBDA s : s.op \in HandleOps /\ s.context = x) = b
        /\ AllSteps(LAMBDA s : s.op \in HandleOps /\ s.new = x) = c
    BY <1>1, RefSteps, OtherSteps
  <2> HIDE DEF p, e, a, b, c
  <2>5. p = e + a + b + c
    BY <2>1, <2>2, <2>3
  <2> QED
    BY <2>1, <2>4, <2>5, Zenon DEF p, e
<1> QED
  BY <1>2, <1>3, <1>4 DEF CountsExact

LEMMA ExactDeletion ==
    ASSUME LifeInv
    PROVE  DeletedOnce
<1>1. LifeTypes /\ todo \in Todos /\ FitInv /\ \A x \in Objects : ObjectInv(x)
  BY DEF LifeInv, LifeTypes
<1>2. ASSUME NEW x \in Objects
      PROVE  Times(header[x].live /\ header[x].PointerCount = 0) =
                AllSteps(LAMBDA s : s.op \in Deletion /\ s.o = x)
                + Occurrences(x, ReaperList.items) + Occurrences(x, reaping)
  <2>1. AllSteps(LAMBDA s : s.op \in Deletion /\ s.o = x) = Among(Deleting(x))
    BY <1>1, OtherSteps
  <2>2. Occurrences(x, ReaperList.items) = Hits({x}, ReaperList.items)
        /\ Occurrences(x, reaping) = Hits({x}, reaping)
    BY OccurrencesAre
  <2>3. Times(header[x].live /\ header[x].PointerCount = 0) =
           Among(Deleting(x)) + Hits({x}, ReaperList.items) + Hits({x}, reaping)
    BY <1>1 DEF ObjectInv, DeleteInv
  <2> QED
    BY <2>1, <2>2, <2>3, Zenon
<1>3. ASSUME NEW t \in Threads, NEW k \in DOMAIN todo[t], todo[t][k].op # "queue"
      PROVE  header[todo[t][k].o].live
  <2>1. todo[t][k].o \in Live
    BY <1>1, <1>3 DEF FitInv, Fit
  <2> QED
    BY <2>1 DEF Live
<1> QED
  BY <1>2, <1>3, Zenon DEF DeletedOnce

LEMMA ExactQueue ==
    ASSUME LifeInv
    PROVE  ReaperAlone
<1>1. QueueInv /\ todo \in Todos
  BY DEF LifeInv, LifeTypes
<1>2. AllSteps(LAMBDA s : s.op = "queue") = Among(Queueing)
  BY <1>1, QueueSteps
<1> QED
  BY <1>1, <1>2, Zenon DEF ReaperAlone, QueueInv

(* Only ObpDeleteNameCheck takes an object from the directory, and with    *)
(* one object the one it looks up is the one it has looked at.             *)
LEMMA StaysNamed ==
    ASSUME LifeInv, [LNext]_lvars, used # Objects
    PROVE  KeepsOpen
<1>1. ASSUME NEW t \in Threads, LookupAndDelete(t) PROVE KeepsOpen
  <2> DEFINE o == Object(t)
  <2>1. "lookup" \notin Deletion \cup {"queue"} /\ At(t, "lookup")
    BY <1>1 DEF Deletion, LookupAndDelete
  <2>2. o \in Live
    BY <2>1, HeadKeeps
  <2>3. PICK b \in Found(o) : \/ CanBeDeleted(o) /\ directory' = directory \ {b}
                              \/ directory' = directory
    BY <1>1, Zenon DEF LookupAndDelete
  <2>4. b \in Live
    BY <2>3, FoundLives
  <2>5. b = o
    BY <2>2, <2>4 DEF LifeInv, AloneInv
  <2>6. ASSUME NEW x \in directory \ directory'
        PROVE  header[x].HandleCount = 0 /\ ~ header[x].Permanent
    <3>1. CanBeDeleted(o) /\ x = b
      BY <2>3
    <3> QED
      BY <2>5, <3>1, Zenon DEF CanBeDeleted
  <2> QED
    BY <2>6, Zenon DEF KeepsOpen
<1>2. ASSUME NEW t \in Threads, Insert(t) PROVE directory \subseteq directory'
  BY <1>2 DEF Insert
<1>3. ASSUME NEW t \in Threads, Inside(t), ~ LookupAndDelete(t), ~ Insert(t)
      PROVE  directory' = directory
  BY <1>3, Zenon
     DEF Inside, InsertFails, OpenIf, Collision, MakePermanent, MakeTemporary, OpenByPointer,
         Count, CountFails, Release, CreateHandle, CreateFails, Uncount, Check, LookupNothing,
         DereferenceName, Look, Dereference, Delete, Defer, QueueWorkItem
<1>4. ASSUME NEW t \in Threads, Call(t) PROVE directory' = directory
  BY <1>4, Zenon DEF Call, Create, OpenByName, OpenFails, Close, Reference
<1>5. ASSUME Reaper PROVE directory' = directory
  BY <1>5, Zenon DEF Reaper, ReapObject, TakeList, Reap, ReaperReturns, ReapMore
<1>6. ASSUME directory \subseteq directory' PROVE KeepsOpen
  BY <1>6 DEF KeepsOpen
<1>7. ASSUME directory' = directory PROVE KeepsOpen
  BY <1>6, <1>7
<1>8. CASE LReaper
  BY <1>5, <1>7, <1>8 DEF LReaper
<1>9. ASSUME NEW t \in Threads, LCall(t) PROVE KeepsOpen
  BY <1>4, <1>7, <1>9 DEF LCall
<1>10. ASSUME NEW t \in Threads, LInside(t) PROVE KeepsOpen
  <2>1. Inside(t)
    BY <1>10 DEF LInside
  <2> QED
    BY <1>1, <1>2, <1>3, <1>6, <1>7, <2>1, Zenon
<1>11. CASE UNCHANGED lvars
  BY <1>7, <1>11 DEF lvars, vars
<1> QED
  BY <1>8, <1>9, <1>10, <1>11, Zenon DEF LNext

-----------------------------------------------------------------------------
(* The pointer count, the handle count and the name's count of every       *)
(* object are exact in every state: ObpIncrementHandleCount, the lookup    *)
(* contexts, and the failures of ObInsertObject and ObpCreateHandle lose   *)
(* and invent no reference.                                                *)
THEOREM LifeCountsExact == LFairSpec => []CountsExact
<1>1. LifeInv => CountsExact
  BY ExactCounts
<1> QED
  BY <1>1, LifeInvariance, PTL

(* An object whose last reference ObfDereferenceObject gave back is        *)
(* deleted by exactly one, thread or reaper, and nobody uses it any more.  *)
THEOREM LifeDeletedOnce == LFairSpec => []DeletedOnce
<1>1. LifeInv => DeletedOnce
  BY ExactDeletion
<1> QED
  BY <1>1, LifeInvariance, PTL

(* ObpDeferObjectDeletion queues the work item of the reaper once, and     *)
(* whenever there is something to delete; ObpReapObject never takes an     *)
(* empty list.                                                             *)
THEOREM LifeReaperAlone == LFairSpec => []ReaperAlone
<1>1. LifeInv => ReaperAlone
  BY ExactQueue
<1> QED
  BY <1>1, LifeInvariance, PTL

(* ObpDeleteNameCheck takes no object with a handle, and no permanent one, *)
(* from the directory as long as no other object gets the name.            *)
THEOREM LifeStaysNamed == LFairSpec => OpenStaysNamed
<1>1. LifeInv /\ [LNext]_lvars => [used # Objects => KeepsOpen]_lvars
  BY StaysNamed
<1> QED
  BY <1>1, LifeInvariance, PTL DEF LFairSpec, OpenStaysNamed
=============================================================================
