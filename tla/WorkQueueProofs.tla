--------------------------- MODULE WorkQueueProofs ---------------------------
(***************************************************************************)
(* Proofs about WorkQueue and its KQueue, for any number of workers, items *)
(* and clients, any limits, and whatever the items wait for.               *)
(*                                                                         *)
(* CountExact and NobodyIdle need each other and two facts more: the list  *)
(* of waiters has exactly the threads that wait for an entry, each once,   *)
(* and a thread serves the queue from its first KeRemoveQueue to its end.  *)
(***************************************************************************)
EXTENDS WorkQueue, FiniteSetTheorems, SequenceTheorems, TLAPS

(* The places where a worker counts as active once it serves the queue. *)
ActivePCs == {"return", "apc", "taken", "woken", "running", "late", "expired", "leaving"}

NewPCs == {"none", "created"}

PCs == ActivePCs \cup NewPCs \cup {"waiting", "blocked"}

Listed(ws, t) == \E i \in 1 .. Len(ws) : ws[i] = t

OnceEach(ws) == \A i, j \in 1 .. Len(ws) : ws[i] = ws[j] => i = j

Types(q, sv, p) ==
    /\ q \in [entries : Seq(Entries), waiters : Seq(Workers), CurrentCount : Int]
    /\ sv \in SUBSET Workers
    /\ p \in [Workers -> PCs]

(* The list of waiters and the places of the threads agree. *)
WaitersExact(q, sv, p) ==
    /\ OnceEach(q.waiters)
    /\ \A t \in Workers : p[t] = "waiting" <=> Listed(q.waiters, t)
    /\ \A t \in Workers : t \in sv <=> p[t] \notin NewPCs

ActiveOf(sv, p) == {t \in sv : p[t] \notin {"waiting", "blocked"}}

(* What holds of the queue, the threads that serve it and their places     *)
(* even between the parts of one step.                                     *)
Good(q, sv, p) == /\ Types(q, sv, p)
                  /\ WaitersExact(q, sv, p)
                  /\ q.CurrentCount = Cardinality(ActiveOf(sv, p))

QInv == Good(queue, serving, pc) /\ NobodyIdle

WorkTypes ==
    /\ work \in [MakeThreadsAsNecessary : BOOLEAN, DynamicThreadCount : Int,
                 processed : BOOLEAN, depth : BOOLEAN]
    /\ manager \in {"wait", "pass", "depth", "check", "countDetect", "countCheck"}

(* Only a dynamic thread can be too late. *)
LatePCs == {"late", "expired", "leaving"}

LateDynamic == \A t \in Workers : pc[t] \in LatePCs => t \in Dynamic

ThreadInv == DynamicExact /\ LateDynamic

Inv == QInv /\ WorkTypes /\ ThreadInv

-----------------------------------------------------------------------------
(* Lists of waiters.                                                       *)

(* What RemoveAt leaves. *)
LEMMA RemoveAtShape ==
    ASSUME NEW S, NEW ws \in Seq(S), NEW i \in 1 .. Len(ws)
    PROVE  /\ RemoveAt(ws, i) \in Seq(S)
           /\ Len(RemoveAt(ws, i)) = Len(ws) - 1
           /\ \A j \in 1 .. Len(ws) - 1 :
                 RemoveAt(ws, i)[j] = IF j < i THEN ws[j] ELSE ws[j + 1]
<1> DEFINE l == SubSeq(ws, 1, i - 1)
           r == SubSeq(ws, i + 1, Len(ws))
<1>1. Len(ws) \in Nat /\ i \in Nat /\ i >= 1 /\ i <= Len(ws)
  OBVIOUS
<1>2. l \in Seq(S) /\ Len(l) = i - 1 /\ \A j \in 1 .. i - 1 : l[j] = ws[j]
  BY <1>1
<1>3. r \in Seq(S) /\ Len(r) = Len(ws) - i
      /\ \A j \in 1 .. Len(ws) - i : r[j] = ws[i + j]
  BY <1>1
<1>4. RemoveAt(ws, i) = l \o r
  BY DEF RemoveAt
<1> HIDE DEF l, r
<1>5. /\ l \o r \in Seq(S)
      /\ Len(l \o r) = Len(ws) - 1
      /\ \A j \in 1 .. Len(ws) - 1 :
            (l \o r)[j] = IF j <= i - 1 THEN l[j] ELSE r[j - (i - 1)]
  <2>1. /\ l \o r \in Seq(S)
        /\ Len(l \o r) = Len(l) + Len(r)
        /\ \A j \in 1 .. Len(l) + Len(r) :
              (l \o r)[j] = IF j <= Len(l) THEN l[j] ELSE r[j - Len(l)]
    <3> l \in Seq(S) /\ r \in Seq(S)
      BY <1>2, <1>3
    <3> QED
      BY ConcatProperties
  <2>2. Len(l) + Len(r) = Len(ws) - 1
    BY <1>1, <1>2, <1>3
  <2>3. Len(l) = i - 1
    BY <1>2
  <2> QED
    BY <2>1, <2>2, <2>3, Zenon
<1>6. ASSUME NEW j \in 1 .. Len(ws) - 1
      PROVE  (l \o r)[j] = IF j < i THEN ws[j] ELSE ws[j + 1]
  <2>1. CASE j < i
    BY <1>1, <1>2, <1>5, <2>1
  <2>2. CASE ~(j < i)
    <3>1. j - (i - 1) \in 1 .. Len(ws) - i /\ i + (j - (i - 1)) = j + 1
      BY <1>1, <2>2
    <3> QED
      BY <1>1, <1>3, <1>5, <2>2, <3>1
  <2> QED
    BY <2>1, <2>2
<1> QED
  BY <1>4, <1>5, <1>6

(* A thread that leaves the list is in it no longer, the others are. *)
LEMMA WithoutOne ==
    ASSUME NEW ws \in Seq(Workers), NEW w \in Workers, OnceEach(ws), Listed(ws, w)
    PROVE  /\ Without(ws, w) \in Seq(Workers)
           /\ OnceEach(Without(ws, w))
           /\ \A t \in Workers : Listed(Without(ws, w), t) <=> Listed(ws, t) /\ t # w
<1> DEFINE i == CHOOSE k \in 1 .. Len(ws) : ws[k] = w
           n == Len(ws)
           rs == Without(ws, w)
<1>1. i \in 1 .. n /\ ws[i] = w
  BY DEF Listed
<1>2. rs = RemoveAt(ws, i)
  BY DEF Without
<1> HIDE DEF i
<1>3. /\ rs \in Seq(Workers) /\ Len(rs) = n - 1
      /\ \A j \in 1 .. n - 1 : rs[j] = IF j < i THEN ws[j] ELSE ws[j + 1]
  BY <1>1, <1>2, RemoveAtShape
<1>4. n \in Nat
  OBVIOUS
<1> HIDE DEF rs, n
<1>5. OnceEach(rs)
  <2> SUFFICES ASSUME NEW j \in 1 .. n - 1, NEW k \in 1 .. n - 1, rs[j] = rs[k]
               PROVE  j = k
    BY <1>3 DEF OnceEach
  <2>1. /\ j \in 1 .. n /\ j + 1 \in 1 .. n /\ k \in 1 .. n /\ k + 1 \in 1 .. n
    BY <1>4
  <2>2. \A a, b \in 1 .. n : ws[a] = ws[b] => a = b
    BY DEF OnceEach, n
  <2>3. (IF j < i THEN j ELSE j + 1) = (IF k < i THEN k ELSE k + 1)
    BY <1>3, <2>1, <2>2
  <2> QED
    BY <1>1, <1>4, <2>1, <2>3
<1>6. ASSUME NEW t \in Workers
      PROVE  Listed(rs, t) <=> Listed(ws, t) /\ t # w
  <2>1. ASSUME NEW j \in 1 .. n - 1, rs[j] = t
        PROVE  Listed(ws, t) /\ t # w
    <3>1. j \in 1 .. n /\ j + 1 \in 1 .. n
      BY <1>4
    <3>2. PICK a \in 1 .. n : a # i /\ ws[a] = t
      BY <1>1, <1>3, <1>4, <2>1, <3>1
    <3> QED
      BY <1>1, <3>2 DEF Listed, OnceEach, n
  <2>2. ASSUME NEW a \in 1 .. n, ws[a] = t, t # w
        PROVE  Listed(rs, t)
    <3>1. a # i
      BY <1>1, <2>2
    <3>2. CASE a < i
      <4>1. a \in 1 .. n - 1 /\ rs[a] = t
        BY <1>1, <1>3, <1>4, <2>2, <3>2
      <4> QED
        BY <1>3, <4>1 DEF Listed
    <3>3. CASE a > i
      <4>1. a - 1 \in 1 .. n - 1 /\ ~(a - 1 < i) /\ (a - 1) + 1 = a
        BY <1>1, <1>4, <3>3
      <4>2. rs[a - 1] = t
        BY <1>3, <2>2, <4>1
      <4> QED
        BY <1>3, <4>1, <4>2 DEF Listed
    <3> QED
      BY <1>1, <1>4, <3>1, <3>2, <3>3
  <2> QED
    BY <1>3, <2>1, <2>2 DEF Listed, n
<1> QED
  BY <1>3, <1>5, <1>6 DEF rs

(* Who comes to a list, a thread or an entry, is its last. *)
LEMMA WithOne ==
    ASSUME NEW S, NEW ws \in Seq(S), NEW w \in S, OnceEach(ws), ~Listed(ws, w)
    PROVE  /\ Append(ws, w) \in Seq(S)
           /\ OnceEach(Append(ws, w))
           /\ \A t \in S : Listed(Append(ws, w), t) <=> Listed(ws, t) \/ t = w
<1> DEFINE n == Len(ws)
           rs == Append(ws, w)
<1>1. /\ rs \in Seq(S) /\ Len(rs) = n + 1 /\ n \in Nat
      /\ \A j \in 1 .. n : rs[j] = ws[j]
      /\ rs[n + 1] = w
  OBVIOUS
<1>2. 1 .. n + 1 = (1 .. n) \cup {n + 1}
  BY <1>1
<1> HIDE DEF rs, n
<1>3. OnceEach(rs)
  BY <1>1, <1>2 DEF OnceEach, Listed, n
<1>4. \A t \in S : Listed(rs, t) <=> Listed(ws, t) \/ t = w
  BY <1>1, <1>2 DEF Listed, n
<1> QED
  BY <1>1, <1>3, <1>4 DEF rs

(* The last of a list that is not empty is in it. *)
LEMMA LastListed ==
    ASSUME NEW ws \in Seq(Workers), ws # <<>>
    PROVE  Last(ws) \in Workers /\ Listed(ws, Last(ws))
<1>1. Len(ws) \in Nat /\ Len(ws) # 0
  OBVIOUS
<1>2. Len(ws) \in 1 .. Len(ws)
  BY <1>1
<1> QED
  BY <1>2 DEF Last, Listed

(* The first entry leaves the list, the others stay. *)
LEMMA WithoutHead ==
    ASSUME NEW es \in Seq(Entries), es # <<>>, OnceEach(es)
    PROVE  /\ Head(es) \in Entries /\ Tail(es) \in Seq(Entries)
           /\ OnceEach(Tail(es)) /\ Listed(es, Head(es))
           /\ \A e \in Entries : Listed(Tail(es), e) <=> Listed(es, e) /\ e # Head(es)
<1> DEFINE n == Len(es)
           rs == Tail(es)
<1>1. /\ n \in Nat /\ n >= 1 /\ Head(es) = es[1] /\ Head(es) \in Entries
      /\ rs \in Seq(Entries) /\ Len(rs) = n - 1
      /\ \A j \in 1 .. n - 1 : rs[j] = es[j + 1]
  OBVIOUS
<1>2. \A a, b \in 1 .. n : es[a] = es[b] => a = b
  BY DEF OnceEach
<1>3. \A j \in 1 .. n - 1 : j + 1 \in 1 .. n /\ j + 1 # 1
  BY <1>1
<1>4. \A a \in 1 .. n : a # 1 => a - 1 \in 1 .. n - 1 /\ (a - 1) + 1 = a
  BY <1>1
<1>5. Listed(es, Head(es)) /\ 1 \in 1 .. n
  BY <1>1 DEF Listed
<1> HIDE DEF rs
<1>6. OnceEach(rs)
  <2> SUFFICES ASSUME NEW j \in 1 .. n - 1, NEW k \in 1 .. n - 1, rs[j] = rs[k]
               PROVE  j = k
    BY <1>1 DEF OnceEach
  <2>1. j + 1 = k + 1
    BY <1>1, <1>2, <1>3
  <2> QED
    BY <1>1, <2>1
<1>7. ASSUME NEW e \in Entries
      PROVE  Listed(rs, e) <=> Listed(es, e) /\ e # Head(es)
  <2>1. ASSUME NEW j \in 1 .. n - 1, rs[j] = e
        PROVE  Listed(es, e) /\ e # Head(es)
    BY <1>1, <1>2, <1>3, <1>5, <2>1 DEF Listed
  <2>2. ASSUME NEW a \in 1 .. n, es[a] = e, e # Head(es)
        PROVE  Listed(rs, e)
    <3>1. a # 1
      BY <1>1, <2>2
    <3>2. a - 1 \in 1 .. n - 1 /\ rs[a - 1] = e
      BY <1>1, <1>4, <2>2, <3>1
    <3> QED
      BY <1>1, <3>2 DEF Listed
  <2> QED
    BY <1>1, <2>1, <2>2 DEF Listed
<1> QED
  BY <1>1, <1>5, <1>6, <1>7 DEF rs

-----------------------------------------------------------------------------
(* The parts of which the steps are made.                                  *)

(* The active threads are finitely many: none exactly if they count 0. *)
LEMMA ActiveSize ==
    ASSUME NEW q, NEW sv, NEW p, Types(q, sv, p)
    PROVE  /\ IsFiniteSet(ActiveOf(sv, p)) /\ Cardinality(ActiveOf(sv, p)) \in Nat
           /\ Cardinality(ActiveOf(sv, p)) = 0 <=> ActiveOf(sv, p) = {}
<1>1. ActiveOf(sv, p) \in SUBSET Workers
  BY DEF ActiveOf, Types
<1> QED
  BY <1>1, WorkersAssumption, FS_Subset, FS_CardinalityType, FS_EmptySet

(* An active thread stops: it waits for something else, or it ends. *)
LEMMA Stop ==
    ASSUME NEW q, NEW sv, NEW p, Good(q, sv, p),
           NEW t \in Workers, p[t] \in ActivePCs,
           NEW l \in {"blocked", "none"}, NEW sv2,
           sv2 = IF l = "none" THEN sv \ {t} ELSE sv
    PROVE  Good(Inactive(q), sv2, [p EXCEPT ![t] = l])
<1> DEFINE p2 == [p EXCEPT ![t] = l]
<1>1. /\ Types(q, sv, p) /\ WaitersExact(q, sv, p)
      /\ q.CurrentCount = Cardinality(ActiveOf(sv, p))
  BY DEF Good
<1>2. Types(Inactive(q), sv2, p2)
  BY <1>1 DEF Types, Inactive, PCs, NewPCs
<1>3. WaitersExact(Inactive(q), sv2, p2)
  <2>1. Inactive(q).waiters = q.waiters
    BY <1>1 DEF Types, Inactive
  <2>2. p[t] # "waiting" /\ p[t] \notin NewPCs /\ l # "waiting"
    BY DEF ActivePCs, NewPCs
  <2>3. \A x \in Workers : p2[x] = "waiting" <=> p[x] = "waiting"
    BY <1>1, <2>2 DEF Types
  <2>4. \A x \in Workers : x \in sv2 <=> p2[x] \notin NewPCs
    BY <1>1, <2>2 DEF Types, WaitersExact, NewPCs
  <2> QED
    BY <1>1, <2>1, <2>3, <2>4 DEF WaitersExact
<1>4. t \in ActiveOf(sv, p) /\ ActiveOf(sv2, p2) = ActiveOf(sv, p) \ {t}
  BY <1>1 DEF ActiveOf, Types, WaitersExact, ActivePCs, NewPCs
<1>5. Cardinality(ActiveOf(sv2, p2)) = Cardinality(ActiveOf(sv, p)) - 1
  <2>1. IsFiniteSet(ActiveOf(sv, p))
    BY <1>1, ActiveSize
  <2>2. PICK A : A = ActiveOf(sv, p)
    OBVIOUS
  <2>3. Cardinality(A \ {t}) = Cardinality(A) - 1
    BY <1>4, <2>1, <2>2, FS_RemoveElement
  <2> QED
    BY <1>4, <2>2, <2>3
<1>6. Inactive(q).CurrentCount = q.CurrentCount - 1
  BY <1>1 DEF Types, Inactive
<1> QED
  BY <1>1, <1>2, <1>3, <1>5, <1>6 DEF Good

(* A thread that waits for something else is active again. *)
LEMMA Start ==
    ASSUME NEW q, NEW sv, NEW p, Good(q, sv, p),
           NEW t \in Workers, p[t] = "blocked",
           NEW l \in ActivePCs, NEW es \in Seq(Entries)
    PROVE  /\ Good([Activate(q) EXCEPT !.entries = es], sv, [p EXCEPT ![t] = l])
           /\ t \in ActiveOf(sv, [p EXCEPT ![t] = l])
<1> DEFINE p2 == [p EXCEPT ![t] = l]
           q2 == [Activate(q) EXCEPT !.entries = es]
<1>1. /\ Types(q, sv, p) /\ WaitersExact(q, sv, p)
      /\ q.CurrentCount = Cardinality(ActiveOf(sv, p))
  BY DEF Good
<1>2. Types(q2, sv, p2) /\ q2.CurrentCount = q.CurrentCount + 1
      /\ q2.waiters = q.waiters
  <2>1. Activate(q) = [entries |-> q.entries, waiters |-> q.waiters,
                       CurrentCount |-> q.CurrentCount + 1]
    BY <1>1 DEF Types, Activate
  <2>2. q2 = [entries |-> es, waiters |-> q.waiters, CurrentCount |-> q.CurrentCount + 1]
    BY <2>1
  <2>3. p2 \in [Workers -> PCs]
    BY <1>1 DEF Types, PCs
  <2> QED
    BY <1>1, <2>2, <2>3 DEF Types
<1>3. WaitersExact(q2, sv, p2)
  <2>1. \A x \in Workers : p2[x] = "waiting" <=> p[x] = "waiting"
    BY <1>1 DEF Types, ActivePCs
  <2>2. \A x \in Workers : p2[x] \in NewPCs <=> p[x] \in NewPCs
    BY <1>1 DEF Types, ActivePCs, NewPCs
  <2> QED
    BY <1>1, <1>2, <2>1, <2>2 DEF WaitersExact
<1>4. t \notin ActiveOf(sv, p) /\ ActiveOf(sv, p2) = ActiveOf(sv, p) \cup {t}
  BY <1>1 DEF ActiveOf, Types, WaitersExact, ActivePCs, NewPCs
<1>5. Cardinality(ActiveOf(sv, p2)) = Cardinality(ActiveOf(sv, p)) + 1
  BY <1>1, <1>4, ActiveSize, FS_AddElement
<1> QED
  BY <1>1, <1>2, <1>3, <1>4, <1>5 DEF Good

(* A thread that waits for an entry is active again. *)
LEMMA Wake ==
    ASSUME NEW q, NEW sv, NEW p, Good(q, sv, p),
           NEW w \in Workers, p[w] = "waiting",
           NEW l \in ActivePCs, NEW es \in Seq(Entries)
    PROVE  /\ Good([Unlink(q, w) EXCEPT !.entries = es], sv, [p EXCEPT ![w] = l])
           /\ w \in ActiveOf(sv, [p EXCEPT ![w] = l])
<1> DEFINE p2 == [p EXCEPT ![w] = l]
           ws == Without(q.waiters, w)
           q2 == [Unlink(q, w) EXCEPT !.entries = es]
<1>1. /\ Types(q, sv, p) /\ WaitersExact(q, sv, p)
      /\ q.CurrentCount = Cardinality(ActiveOf(sv, p))
  BY DEF Good
<1>2. /\ ws \in Seq(Workers) /\ OnceEach(ws)
      /\ \A t \in Workers : Listed(ws, t) <=> Listed(q.waiters, t) /\ t # w
  <2>1. q.waiters \in Seq(Workers) /\ OnceEach(q.waiters) /\ Listed(q.waiters, w)
    BY <1>1 DEF Types, WaitersExact
  <2> QED
    BY <2>1, WithoutOne
<1> HIDE DEF ws
<1>3. Types(q2, sv, p2) /\ q2.CurrentCount = q.CurrentCount + 1 /\ q2.waiters = ws
  <2>1. Activate(q) = [entries |-> q.entries, waiters |-> q.waiters,
                       CurrentCount |-> q.CurrentCount + 1]
    BY <1>1 DEF Types, Activate
  <2>2. Unlink(q, w) = [entries |-> q.entries, waiters |-> ws,
                        CurrentCount |-> q.CurrentCount + 1]
    BY <2>1 DEF Unlink, ws
  <2>3. q2 = [entries |-> es, waiters |-> ws, CurrentCount |-> q.CurrentCount + 1]
    BY <2>2
  <2>4. p2 \in [Workers -> PCs]
    BY <1>1 DEF Types, PCs
  <2> QED
    BY <1>1, <1>2, <2>3, <2>4 DEF Types
<1>4. WaitersExact(q2, sv, p2)
  <2>1. \A x \in Workers : p2[x] = "waiting" <=> p[x] = "waiting" /\ x # w
    BY <1>1 DEF Types, ActivePCs
  <2>2. \A x \in Workers : p2[x] \in NewPCs <=> p[x] \in NewPCs
    BY <1>1 DEF Types, ActivePCs, NewPCs
  <2> QED
    BY <1>1, <1>2, <1>3, <2>1, <2>2 DEF WaitersExact
<1>5. w \notin ActiveOf(sv, p) /\ ActiveOf(sv, p2) = ActiveOf(sv, p) \cup {w}
  BY <1>1 DEF ActiveOf, Types, WaitersExact, ActivePCs, NewPCs
<1>6. Cardinality(ActiveOf(sv, p2)) = Cardinality(ActiveOf(sv, p)) + 1
  BY <1>1, <1>5, ActiveSize, FS_AddElement
<1> QED
  BY <1>1, <1>3, <1>4, <1>5, <1>6 DEF Good

(* A thread joins the list of waiters. *)
LEMMA Sleep ==
    ASSUME NEW q, NEW sv, NEW p, Good(q, sv, p),
           NEW t \in Workers, p[t] = "blocked"
    PROVE  /\ Good([q EXCEPT !.waiters = Append(@, t)], sv, [p EXCEPT ![t] = "waiting"])
           /\ ActiveOf(sv, [p EXCEPT ![t] = "waiting"]) = ActiveOf(sv, p)
<1> DEFINE p2 == [p EXCEPT ![t] = "waiting"]
           ws == Append(q.waiters, t)
           q2 == [q EXCEPT !.waiters = Append(@, t)]
<1>1. /\ Types(q, sv, p) /\ WaitersExact(q, sv, p)
      /\ q.CurrentCount = Cardinality(ActiveOf(sv, p))
  BY DEF Good
<1>2. /\ ws \in Seq(Workers) /\ OnceEach(ws)
      /\ \A x \in Workers : Listed(ws, x) <=> Listed(q.waiters, x) \/ x = t
  <2>1. q.waiters \in Seq(Workers) /\ OnceEach(q.waiters) /\ ~Listed(q.waiters, t)
    BY <1>1 DEF Types, WaitersExact
  <2> QED
    BY <2>1, WithOne
<1>. q2 = [q EXCEPT !.waiters = ws]
  OBVIOUS
<1> HIDE DEF ws, q2
<1>3. /\ Types(q2, sv, p2) /\ q2.waiters = ws
      /\ q2.CurrentCount = q.CurrentCount
  <2>1. q2 = [entries |-> q.entries, waiters |-> ws, CurrentCount |-> q.CurrentCount]
    BY <1>1 DEF Types
  <2>2. p2 \in [Workers -> PCs]
    BY <1>1 DEF Types, PCs
  <2> QED
    BY <1>1, <1>2, <2>1, <2>2 DEF Types
<1>4. WaitersExact(q2, sv, p2)
  <2>1. \A x \in Workers : p2[x] = "waiting" <=> p[x] = "waiting" \/ x = t
    BY <1>1 DEF Types
  <2>2. \A x \in Workers : p2[x] \in NewPCs <=> p[x] \in NewPCs
    BY <1>1 DEF Types, NewPCs
  <2> QED
    BY <1>1, <1>2, <1>3, <2>1, <2>2 DEF WaitersExact
<1>5. ActiveOf(sv, p2) = ActiveOf(sv, p)
  BY <1>1 DEF ActiveOf, Types
<1> QED
  BY <1>1, <1>3, <1>4, <1>5 DEF Good, q2

(* A thread comes to the queue for the first time. *)
LEMMA Enter ==
    ASSUME NEW q, NEW sv, NEW p, Good(q, sv, p),
           NEW t \in Workers, p[t] \in NewPCs
    PROVE  Good(q, sv \cup {t}, [p EXCEPT ![t] = "blocked"])
<1> DEFINE p2 == [p EXCEPT ![t] = "blocked"]
<1>1. /\ Types(q, sv, p) /\ WaitersExact(q, sv, p)
      /\ q.CurrentCount = Cardinality(ActiveOf(sv, p))
  BY DEF Good
<1>2. Types(q, sv \cup {t}, p2)
  BY <1>1 DEF Types, PCs
<1>3. WaitersExact(q, sv \cup {t}, p2)
  <2>1. \A x \in Workers : p2[x] = "waiting" <=> p[x] = "waiting"
    BY <1>1 DEF Types, NewPCs
  <2>2. \A x \in Workers : x \in sv \cup {t} <=> p2[x] \notin NewPCs
    BY <1>1 DEF Types, NewPCs, WaitersExact
  <2> QED
    BY <1>1, <2>1, <2>2 DEF WaitersExact
<1>4. ActiveOf(sv \cup {t}, p2) = ActiveOf(sv, p)
  BY <1>1 DEF ActiveOf, Types, WaitersExact
<1> QED
  BY <1>1, <1>2, <1>3, <1>4 DEF Good

(* For the queue, l is no other place than that of t. *)
Alike(p, t, l) == \/ p[t] \in ActivePCs /\ l \in ActivePCs
                  \/ p[t] \in NewPCs /\ l \in NewPCs

(* A thread goes on, active or not yet at the queue as before. *)
LEMMA Move ==
    ASSUME NEW q, NEW sv, NEW p, Good(q, sv, p),
           NEW t \in Workers, NEW l, Alike(p, t, l)
    PROVE  Good(q, sv, [p EXCEPT ![t] = l])
<1> DEFINE p2 == [p EXCEPT ![t] = l]
<1>1. /\ Types(q, sv, p) /\ WaitersExact(q, sv, p)
      /\ q.CurrentCount = Cardinality(ActiveOf(sv, p))
  BY DEF Good
<1>2. Types(q, sv, p2)
  BY <1>1 DEF Types, PCs, Alike
<1>3. WaitersExact(q, sv, p2)
  <2>1. \A x \in Workers : p2[x] = "waiting" <=> p[x] = "waiting"
    BY <1>1 DEF Types, NewPCs, ActivePCs, Alike
  <2>2. \A x \in Workers : p2[x] \in NewPCs <=> p[x] \in NewPCs
    BY <1>1 DEF Types, NewPCs, ActivePCs, Alike
  <2> QED
    BY <1>1, <2>1, <2>2 DEF WaitersExact
<1>4. ActiveOf(sv, p2) = ActiveOf(sv, p)
  BY <1>1 DEF ActiveOf, Types, NewPCs, ActivePCs, Alike
<1> QED
  BY <1>1, <1>2, <1>3, <1>4 DEF Good

(* At the limit somebody is active. *)
LEMMA AtTheLimit ==
    ASSUME NEW q, NEW sv, NEW p, Good(q, sv, p), q.CurrentCount >= MaximumCount
    PROVE  ActiveOf(sv, p) # {}
<1>1. Types(q, sv, p) /\ q.CurrentCount = Cardinality(ActiveOf(sv, p))
  BY DEF Good
<1> QED
  BY <1>1, ActiveSize, MaximumAssumption

-----------------------------------------------------------------------------
(* The steps of the queue.                                                 *)

(* Nobody but t does anything of its own. *)
Stays(x) == \/ pc'[x] = pc[x]
            \/ pc[x] = "waiting" /\ pc'[x] = "woken"

OthersStay(t) == \A x \in Workers \ {t} : Stays(x)

(* KiActivateWaiterQueue: t stops, and one that waits may go on. *)
LEMMA ActivateStep ==
    ASSUME QInv, NEW t \in Workers, pc[t] \in ActivePCs,
           NEW l \in {"blocked", "none"}, KiActivateWaiterQueue(t, l),
           serving' = IF l = "none" THEN serving \ {t} ELSE serving
    PROVE  QInv' /\ OthersStay(t) /\ pc'[t] = l
<1> DEFINE q == Inactive(queue)
           p == [pc EXCEPT ![t] = l]
           w == Last(q.waiters)
<1>1. Good(queue, serving, pc) /\ Types(queue, serving, pc)
  BY DEF QInv, Good
<1>2. Good(q, serving', p) /\ Types(q, serving', p) /\ WaitersExact(q, serving', p)
  <2>1. Good(q, serving', p)
    BY <1>1, Stop
  <2> QED
    BY <2>1 DEF Good
<1>3. CASE Ready(q)
  <2>1. q.waiters # <<>> /\ q.entries # <<>>
    BY <1>3 DEF Ready, Waiting
  <2>2. w \in Workers /\ p[w] = "waiting"
    BY <1>2, <2>1, LastListed DEF Types, WaitersExact
  <2>3. w # t
    BY <1>1, <2>2 DEF Types
  <2>4. Tail(q.entries) \in Seq(Entries)
    BY <1>2, <2>1 DEF Types
  <2>5. queue' = [Unlink(q, w) EXCEPT !.entries = Tail(q.entries)]
    <3>1. queue' = [Unlink(q, w) EXCEPT !.entries = Tail(Unlink(q, w).entries)]
      BY <1>3 DEF KiActivateWaiterQueue, Give
    <3>2. Unlink(q, w).entries = q.entries
      <4>1. Activate(q) = [entries |-> q.entries, waiters |-> q.waiters,
                           CurrentCount |-> q.CurrentCount + 1]
        BY <1>2 DEF Types, Activate
      <4> QED
        BY <4>1 DEF Unlink
    <3> QED
      BY <3>1, <3>2
  <2>6. pc' = [p EXCEPT ![w] = "woken"]
    BY <1>3 DEF KiActivateWaiterQueue
  <2> HIDE DEF q, p, w
  <2>7. "woken" \in ActivePCs
    BY DEF ActivePCs
  <2>8. Good(queue', serving', pc') /\ w \in ActiveOf(serving', pc')
    BY <1>2, <2>2, <2>4, <2>5, <2>6, <2>7, Wake
  <2>9. NobodyIdle'
    BY <2>8 DEF NobodyIdle, Active, ActiveOf
  <2>10. OthersStay(t) /\ pc'[t] = l
    BY <1>1, <2>2, <2>3, <2>6 DEF OthersStay, Stays, Types, p
  <2> QED
    BY <2>8, <2>9, <2>10 DEF QInv
<1>4. CASE ~Ready(q)
  <2>1. queue' = q /\ pc' = p
    BY <1>4 DEF KiActivateWaiterQueue
  <2>2. NobodyIdle'
    <3> SUFFICES ASSUME q.entries # <<>>, q.waiters # <<>>
                 PROVE  ActiveOf(serving', p) # {}
      BY <2>1 DEF NobodyIdle, Active, ActiveOf
    <3>1. q.CurrentCount >= MaximumCount
      BY <1>2, <1>4, MaximumAssumption DEF Ready, Waiting, Types
    <3> QED
      BY <1>2, <3>1, AtTheLimit
  <2>3. OthersStay(t) /\ pc'[t] = l
    BY <1>1, <2>1 DEF OthersStay, Stays, Types
  <2> QED
    BY <1>2, <2>1, <2>2, <2>3 DEF QInv
<1> QED
  BY <1>3, <1>4

(* The record that Activate makes. *)
LEMMA ActivateShape ==
    ASSUME NEW q, NEW sv, NEW p, Types(q, sv, p)
    PROVE  /\ Activate(q).entries = q.entries
           /\ Activate(q) = [Activate(q) EXCEPT !.entries = q.entries]
           /\ \A w : Unlink(q, w).entries = q.entries
           /\ \A w : Unlink(q, w) = [Unlink(q, w) EXCEPT !.entries = q.entries]
<1>1. Activate(q) = [entries |-> q.entries, waiters |-> q.waiters,
                     CurrentCount |-> q.CurrentCount + 1]
  BY DEF Types, Activate
<1>2. ASSUME NEW w
      PROVE  Unlink(q, w) = [entries |-> q.entries, waiters |-> Without(q.waiters, w),
                             CurrentCount |-> q.CurrentCount + 1]
  BY <1>1 DEF Unlink
<1> QED
  BY <1>1, <1>2

(* KiInsertQueue: the entry is given to one that waits, or is listed while *)
(* somebody is active.                                                     *)
LEMMA InsertStep ==
    ASSUME QInv, NEW c \in Clients \cup Active, NEW e \in Entries,
           KiInsertQueue(c, e), UNCHANGED serving
    PROVE  QInv' /\ \A x \in Workers : Stays(x)
<1> DEFINE w == Last(queue.waiters)
<1>1. /\ Good(queue, serving, pc) /\ Types(queue, serving, pc)
      /\ WaitersExact(queue, serving, pc)
  BY DEF QInv, Good
<1>2. CASE Waiting(queue) /\ ~FromWithin(c)
  <2>1. queue' = Unlink(queue, w) /\ pc' = [pc EXCEPT ![w] = "woken"]
    BY <1>2 DEF KiInsertQueue
  <2>2. w \in Workers /\ pc[w] = "waiting"
    BY <1>1, <1>2, LastListed DEF Waiting, Types, WaitersExact
  <2>3. queue' = [Unlink(queue, w) EXCEPT !.entries = queue.entries]
    BY <1>1, <2>1, ActivateShape
  <2>4. queue.entries \in Seq(Entries) /\ "woken" \in ActivePCs
    BY <1>1 DEF Types, ActivePCs
  <2> HIDE DEF w
  <2>5. Good(queue', serving, pc') /\ w \in ActiveOf(serving, pc')
    <3>1. /\ Good([Unlink(queue, w) EXCEPT !.entries = queue.entries], serving,
                  [pc EXCEPT ![w] = "woken"])
          /\ w \in ActiveOf(serving, [pc EXCEPT ![w] = "woken"])
      BY <1>1, <2>2, <2>4, Wake
    <3> QED
      BY <2>1, <2>3, <3>1
  <2>6. NobodyIdle'
    BY <2>5 DEF NobodyIdle, Active, ActiveOf
  <2>7. \A x \in Workers : Stays(x)
    BY <1>1, <2>1, <2>2 DEF Types, Stays
  <2> QED
    BY <2>5, <2>6, <2>7 DEF QInv
<1>3. CASE ~(Waiting(queue) /\ ~FromWithin(c))
  <2>1. queue' = [queue EXCEPT !.entries = Append(@, e)] /\ pc' = pc
    BY <1>3 DEF KiInsertQueue
  <2>2. /\ Types(queue', serving, pc) /\ queue'.waiters = queue.waiters
        /\ queue'.CurrentCount = queue.CurrentCount
    <3>1. queue' = [entries |-> Append(queue.entries, e), waiters |-> queue.waiters,
                    CurrentCount |-> queue.CurrentCount]
      BY <1>1, <2>1 DEF Types
    <3>2. Append(queue.entries, e) \in Seq(Entries)
      BY <1>1 DEF Types
    <3> QED
      BY <1>1, <3>1, <3>2 DEF Types
  <2>3. Good(queue', serving, pc)
    BY <1>1, <2>2 DEF Good, WaitersExact
  <2>4. NobodyIdle'
    <3> SUFFICES ASSUME queue.waiters # <<>>
                 PROVE  ActiveOf(serving, pc) # {}
      BY <2>1, <2>2 DEF NobodyIdle, Active, ActiveOf
    <3>1. CASE FromWithin(c)
      <4>1. c \in Active
        BY <1>1, <3>1, WorkerAssumption DEF FromWithin, Types
      <4> QED
        BY <4>1 DEF Active, ActiveOf
    <3>2. CASE ~Waiting(queue)
      <4>1. queue.CurrentCount >= MaximumCount
        BY <1>1, <3>2, MaximumAssumption DEF Waiting, Types
      <4> QED
        BY <1>1, <4>1, AtTheLimit
    <3> QED
      BY <1>3, <3>1, <3>2
  <2> QED
    BY <2>1, <2>3, <2>4 DEF QInv, Stays
<1> QED
  BY <1>2, <1>3

(* A pass of KeRemoveQueue, by a thread that served the queue or is new. *)
LEMMA RemoveStep ==
    ASSUME QInv, NEW t \in Workers, pc[t] \in ActivePCs \cup NewPCs,
           RemovePass(t, IF t \in serving THEN Inactive(queue) ELSE queue),
           serving' = serving \cup {t}
    PROVE  QInv' /\ OthersStay(t) /\ pc'[t] \in {"taken", "apc", "waiting"}
<1> DEFINE q == IF t \in serving THEN Inactive(queue) ELSE queue
           p == [pc EXCEPT ![t] = "blocked"]
<1>1. /\ Good(queue, serving, pc) /\ Types(queue, serving, pc)
      /\ WaitersExact(queue, serving, pc)
  BY DEF QInv, Good
<1>2. Good(q, serving', p)
  <2>1. CASE t \in serving
    <3>1. pc[t] \in ActivePCs /\ serving' = serving /\ q = Inactive(queue)
      BY <1>1, <2>1 DEF WaitersExact
    <3>2. "blocked" \in {"blocked", "none"} /\ "blocked" # "none"
      OBVIOUS
    <3> HIDE DEF q
    <3>3. Good(Inactive(queue), serving, p)
      BY <1>1, <3>1, <3>2, Stop
    <3> QED
      BY <3>1, <3>3
  <2>2. CASE t \notin serving
    <3>1. pc[t] \in NewPCs /\ q = queue
      BY <1>1, <2>2 DEF WaitersExact
    <3> QED
      BY <1>1, <3>1, Enter
  <2> QED
    BY <2>1, <2>2
<1>3. Types(q, serving', p)
  BY <1>2 DEF Good
<1>4. /\ t \in Workers /\ p[t] = "blocked"
      /\ \A l : [pc EXCEPT ![t] = l] = [p EXCEPT ![t] = l]
  BY <1>1 DEF Types
<1>5. RemovePass(t, q)
  OBVIOUS
<1> HIDE DEF q
<1>6. ASSUME NEW l \in {"taken", "apc", "waiting"}, pc' = [pc EXCEPT ![t] = l]
      PROVE  OthersStay(t) /\ pc'[t] \in {"taken", "apc", "waiting"}
  BY <1>1, <1>6 DEF OthersStay, Stays, Types
<1> HIDE DEF p
<1>7. CASE /\ CanTake(q)
           /\ queue' = [Activate(q) EXCEPT !.entries = Tail(@)]
           /\ pc' = [pc EXCEPT ![t] = "taken"]
  <2>1. Tail(q.entries) \in Seq(Entries) /\ "taken" \in ActivePCs
    BY <1>3, <1>7 DEF Types, CanTake, ActivePCs
  <2>2. queue' = [Activate(q) EXCEPT !.entries = Tail(q.entries)]
    BY <1>3, <1>7, ActivateShape
  <2>3. pc' = [p EXCEPT ![t] = "taken"]
    BY <1>4, <1>7
  <2>4. Good(queue', serving', pc') /\ t \in ActiveOf(serving', pc')
    BY <1>2, <1>4, <2>1, <2>2, <2>3, Start
  <2> QED
    BY <1>6, <1>7, <2>4 DEF QInv, NobodyIdle, Active, ActiveOf
<1>8. CASE /\ queue' = Activate(q)
           /\ pc' = [pc EXCEPT ![t] = "apc"]
  <2>1. q.entries \in Seq(Entries) /\ "apc" \in ActivePCs
    BY <1>3 DEF Types, ActivePCs
  <2>2. queue' = [Activate(q) EXCEPT !.entries = q.entries]
    BY <1>3, <1>8, ActivateShape
  <2>3. pc' = [p EXCEPT ![t] = "apc"]
    BY <1>4, <1>8
  <2>4. Good(queue', serving', pc') /\ t \in ActiveOf(serving', pc')
    BY <1>2, <1>4, <2>1, <2>2, <2>3, Start
  <2> QED
    BY <1>6, <1>8, <2>4 DEF QInv, NobodyIdle, Active, ActiveOf
<1>9. CASE /\ ~CanTake(q)
           /\ queue' = [q EXCEPT !.waiters = Append(@, t)]
           /\ pc' = [pc EXCEPT ![t] = "waiting"]
  <2>1. pc' = [p EXCEPT ![t] = "waiting"]
    BY <1>4, <1>9
  <2>2. /\ Good(queue', serving', pc')
        /\ ActiveOf(serving', pc') = ActiveOf(serving', p)
    <3>1. /\ Good([q EXCEPT !.waiters = Append(@, t)], serving', [p EXCEPT ![t] = "waiting"])
          /\ ActiveOf(serving', [p EXCEPT ![t] = "waiting"]) = ActiveOf(serving', p)
      BY <1>2, <1>4, Sleep
    <3> QED
      BY <1>9, <2>1, <3>1
  <2>3. NobodyIdle'
    <3> SUFFICES ASSUME queue'.entries # <<>> PROVE ActiveOf(serving', pc') # {}
      BY DEF NobodyIdle, Active, ActiveOf
    <3>1. queue'.entries = q.entries
      BY <1>3, <1>9 DEF Types
    <3>2. q.CurrentCount >= MaximumCount
      BY <1>3, <1>9, <3>1, MaximumAssumption DEF CanTake, Types
    <3> QED
      BY <1>2, <2>2, <3>2, AtTheLimit
  <2> QED
    BY <1>6, <1>9, <2>2, <2>3 DEF QInv
<1> QED
  BY <1>5, <1>7, <1>8, <1>9 DEF RemovePass

(* A wait for an entry that ends without one. *)
LEMMA EndWaitStep ==
    ASSUME QInv, NEW t \in Workers, pc[t] = "waiting", NEW l \in {"apc", "late"},
           EndWait(t, l)
    PROVE  QInv' /\ OthersStay(t) /\ pc'[t] = l
<1>1. Good(queue, serving, pc) /\ Types(queue, serving, pc)
  BY DEF QInv, Good
<1>2. /\ queue' = Unlink(queue, t) /\ pc' = [pc EXCEPT ![t] = l]
      /\ serving' = serving
  BY DEF EndWait
<1>3. queue' = [Unlink(queue, t) EXCEPT !.entries = queue.entries]
  BY <1>1, <1>2, ActivateShape
<1>4. queue.entries \in Seq(Entries) /\ l \in ActivePCs
  BY <1>1 DEF Types, ActivePCs
<1>5. Good(queue', serving', pc') /\ t \in ActiveOf(serving', pc')
  <2>1. /\ Good([Unlink(queue, t) EXCEPT !.entries = queue.entries], serving,
                [pc EXCEPT ![t] = l])
        /\ t \in ActiveOf(serving, [pc EXCEPT ![t] = l])
    BY <1>1, <1>4, Wake
  <2> QED
    BY <1>2, <1>3, <2>1
<1>6. OthersStay(t) /\ pc'[t] = l
  BY <1>1, <1>2 DEF OthersStay, Stays, Types
<1> QED
  BY <1>5, <1>6 DEF QInv, NobodyIdle, Active, ActiveOf

(* A wait for something else that ends. *)
LEMMA UnblockStep ==
    ASSUME QInv, NEW t \in Workers, pc[t] = "blocked", Unblock(t)
    PROVE  QInv' /\ OthersStay(t) /\ pc'[t] = "running"
<1>1. Good(queue, serving, pc) /\ Types(queue, serving, pc)
  BY DEF QInv, Good
<1>2. /\ queue' = Activate(queue) /\ pc' = [pc EXCEPT ![t] = "running"]
      /\ serving' = serving
  BY DEF Unblock
<1>3. queue' = [Activate(queue) EXCEPT !.entries = queue.entries]
  BY <1>1, <1>2, ActivateShape
<1>4. queue.entries \in Seq(Entries) /\ "running" \in ActivePCs
  BY <1>1 DEF Types, ActivePCs
<1>5. Good(queue', serving', pc') /\ t \in ActiveOf(serving', pc')
  <2>1. /\ Good([Activate(queue) EXCEPT !.entries = queue.entries], serving,
                [pc EXCEPT ![t] = "running"])
        /\ t \in ActiveOf(serving, [pc EXCEPT ![t] = "running"])
    BY <1>1, <1>4, Start
  <2> QED
    BY <1>2, <1>3, <2>1
<1>6. OthersStay(t) /\ pc'[t] = "running"
  BY <1>1, <1>2 DEF OthersStay, Stays, Types
<1> QED
  BY <1>5, <1>6 DEF QInv, NobodyIdle, Active, ActiveOf

(* A step that leaves the queue alone. *)
LEMMA MoveStep ==
    ASSUME QInv, NEW t \in Workers, NEW l, Alike(pc, t, l),
           pc' = [pc EXCEPT ![t] = l], UNCHANGED <<queue, serving>>
    PROVE  QInv' /\ OthersStay(t) /\ pc'[t] = l
<1>1. Good(queue, serving, pc) /\ Types(queue, serving, pc)
  BY DEF QInv, Good
<1>2. Good(queue', serving', pc') /\ ActiveOf(serving', pc') = ActiveOf(serving, pc)
  <2>1. Good(queue', serving', pc')
    BY <1>1, Move
  <2>2. ActiveOf(serving, pc') = ActiveOf(serving, pc)
    BY <1>1 DEF ActiveOf, Types, NewPCs, ActivePCs, Alike
  <2> QED
    BY <2>1, <2>2
<1>3. OthersStay(t) /\ pc'[t] = l
  BY <1>1 DEF OthersStay, Stays, Types
<1> QED
  BY <1>2, <1>3 DEF QInv, NobodyIdle, Active, ActiveOf

-----------------------------------------------------------------------------
(* The dynamic threads.                                                    *)

Dead == {"none", "leaving"}

(* They are finitely many. *)
LEMMA AliveSize == IsFiniteSet(Alive) /\ Cardinality(Alive) \in Nat
<1>1. Alive \in SUBSET Workers
  BY WorkerAssumption DEF Alive
<1> QED
  BY <1>1, WorkersAssumption, FS_Subset, FS_CardinalityType

(* A step in which no thread comes into being, starts to leave or ends. *)
LEMMA SameAlive ==
    ASSUME \A x \in Workers : pc'[x] \in Dead <=> pc[x] \in Dead
    PROVE  Alive' = Alive
<1>1. \A x \in Dynamic : pc'[x] \in {"none", "leaving"} <=> pc[x] \in {"none", "leaving"}
  BY WorkerAssumption DEF Dead
<1> QED
  BY <1>1 DEF Alive

(* Then the count stays right if the manager does not touch it. *)
LEMMA ThreadsKept ==
    ASSUME ThreadInv, \A x \in Workers : Stays(x),
           work'.DynamicThreadCount = work.DynamicThreadCount, Counting' = Counting
    PROVE  ThreadInv'
<1>1. \A x \in Workers : pc'[x] \in Dead <=> pc[x] \in Dead
  BY DEF Stays, Dead
<1>2. DynamicExact'
  BY <1>1, SameAlive DEF DynamicExact, ThreadInv
<1>3. LateDynamic'
  BY DEF LateDynamic, ThreadInv, Stays, LatePCs
<1> QED
  BY <1>2, <1>3 DEF ThreadInv

(* The same for a step of one thread. *)
LEMMA ThreadsKeptBy ==
    ASSUME ThreadInv, NEW t \in Workers, OthersStay(t),
           pc'[t] \in Dead <=> pc[t] \in Dead,
           pc'[t] \in LatePCs => t \in Dynamic,
           work'.DynamicThreadCount = work.DynamicThreadCount, UNCHANGED manager
    PROVE  ThreadInv'
<1>1. \A x \in Workers : pc'[x] \in Dead <=> pc[x] \in Dead
  BY DEF OthersStay, Stays, Dead
<1>2. Counting' = Counting
  BY DEF Counting
<1>3. DynamicExact'
  BY <1>1, <1>2, SameAlive DEF DynamicExact, ThreadInv
<1>4. LateDynamic'
  BY DEF LateDynamic, ThreadInv, OthersStay, Stays, LatePCs
<1> QED
  BY <1>3, <1>4 DEF ThreadInv

-----------------------------------------------------------------------------
(* The steps of WorkQueue.                                                 *)

(* GetItem. *)
LEMMA GetItemStep ==
    ASSUME Inv, NEW t \in Workers, GetItem(t)
    PROVE  Inv'
<1>1. pc[t] \in ActivePCs \cup NewPCs /\ pc[t] \notin Dead
  BY DEF GetItem, ActivePCs, NewPCs, Dead
<1>2. QInv' /\ OthersStay(t) /\ pc'[t] \in {"taken", "apc", "waiting"}
  BY <1>1, RemoveStep DEF Inv, GetItem, KeRemoveQueue
<1>3. UNCHANGED <<work, manager>> /\ pc'[t] \notin Dead
  BY <1>2 DEF GetItem, Dead
<1>4. ThreadInv'
  BY <1>1, <1>2, <1>3, ThreadsKeptBy DEF Inv, LatePCs
<1> QED
  BY <1>2, <1>3, <1>4 DEF Inv, WorkTypes

(* EndApc. *)
LEMMA EndApcStep ==
    ASSUME Inv, NEW t \in Workers, EndApc(t)
    PROVE  Inv'
<1>1. /\ pc[t] \in ActivePCs /\ pc[t] \notin Dead
      /\ pc[t] \notin NewPCs /\ UNCHANGED <<work, manager>>
  BY DEF EndApc, ActivePCs, NewPCs, Dead
<1>2. t \in serving
  BY <1>1 DEF Inv, QInv, Good, WaitersExact
<1>3. CASE RemoveAgain(t)
  <2>1. /\ RemovePass(t, IF t \in serving THEN Inactive(queue) ELSE queue)
        /\ serving' = serving \cup {t}
    BY <1>2, <1>3 DEF RemoveAgain
  <2>2. QInv' /\ OthersStay(t) /\ pc'[t] \in {"taken", "apc", "waiting"}
    BY <1>1, <2>1, RemoveStep DEF Inv
  <2>3. ThreadInv'
    BY <1>1, <2>2, ThreadsKeptBy DEF Inv, Dead, LatePCs
  <2> QED
    BY <1>1, <2>2, <2>3 DEF Inv, WorkTypes
<1>4. CASE t \in Dynamic /\ RemoveLate(t)
  <2>1. /\ pc' = [pc EXCEPT ![t] = "expired"] /\ UNCHANGED <<queue, serving>>
        /\ Alike(pc, t, "expired")
    BY <1>1, <1>4 DEF RemoveLate, Alike, ActivePCs
  <2>2. QInv' /\ OthersStay(t) /\ pc'[t] = "expired"
    BY <2>1, MoveStep DEF Inv
  <2>3. ThreadInv'
    BY <1>1, <1>4, <2>2, ThreadsKeptBy DEF Inv, Dead
  <2> QED
    BY <1>1, <2>2, <2>3 DEF Inv, WorkTypes
<1> QED
  BY <1>3, <1>4 DEF EndApc

(* Begin and Finish. *)
LEMMA RunStep ==
    ASSUME Inv, NEW t \in Workers, Begin(t) \/ Finish(t)
    PROVE  Inv'
<1>1. PICK l \in {"running", "return"} : pc' = [pc EXCEPT ![t] = l]
  BY DEF Begin, Finish
<1>2. /\ pc[t] \in {"taken", "woken", "running"}
      /\ UNCHANGED <<queue, serving, manager>>
  BY DEF Begin, Finish
<1>3. Alike(pc, t, l) /\ l \notin Dead /\ pc[t] \notin Dead
  BY <1>2 DEF Alike, ActivePCs, Dead
<1>4. QInv' /\ OthersStay(t) /\ pc'[t] = l
  BY <1>1, <1>2, <1>3, MoveStep DEF Inv
<1>5. WorkTypes' /\ work'.DynamicThreadCount = work.DynamicThreadCount
  BY <1>2 DEF Inv, WorkTypes, Begin, Finish
<1>6. ThreadInv'
  BY <1>2, <1>3, <1>4, <1>5, ThreadsKeptBy DEF Inv, LatePCs
<1> QED
  BY <1>4, <1>5, <1>6 DEF Inv

(* WaitForItem. *)
LEMMA WaitForItemStep ==
    ASSUME Inv, NEW t \in Workers, WaitForItem(t)
    PROVE  Inv'
<1>1. /\ pc[t] \in ActivePCs /\ pc[t] \notin Dead /\ UNCHANGED <<work, manager>>
      /\ KiActivateWaiterQueue(t, "blocked")
  BY DEF WaitForItem, Block, ActivePCs, Dead
<1>2. serving' = IF "blocked" = "none" THEN serving \ {t} ELSE serving
  BY DEF WaitForItem, Block
<1>3. QInv' /\ OthersStay(t) /\ pc'[t] = "blocked"
  BY <1>1, <1>2, ActivateStep DEF Inv
<1>4. ThreadInv'
  BY <1>1, <1>3, ThreadsKeptBy DEF Inv, Dead, LatePCs
<1> QED
  BY <1>1, <1>3, <1>4 DEF Inv, WorkTypes

(* Exit. *)
LEMMA ExitStep ==
    ASSUME Inv, NEW t \in Workers, Exit(t)
    PROVE  Inv'
<1>1. /\ pc[t] \in ActivePCs /\ pc[t] \in Dead /\ UNCHANGED <<work, manager>>
      /\ KiActivateWaiterQueue(t, "none")
  BY DEF Exit, Terminate, ActivePCs, Dead
<1>2. serving' = IF "none" = "none" THEN serving \ {t} ELSE serving
  BY DEF Exit, Terminate
<1>3. QInv' /\ OthersStay(t) /\ pc'[t] = "none"
  BY <1>1, <1>2, ActivateStep DEF Inv
<1>4. ThreadInv'
  BY <1>1, <1>3, ThreadsKeptBy DEF Inv, Dead, LatePCs
<1> QED
  BY <1>1, <1>3, <1>4 DEF Inv, WorkTypes

(* Resume. *)
LEMMA ResumeStep ==
    ASSUME Inv, NEW t \in Workers, Resume(t)
    PROVE  Inv'
<1>1. pc[t] = "blocked" /\ Unblock(t) /\ UNCHANGED <<work, manager>>
  BY DEF Resume
<1>2. QInv' /\ OthersStay(t) /\ pc'[t] = "running"
  BY <1>1, UnblockStep DEF Inv
<1>3. ThreadInv'
  BY <1>1, <1>2, ThreadsKeptBy DEF Inv, Dead, LatePCs
<1> QED
  BY <1>1, <1>2, <1>3 DEF Inv, WorkTypes

(* Apc and Timeout. *)
LEMMA InterruptStep ==
    ASSUME Inv, NEW t \in Workers, Apc(t) \/ Timeout(t)
    PROVE  Inv'
<1>1. PICK l \in {"apc", "late"} : EndWait(t, l) /\ (l = "late" => t \in Dynamic)
  BY DEF Apc, Timeout
<1>2. pc[t] = "waiting" /\ UNCHANGED <<work, manager>>
  BY DEF Apc, Timeout
<1>3. QInv' /\ OthersStay(t) /\ pc'[t] = l
  BY <1>1, <1>2, EndWaitStep DEF Inv
<1>4. ThreadInv'
  BY <1>1, <1>2, <1>3, ThreadsKeptBy DEF Inv, Dead, LatePCs
<1> QED
  BY <1>2, <1>3, <1>4 DEF Inv, WorkTypes

(* QueueItem. *)
LEMMA QueueItemStep ==
    ASSUME Inv, NEW c, NEW e \in Entries, QueueItem(c, e)
    PROVE  Inv'
<1>1. /\ c \in Clients \cup Active /\ KiInsertQueue(c, e)
      /\ UNCHANGED <<serving, work, manager>>
  BY DEF QueueItem
<1>2. QInv' /\ \A x \in Workers : Stays(x)
  BY <1>1, InsertStep DEF Inv
<1>3. Counting' = Counting
  BY <1>1 DEF Counting
<1>4. ThreadInv'
  BY <1>1, <1>2, <1>3, ThreadsKept DEF Inv
<1> QED
  BY <1>1, <1>2, <1>4 DEF Inv, WorkTypes

(* Leave: a dynamic thread may have started to leave, and is not counted. *)
LEMMA LeaveStep ==
    ASSUME Inv, NEW t \in Workers, Leave(t)
    PROVE  Inv'
<1>1. /\ pc[t] \in {"late", "expired"} /\ pc[t] \notin Dead
      /\ UNCHANGED <<queue, serving, manager>>
  BY DEF Leave, Dead
<1>2. t \in Dynamic
  BY <1>1 DEF Inv, ThreadInv, LateDynamic, LatePCs
<1>3. CASE pc' = [pc EXCEPT ![t] = "return"] /\ UNCHANGED work
  <2>1. Alike(pc, t, "return")
    BY <1>1 DEF Alike, ActivePCs
  <2>2. QInv' /\ OthersStay(t) /\ pc'[t] = "return"
    BY <1>1, <1>3, <2>1, MoveStep DEF Inv
  <2>3. ThreadInv'
    BY <1>1, <1>2, <1>3, <2>2, ThreadsKeptBy DEF Inv, Dead
  <2> QED
    BY <1>1, <1>3, <2>2, <2>3 DEF Inv, WorkTypes
<1>4. CASE /\ pc' = [pc EXCEPT ![t] = "leaving"]
           /\ work' = [work EXCEPT !.DynamicThreadCount = @ - 1]
  <2>1. Alike(pc, t, "leaving")
    BY <1>1 DEF Alike, ActivePCs
  <2>2. QInv' /\ OthersStay(t) /\ pc'[t] = "leaving"
    BY <1>1, <1>4, <2>1, MoveStep DEF Inv
  <2>3. /\ WorkTypes'
        /\ work'.DynamicThreadCount = work.DynamicThreadCount - 1
        /\ work.DynamicThreadCount \in Int
    BY <1>1, <1>4 DEF Inv, WorkTypes
  <2>4. t \in Alive /\ Alive' = Alive \ {t}
    BY <1>1, <1>2, <2>2, WorkerAssumption DEF Alive, OthersStay, Stays
  <2>5. Cardinality(Alive') = Cardinality(Alive) - 1
    BY <2>4, AliveSize, FS_RemoveElement
  <2>6. Counting' = Counting
    BY <1>1 DEF Counting
  <2>7. DynamicExact'
    BY <2>3, <2>5, <2>6, AliveSize, DynamicAssumption DEF Inv, ThreadInv, DynamicExact
  <2>8. LateDynamic'
    BY <1>2, <2>2 DEF Inv, ThreadInv, LateDynamic, OthersStay, Stays, LatePCs
  <2> QED
    BY <2>2, <2>3, <2>7, <2>8 DEF Inv, ThreadInv
<1> QED
  BY <1>3, <1>4 DEF Leave

(* Create, when there is room for a thread: it is counted later. *)
LEMMA CreateStep ==
    ASSUME Inv, ~Counting, work.DynamicThreadCount < MaxDynamic,
           NEW l \in {"countDetect", "countCheck"}, Create(l),
           UNCHANGED <<queue, serving, work>>
    PROVE  Inv'
<1>1. PICK t \in Dynamic : pc[t] = "none" /\ pc' = [pc EXCEPT ![t] = "created"]
  BY DEF Create
<1>2. t \in Workers /\ Alike(pc, t, "created")
  BY <1>1, WorkerAssumption DEF Alike, NewPCs
<1>3. QInv' /\ OthersStay(t) /\ pc'[t] = "created"
  BY <1>1, <1>2, MoveStep DEF Inv
<1>4. manager' = l /\ Counting'
  BY DEF Create, Counting
<1>5. WorkTypes' /\ work.DynamicThreadCount \in Int
  BY <1>4 DEF Inv, WorkTypes
<1>6. t \notin Alive /\ Alive' = Alive \cup {t}
  BY <1>1, <1>3, WorkerAssumption DEF Alive, OthersStay, Stays
<1>7. Cardinality(Alive') = Cardinality(Alive) + 1
  BY <1>6, AliveSize, FS_AddElement
<1>8. DynamicExact'
  BY <1>4, <1>5, <1>7, AliveSize, DynamicAssumption DEF Inv, ThreadInv, DynamicExact
<1>9. LateDynamic'
  BY <1>1, <1>3 DEF Inv, ThreadInv, LateDynamic, OthersStay, Stays, LatePCs
<1> QED
  BY <1>3, <1>5, <1>8, <1>9 DEF Inv, ThreadInv

(* A step that touches neither the threads nor their number. *)
LEMMA QuietStep ==
    ASSUME Inv, UNCHANGED <<queue, serving, pc>>, WorkTypes',
           work'.DynamicThreadCount = work.DynamicThreadCount, Counting' = Counting
    PROVE  Inv'
<1>1. QInv'
  BY DEF Inv, QInv, NobodyIdle, Active
<1>2. ThreadInv'
  BY ThreadsKept DEF Inv, Stays
<1> QED
  BY <1>1, <1>2 DEF Inv

(* Detect and Check. *)
LEMMA MakeStep ==
    ASSUME Inv, Detect \/ Check
    PROVE  Inv'
<1>1. UNCHANGED <<queue, serving, work>> /\ ~Counting
  BY DEF Detect, Check, Counting
<1>2. CASE Create("countDetect") \/ Create("countCheck")
  <2>1. work.DynamicThreadCount < MaxDynamic
    BY <1>2 DEF Detect, Check, Stalled, MoreThreads, Create, Skip
  <2> QED
    BY <1>1, <1>2, <2>1, CreateStep
<1>3. CASE Skip("pass") \/ Skip("wait")
  <2>1. Counting' = Counting /\ WorkTypes'
    BY <1>1, <1>3 DEF Skip, Counting, Inv, WorkTypes
  <2> QED
    BY <1>1, <1>3, <2>1, QuietStep DEF Skip
<1> QED
  BY <1>2, <1>3 DEF Detect, Check

(* CountUp. *)
LEMMA CountUpStep ==
    ASSUME Inv, CountUp
    PROVE  Inv'
<1>1. /\ UNCHANGED <<queue, serving, pc>> /\ Counting /\ ~Counting'
      /\ work' = [work EXCEPT !.DynamicThreadCount = @ + 1]
  BY DEF CountUp, Counting, qvars
<1>2. /\ WorkTypes' /\ work.DynamicThreadCount \in Int
      /\ work'.DynamicThreadCount = work.DynamicThreadCount + 1
  BY <1>1 DEF CountUp, Inv, WorkTypes
<1>3. QInv'
  BY <1>1 DEF Inv, QInv, NobodyIdle, Active
<1>4. Alive' = Alive
  BY <1>1 DEF Alive
<1>5. DynamicExact'
  BY <1>1, <1>2, <1>4 DEF Inv, ThreadInv, DynamicExact
<1>6. LateDynamic'
  BY <1>1 DEF Inv, ThreadInv, LateDynamic
<1> QED
  BY <1>2, <1>3, <1>5, <1>6 DEF Inv, ThreadInv

(* Pass, Depth, Notified and Request, and steps of others. *)
LEMMA OtherStep ==
    ASSUME Inv, Pass \/ Depth \/ Notified \/ (\E c : Request(c)) \/ UNCHANGED vars
    PROVE  Inv'
<1>1. UNCHANGED <<queue, serving, pc>>
  BY DEF Pass, Depth, Notified, Request, vars, qvars
<1>2. WorkTypes' /\ work'.DynamicThreadCount = work.DynamicThreadCount
  BY DEF Pass, Depth, Notified, Request, vars, Inv, WorkTypes, SignalState
<1>3. Counting' = Counting
  BY DEF Pass, Depth, Notified, Request, vars, Counting
<1> QED
  BY <1>1, <1>2, <1>3, QuietStep

-----------------------------------------------------------------------------
(* The inductive invariant.                                                *)

(* It holds of the queue that KeInitializeQueue makes, which no thread     *)
(* serves.                                                                 *)
LEMMA InitInv == Init => Inv
<1> SUFFICES ASSUME Init PROVE Inv
  OBVIOUS
<1>1. /\ queue = [entries |-> <<>>, waiters |-> <<>>, CurrentCount |-> 0]
      /\ serving = {} /\ pc \in [Workers -> NewPCs]
      /\ pc = [t \in Workers |-> IF t \in Static THEN "created" ELSE "none"]
  BY DEF Init, QInit, NewPCs
<1>2. ActiveOf(serving, pc) = {}
  BY <1>1 DEF ActiveOf
<1>3. Cardinality(ActiveOf(serving, pc)) = 0
  BY <1>2, FS_EmptySet
<1>4. Types(queue, serving, pc)
  BY <1>1 DEF Types, PCs
<1>5. WaitersExact(queue, serving, pc)
  BY <1>1 DEF WaitersExact, OnceEach, Listed, NewPCs
<1>6. QInv
  BY <1>1, <1>3, <1>4, <1>5 DEF QInv, Good, NobodyIdle
<1>7. WorkTypes /\ work.DynamicThreadCount = 0 /\ ~Counting
  <2>1. manager = "wait"
    BY DEF Init
  <2>2. work.DynamicThreadCount = 0
    BY DEF Init
  <2>3. work \in [MakeThreadsAsNecessary : BOOLEAN, DynamicThreadCount : Int,
                 processed : BOOLEAN, depth : BOOLEAN]
    <3>1. work \in [MakeThreadsAsNecessary : BOOLEAN, DynamicThreadCount : {0},
                   processed : {FALSE}, depth : {FALSE}]
      BY DEF Init
    <3>2. 0 \in Int
      OBVIOUS
    <3> QED
      BY <3>1, <3>2, Zenon
  <2> QED
    BY <2>1, <2>2, <2>3 DEF WorkTypes, Counting
<1>8. Alive = {}
  BY <1>1, WorkerAssumption DEF Alive
<1>9. DynamicExact
  BY <1>7, <1>8, FS_EmptySet, DynamicAssumption DEF DynamicExact
<1>10. LateDynamic
  BY <1>1 DEF LateDynamic, NewPCs, LatePCs
<1> QED
  BY <1>6, <1>7, <1>9, <1>10 DEF Inv, ThreadInv

(* Every step preserves it. *)
LEMMA NextInv == Inv /\ [Next]_vars => Inv'
<1> SUFFICES ASSUME Inv, [Next]_vars PROVE Inv'
  OBVIOUS
<1>1. ASSUME NEW t \in Workers, Work(t) PROVE Inv'
  BY <1>1, GetItemStep, EndApcStep, RunStep, WaitForItemStep, ResumeStep, LeaveStep,
     ExitStep DEF Work
<1>2. ASSUME NEW t \in Workers, Apc(t) \/ Timeout(t) PROVE Inv'
  BY <1>2, InterruptStep
<1>3. ASSUME NEW c, NEW e \in Entries, QueueItem(c, e) PROVE Inv'
  BY <1>3, QueueItemStep
<1>4. ASSUME NEW c, Request(c) PROVE Inv'
  BY <1>4, OtherStep
<1>5. ASSUME Detect \/ Manage PROVE Inv'
  BY <1>5, MakeStep, CountUpStep, OtherStep DEF Manage
<1>6. ASSUME UNCHANGED vars PROVE Inv'
  BY <1>6, OtherStep
<1> QED
  BY <1>1, <1>2, <1>3, <1>4, <1>5, <1>6 DEF Next, WorkOn

(* The inductive invariant is one. *)
THEOREM Invariance == Spec => []Inv
BY InitInv, NextInv, PTL DEF Spec

(* CurrentCount counts the threads that serve the queue and do not wait,   *)
(* in every state that KeRemoveQueue, KiInsertQueue, KiUnlinkThread and    *)
(* KiActivateWaiterQueue reach in whatever order.                          *)
THEOREM CountSafety == Spec => []CountExact
<1>1. Inv => CountExact
  BY DEF Inv, QInv, Good, CountExact, Active, ActiveOf
<1> QED
  BY <1>1, Invariance, PTL

(* While an entry is in the list, the threads do not all wait. *)
THEOREM IdleSafety == Spec => []NobodyIdle
<1>1. Inv => NobodyIdle
  BY DEF Inv, QInv
<1> QED
  BY <1>1, Invariance, PTL

(* DynamicThreadCount counts the dynamic threads but for the one that      *)
(* ExpCreateWorkerThread has just made, and they are at most MaxDynamic.   *)
THEOREM DynamicSafety == Spec => []DynamicExact
<1>1. Inv => DynamicExact
  BY DEF Inv, ThreadInv
<1> QED
  BY <1>1, Invariance, PTL

-----------------------------------------------------------------------------
(* Where the items are.                                                    *)

GivenPCs == {"taken", "woken"}

(* What each worker has in hand: an item that it is about to run. *)
Hands(p, it) == [t \in Workers |-> IF p[t] \in GivenPCs THEN it[t] ELSE NoEntry]

(* The items owed are those in the list es and those in the hands hs, and  *)
(* each of them is there once.                                             *)
Placed(es, hs, ow) ==
    /\ OnceEach(es)
    /\ \A e \in Entries : e \in ow <=> Listed(es, e) \/ \E t \in Workers : hs[t] = e
    /\ \A e \in Entries, t \in Workers : hs[t] = e => ~Listed(es, e)
    /\ \A t, u \in Workers : hs[t] = hs[u] /\ hs[t] \in Entries => t = u

ItemTypes == item \in [Workers -> Entries \cup {NoEntry}]

Hand == Hands(pc, item)

ItemInv == ItemTypes /\ Placed(queue.entries, Hand, owed)

(* The first item of the list goes to a worker whose hands are free. *)
LEMMA ItemTaken ==
    ASSUME NEW es \in Seq(Entries), es # <<>>, NEW ow,
           NEW hs, DOMAIN hs = Workers, Placed(es, hs, ow),
           NEW w \in Workers, hs[w] = NoEntry
    PROVE  Placed(Tail(es), [hs EXCEPT ![w] = Head(es)], ow)
<1> DEFINE hs2 == [hs EXCEPT ![w] = Head(es)]
           es2 == Tail(es)
<1>1. OnceEach(es)
  BY DEF Placed
<1>2. /\ Head(es) \in Entries /\ OnceEach(es2) /\ Listed(es, Head(es))
      /\ \A e \in Entries : Listed(es2, e) <=> Listed(es, e) /\ e # Head(es)
  BY <1>1, WithoutHead
<1>3. /\ hs2[w] = Head(es) /\ \A t \in Workers : t # w => hs2[t] = hs[t]
  OBVIOUS
<1> HIDE DEF hs2, es2
<1>4. \A e \in Entries : e \in ow <=> Listed(es2, e) \/ \E t \in Workers : hs2[t] = e
  BY <1>2, <1>3, EntryAssumption DEF Placed
<1>5. \A e \in Entries, t \in Workers : hs2[t] = e => ~Listed(es2, e)
  BY <1>2, <1>3 DEF Placed
<1>6. \A t, u \in Workers : hs2[t] = hs2[u] /\ hs2[t] \in Entries => t = u
  BY <1>2, <1>3 DEF Placed
<1> QED
  BY <1>2, <1>4, <1>5, <1>6 DEF Placed, hs2, es2

(* A new item goes to the end of the list. *)
LEMMA ItemListed ==
    ASSUME NEW es \in Seq(Entries), NEW ow, NEW hs, Placed(es, hs, ow),
           NEW e \in Entries, e \notin ow
    PROVE  Placed(Append(es, e), hs, ow \cup {e})
<1>1. OnceEach(es) /\ ~Listed(es, e)
  BY DEF Placed
<1>2. /\ OnceEach(Append(es, e))
      /\ \A x \in Entries : Listed(Append(es, e), x) <=> Listed(es, x) \/ x = e
  BY <1>1, WithOne
<1> DEFINE es2 == Append(es, e)
<1> HIDE DEF es2
<1> QED
  BY <1>2 DEF Placed, es2

(* A new item goes to a worker whose hands are free. *)
LEMMA ItemGiven ==
    ASSUME NEW es \in Seq(Entries), NEW ow, NEW hs, DOMAIN hs = Workers,
           Placed(es, hs, ow), NEW e \in Entries, e \notin ow,
           NEW w \in Workers, hs[w] = NoEntry
    PROVE  Placed(es, [hs EXCEPT ![w] = e], ow \cup {e})
<1> DEFINE hs2 == [hs EXCEPT ![w] = e]
<1>1. /\ hs2[w] = e /\ \A t \in Workers : t # w => hs2[t] = hs[t]
  OBVIOUS
<1> HIDE DEF hs2
<1>2. \A x \in Entries :
         x \in ow \cup {e} <=> Listed(es, x) \/ \E t \in Workers : hs2[t] = x
  BY <1>1, EntryAssumption DEF Placed
<1>3. \A x \in Entries, t \in Workers : hs2[t] = x => ~Listed(es, x)
  BY <1>1 DEF Placed
<1>4. \A t, u \in Workers : hs2[t] = hs2[u] /\ hs2[t] \in Entries => t = u
  BY <1>1 DEF Placed
<1> QED
  BY <1>2, <1>3, <1>4 DEF Placed, hs2

(* A worker calls the routine of the item that it has in hand. *)
LEMMA ItemBegun ==
    ASSUME NEW es, NEW ow, NEW hs, DOMAIN hs = Workers, Placed(es, hs, ow),
           NEW t \in Workers
    PROVE  Placed(es, [hs EXCEPT ![t] = NoEntry], ow \ {hs[t]})
<1> DEFINE hs2 == [hs EXCEPT ![t] = NoEntry]
<1>1. /\ hs2[t] = NoEntry /\ \A x \in Workers : x # t => hs2[x] = hs[x]
  OBVIOUS
<1> HIDE DEF hs2
<1>2. \A x \in Entries :
         x \in ow \ {hs[t]} <=> Listed(es, x) \/ \E u \in Workers : hs2[u] = x
  BY <1>1, EntryAssumption DEF Placed
<1>3. \A x \in Entries, u \in Workers : hs2[u] = x => ~Listed(es, x)
  BY <1>1, EntryAssumption DEF Placed
<1>4. \A x, u \in Workers : hs2[x] = hs2[u] /\ hs2[x] \in Entries => x = u
  BY <1>1, EntryAssumption DEF Placed
<1> QED
  BY <1>2, <1>3, <1>4 DEF Placed, hs2

(* The hands are those of the workers. *)
LEMMA HandType == \A p, it : DOMAIN Hands(p, it) = Workers
BY DEF Hands

(* A step in which no item moves. *)
LEMMA ItemsKept ==
    ASSUME ItemInv, queue'.entries = queue.entries, owed' = owed, Hand' = Hand, ItemTypes'
    PROVE  ItemInv'
BY DEF ItemInv

(* A worker goes from one place to another with its hands free, and others *)
(* and their items stay.                                                   *)
LEMMA FreeStep ==
    ASSUME ItemInv, NEW t \in Workers, pc \in [Workers -> PCs], pc[t] \notin GivenPCs,
           NEW l, l \notin GivenPCs, pc' = [pc EXCEPT ![t] = l],
           item' = item \/ item' = [item EXCEPT ![t] = NoEntry],
           queue'.entries = queue.entries, owed' = owed
    PROVE  ItemInv'
<1>1. ItemTypes'
  BY DEF ItemInv, ItemTypes
<1>2. pc'[t] \notin GivenPCs /\ \A x \in Workers : x # t => pc'[x] = pc[x] /\ item'[x] = item[x]
  BY DEF ItemInv, ItemTypes
<1>3. Hand' = Hand
  BY <1>2 DEF Hand, Hands
<1> QED
  BY <1>1, <1>3, ItemsKept

(* KiActivateWaiterQueue: the item goes from the list to one that waits. *)
LEMMA ActivateItems ==
    ASSUME QInv, ItemInv, NEW t \in Workers, pc[t] \notin GivenPCs, pc[t] \in ActivePCs,
           NEW l \in {"blocked", "none"}, KiActivateWaiterQueue(t, l), owed' = owed
    PROVE  ItemInv'
<1> DEFINE q == Inactive(queue)
           p == [pc EXCEPT ![t] = l]
           w == Last(q.waiters)
<1>1. Types(queue, serving, pc) /\ WaitersExact(queue, serving, pc)
  BY DEF QInv, Good
<1>2. q.entries = queue.entries /\ q.waiters = queue.waiters /\ Types(q, serving, pc)
  BY <1>1 DEF Types, Inactive
<1>3. l \notin GivenPCs /\ pc \in [Workers -> PCs]
  BY <1>1 DEF Types, GivenPCs
<1>4. CASE Ready(q)
  <2>1. q.waiters # <<>> /\ q.entries # <<>>
    BY <1>4 DEF Ready, Waiting
  <2>2. w \in Workers /\ pc[w] = "waiting"
    BY <1>1, <1>2, <2>1, LastListed DEF Types, WaitersExact
  <2>3. queue' = Give(q) /\ pc' = [p EXCEPT ![w] = "woken"]
        /\ item' = [item EXCEPT ![w] = Head(q.entries)]
    BY <1>4 DEF KiActivateWaiterQueue
  <2>4. queue'.entries = Tail(queue.entries)
    <3>1. Unlink(q, w).entries = q.entries /\ Unlink(q, w) = [Unlink(q, w) EXCEPT !.entries = q.entries]
      BY <1>2, ActivateShape
    <3>2. queue' = [Unlink(q, w) EXCEPT !.entries = Tail(Unlink(q, w).entries)]
      BY <2>3 DEF Give
    <3>3. "entries" \in DOMAIN Unlink(q, w)
      <4>1. Activate(q) = [entries |-> q.entries, waiters |-> q.waiters,
                           CurrentCount |-> q.CurrentCount + 1]
        BY <1>2 DEF Types, Activate
      <4> QED
        BY <4>1 DEF Unlink
    <3> QED
      BY <1>2, <3>1, <3>2, <3>3
  <2>5. queue.entries \in Seq(Entries) /\ queue.entries # <<>>
    BY <1>1, <1>2, <2>1 DEF Types
  <2>6. Placed(queue.entries, Hand, owed) /\ item \in [Workers -> Entries \cup {NoEntry}]
    BY DEF ItemInv, ItemTypes
  <2>7. Head(queue.entries) \in Entries
    BY <2>5
  <2>8. item' = [item EXCEPT ![w] = Head(queue.entries)]
    BY <1>2, <2>3
  <2> DEFINE h == Head(queue.entries)
  <2> HIDE DEF q, w, h
  <2>9. /\ p[t] \notin GivenPCs /\ p[w] \notin GivenPCs /\ pc'[w] \in GivenPCs
        /\ \A x \in Workers : x # t => p[x] = pc[x]
        /\ \A x \in Workers : x # w => pc'[x] = p[x]
    BY <1>3, <2>2, <2>3 DEF GivenPCs
  <2>10. item'[w] = h /\ \A x \in Workers : x # w => item'[x] = item[x]
    BY <2>2, <2>6, <2>8 DEF h
  <2>11. ItemTypes'
    BY <2>2, <2>6, <2>7, <2>8 DEF ItemTypes
  <2> HIDE DEF p
  <2>12. Hands(p, item) = Hand
    BY <2>9 DEF Hand, Hands
  <2>13. Hand' = [Hand EXCEPT ![w] = h] /\ Hand[w] = NoEntry
    <3>1. /\ Hands(pc', item') = [Hands(p, item) EXCEPT ![w] = item'[w]]
          /\ Hands(p, item)[w] = NoEntry
      BY <2>2, <2>9, <2>10 DEF Hands
    <3> QED
      BY <2>10, <2>12, <3>1 DEF Hand
  <2>14. DOMAIN Hand = Workers
    BY HandType DEF Hand
  <2>15. Placed(Tail(queue.entries), [Hand EXCEPT ![w] = h], owed)
    BY <2>2, <2>5, <2>6, <2>13, <2>14, ItemTaken DEF h
  <2> QED
    BY <2>4, <2>11, <2>13, <2>15 DEF ItemInv
<1>5. CASE ~Ready(q)
  <2>1. queue' = q /\ pc' = p /\ item' = item
    BY <1>5 DEF KiActivateWaiterQueue
  <2> QED
    BY <1>2, <1>3, <2>1, FreeStep
<1> QED
  BY <1>4, <1>5

(* KiInsertQueue: the new item goes to one that waits, or to the list. *)
LEMMA InsertItems ==
    ASSUME QInv, ItemInv, NEW c, NEW e \in Entries, e \notin owed,
           KiInsertQueue(c, e), owed' = owed \cup {e}
    PROVE  ItemInv'
<1> DEFINE w == Last(queue.waiters)
<1>1. Types(queue, serving, pc) /\ WaitersExact(queue, serving, pc)
  BY DEF QInv, Good
<1>2. /\ Placed(queue.entries, Hand, owed) /\ item \in [Workers -> Entries \cup {NoEntry}]
      /\ queue.entries \in Seq(Entries) /\ pc \in [Workers -> PCs]
  BY <1>1 DEF ItemInv, ItemTypes, Types
<1>3. CASE Waiting(queue) /\ ~FromWithin(c)
  <2>1. /\ queue' = Unlink(queue, w) /\ pc' = [pc EXCEPT ![w] = "woken"]
        /\ item' = [item EXCEPT ![w] = e]
    BY <1>3 DEF KiInsertQueue
  <2>2. w \in Workers /\ pc[w] = "waiting"
    BY <1>1, <1>3, LastListed DEF Waiting, Types, WaitersExact
  <2>3. queue'.entries = queue.entries
    BY <1>1, <2>1, ActivateShape
  <2> HIDE DEF w
  <2>4. /\ pc[w] \notin GivenPCs /\ pc'[w] \in GivenPCs /\ item'[w] = e /\ ItemTypes'
        /\ \A x \in Workers : x # w => pc'[x] = pc[x] /\ item'[x] = item[x]
    BY <1>2, <2>1, <2>2 DEF GivenPCs, ItemTypes
  <2>5. Hand' = [Hand EXCEPT ![w] = e] /\ Hand[w] = NoEntry
    <3>1. /\ Hands(pc', item') = [Hands(pc, item) EXCEPT ![w] = item'[w]]
          /\ Hands(pc, item)[w] = NoEntry
      BY <2>2, <2>4 DEF Hands
    <3> QED
      BY <2>4, <3>1 DEF Hand
  <2>6. DOMAIN Hand = Workers
    BY HandType DEF Hand
  <2>7. Placed(queue.entries, [Hand EXCEPT ![w] = e], owed \cup {e})
    BY <1>2, <2>2, <2>5, <2>6, ItemGiven
  <2> QED
    BY <2>3, <2>4, <2>5, <2>7 DEF ItemInv
<1>4. CASE ~(Waiting(queue) /\ ~FromWithin(c))
  <2>1. /\ queue' = [queue EXCEPT !.entries = Append(@, e)]
        /\ pc' = pc /\ item' = item
    BY <1>4 DEF KiInsertQueue
  <2>2. queue'.entries = Append(queue.entries, e)
    BY <1>1, <2>1 DEF Types
  <2>3. Hand' = Hand /\ ItemTypes'
    BY <1>2, <2>1 DEF Hand, ItemTypes
  <2>4. Placed(Append(queue.entries, e), Hand, owed \cup {e})
    BY <1>2, ItemListed
  <2> QED
    BY <2>2, <2>3, <2>4 DEF ItemInv
<1> QED
  BY <1>3, <1>4

(* A pass of KeRemoveQueue takes the first item of the list, or none. *)
LEMMA RemoveItems ==
    ASSUME QInv, ItemInv, NEW t \in Workers, pc[t] \notin GivenPCs,
           RemovePass(t, IF t \in serving THEN Inactive(queue) ELSE queue), owed' = owed
    PROVE  ItemInv'
<1> DEFINE q == IF t \in serving THEN Inactive(queue) ELSE queue
<1>1. Types(queue, serving, pc)
  BY DEF QInv, Good
<1>2. q.entries = queue.entries /\ Types(q, serving, pc)
  <2>1. Inactive(queue) = [entries |-> queue.entries, waiters |-> queue.waiters,
                           CurrentCount |-> queue.CurrentCount - 1]
    BY <1>1 DEF Types, Inactive
  <2>2. Types(Inactive(queue), serving, pc)
    BY <1>1, <2>1 DEF Types
  <2> QED
    BY <1>1, <2>1, <2>2
<1>3. RemovePass(t, q)
  OBVIOUS
<1> HIDE DEF q
<1>4. /\ Placed(queue.entries, Hand, owed) /\ item \in [Workers -> Entries \cup {NoEntry}]
      /\ queue.entries \in Seq(Entries) /\ pc \in [Workers -> PCs]
  BY <1>1 DEF ItemInv, ItemTypes, Types
<1>5. CASE /\ CanTake(q)
           /\ queue' = [Activate(q) EXCEPT !.entries = Tail(@)]
           /\ item' = [item EXCEPT ![t] = Head(q.entries)]
           /\ pc' = [pc EXCEPT ![t] = "taken"]
  <2> DEFINE h == Head(queue.entries)
  <2>1. queue.entries # <<>> /\ h \in Entries
    BY <1>2, <1>4, <1>5 DEF CanTake
  <2>2. queue'.entries = Tail(queue.entries)
    <3>1. Activate(q) = [entries |-> q.entries, waiters |-> q.waiters,
                         CurrentCount |-> q.CurrentCount + 1]
      BY <1>2 DEF Types, Activate
    <3> QED
      BY <1>2, <1>5, <3>1
  <2>3. item' = [item EXCEPT ![t] = h]
    BY <1>2, <1>5
  <2> HIDE DEF h
  <2>4. /\ pc'[t] \in GivenPCs /\ item'[t] = h /\ ItemTypes'
        /\ \A x \in Workers : x # t => pc'[x] = pc[x] /\ item'[x] = item[x]
    BY <1>4, <1>5, <2>1, <2>3 DEF GivenPCs, ItemTypes
  <2>5. Hand' = [Hand EXCEPT ![t] = h] /\ Hand[t] = NoEntry
    <3>1. /\ Hands(pc', item') = [Hands(pc, item) EXCEPT ![t] = item'[t]]
          /\ Hands(pc, item)[t] = NoEntry
      BY <2>4 DEF Hands
    <3> QED
      BY <2>4, <3>1 DEF Hand
  <2>6. DOMAIN Hand = Workers
    BY HandType DEF Hand
  <2>7. Placed(Tail(queue.entries), [Hand EXCEPT ![t] = h], owed)
    BY <1>4, <2>1, <2>5, <2>6, ItemTaken DEF h
  <2> QED
    BY <2>2, <2>4, <2>5, <2>7 DEF ItemInv
<1>6. CASE queue' = Activate(q) /\ pc' = [pc EXCEPT ![t] = "apc"] /\ item' = item
  <2>1. queue'.entries = queue.entries
    BY <1>2, <1>6, ActivateShape
  <2> QED
    BY <1>4, <1>6, <2>1, FreeStep DEF GivenPCs
<1>7. CASE /\ queue' = [q EXCEPT !.waiters = Append(@, t)]
           /\ pc' = [pc EXCEPT ![t] = "waiting"] /\ item' = item
  <2>1. queue'.entries = queue.entries
    BY <1>2, <1>7 DEF Types
  <2> QED
    BY <1>4, <1>7, <2>1, FreeStep DEF GivenPCs
<1> QED
  BY <1>3, <1>5, <1>6, <1>7 DEF RemovePass

(* Begin: the item is no longer owed. *)
LEMMA BeginItems ==
    ASSUME QInv, ItemInv, NEW t \in Workers, Begin(t)
    PROVE  ItemInv'
<1>1. /\ pc \in [Workers -> PCs] /\ item \in [Workers -> Entries \cup {NoEntry}]
      /\ Placed(queue.entries, Hand, owed)
  BY DEF QInv, Good, Types, ItemInv, ItemTypes
<1>2. /\ pc[t] \in GivenPCs /\ pc' = [pc EXCEPT ![t] = "running"]
      /\ owed' = owed \ {item[t]} /\ UNCHANGED <<queue, item>>
  BY DEF Begin, GivenPCs
<1>3. Hand[t] = item[t] /\ Hand' = [Hand EXCEPT ![t] = NoEntry]
  BY <1>1, <1>2 DEF Hand, Hands, GivenPCs
<1>4. Placed(queue.entries, [Hand EXCEPT ![t] = NoEntry], owed \ {Hand[t]})
  BY <1>1, HandType, ItemBegun DEF Hand
<1> QED
  BY <1>1, <1>2, <1>3, <1>4 DEF ItemInv, ItemTypes

(* Every step preserves it. *)
LEMMA NextItems == Inv /\ ItemInv /\ [Next]_vars => ItemInv'
<1> SUFFICES ASSUME Inv, ItemInv, [Next]_vars PROVE ItemInv'
  OBVIOUS
<1>1. QInv /\ Types(queue, serving, pc) /\ pc \in [Workers -> PCs]
      /\ WaitersExact(queue, serving, pc)
  BY DEF Inv, QInv, Good, Types
<1>2. ASSUME NEW t \in Workers, GetItem(t) PROVE ItemInv'
  BY <1>1, <1>2, RemoveItems DEF GetItem, KeRemoveQueue, GivenPCs
<1>3. ASSUME NEW t \in Workers, EndApc(t) PROVE ItemInv'
  <2>1. pc[t] = "apc" /\ owed' = owed /\ pc[t] \notin GivenPCs
    BY <1>3 DEF EndApc, GivenPCs
  <2>2. t \in serving
    BY <1>1, <2>1 DEF WaitersExact, NewPCs
  <2>3. CASE RemoveAgain(t)
    BY <1>1, <2>1, <2>2, <2>3, RemoveItems DEF RemoveAgain
  <2>4. CASE RemoveLate(t)
    BY <1>1, <2>1, <2>4, FreeStep DEF RemoveLate, GivenPCs
  <2> QED
    BY <1>3, <2>3, <2>4 DEF EndApc
<1>4. ASSUME NEW t \in Workers, Begin(t) PROVE ItemInv'
  BY <1>1, <1>4, BeginItems
<1>5. ASSUME NEW t \in Workers, WaitForItem(t) \/ Exit(t) PROVE ItemInv'
  <2>1. PICK l \in {"blocked", "none"} : KiActivateWaiterQueue(t, l)
    BY <1>5 DEF WaitForItem, Exit, Block, Terminate
  <2>2. pc[t] \in ActivePCs /\ pc[t] \notin GivenPCs /\ owed' = owed
    BY <1>5 DEF WaitForItem, Exit, ActivePCs, GivenPCs
  <2> QED
    BY <1>1, <2>1, <2>2, ActivateItems
<1>6. ASSUME NEW t \in Workers, Resume(t) PROVE ItemInv'
  <2>1. queue'.entries = queue.entries
    BY <1>1, <1>6, ActivateShape DEF Resume, Unblock
  <2> QED
    BY <1>1, <1>6, <2>1, FreeStep DEF Resume, Unblock, GivenPCs
<1>7. ASSUME NEW t \in Workers, Finish(t) \/ Leave(t) PROVE ItemInv'
  <2>1. PICK l \in {"return", "leaving"} : pc' = [pc EXCEPT ![t] = l]
    BY <1>7 DEF Finish, Leave
  <2>2. pc[t] \notin GivenPCs /\ l \notin GivenPCs
    BY <1>7 DEF Finish, Leave, GivenPCs
  <2>3. /\ item' = item \/ item' = [item EXCEPT ![t] = NoEntry]
        /\ queue'.entries = queue.entries /\ owed' = owed
    BY <1>7 DEF Finish, Leave
  <2> QED
    BY <1>1, <2>1, <2>2, <2>3, FreeStep
<1>8. ASSUME NEW t \in Workers, Apc(t) \/ Timeout(t) PROVE ItemInv'
  <2>1. PICK l \in {"apc", "late"} : EndWait(t, l)
    BY <1>8 DEF Apc, Timeout
  <2>2. pc[t] = "waiting" /\ owed' = owed
    BY <1>8 DEF Apc, Timeout
  <2>3. queue'.entries = queue.entries
    BY <1>1, <2>1, ActivateShape DEF EndWait
  <2> QED
    BY <1>1, <2>1, <2>2, <2>3, FreeStep DEF EndWait, GivenPCs
<1>9. ASSUME NEW c, NEW e \in Entries, QueueItem(c, e) PROVE ItemInv'
  BY <1>1, <1>9, InsertItems DEF QueueItem
<1>10. ASSUME Create("countDetect") \/ Create("countCheck"),
              UNCHANGED <<queue, item, owed>>
       PROVE  ItemInv'
  <2>1. PICK t \in Workers : pc[t] = "none" /\ pc' = [pc EXCEPT ![t] = "created"]
    BY <1>10, WorkerAssumption DEF Create
  <2> QED
    BY <1>1, <1>10, <2>1, FreeStep DEF GivenPCs
<1>11. ASSUME UNCHANGED <<queue, pc, item, owed>> PROVE ItemInv'
  BY <1>11 DEF ItemInv, ItemTypes, Hand
<1>12. ASSUME Detect \/ Check PROVE ItemInv'
  <2>1. UNCHANGED <<queue, item, owed>>
    BY <1>12 DEF Detect, Check
  <2> QED
    BY <1>10, <1>11, <1>12, <2>1 DEF Detect, Check, Skip
<1>13. ASSUME Pass \/ Depth \/ Notified \/ CountUp \/ (\E c : Request(c)) \/ UNCHANGED vars
       PROVE  ItemInv'
  BY <1>11, <1>13 DEF Pass, Depth, Notified, CountUp, Request, vars, qvars
<1> QED
  BY <1>2, <1>3, <1>4, <1>5, <1>6, <1>7, <1>8, <1>9, <1>12, <1>13
     DEF Next, WorkOn, Work, Manage

(* Nothing is owed at first. *)
LEMMA InitItems == Init => ItemInv
<1> SUFFICES ASSUME Init PROVE ItemInv
  OBVIOUS
<1>1. /\ queue.entries = <<>> /\ owed = {} /\ item = [t \in Workers |-> NoEntry]
  BY DEF Init, QInit
<1>2. Hand = [t \in Workers |-> NoEntry]
  BY <1>1 DEF Hand, Hands
<1> QED
  BY <1>1, <1>2, EntryAssumption DEF ItemInv, ItemTypes, Placed, OnceEach, Listed

(* What is Placed is as ItemsExact says. *)
LEMMA ItemsPlaced ==
    ASSUME QInv, ItemInv
    PROVE  ItemsExact
<1> DEFINE es == queue.entries
           given(e) == {t \in Workers : pc[t] \in {"taken", "woken"} /\ item[t] = e}
<1>1. es \in Seq(Entries) /\ Placed(es, Hand, owed)
  BY DEF QInv, Good, Types, ItemInv
<1>2. DOMAIN es = 1 .. Len(es)
  BY <1>1
<1>3. IsInjective(es)
  BY <1>1, <1>2 DEF Placed, OnceEach, IsInjective
<1>4. \A e : e \in ToSet(es) <=> Listed(es, e)
  BY <1>2 DEF ToSet, Listed
<1>5. ASSUME NEW e \in Entries
      PROVE  \A t \in Workers : t \in given(e) <=> Hand[t] = e
  BY EntryAssumption DEF Hand, Hands, GivenPCs
<1> HIDE DEF es, given
<1>6. ASSUME NEW e \in Entries
      PROVE  Cardinality(given(e)) <= 1
  <2>1. given(e) \subseteq Workers
    BY DEF given
  <2>2. CASE given(e) = {}
    BY <2>2, FS_EmptySet
  <2>3. CASE given(e) # {}
    <3>1. PICK t \in Workers : given(e) = {t}
      BY <1>1, <1>5, <2>1, <2>3 DEF Placed
    <3> QED
      BY <3>1, FS_Singleton
  <2> QED
    BY <2>2, <2>3
<1>7. ASSUME NEW e \in Entries
      PROVE  IF e \in owed
             THEN (e \in ToSet(es)) # (given(e) # {}) /\ Cardinality(given(e)) <= 1
             ELSE ~(e \in ToSet(es)) /\ given(e) = {}
  <2>1. given(e) # {} <=> \E t \in Workers : Hand[t] = e
    BY <1>5 DEF given
  <2>2. e \in owed <=> Listed(es, e) \/ \E t \in Workers : Hand[t] = e
    BY <1>1 DEF Placed
  <2>3. ~(Listed(es, e) /\ \E t \in Workers : Hand[t] = e)
    BY <1>1 DEF Placed
  <2>4. e \in owed => (e \in ToSet(es)) # (given(e) # {})
    BY <1>4, <2>1, <2>2, <2>3
  <2>5. e \notin owed => ~(e \in ToSet(es)) /\ given(e) = {}
    BY <1>4, <2>1, <2>2
  <2> QED
    BY <1>6, <2>4, <2>5
<1> QED
  BY <1>3, <1>7 DEF ItemsExact, es, given

(* An item that ExQueueWorkItem has queued is in the list of the queue or  *)
(* with one worker that is about to call its routine, once and in one      *)
(* place only, whoever inserts, takes, waits, times out or ends meanwhile; *)
(* so no item is lost and none runs twice.                                 *)
THEOREM ItemSafety == Spec => []ItemsExact
<1>1. Spec => []ItemInv
  BY InitItems, NextItems, Invariance, PTL DEF Spec
<1>2. Inv /\ ItemInv => ItemsExact
  BY ItemsPlaced DEF Inv
<1> QED
  BY <1>1, <1>2, Invariance, PTL
=============================================================================
