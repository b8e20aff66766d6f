-------------------------- MODULE HandleTableProofs -------------------------
(***************************************************************************)
(* Proofs about HandleTree and HandleTable as MCHandleTable instantiates   *)
(* them, for any number of threads and tables of any size.                 *)
(*                                                                         *)
(* The tree.  The tables are made in the order of the handles: the n-th    *)
(* low level one is slot n % MidEntries of mid level table n \div          *)
(* MidEntries, and stays there.  All else follows: a lookup with an old    *)
(* level still finds its table, and what is freed up to the first empty    *)
(* slot is everything.                                                     *)
(*                                                                         *)
(* The free lists.  Every entry has one place: on one of the two lists, on *)
(* the list being moved, in the block of a thread that grows the table, in *)
(* a thread's hands, open, or lost.  That a pop cannot mistake a head that *)
(* left the list and came back is the heart of it: while one thread        *)
(* creates and the others close, only that thread takes entries off the    *)
(* list; and while several create and none closes, no entry comes back.    *)
(***************************************************************************)
EXTENDS MCHandleTable, Integers, WellFoundedInduction, TLAPS

(* How many low level tables are linked. *)
Made == T!Fresh + (IF growing THEN 1 ELSE 0)

(* The slots of the mid level tables, with n low level tables in them, *)
Slots(n) == [k \in 0 .. HighEntries - 1 |->
               [j \in 0 .. MidEntries - 1 |->
                  IF MidEntries * k + j < n THEN MidEntries * k + j ELSE Null]]

(* the mid level tables needed for n low level ones, *)
MidsFor(n) == {k \in 0 .. HighEntries - 1 : MidEntries * k < n}

(* and all that is allocated then. *)
LowsFor(n) == {T!LowTable(m) : m \in 0 .. n - 1}

AllFor(l, n) == LowsFor(n)
                  \cup (IF l = 0 THEN {} ELSE {T!MidTable(k) : k \in MidsFor(n)})
                  \cup (IF l = 2 THEN {T!HighTable} ELSE {})

NeedInv == /\ T!Fresh \in 1 .. MidEntries * HighEntries
           /\ need = 4 * (LowEntries * T!Fresh)
           /\ growing \in BOOLEAN
           /\ level \in {0, 1, 2, Null}

(* While the table lives, its tree is the one for Made low level tables. *)
ShapeInv ==
    level # Null =>
       /\ Made \in 1 .. MidEntries * HighEntries
       /\ level = 0 <=> Made = 1
       /\ level = 1 => Made <= MidEntries
       /\ level = 2 => Made > MidEntries
       /\ mid = Slots(IF level = 0 THEN 0 ELSE Made)
       /\ high = IF level = 2 THEN MidsFor(Made) ELSE {}
       /\ tables = AllFor(level, Made)

(* Freed, it keeps no table. *)
FreedInv ==
    level = Null =>
       /\ tables = {} /\ ~growing
       /\ mid \in [0 .. HighEntries - 1 ->
                     [0 .. MidEntries - 1 -> T!LowTables \cup {Null}]]
       /\ high \subseteq 0 .. HighEntries - 1

(* The number of the handle that r looks up. *)
Number(r) == handle[r] \div 4

(* At the level that r has seen, the tree has a place for its handle. *)
SeenInv(r) == /\ seen[r] = 0 => Number(r) < LowEntries
              /\ seen[r] = 1 => /\ Number(r) < LowEntries * MidEntries
                                /\ level \in {1, 2}
              /\ seen[r] = 2 => level = 2

ReaderInv ==
    /\ tpc \in [Readers -> {"idle", "code", "walk", "found"}]
    /\ handle \in [Readers -> Nat]
    /\ seen \in [Readers -> {0, 1, 2}]
    /\ found \in [Readers -> (T!LowTables \X (0 .. LowEntries - 1)) \cup {Null}]
    /\ \A r \in Readers :
          /\ handle[r] = 4 * Number(r) /\ Number(r) < LowEntries * T!Fresh
          /\ tpc[r] # "idle" => level # Null
          /\ tpc[r] = "walk" => SeenInv(r)
          /\ tpc[r] = "found" =>
                found[r] = <<Number(r) \div LowEntries, Number(r) % LowEntries>>

TreeInv == NeedInv /\ ShapeInv /\ FreedInv /\ ReaderInv

-----------------------------------------------------------------------------
(* Arithmetic.                                                             *)

(* Products are monotone, *)
LEMMA TimesMonotone ==
    ASSUME NEW b \in Nat, NEW x \in Int, NEW y \in Int, x <= y
    PROVE  b * x <= b * y /\ b * x \in Int /\ b * y \in Int
OBVIOUS

(* strictly so. *)
LEMMA TimesStrict ==
    ASSUME NEW b \in Nat, NEW x \in Int, NEW y \in Int, x < y
    PROVE  b * x + b <= b * y
<1>1. b * (x + 1) <= b * y
  BY TimesMonotone
<1> QED
  BY <1>1

(* They associate and distribute. *)
LEMMA TimesSum ==
    ASSUME NEW c \in Int, NEW b \in Int, NEW q \in Int, NEW r \in Int
    PROVE  /\ c * (b * q + r) = (c * b) * q + c * r
           /\ c * (b * q + r) - c * r = b * (c * q)
<1>1. c * (b * q + r) = c * (b * q) + c * r
  OBVIOUS
<1>2. c * (b * q) = (c * b) * q /\ c * (b * q) = b * (c * q)
  OBVIOUS
<1>3. c * (b * q) \in Int /\ c * r \in Int
  OBVIOUS
<1> QED
  BY <1>1, <1>2, <1>3

(* The quotient and the remainder, *)
LEMMA DivMod ==
    ASSUME NEW a \in Int, NEW b \in Nat \ {0}
    PROVE  /\ a = b * (a \div b) + (a % b)
           /\ a % b \in 0 .. b - 1 /\ a \div b \in Int
OBVIOUS

(* of which there are no others. *)
LEMMA DivModUnique ==
    ASSUME NEW b \in Nat \ {0}, NEW q \in Int, NEW p \in Int,
           NEW r \in 0 .. b - 1, NEW s \in 0 .. b - 1, b * q + r = b * p + s
    PROVE  q = p /\ r = s
<1>1. ~(q < p)
  BY TimesStrict
<1>2. ~(p < q)
  BY TimesStrict
<1> QED
  BY <1>1, <1>2

(* So the two of a product and a remainder are its parts. *)
LEMMA Quotient ==
    ASSUME NEW b \in Nat \ {0}, NEW q \in Int, NEW r \in 0 .. b - 1
    PROVE  (b * q + r) \div b = q /\ (b * q + r) % b = r
BY DivMod, DivModUnique

(* Multiples cancel. *)
LEMMA Scaled ==
    ASSUME NEW c \in Nat \ {0}, NEW b \in Nat \ {0}, NEW a \in Int
    PROVE  /\ (c * a) \div c = a
           /\ (c * a) \div (c * b) = a \div b
           /\ (c * a) % (c * b) = c * (a % b)
<1> DEFINE q == a \div b
           r == a % b
<1>1. a = b * q + r /\ r \in 0 .. b - 1 /\ q \in Int
  BY DivMod
<1>2. c * b \in Nat \ {0} /\ c * a \in Int /\ c * r \in Int
  BY <1>1
<1> HIDE DEF q, r
<1>3. c * a = (c * b) * q + c * r
  <2>1. c * (b * q + r) = (c * b) * q + c * r
    BY <1>1, TimesSum
  <2> QED
    BY <1>1, <2>1
<1>4. c * r \in 0 .. c * b - 1
  <2>1. r \in Int /\ r >= 0 /\ r < b
    BY <1>1
  <2>2. c * r + c <= c * b
    BY <2>1, TimesStrict
  <2>3. c * r >= 0
    BY <2>1
  <2> QED
    BY <1>2, <2>2, <2>3
<1>5. (c * a) \div (c * b) = q /\ (c * a) % (c * b) = c * r
  <2>1. \A x \in Nat \ {0}, y \in Int : \A z \in 0 .. x - 1 :
           (x * y + z) \div x = y /\ (x * y + z) % x = z
    BY Quotient
  <2> QED
    <3> DEFINE x == c * b
               z == c * r
    <3>1. x \in Nat \ {0} /\ z \in 0 .. x - 1 /\ c * a = x * q + z
      BY <1>2, <1>3, <1>4
    <3> HIDE DEF x, z
    <3>2. (c * a) \div x = q /\ (c * a) % x = z
      BY <1>1, <2>1, <3>1
    <3> QED
      BY <3>2 DEF x, z
<1>6. (c * a) \div c = a
  <2>1. c * a = c * a + 0 /\ 0 \in 0 .. c - 1
    BY <1>2
  <2> QED
    BY <2>1, Quotient
<1> QED
  BY <1>5, <1>6 DEF q, r

(* A quotient is small enough. *)
LEMMA QuotientBound ==
    ASSUME NEW a \in Nat, NEW b \in Nat \ {0}, NEW n \in Nat, a < b * n
    PROVE  a \div b \in 0 .. n - 1
<1>1. a = b * (a \div b) + (a % b) /\ a % b \in 0 .. b - 1 /\ a \div b \in Int
  BY DivMod
<1>2. a \div b < n
  <2>1. ~(n <= a \div b)
    BY <1>1, TimesMonotone
  <2> QED
    BY <1>1, <2>1
<1>3. a \div b >= 0
  <2>1. a \div b < 0 => b * (a \div b) + b <= b * 0
    BY <1>1, TimesStrict
  <2> QED
    BY <1>1, <2>1
<1> QED
  BY <1>1, <1>2, <1>3

-----------------------------------------------------------------------------
(* Where a handle is looked for.                                           *)

(* The numbers of the low level table and of the entry in it. *)
LEMMA Offsets ==
    ASSUME NEW h \in Nat
    PROVE  /\ T!LowOffset(4 * h) = 4 * (h % LowEntries)
           /\ T!MidOffset(4 * h) = 4 * (h \div LowEntries)
<1> DEFINE L == LowEntries
<1>1. L \in Nat \ {0}
  BY TreeAssumption
<1>2. h = L * (h \div L) + (h % L) /\ h % L \in 0 .. L - 1 /\ h \div L \in Int
  BY <1>1, DivMod
<1>3. (4 * h) % (4 * L) = 4 * (h % L)
  BY <1>1, Scaled, 4 \in Nat \ {0}, h \in Int
<1>4. T!LowOffset(4 * h) = 4 * (h % L)
  BY <1>3 DEF T!LowOffset, T!SizeOfHandle, T!PtrSize
<1>5. (4 * L) \div 4 = L
  BY <1>1, Scaled
<1>6. 4 * h - 4 * (h % L) = L * (4 * (h \div L))
  <2> DEFINE x == h \div L
             y == h % L
  <2>1. h = L * x + y /\ x \in Int /\ y \in Int /\ L \in Int
    BY <1>1, <1>2
  <2> HIDE DEF x, y
  <2>2. 4 * (L * x + y) - 4 * y = L * (4 * x)
    BY <2>1, TimesSum
  <2> QED
    BY <2>1, <2>2 DEF x, y
<1>7. (L * (4 * (h \div L))) \div L = 4 * (h \div L)
  BY <1>1, <1>2, Scaled
<1> QED
  BY <1>4, <1>5, <1>6, <1>7 DEF T!MidOffset, T!SizeOfHandle, T!PtrSize

(* The mid level table and the slot in it. *)
LEMMA Indices ==
    ASSUME NEW q \in Nat
    PROVE  /\ (4 * q) \div 4 = q
           /\ T!MidIndex(4 * q) \div 4 = q % MidEntries
           /\ T!HighIndex(4 * q) \div 4 = q \div MidEntries
<1> DEFINE M == MidEntries
<1>1. M \in Nat \ {0}
  BY TreeAssumption
<1>2. q = M * (q \div M) + (q % M) /\ q % M \in 0 .. M - 1 /\ q \div M \in Int
  BY <1>1, DivMod
<1>3. T!MidIndex(4 * q) = 4 * (q % M)
  <2>1. (4 * q) % (4 * M) = 4 * (q % M)
    BY <1>1, Scaled, 4 \in Nat \ {0}, q \in Int
  <2>2. M * 4 = 4 * M
    BY <1>1
  <2> QED
    BY <2>1, <2>2 DEF T!MidIndex, T!PtrSize
<1>4. T!HighIndex(4 * q) = 4 * (q \div M)
  <2>1. 4 * q - 4 * (q % M) = M * (4 * (q \div M))
    <3> DEFINE x == q \div M
               y == q % M
    <3>1. q = M * x + y /\ x \in Int /\ y \in Int /\ M \in Int
      BY <1>1, <1>2
    <3> HIDE DEF x, y
    <3>2. 4 * (M * x + y) - 4 * y = M * (4 * x)
      BY <3>1, TimesSum
    <3> QED
      BY <3>1, <3>2 DEF x, y
  <2>2. (M * (4 * (q \div M))) \div M = 4 * (q \div M)
    BY <1>1, <1>2, Scaled
  <2> QED
    BY <1>3, <2>1, <2>2 DEF T!HighIndex
<1>5. \A x \in Int : (4 * x) \div 4 = x
  BY Scaled
<1> QED
  BY <1>2, <1>3, <1>4, <1>5

(* The entry that a lookup ends at. *)
LEMMA EntryIndex ==
    ASSUME NEW h \in Nat, NEW l \in {0, 1, 2}, l = 0 => h < LowEntries
    PROVE  T!IndexOf(4 * h, l) = h % LowEntries
<1>1. LowEntries \in Nat \ {0}
  BY TreeAssumption
<1>2. h % LowEntries \in Int
  BY <1>1, DivMod
<1>3. l = 0 => h % LowEntries = h
  <2>1. h = LowEntries * 0 + h
    BY <1>1
  <2>2. l = 0 => h \in 0 .. LowEntries - 1
    BY <1>1
  <2> QED
    BY <1>1, <2>1, <2>2, Quotient
<1>4. T!EntrySize \div T!SizeOfHandle(1) = 2
  BY DEF T!EntrySize, T!SizeOfHandle, T!PtrSize
<1>5. (IF l = 0 THEN 4 * h ELSE T!LowOffset(4 * h)) = 4 * (h % LowEntries)
  BY <1>3, Offsets
<1>6. \A x \in Int : ((4 * x) * 2) \div 8 = x
  OBVIOUS
<1> QED
  BY <1>2, <1>4, <1>5, <1>6 DEF T!IndexOf, T!EntrySize

(* A low level table is where it was put. *)
LEMMA SlotOf ==
    ASSUME NEW n \in Nat, NEW q \in 0 .. n - 1, n <= MidEntries * HighEntries
    PROVE  /\ q \div MidEntries \in 0 .. HighEntries - 1
           /\ q % MidEntries \in 0 .. MidEntries - 1
           /\ q = MidEntries * (q \div MidEntries) + (q % MidEntries)
           /\ Slots(n)[q \div MidEntries][q % MidEntries] = q
<1>1. MidEntries \in Nat \ {0} /\ HighEntries \in Nat /\ q \in Nat /\ q < n
  BY TreeAssumption
<1>2. MidEntries * HighEntries \in Nat
  BY <1>1
<1>3. q < MidEntries * HighEntries
  BY <1>1, <1>2
<1>4. q \div MidEntries \in 0 .. HighEntries - 1
  BY <1>1, <1>3, QuotientBound
<1>5. /\ q % MidEntries \in 0 .. MidEntries - 1
      /\ q = MidEntries * (q \div MidEntries) + (q % MidEntries)
  BY <1>1, DivMod
<1> QED
  BY <1>1, <1>4, <1>5 DEF Slots

-----------------------------------------------------------------------------
(* The tree, one low level table larger.                                   *)

Table(X, Y, f) == f = [x \in X |-> f[x]] /\ \A x \in X : f[x] = [y \in Y |-> f[x][y]]

(* What changes with one slot of one table. *)
LEMMA OneSlot ==
    ASSUME NEW X, NEW Y, NEW f, NEW g, NEW k \in X, NEW j \in Y, NEW v,
           Table(X, Y, f), Table(X, Y, g),
           \A x \in X, y \in Y : g[x][y] = IF x = k /\ y = j THEN v ELSE f[x][y]
    PROVE  [f EXCEPT ![k] = [@ EXCEPT ![j] = v]] = g
<1>1. [f[k] EXCEPT ![j] = v] = g[k]
  <2>1. f[k] = [y \in Y |-> f[k][y]] /\ g[k] = [y \in Y |-> g[k][y]]
    BY DEF Table
  <2>2. \A y \in Y : g[k][y] = IF y = j THEN v ELSE f[k][y]
    OBVIOUS
  <2> DEFINE fk == f[k]
             gk == g[k]
  <2> HIDE DEF fk, gk
  <2>3. [fk EXCEPT ![j] = v] = gk
    BY <2>1, <2>2 DEF fk, gk
  <2> QED
    BY <2>3 DEF fk, gk
<1>2. ASSUME NEW x \in X, x # k PROVE f[x] = g[x]
  BY <1>2 DEF Table
<1>3. f = [x \in X |-> f[x]] /\ g = [x \in X |-> g[x]]
  BY DEF Table
<1> DEFINE h == [f[k] EXCEPT ![j] = v]
<1>4. h = g[k]
  BY <1>1
<1> HIDE DEF h
<1>5. [f EXCEPT ![k] = h] = g
  BY <1>2, <1>3, <1>4
<1> QED
  BY <1>5 DEF h

(* The next low level table goes to the slot of its number, and no other   *)
(* slot is of that number.                                                 *)
LEMMA SlotsNext ==
    ASSUME NEW k \in 0 .. HighEntries - 1, NEW j \in 0 .. MidEntries - 1, NEW n,
           n = MidEntries * k + j
    PROVE  [Slots(n) EXCEPT ![k] = [@ EXCEPT ![j] = n]] = Slots(n + 1)
<1>1. MidEntries \in Nat \ {0} /\ k \in Nat /\ j \in Nat /\ n \in Nat
  BY TreeAssumption
<1>2. ASSUME NEW x \in 0 .. HighEntries - 1, NEW y \in 0 .. MidEntries - 1
      PROVE  /\ MidEntries * x + y \in Nat
             /\ MidEntries * x + y = n => x = k /\ y = j
  <2>1. x \in Int /\ k \in Int /\ MidEntries * x + y \in Nat
    BY <1>1
  <2> QED
    BY <1>1, <2>1, DivModUnique
<1>3. ASSUME NEW x \in 0 .. HighEntries - 1, NEW y \in 0 .. MidEntries - 1
      PROVE  Slots(n + 1)[x][y] = IF x = k /\ y = j THEN n ELSE Slots(n)[x][y]
  <2> DEFINE m == MidEntries * x + y
  <2>1. m \in Nat /\ (m = n <=> x = k /\ y = j)
    BY <1>2
  <2>2. /\ Slots(n + 1)[x][y] = IF m < n + 1 THEN m ELSE Null
        /\ Slots(n)[x][y] = IF m < n THEN m ELSE Null
    BY DEF Slots
  <2> HIDE DEF m
  <2>3. m < n + 1 <=> m < n \/ m = n
    BY <1>1, <2>1
  <2>4. CASE m = n
    <3>1. m < n + 1
      BY <2>3, <2>4
    <3> QED
      BY <2>1, <2>2, <2>4, <3>1
  <2>5. CASE m # n
    <3>1. m < n + 1 <=> m < n
      BY <2>3, <2>5
    <3> QED
      BY <2>1, <2>2, <2>5, <3>1
  <2> QED
    BY <2>4, <2>5
<1> DEFINE X == 0 .. HighEntries - 1
           Y == 0 .. MidEntries - 1
<1>4. Table(X, Y, Slots(n)) /\ Table(X, Y, Slots(n + 1))
  BY DEF Slots, Table
<1> DEFINE f == Slots(n)
           g == Slots(n + 1)
<1>5. /\ k \in X /\ j \in Y /\ Table(X, Y, f) /\ Table(X, Y, g)
      /\ \A x \in X, y \in Y : g[x][y] = IF x = k /\ y = j THEN n ELSE f[x][y]
  BY <1>3, <1>4
<1> HIDE DEF X, Y, f, g
<1>6. [f EXCEPT ![k] = [@ EXCEPT ![j] = n]] = g
  BY <1>5, OneSlot
<1> QED
  BY <1>6 DEF f, g

(* Its mid level table is needed from now on. *)
LEMMA MidsNext ==
    ASSUME NEW k \in 0 .. HighEntries - 1, NEW j \in 0 .. MidEntries - 1, NEW n,
           n = MidEntries * k + j
    PROVE  MidsFor(n + 1) = MidsFor(n) \cup {k} /\ (j # 0 => k \in MidsFor(n))
           /\ (k \notin MidsFor(n) => j = 0)
<1>1. MidEntries \in Nat \ {0} /\ k \in Nat /\ j \in Nat /\ n \in Nat
  BY TreeAssumption
<1>2. ASSUME NEW x \in 0 .. HighEntries - 1
      PROVE  /\ MidEntries * x \in Nat
             /\ MidEntries * x < n + 1 <=> MidEntries * x < n \/ MidEntries * x = n
             /\ MidEntries * x = n => x = k
  <2>1. x \in Int /\ k \in Int /\ MidEntries * x \in Nat /\ 0 \in 0 .. MidEntries - 1
    BY <1>1
  <2>2. MidEntries * x = MidEntries * x + 0
    BY <2>1
  <2>3. MidEntries * x = n => x = k
    BY <1>1, <2>1, <2>2, DivModUnique
  <2> QED
    BY <1>1, <2>1, <2>3
<1>3. MidEntries * k < n + 1 /\ (j # 0 => MidEntries * k < n)
  BY <1>1, <1>2
<1> QED
  BY <1>2, <1>3 DEF MidsFor

(* So is the table itself. *)
LEMMA LowsNext ==
    ASSUME NEW n \in Nat
    PROVE  LowsFor(n + 1) = LowsFor(n) \cup {T!LowTable(n)}
<1>1. 0 .. (n + 1) - 1 = (0 .. n - 1) \cup {n}
  OBVIOUS
<1> QED
  BY <1>1 DEF LowsFor

(* The sizes: of the tables there are at least two at each level. *)
LEMMA Sizes ==
    /\ LowEntries \in Nat \ {0} /\ MidEntries \in Nat /\ HighEntries \in Nat
    /\ MidEntries >= 2 /\ HighEntries >= 2
    /\ MidEntries * HighEntries \in Nat /\ MidEntries + 1 <= MidEntries * HighEntries
<1>1. /\ LowEntries \in Nat \ {0} /\ MidEntries \in Nat /\ HighEntries \in Nat
      /\ MidEntries >= 2 /\ HighEntries >= 2
  BY TreeAssumption
<1>2. MidEntries * 2 <= MidEntries * HighEntries
  BY <1>1, TimesMonotone
<1> QED
  BY <1>1, <1>2

(* Who has not reached the end of a mid level table is within the tree. *)
LEMMA FirstMid ==
    ASSUME NEW n \in Nat, 1 <= n, n <= MidEntries
    PROVE  MidsFor(n) = {0} /\ n <= MidEntries * HighEntries
<1>1. \A x \in 0 .. HighEntries - 1 : MidEntries * x < n <=> x = 0
  <2> SUFFICES ASSUME NEW x \in 0 .. HighEntries - 1
               PROVE  MidEntries * x < n <=> x = 0
    OBVIOUS
  <2>1. x # 0 => MidEntries * 1 <= MidEntries * x
    BY Sizes, TimesMonotone
  <2>2. MidEntries * 0 = 0 /\ MidEntries * 1 = MidEntries /\ MidEntries * x \in Int
    BY Sizes
  <2> QED
    BY Sizes, <2>1, <2>2
<1> QED
  BY <1>1, Sizes DEF MidsFor

(* What is in the slots is of the type of them. *)
LEMMA SlotsType ==
    ASSUME NEW n \in 0 .. MidEntries * HighEntries
    PROVE  Slots(n) \in [0 .. HighEntries - 1 ->
                           [0 .. MidEntries - 1 -> T!LowTables \cup {Null}]]
<1>1. ASSUME NEW x \in 0 .. HighEntries - 1, NEW y \in 0 .. MidEntries - 1
      PROVE  (IF MidEntries * x + y < n THEN MidEntries * x + y ELSE Null)
                \in T!LowTables \cup {Null}
  <2>1. MidEntries * x + y \in Nat
    BY Sizes
  <2>2. MidEntries * x + y < n => MidEntries * x + y \in T!LowTables
    BY Sizes, <2>1 DEF T!LowTables
  <2> QED
    BY <2>2
<1> QED
  BY <1>1 DEF Slots

-----------------------------------------------------------------------------
(* Growing.                                                                *)

(* NextHandleNeedingPool says how many low level tables there are. *)
LEMMA FreshOf ==
    ASSUME NEW n \in Nat
    PROVE  (4 * (LowEntries * n)) \div T!SizeOfHandle(LowEntries) = n
<1>1. LowEntries \in Nat \ {0} /\ 4 * LowEntries \in Nat \ {0}
  BY Sizes
<1>2. 4 * (LowEntries * n) = (4 * LowEntries) * n
  BY <1>1
<1>3. ((4 * LowEntries) * n) \div (4 * LowEntries) = n
  BY <1>1, Scaled
<1> QED
  BY <1>2, <1>3 DEF T!SizeOfHandle, T!PtrSize

(* The tree after growth. *)
LEMMA NewShape ==
    ASSUME NeedInv, NEW n, n = T!Fresh, need' = need, growing' = TRUE,
           n + 1 <= MidEntries * HighEntries, level' \in {1, 2},
           level' = 1 => n + 1 <= MidEntries, level' = 2 => n + 1 > MidEntries,
           mid' = Slots(n + 1),
           high' = IF level' = 2 THEN MidsFor(n + 1) ELSE {},
           tables' = AllFor(level', n + 1)
    PROVE  (NeedInv /\ ShapeInv /\ FreedInv)' /\ T!Fresh' = T!Fresh
<1>1. n \in Nat /\ n >= 1 /\ n + 1 \in 1 .. MidEntries * HighEntries /\ n + 1 # 1
  BY Sizes DEF NeedInv
<1>2. T!Fresh' = n
  BY DEF T!Fresh
<1>3. Made' = n + 1
  BY <1>2 DEF Made
<1>4. level' # Null /\ level' # 0
  BY NullAssumption
<1>5. NeedInv'
  BY <1>2 DEF NeedInv
<1>6. ShapeInv'
  BY <1>1, <1>3, <1>4 DEF ShapeInv
<1> QED
  BY <1>2, <1>4, <1>5, <1>6 DEF FreedInv

(* The shape before growth, by the number of low level tables. *)
LEMMA OldShape ==
    ASSUME NeedInv, ShapeInv, T!MayGrow
    PROVE  /\ Made = T!Fresh /\ level \in {0, 1, 2} /\ level # Null
           /\ T!Fresh \in Nat /\ T!Fresh >= 1
           /\ T!Fresh <= MidEntries * HighEntries
BY Sizes DEF NeedInv, ShapeInv, T!MayGrow, Made

(* One level becomes two. *)
LEMMA GrowToMidStep ==
    ASSUME NeedInv, ShapeInv, T!GrowToMid
    PROVE  (NeedInv /\ ShapeInv /\ FreedInv)' /\ T!Fresh' = T!Fresh
<1>1. T!MayGrow /\ level = 0 /\ level' = 1 /\ growing' = TRUE /\ need' = need /\ high' = high
  BY DEF T!GrowToMid
<1>2. T!Fresh = 1 /\ mid = Slots(0) /\ high = {} /\ tables = AllFor(0, 1)
  BY <1>1, OldShape DEF ShapeInv
<1>3. mid' = Slots(2)
  <2>1. /\ 0 \in 0 .. HighEntries - 1 /\ 0 \in 0 .. MidEntries - 1
        /\ 1 \in 0 .. MidEntries - 1
        /\ 0 = MidEntries * 0 + 0 /\ 1 = MidEntries * 0 + 1
        /\ 0 + 1 = 1 /\ 1 + 1 = 2
    BY Sizes
  <2>2. ASSUME NEW j \in 0 .. MidEntries - 1, NEW n, n = MidEntries * 0 + j
        PROVE  [Slots(n) EXCEPT ![0] = [@ EXCEPT ![j] = n]] = Slots(n + 1)
    BY <2>1, <2>2, SlotsNext
  <2>3. [Slots(0) EXCEPT ![0] = [@ EXCEPT ![0] = 0]] = Slots(1)
    <3>1. PICK z : z = 0
      OBVIOUS
    <3>2. z \in 0 .. MidEntries - 1 /\ z = MidEntries * 0 + z /\ z + 1 = 1
      BY <2>1, <3>1
    <3>3. [Slots(z) EXCEPT ![0] = [@ EXCEPT ![z] = z]] = Slots(z + 1)
      BY <2>2, <3>2
    <3> QED
      BY <3>1, <3>2, <3>3
  <2>4. [Slots(1) EXCEPT ![0] = [@ EXCEPT ![1] = 1]] = Slots(2)
    BY <2>1, <2>2
  <2>5. mid' = [mid EXCEPT ![0] = [@ EXCEPT ![0] = 0], ![0] = [@ EXCEPT ![1] = 1]]
    BY <1>2 DEF T!GrowToMid
  <2> QED
    BY <1>2, <2>3, <2>4, <2>5
<1>4. tables' = AllFor(1, 2)
  <2>1. MidsFor(2) = {0} /\ LowsFor(2) = LowsFor(1) \cup {T!LowTable(1)}
    BY FirstMid, LowsNext, Sizes
  <2>2. tables' = tables \cup {T!MidTable(0), T!LowTable(1)}
    BY <1>2 DEF T!GrowToMid
  <2> QED
    BY <1>2, <2>1, <2>2 DEF AllFor
<1>5. /\ 1 + 1 = 2 /\ 2 <= MidEntries /\ 2 <= MidEntries * HighEntries
      /\ high' = IF level' = 2 THEN MidsFor(2) ELSE {}
  BY <1>1, <1>2, Sizes
<1> QED
  BY <1>1, <1>2, <1>3, <1>4, <1>5, NewShape

(* The mid level table takes one more. *)
LEMMA GrowMidStep ==
    ASSUME NeedInv, ShapeInv, T!GrowMid
    PROVE  (NeedInv /\ ShapeInv /\ FreedInv)' /\ T!Fresh' = T!Fresh
<1> DEFINE n == T!Fresh
<1>1. /\ T!MayGrow /\ level = 1 /\ level' = 1 /\ growing' = TRUE
      /\ need' = need /\ high' = high /\ n < MidEntries
      /\ mid' = [mid EXCEPT ![0][n] = n] /\ tables' = tables \cup {T!LowTable(n)}
  BY DEF T!GrowMid
<1>2. /\ n \in Nat /\ n >= 1 /\ mid = Slots(n) /\ high = {} /\ tables = AllFor(1, n)
  BY <1>1, OldShape DEF ShapeInv
<1> HIDE DEF n
<1>3. mid' = Slots(n + 1)
  <2>1. /\ 0 \in 0 .. HighEntries - 1 /\ n \in 0 .. MidEntries - 1
        /\ n = MidEntries * 0 + n
    BY Sizes, <1>1, <1>2
  <2>2. [Slots(n) EXCEPT ![0] = [@ EXCEPT ![n] = n]] = Slots(n + 1)
    BY <2>1, SlotsNext
  <2> QED
    BY <1>1, <1>2, <2>2
<1>4. tables' = AllFor(1, n + 1)
  <2>1. /\ MidsFor(n) = {0} /\ MidsFor(n + 1) = {0}
        /\ LowsFor(n + 1) = LowsFor(n) \cup {T!LowTable(n)}
    BY <1>1, <1>2, FirstMid, LowsNext, Sizes
  <2> QED
    BY <1>1, <1>2, <2>1 DEF AllFor
<1>5. n + 1 <= MidEntries /\ n + 1 <= MidEntries * HighEntries /\ level' # 2
  BY <1>1, <1>2, Sizes
<1> QED
  BY <1>1, <1>2, <1>3, <1>4, <1>5, NewShape DEF n

(* Two levels become three. *)
LEMMA GrowToHighStep ==
    ASSUME NeedInv, ShapeInv, T!GrowToHigh
    PROVE  (NeedInv /\ ShapeInv /\ FreedInv)' /\ T!Fresh' = T!Fresh
<1> DEFINE n == T!Fresh
<1>1. /\ T!MayGrow /\ level = 1 /\ level' = 2 /\ growing' = TRUE
      /\ need' = need /\ high' = {0, 1} /\ n >= MidEntries
      /\ mid' = [mid EXCEPT ![1][0] = n]
      /\ tables' = tables \cup {T!HighTable, T!MidTable(1), T!LowTable(n)}
  BY DEF T!GrowToHigh
<1>2. n \in Nat /\ n <= MidEntries /\ mid = Slots(n) /\ tables = AllFor(1, n)
  BY <1>1, OldShape DEF ShapeInv
<1> HIDE DEF n
<1>3. n = MidEntries * 1 + 0 /\ n = MidEntries
  BY <1>1, <1>2, Sizes
<1>4. 1 \in 0 .. HighEntries - 1 /\ 0 \in 0 .. MidEntries - 1
  BY Sizes
<1>5. mid' = Slots(n + 1)
  <2>1. [Slots(n) EXCEPT ![1] = [@ EXCEPT ![0] = n]] = Slots(n + 1)
    BY <1>3, <1>4, SlotsNext
  <2> QED
    BY <1>1, <1>2, <2>1
<1>6. MidsFor(n) = {0} /\ MidsFor(n + 1) = {0, 1}
  <2>1. MidsFor(n) = {0}
    BY <1>2, <1>3, FirstMid, Sizes
  <2>2. MidsFor(n + 1) = MidsFor(n) \cup {1}
    BY <1>3, <1>4, MidsNext
  <2> QED
    BY <2>1, <2>2
<1>7. tables' = AllFor(2, n + 1)
  <2>1. LowsFor(n + 1) = LowsFor(n) \cup {T!LowTable(n)}
    BY <1>2, LowsNext
  <2> QED
    BY <1>1, <1>2, <1>6, <2>1 DEF AllFor
<1>8. n + 1 > MidEntries /\ n + 1 <= MidEntries * HighEntries
  BY <1>2, <1>3, Sizes
<1>9. /\ level' \in {1, 2} /\ level' # 1 /\ tables' = AllFor(level', n + 1)
      /\ high' = IF level' = 2 THEN MidsFor(n + 1) ELSE {}
  BY <1>1, <1>6, <1>7
<1> QED
  BY <1>1, <1>5, <1>8, <1>9, NewShape DEF n

(* Where GrowHigh looks for room. *)
LEMMA HighSlot ==
    ASSUME NeedInv, NEW n, n = T!Fresh
    PROVE  LET i == need \div T!SizeOfHandle(T!MaxMidIndex)
           IN  /\ i = n \div MidEntries
               /\ T!MidSlot(need, i) = n % MidEntries
<1> DEFINE L == LowEntries
           M == MidEntries
           i == n \div M
<1>1. n \in Nat /\ need = 4 * (L * n) /\ L \in Nat \ {0} /\ M \in Nat \ {0}
  BY Sizes DEF NeedInv
<1>2. n = M * i + (n % M) /\ n % M \in Int /\ i \in Int
  BY <1>1, DivMod
<1> HIDE DEF i
<1>3. need \div T!SizeOfHandle(T!MaxMidIndex) = n \div M
  <2>1. 4 * (L * n) = (4 * L) * n /\ 4 * (M * L) = (4 * L) * M /\ 4 * L \in Nat \ {0}
    BY <1>1
  <2>2. ((4 * L) * n) \div ((4 * L) * M) = n \div M
    BY <1>1, <2>1, Scaled
  <2> QED
    BY <1>1, <2>1, <2>2 DEF T!SizeOfHandle, T!PtrSize, T!MaxMidIndex
<1>4. T!MidSlot(need, i) = n % M
  <2>1. (4 * (L * n)) \div (4 * 1) = L * n
    <3>1. L * n \in Int /\ 4 * 1 = 4
      BY <1>1
    <3> QED
      BY <3>1, Scaled
  <2>2. L * n - i * (M * L) = L * (n % M)
    <3> DEFINE r == n % M
    <3>1. n = M * i + r /\ r \in Int
      BY <1>2
    <3> HIDE DEF r
    <3>2. L * (M * i + r) = (L * M) * i + L * r
      BY <1>1, <1>2, <3>1, TimesSum
    <3>3. (L * M) * i = i * (M * L) /\ i * (M * L) \in Int /\ L * r \in Int
      BY <1>1, <1>2, <3>1
    <3>4. L * (M * i + r) - i * (M * L) = L * r
      BY <3>2, <3>3
    <3> QED
      BY <3>1, <3>4 DEF r
  <2>3. (L * (n % M)) \div L = n % M
    BY <1>1, <1>2, Scaled
  <2> QED
    BY <1>1, <2>1, <2>2, <2>3 DEF T!MidSlot, T!SizeOfHandle, T!PtrSize, T!MaxMidIndex
<1> QED
  BY <1>3, <1>4 DEF i

(* Three levels take one more. *)
LEMMA GrowHighStep ==
    ASSUME NeedInv, ShapeInv, T!GrowHigh
    PROVE  (NeedInv /\ ShapeInv /\ FreedInv)' /\ T!Fresh' = T!Fresh
<1> DEFINE n == T!Fresh
           i == n \div MidEntries
           j == n % MidEntries
<1>1. T!MayGrow /\ level = 2 /\ level' = 2 /\ growing' = TRUE /\ need' = need
  BY DEF T!GrowHigh
<1>2. /\ i < HighEntries
      /\ IF i \notin high
         THEN /\ mid' = [mid EXCEPT ![i] = [@ EXCEPT ![0] = n]]
              /\ high' = high \cup {i}
              /\ tables' = tables \cup {T!MidTable(i), T!LowTable(n)}
         ELSE /\ mid' = [mid EXCEPT ![i] = [@ EXCEPT ![j] = n]]
              /\ tables' = tables \cup {T!LowTable(n)}
              /\ high' = high
  BY HighSlot DEF T!GrowHigh, T!RoomFor
<1>3. /\ n \in Nat /\ n > MidEntries /\ mid = Slots(n) /\ high = MidsFor(n)
      /\ tables = AllFor(2, n)
  BY <1>1, OldShape, NullAssumption DEF ShapeInv
<1>4. /\ i \in 0 .. HighEntries - 1 /\ j \in 0 .. MidEntries - 1
      /\ n = MidEntries * i + j /\ n + 1 <= MidEntries * HighEntries
  <2>1. n = MidEntries * i + j /\ j \in 0 .. MidEntries - 1 /\ i \in Int
    BY <1>3, Sizes, DivMod
  <2> HIDE DEF n, i, j
  <2>2. MidEntries * i + MidEntries <= MidEntries * HighEntries
    BY <1>2, <2>1, Sizes, TimesStrict
  <2>3. i >= 0
    <3>1. i < 0 => MidEntries * i + MidEntries <= MidEntries * 0
      BY <2>1, Sizes, TimesStrict
    <3>2. MidEntries * 0 = 0 /\ MidEntries * i \in Int
      BY <2>1, Sizes
    <3> QED
      BY <1>3, <2>1, <3>1, <3>2, Sizes
  <2>4. MidEntries * i \in Int /\ MidEntries * HighEntries \in Int
    BY <2>1, Sizes
  <2> QED
    BY <1>2, <2>1, <2>2, <2>3, <2>4, Sizes
<1> HIDE DEF n, i, j
<1>5. /\ MidsFor(n + 1) = MidsFor(n) \cup {i}
      /\ i \notin MidsFor(n) => j = 0
  BY <1>4, MidsNext
<1>6. mid' = Slots(n + 1) /\ high' = MidsFor(n + 1)
  <2>1. [Slots(n) EXCEPT ![i] = [@ EXCEPT ![j] = n]] = Slots(n + 1)
    BY <1>4, SlotsNext
  <2>2. mid' = [mid EXCEPT ![i] = [@ EXCEPT ![j] = n]]
    BY <1>2, <1>3, <1>5
  <2>3. high' = high \cup {i}
    BY <1>2
  <2> QED
    BY <1>3, <1>5, <2>1, <2>2, <2>3
<1>7. tables' = AllFor(2, n + 1)
  <2>1. LowsFor(n + 1) = LowsFor(n) \cup {T!LowTable(n)}
    BY <1>3, LowsNext
  <2>2. CASE i \notin high
    BY <1>2, <1>3, <1>5, <2>1, <2>2 DEF AllFor
  <2>3. CASE i \in high
    <3>1. MidsFor(n + 1) = MidsFor(n)
      BY <1>3, <1>5, <2>3
    <3> QED
      BY <1>2, <1>3, <2>1, <2>3, <3>1 DEF AllFor
  <2> QED
    BY <2>2, <2>3
<1>8. /\ level' \in {1, 2} /\ level' # 1 /\ tables' = AllFor(level', n + 1)
      /\ high' = IF level' = 2 THEN MidsFor(n + 1) ELSE {}
      /\ n + 1 > MidEntries
  BY <1>1, <1>3, <1>6, <1>7, Sizes
<1> QED
  BY <1>1, <1>4, <1>6, <1>8, NewShape DEF n

(* The growth is made known. *)
LEMMA AdvanceStep ==
    ASSUME NeedInv, ShapeInv, FreedInv, T!Advance
    PROVE  (NeedInv /\ ShapeInv /\ FreedInv)' /\ T!Fresh' = T!Fresh + 1
<1> DEFINE n == T!Fresh
<1>1. /\ growing = TRUE /\ growing' = FALSE /\ need' = need + T!SizeOfHandle(LowEntries)
      /\ UNCHANGED <<level, mid, high, tables>>
  BY DEF T!Advance, NeedInv
<1>2. n \in Nat /\ need = 4 * (LowEntries * n) /\ LowEntries \in Nat /\ level # Null
  BY <1>1, Sizes DEF NeedInv, FreedInv
<1>3. Made = n + 1 /\ n + 1 \in 1 .. MidEntries * HighEntries
  BY <1>1, <1>2 DEF Made, ShapeInv
<1>4. need' = 4 * (LowEntries * (n + 1))
  BY <1>1, <1>2 DEF T!SizeOfHandle, T!PtrSize
<1>5. T!Fresh' = n + 1
  <2>1. (4 * (LowEntries * (n + 1))) \div T!SizeOfHandle(LowEntries) = n + 1
    BY <1>2, FreshOf
  <2> QED
    BY <1>4, <2>1 DEF T!Fresh
<1> HIDE DEF n
<1>6. Made' = Made
  BY <1>1, <1>2, <1>3, <1>5 DEF Made
<1>7. NeedInv'
  BY <1>1, <1>3, <1>4, <1>5 DEF NeedInv
<1>8. ShapeInv' /\ FreedInv'
  BY <1>1, <1>2, <1>6 DEF ShapeInv, FreedInv
<1> QED
  BY <1>5, <1>7, <1>8 DEF n

-----------------------------------------------------------------------------
(* Freeing.                                                                *)

(* The slots of a mid level table are used from the first on, so that none *)
(* is passed over.                                                         *)
LEMMA FreedLow ==
    ASSUME NEW n \in Nat, n <= MidEntries * HighEntries, mid = Slots(n), NEW m \in 0 .. n - 1
    PROVE  T!LowTable(m) \in T!FreedBelow(m \div MidEntries)
<1> DEFINE k == m \div MidEntries
           j == m % MidEntries
<1>1. /\ k \in 0 .. HighEntries - 1 /\ j \in 0 .. MidEntries - 1
      /\ m = MidEntries * k + j /\ mid[k][j] = m
  BY SlotOf
<1> HIDE DEF k, j
<1>2. MidEntries * k \in Int /\ MidEntries \in Nat
  BY <1>1, Sizes
<1>3. ASSUME NEW i \in 0 .. j PROVE mid[k][i] # Null
  <2>1. /\ i \in 0 .. MidEntries - 1 /\ MidEntries * k + i \in Int
        /\ MidEntries * k + i < n /\ MidEntries * k + i >= 0
    <3>1. MidEntries * k >= 0
      BY <1>1, <1>2
    <3> QED
      BY <1>1, <1>2, <3>1
  <2>2. mid[k][i] = MidEntries * k + i
    BY <1>1, <2>1 DEF Slots
  <2>3. MidEntries * k + i \in Nat
    BY <2>1
  <2> QED
    BY <2>2, <2>3, NullAssumption
<1>4. j \in T!FreedSlots(mid[k])
  BY <1>1, <1>3 DEF T!FreedSlots
<1> QED
  BY <1>1, <1>4 DEF T!FreedBelow, k

(* Nothing is left. *)
LEMMA FreeTreeStep ==
    ASSUME NeedInv, ShapeInv, T!Free
    PROVE  (NeedInv /\ ShapeInv /\ FreedInv)' /\ T!Fresh' = T!Fresh
<1> DEFINE n == T!Fresh
<1>1. /\ T!MayGrow /\ level' = Null /\ tables' = tables \ T!Freed
      /\ UNCHANGED <<mid, high, need, growing>>
  BY DEF T!Free
<1>2. /\ Made = n /\ level \in {0, 1, 2} /\ level # Null /\ ~growing
      /\ n \in Nat /\ n >= 1 /\ n <= MidEntries * HighEntries
  BY <1>1, OldShape DEF T!MayGrow
<1> HIDE DEF n
<1>3. /\ mid = Slots(IF level = 0 THEN 0 ELSE n)
      /\ high = IF level = 2 THEN MidsFor(n) ELSE {}
      /\ tables = AllFor(level, n)
      /\ level = 0 <=> n = 1
      /\ level = 1 => n <= MidEntries
  BY <1>2 DEF ShapeInv
<1>4. \A k \in MidsFor(n) : 0 .. k \subseteq MidsFor(n) /\ k \in 0 .. HighEntries - 1
  <2> SUFFICES ASSUME NEW k \in MidsFor(n), NEW x \in 0 .. k
               PROVE  x \in MidsFor(n)
    BY DEF MidsFor
  <2>1. /\ k \in 0 .. HighEntries - 1 /\ MidEntries * k < n /\ x \in Int /\ x <= k
        /\ x \in 0 .. HighEntries - 1 /\ MidEntries \in Nat
    BY Sizes DEF MidsFor
  <2>2. MidEntries * x <= MidEntries * k /\ MidEntries * x \in Int /\ MidEntries * k \in Int
    BY <2>1, TimesMonotone
  <2> QED
    BY <1>2, <2>1, <2>2 DEF MidsFor
<1>5. ASSUME NEW m \in 0 .. n - 1 PROVE m \div MidEntries \in MidsFor(n)
  <2> DEFINE k == m \div MidEntries
             j == m % MidEntries
  <2>1. k \in 0 .. HighEntries - 1 /\ j \in 0 .. MidEntries - 1 /\ m = MidEntries * k + j
    BY <1>2, SlotOf
  <2> HIDE DEF k, j
  <2>2. MidEntries * k \in Int /\ MidEntries \in Nat
    BY <2>1, Sizes
  <2> QED
    BY <1>2, <2>1, <2>2 DEF MidsFor, k
<1>6. \A k : T!MidTable(k) \in T!FreedBelow(k)
  BY DEF T!FreedBelow
<1>7. CASE level = 0
  <2>1. tables = {T!LowTable(0)}
    <3>1. 0 .. 1 - 1 = {0}
      OBVIOUS
    <3> QED
      BY <1>3, <1>7, <3>1 DEF AllFor, LowsFor
  <2>2. T!Freed = {T!LowTable(0)}
    BY <1>7 DEF T!Freed
  <2> QED
    BY <1>1, <1>2, <1>3, <1>7, <2>1, <2>2, SlotsType, Sizes, NullAssumption
       DEF NeedInv, ShapeInv, FreedInv, T!Fresh, n
<1>8. CASE level \in {1, 2}
  <2>1. mid = Slots(n) /\ n \in 0 .. MidEntries * HighEntries
    BY <1>2, <1>3, <1>8
  <2>2. \A m \in 0 .. n - 1 : T!LowTable(m) \in T!FreedBelow(m \div MidEntries)
    BY <1>2, <2>1, FreedLow
  <2>3. UNION {T!FreedBelow(k) : k \in MidsFor(n)} \subseteq T!Freed
    <3>1. CASE level = 1
      <4>1. T!Freed = T!FreedBelow(0) /\ MidsFor(n) = {0}
        BY <1>2, <1>3, <3>1, FirstMid DEF T!Freed
      <4> QED
        BY <4>1
    <3>2. CASE level = 2
      BY <1>3, <1>4, <3>2 DEF T!Freed
    <3> QED
      BY <1>8, <3>1, <3>2
  <2>4. level = 2 => T!HighTable \in T!Freed
    BY DEF T!Freed
  <2>5. LowsFor(n) \subseteq T!Freed
    BY <1>5, <2>2, <2>3 DEF LowsFor
  <2>6. {T!MidTable(k) : k \in MidsFor(n)} \subseteq T!Freed
    BY <1>6, <2>3
  <2>7. tables \subseteq T!Freed
    BY <1>3, <1>8, <2>4, <2>5, <2>6 DEF AllFor
  <2>8. tables' = {} /\ high \subseteq 0 .. HighEntries - 1
    BY <1>1, <1>3, <2>7 DEF MidsFor
  <2>9. T!Fresh' = T!Fresh
    BY <1>1 DEF T!Fresh
  <2>10. NeedInv' /\ ShapeInv'
    BY <1>1, <2>9 DEF NeedInv, ShapeInv
  <2>11. FreedInv'
    BY <1>1, <1>2, <2>1, <2>8, SlotsType DEF FreedInv
  <2> QED
    BY <2>9, <2>10, <2>11
<1> QED
  BY <1>2, <1>7, <1>8

-----------------------------------------------------------------------------
(* Looking up.                                                             *)

(* The steps that leave the readers alone: tables come, but never go while *)
(* somebody looks for one.                                                 *)
LEMMA ReadersKept ==
    ASSUME NeedInv, NeedInv', ReaderInv, UNCHANGED <<tpc, handle, seen, found>>,
           T!Fresh' \in {T!Fresh, T!Fresh + 1},
           \/ level' = level
           \/ level' \in {1, 2} /\ level \in {0, 1}
           \/ \A r \in Readers : tpc[r] = "idle"
    PROVE  ReaderInv'
<1>1. /\ LowEntries \in Nat /\ T!Fresh \in Nat /\ T!Fresh' \in Nat /\ T!Fresh <= T!Fresh'
      /\ LowEntries * T!Fresh \in Nat /\ LowEntries * T!Fresh' \in Nat
      /\ LowEntries * T!Fresh <= LowEntries * T!Fresh'
  <2>1. LowEntries \in Nat /\ T!Fresh \in Nat /\ T!Fresh' \in Nat /\ T!Fresh <= T!Fresh'
    BY Sizes DEF NeedInv
  <2>2. \A x, y \in Nat : x <= y => /\ LowEntries * x <= LowEntries * y
                                   /\ LowEntries * x \in Nat /\ LowEntries * y \in Nat
    BY <2>1, TimesMonotone
  <2> QED
    BY <2>1, <2>2
<1>2. ASSUME NEW r \in Readers
      PROVE  /\ Number(r)' = Number(r) /\ Number(r)' < LowEntries * T!Fresh'
             /\ tpc'[r] # "idle" => level' # Null
             /\ tpc'[r] = "walk" => SeenInv(r)'
  <2>1. Number(r)' = Number(r)
    BY DEF Number
  <2>2. Number(r) < LowEntries * T!Fresh /\ Number(r) \in Int
    BY DEF ReaderInv, Number
  <2>3. tpc[r] # "idle" => level # Null
    BY DEF ReaderInv
  <2>4. tpc'[r] # "idle" => level' # Null
    BY <2>3, NullAssumption
  <2>5. tpc[r] = "walk" => SeenInv(r)
    BY DEF ReaderInv
  <2>6. tpc'[r] = "walk" => SeenInv(r)'
    BY <2>1, <2>5 DEF SeenInv
  <2> QED
    BY <1>1, <2>1, <2>2, <2>4, <2>6
<1>3. T!LowTables' = T!LowTables
  BY DEF T!LowTables
<1> QED
  BY <1>2, <1>3 DEF ReaderInv

(* What is known of the handle that a reader looks up. *)
LEMMA NumberFacts ==
    ASSUME NeedInv, ReaderInv, NEW r \in Readers
    PROVE  /\ Number(r) \in Nat /\ handle[r] = 4 * Number(r)
           /\ Number(r) < LowEntries * T!Fresh
           /\ Number(r) \div LowEntries \in 0 .. T!Fresh - 1
           /\ Number(r) % LowEntries \in 0 .. LowEntries - 1
           /\ T!Fresh \in Nat /\ T!Fresh <= MidEntries * HighEntries
<1>1. /\ handle[r] \in Nat /\ handle[r] = 4 * Number(r)
      /\ Number(r) < LowEntries * T!Fresh
  BY DEF ReaderInv
<1>2. Number(r) \in Nat
  BY <1>1 DEF Number
<1>3. /\ LowEntries \in Nat \ {0} /\ T!Fresh \in Nat
      /\ T!Fresh <= MidEntries * HighEntries
  BY Sizes DEF NeedInv
<1>4. Number(r) \div LowEntries \in 0 .. T!Fresh - 1
  BY <1>1, <1>2, <1>3, QuotientBound
<1>5. Number(r) % LowEntries \in 0 .. LowEntries - 1
  <2>1. \A a \in Nat : a % LowEntries \in 0 .. LowEntries - 1
    BY <1>3, DivMod
  <2> QED
    BY <1>2, <2>1
<1> QED
  BY <1>1, <1>2, <1>3, <1>4, <1>5

(* The walk down the tree, at the level that was seen, leads to the entry  *)
(* of the handle in the tree there is now.                                 *)
LEMMA WalkFinds ==
    ASSUME NeedInv, ShapeInv, ReaderInv, NEW r \in Readers, tpc[r] = "walk"
    PROVE  /\ T!TableOf(handle[r], seen[r]) = Number(r) \div LowEntries
           /\ T!IndexOf(handle[r], seen[r]) = Number(r) % LowEntries
<1> DEFINE h == Number(r)
           q == h \div LowEntries
           l == seen[r]
<1>1. /\ h \in Nat /\ handle[r] = 4 * h /\ h < LowEntries * T!Fresh
      /\ q \in 0 .. T!Fresh - 1 /\ q \in Nat
      /\ T!Fresh \in Nat /\ T!Fresh <= MidEntries * HighEntries
  BY NumberFacts
<1>2. level # Null /\ l \in {0, 1, 2} /\ SeenInv(r)
  BY DEF ReaderInv
<1>3. /\ l = 0 => h < LowEntries
      /\ l = 1 => h < LowEntries * MidEntries /\ level # 0
      /\ l = 2 => level # 0
  BY <1>2 DEF SeenInv
<1>4. /\ Made \in Nat /\ T!Fresh <= Made /\ Made <= MidEntries * HighEntries
      /\ level # 0 => mid = Slots(Made)
  BY <1>1, <1>2 DEF ShapeInv, NeedInv, Made
<1>5. T!MidOffset(4 * h) = 4 * q
  BY <1>1, Offsets
<1>6. /\ (4 * q) \div 4 = q
      /\ T!MidIndex(4 * q) \div 4 = q % MidEntries
      /\ T!HighIndex(4 * q) \div 4 = q \div MidEntries
  BY <1>1, Indices
<1>7. q \in 0 .. Made - 1
  BY <1>1, <1>4
<1> HIDE DEF h, q, l
<1>8. Slots(Made)[q \div MidEntries][q % MidEntries] = q
  BY <1>4, <1>7, SlotOf
<1>9. CASE l = 0
  <2>1. q = 0
    <3>1. h < LowEntries * 1
      BY <1>3, <1>9, Sizes
    <3>2. h \div LowEntries \in 0 .. 1 - 1
      BY <1>1, <3>1, Sizes, QuotientBound
    <3> QED
      BY <3>2 DEF q
  <2> QED
    BY <1>1, <1>3, <1>9, <2>1, EntryIndex DEF T!TableOf, h, q, l
<1>10. CASE l = 1
  <2>1. q \in 0 .. MidEntries - 1
    BY <1>1, <1>3, <1>10, Sizes, QuotientBound DEF q
  <2>2. q = MidEntries * 0 + q
    BY <2>1, Sizes
  <2>3. q \div MidEntries = 0 /\ q % MidEntries = q
    BY <2>1, <2>2, Sizes, Quotient
  <2>4. mid[0][q] = q
    BY <1>3, <1>4, <1>8, <1>10, <2>3
  <2>5. T!TableOf(4 * h, 1) = mid[0][q]
    BY <1>5, <1>6 DEF T!TableOf, T!PtrSize
  <2>6. T!IndexOf(4 * h, 1) = h % LowEntries
    BY <1>1, EntryIndex
  <2> QED
    BY <1>1, <1>10, <2>4, <2>5, <2>6 DEF h, q, l
<1>11. CASE l = 2
  <2>1. T!TableOf(4 * h, 2) = mid[q \div MidEntries][q % MidEntries]
    BY <1>5, <1>6 DEF T!TableOf, T!PtrSize
  <2>2. T!TableOf(4 * h, 2) = q
    BY <1>3, <1>4, <1>8, <1>11, <2>1
  <2>3. T!IndexOf(4 * h, 2) = h % LowEntries
    BY <1>1, EntryIndex
  <2> QED
    BY <1>1, <1>11, <2>2, <2>3 DEF h, q, l
<1> QED
  BY <1>2, <1>9, <1>10, <1>11 DEF l

(* The steps of a reader. *)
LEMMA ReadStep ==
    ASSUME NeedInv, ShapeInv, ReaderInv, NEW r \in Readers,
           T!ReadNext(r) \/ T!ReadCode(r) \/ T!Walk(r) \/ T!Done(r)
    PROVE  ReaderInv' /\ UNCHANGED <<level, mid, high, need, growing, tables>>
<1>1. UNCHANGED <<level, mid, high, need, growing, tables>>
  BY DEF T!ReadNext, T!ReadCode, T!Walk, T!Done
<1>2. T!Fresh' = T!Fresh /\ T!LowTables' = T!LowTables
  BY <1>1 DEF T!Fresh, T!LowTables
<1>3. /\ tpc \in [Readers -> {"idle", "code", "walk", "found"}]
      /\ handle \in [Readers -> Nat] /\ seen \in [Readers -> {0, 1, 2}]
      /\ found \in [Readers -> (T!LowTables \X (0 .. LowEntries - 1)) \cup {Null}]
  BY DEF ReaderInv
<1>4. ASSUME NEW x \in Readers, x # r,
             tpc'[x] = tpc[x], handle'[x] = handle[x], seen'[x] = seen[x], found'[x] = found[x]
      PROVE  /\ handle'[x] = 4 * Number(x)' /\ Number(x)' < LowEntries * T!Fresh'
             /\ tpc'[x] # "idle" => level' # Null
             /\ tpc'[x] = "walk" => SeenInv(x)'
             /\ tpc'[x] = "found" =>
                   found'[x] = <<Number(x)' \div LowEntries, Number(x)' % LowEntries>>
  <2>1. Number(x)' = Number(x)
    BY <1>4 DEF Number
  <2>2. SeenInv(x)' <=> SeenInv(x)
    BY <1>1, <1>4, <2>1 DEF SeenInv
  <2> QED
    BY <1>1, <1>2, <1>4, <2>1, <2>2 DEF ReaderInv
<1>5. /\ Number(r) \in Nat /\ handle[r] = 4 * Number(r)
      /\ Number(r) < LowEntries * T!Fresh
      /\ Number(r) \div LowEntries \in 0 .. T!Fresh - 1
      /\ Number(r) % LowEntries \in 0 .. LowEntries - 1
      /\ T!Fresh \in Nat /\ T!Fresh <= MidEntries * HighEntries
  BY NumberFacts
<1>6. LowEntries * T!Fresh \in Nat /\ LowEntries * T!Fresh > 0
  <2>1. LowEntries \in Nat /\ LowEntries >= 1 /\ T!Fresh \in Nat /\ T!Fresh >= 1
    BY Sizes DEF NeedInv
  <2>2. LowEntries * 1 <= LowEntries * T!Fresh /\ LowEntries * T!Fresh \in Int
    BY <2>1, TimesMonotone
  <2> QED
    BY <2>1, <2>2
<1>7. CASE T!ReadNext(r)
  <2>1. /\ tpc[r] = "idle" /\ level # Null /\ UNCHANGED <<seen, found>>
    BY <1>7 DEF T!ReadNext
  <2>2. CASE UNCHANGED <<tpc, handle>>
    BY <1>1, <1>2, <2>1, <2>2, ReadersKept DEF NeedInv
  <2>3. CASE ~UNCHANGED <<tpc, handle>>
    <3>1. PICK h \in 0 .. T!MaxHandle :
             /\ ~(T!SizeOfHandle(h) >= need)
             /\ handle' = [handle EXCEPT ![r] = T!SizeOfHandle(h)]
             /\ tpc' = [tpc EXCEPT ![r] = "code"]
      BY <1>7, <2>3 DEF T!ReadNext, T!Goto
    <3>2. h \in Nat /\ T!SizeOfHandle(h) = 4 * h /\ need = 4 * (LowEntries * T!Fresh)
      BY DEF T!SizeOfHandle, T!PtrSize, NeedInv
    <3>3. h < LowEntries * T!Fresh
      BY <1>6, <3>1, <3>2
    <3>4. handle'[r] = 4 * h /\ tpc'[r] = "code"
      BY <1>3, <3>1, <3>2
    <3>5. (4 * h) \div 4 = h
      BY <3>2
    <3>6. Number(r)' = h
      BY <3>4, <3>5 DEF Number
    <3>7. /\ handle' \in [Readers -> Nat]
          /\ tpc' \in [Readers -> {"idle", "code", "walk", "found"}]
          /\ \A x \in Readers : x # r => tpc'[x] = tpc[x] /\ handle'[x] = handle[x]
      BY <1>3, <3>1, <3>2
    <3> QED
      BY <1>1, <1>2, <1>3, <1>4, <2>1, <3>3, <3>4, <3>6, <3>7 DEF ReaderInv
  <2> QED
    BY <2>2, <2>3
<1>8. CASE T!ReadCode(r)
  <2>1. /\ tpc[r] = "code" /\ seen' = [seen EXCEPT ![r] = level]
        /\ tpc' = [tpc EXCEPT ![r] = "walk"] /\ UNCHANGED <<handle, found>>
    BY <1>8 DEF T!ReadCode, T!Goto
  <2>2. level # Null /\ level \in {0, 1, 2}
    BY <2>1 DEF ReaderInv, NeedInv
  <2>3. Number(r)' = Number(r) /\ tpc'[r] = "walk" /\ seen'[r] = level
    BY <1>3, <2>1 DEF Number
  <2>4. SeenInv(r)'
    <3>1. level = 0 => T!Fresh = 1
      BY <1>5, <2>2 DEF ShapeInv, Made, NeedInv
    <3>2. level = 0 => Number(r) < LowEntries
      BY <1>5, <3>1, Sizes
    <3>3. level = 1 => Number(r) < LowEntries * MidEntries
      <4>1. level = 1 => T!Fresh <= MidEntries
        BY <1>5, <2>2, Sizes DEF ShapeInv, Made, NeedInv
      <4>2. T!Fresh <= MidEntries => LowEntries * T!Fresh <= LowEntries * MidEntries
        BY <1>5, Sizes, TimesMonotone
      <4>3. LowEntries * MidEntries \in Int
        BY Sizes
      <4> QED
        BY <1>5, <1>6, <4>1, <4>2, <4>3
    <3> QED
      BY <1>1, <2>2, <2>3, <3>2, <3>3 DEF SeenInv
  <2>5. /\ seen' \in [Readers -> {0, 1, 2}]
        /\ tpc' \in [Readers -> {"idle", "code", "walk", "found"}]
        /\ \A x \in Readers : x # r => tpc'[x] = tpc[x] /\ seen'[x] = seen[x]
    BY <1>3, <2>1, <2>2
  <2> QED
    BY <1>1, <1>2, <1>3, <1>4, <1>5, <2>1, <2>2, <2>3, <2>4, <2>5 DEF ReaderInv
<1>9. CASE T!Walk(r)
  <2> DEFINE e == <<T!TableOf(handle[r], seen[r]), T!IndexOf(handle[r], seen[r])>>
  <2>1. /\ tpc[r] = "walk" /\ found' = [found EXCEPT ![r] = e]
        /\ tpc' = [tpc EXCEPT ![r] = "found"] /\ UNCHANGED <<handle, seen>>
    BY <1>9 DEF T!Walk, T!Goto
  <2>2. e = <<Number(r) \div LowEntries, Number(r) % LowEntries>>
    BY <2>1, WalkFinds
  <2>3. e \in T!LowTables \X (0 .. LowEntries - 1)
    <3>1. Number(r) \div LowEntries \in T!LowTables
      BY <1>5, Sizes DEF T!LowTables
    <3> QED
      BY <1>5, <2>2, <3>1
  <2> HIDE DEF e
  <2>4. Number(r)' = Number(r) /\ tpc'[r] = "found" /\ found'[r] = e
    BY <1>3, <2>1 DEF Number
  <2>5. /\ found' \in [Readers -> (T!LowTables \X (0 .. LowEntries - 1)) \cup {Null}]
        /\ tpc' \in [Readers -> {"idle", "code", "walk", "found"}]
        /\ \A x \in Readers : x # r => tpc'[x] = tpc[x] /\ found'[x] = found[x]
    BY <1>3, <2>1, <2>3
  <2>6. level # Null
    BY <2>1 DEF ReaderInv
  <2> QED
    BY <1>1, <1>2, <1>3, <1>4, <1>5, <2>1, <2>2, <2>4, <2>5, <2>6 DEF ReaderInv
<1>10. CASE T!Done(r)
  <2>1. /\ tpc' = [tpc EXCEPT ![r] = "idle"] /\ handle' = [handle EXCEPT ![r] = 0]
        /\ seen' = [seen EXCEPT ![r] = 0] /\ found' = [found EXCEPT ![r] = Null]
    BY <1>10 DEF T!Done, T!Goto
  <2>2. handle'[r] = 0 /\ tpc'[r] = "idle" /\ 0 \div 4 = 0 /\ 0 = 4 * 0
    BY <1>3, <2>1
  <2>3. Number(r)' = 0
    BY <2>2 DEF Number
  <2>4. /\ found' \in [Readers -> (T!LowTables \X (0 .. LowEntries - 1)) \cup {Null}]
        /\ tpc' \in [Readers -> {"idle", "code", "walk", "found"}]
        /\ handle' \in [Readers -> Nat] /\ seen' \in [Readers -> {0, 1, 2}]
        /\ \A x \in Readers : x # r =>
              /\ tpc'[x] = tpc[x] /\ found'[x] = found[x]
              /\ handle'[x] = handle[x] /\ seen'[x] = seen[x]
    BY <1>3, <2>1
  <2> QED
    BY <1>1, <1>2, <1>4, <1>6, <2>2, <2>3, <2>4 DEF ReaderInv
<1> QED
  BY <1>1, <1>7, <1>8, <1>9, <1>10

-----------------------------------------------------------------------------
(* The inductive invariant.                                                *)

(* It holds of the single table that ExpAllocateHandleTable makes. *)
LEMMA InitTree == T!Init => TreeInv
<1> SUFFICES ASSUME T!Init PROVE TreeInv
  OBVIOUS
<1>1. /\ level = 0 /\ high = {} /\ growing = FALSE /\ tables = {T!LowTable(0)}
      /\ need = 4 * LowEntries
      /\ mid = [k \in 0 .. HighEntries - 1 |-> [j \in 0 .. MidEntries - 1 |-> Null]]
  BY DEF T!Init, T!SizeOfHandle, T!PtrSize
<1>2. need = 4 * (LowEntries * 1) /\ T!Fresh = 1
  <2>1. need = 4 * (LowEntries * 1)
    BY <1>1, Sizes
  <2>2. (4 * (LowEntries * 1)) \div T!SizeOfHandle(LowEntries) = 1
    BY FreshOf
  <2> QED
    BY <2>1, <2>2 DEF T!Fresh
<1>3. Made = 1 /\ 1 \in 1 .. MidEntries * HighEntries /\ level # Null
  BY <1>1, <1>2, Sizes, NullAssumption DEF Made
<1>4. mid = Slots(0)
  <2>1. ASSUME NEW k \in 0 .. HighEntries - 1, NEW j \in 0 .. MidEntries - 1
        PROVE  ~(MidEntries * k + j < 0)
    BY Sizes
  <2> QED
    BY <1>1, <2>1 DEF Slots
<1>5. tables = AllFor(0, 1)
  <2>1. 0 .. 1 - 1 = {0}
    OBVIOUS
  <2> QED
    BY <1>1, <2>1 DEF AllFor, LowsFor
<1>6. NeedInv
  BY <1>1, <1>2, <1>3 DEF NeedInv
<1>7. ShapeInv
  BY <1>1, <1>3, <1>4, <1>5 DEF ShapeInv
<1>8. FreedInv
  BY <1>3 DEF FreedInv
<1>9. ReaderInv
  <2>1. /\ tpc = [r \in Readers |-> "idle"] /\ handle = [r \in Readers |-> 0]
        /\ seen = [r \in Readers |-> 0] /\ found = [r \in Readers |-> Null]
    BY DEF T!Init
  <2>2. \A r \in Readers : Number(r) = 0
    BY <2>1 DEF Number
  <2>3. 0 < LowEntries * T!Fresh
    BY <1>2, Sizes
  <2> QED
    BY <2>1, <2>2, <2>3 DEF ReaderInv
<1> QED
  BY <1>6, <1>7, <1>8, <1>9 DEF TreeInv

(* A step that leaves the tree and its readers alone. *)
LEMMA TreeStutter ==
    ASSUME TreeInv, UNCHANGED tvars
    PROVE  TreeInv'
<1>1. UNCHANGED <<level, mid, high, need, growing, tables, tpc, handle, seen, found>>
  BY DEF tvars
<1>2. T!Fresh' = T!Fresh /\ T!LowTables' = T!LowTables
  BY <1>1 DEF T!Fresh, T!LowTables
<1>3. Made' = Made
  BY <1>1, <1>2 DEF Made
<1>4. NeedInv' /\ ShapeInv' /\ FreedInv'
  BY <1>1, <1>2, <1>3 DEF TreeInv, NeedInv, ShapeInv, FreedInv
<1>5. ReaderInv'
  BY <1>1, <1>2, <1>4, ReadersKept DEF TreeInv
<1> QED
  BY <1>4, <1>5 DEF TreeInv

(* Every step preserves it. *)
LEMMA NextTree == TreeInv /\ [ANext]_avars => TreeInv'
<1> SUFFICES ASSUME TreeInv, [ANext]_avars PROVE TreeInv'
  OBVIOUS
<1>1. NeedInv /\ ShapeInv /\ FreedInv /\ ReaderInv
  BY DEF TreeInv
<1>2. ASSUME T!GrowToMid \/ T!GrowMid \/ T!GrowToHigh \/ T!GrowHigh PROVE TreeInv'
  <2>1. (NeedInv /\ ShapeInv /\ FreedInv)' /\ T!Fresh' = T!Fresh
    BY <1>1, <1>2, GrowToMidStep, GrowMidStep, GrowToHighStep, GrowHighStep
  <2>2. /\ UNCHANGED <<tpc, handle, seen, found>>
        /\ level' = level \/ (level' \in {1, 2} /\ level \in {0, 1})
    BY <1>2 DEF T!GrowToMid, T!GrowMid, T!GrowToHigh, T!GrowHigh
  <2>3. ReaderInv'
    BY <1>1, <2>1, <2>2, ReadersKept
  <2> QED
    BY <2>1, <2>3 DEF TreeInv
<1>3. ASSUME T!Advance PROVE TreeInv'
  <2>1. (NeedInv /\ ShapeInv /\ FreedInv)' /\ T!Fresh' = T!Fresh + 1
    BY <1>1, <1>3, AdvanceStep
  <2>2. UNCHANGED <<tpc, handle, seen, found>> /\ level' = level
    BY <1>3 DEF T!Advance
  <2>3. ReaderInv'
    BY <1>1, <2>1, <2>2, ReadersKept
  <2> QED
    BY <2>1, <2>3 DEF TreeInv
<1>4. ASSUME T!Free PROVE TreeInv'
  <2>1. (NeedInv /\ ShapeInv /\ FreedInv)' /\ T!Fresh' = T!Fresh
    BY <1>1, <1>4, FreeTreeStep
  <2>2. UNCHANGED <<tpc, handle, seen, found>> /\ \A r \in Readers : tpc[r] = "idle"
    BY <1>4 DEF T!Free
  <2>3. ReaderInv'
    BY <1>1, <2>1, <2>2, ReadersKept
  <2> QED
    BY <2>1, <2>3 DEF TreeInv
<1>5. ASSUME NEW r \in Readers, T!ReadNext(r) \/ T!ReadCode(r) \/ T!Walk(r) \/ T!Done(r)
      PROVE  TreeInv'
  <2>1. ReaderInv' /\ UNCHANGED <<level, mid, high, need, growing, tables>>
    BY <1>1, <1>5, ReadStep
  <2>2. T!Fresh' = T!Fresh /\ T!LowTables' = T!LowTables
    BY <2>1 DEF T!Fresh, T!LowTables
  <2>3. Made' = Made
    BY <2>1, <2>2 DEF Made
  <2>4. NeedInv' /\ ShapeInv' /\ FreedInv'
    BY <1>1, <2>1, <2>2, <2>3 DEF NeedInv, ShapeInv, FreedInv
  <2> QED
    BY <2>1, <2>4 DEF TreeInv
<1>6. CASE T!Next
  BY <1>2, <1>3, <1>4, <1>5, <1>6 DEF T!Next
<1>7. CASE UNCHANGED tvars
  BY <1>7, TreeStutter
<1> QED
  BY <1>6, <1>7 DEF ANext, Lists, Tree, Over, avars

(* The inductive invariant is one. *)
THEOREM TreeInvariance == ASpec => []TreeInv
<1>1. AInit => TreeInv
  BY InitTree DEF AInit
<1> QED
  BY <1>1, NextTree, PTL DEF ASpec

(* ExpLookupHandleTableEntry, which takes no lock, finds the entry of its  *)
(* handle in a tree of whatever size, at whatever level it was when the    *)
(* lookup read TableCode, and whatever was added to it since; and the      *)
(* variables keep their types.                                             *)
THEOREM LookupSafety == ASpec => []LookupExact
<1>1. TreeInv => T!LookupExact
  <2> SUFFICES ASSUME TreeInv, NEW r \in Readers, tpc[r] = "found"
               PROVE  found[r] = <<(handle[r] \div T!SizeOfHandle(1)) \div LowEntries,
                                   (handle[r] \div T!SizeOfHandle(1)) % LowEntries>>
    BY DEF T!LookupExact
  <2>1. T!SizeOfHandle(1) = 4
    BY DEF T!SizeOfHandle, T!PtrSize
  <2> QED
    BY <2>1 DEF TreeInv, ReaderInv, Number
<1>2. TreeInv => T!TypeOK
  <2> SUFFICES ASSUME TreeInv PROVE T!TypeOK
    OBVIOUS
  <2>1. NeedInv /\ ShapeInv /\ FreedInv /\ ReaderInv
    BY DEF TreeInv
  <2>2. /\ T!Fresh \in 1 .. MidEntries * HighEntries
        /\ need = T!SizeOfHandle(LowEntries * T!Fresh)
    BY <2>1 DEF NeedInv, T!SizeOfHandle, T!PtrSize
  <2>3. /\ mid \in [0 .. HighEntries - 1 ->
                     [0 .. MidEntries - 1 -> T!LowTables \cup {Null}]]
        /\ high \subseteq 0 .. HighEntries - 1
    <3>1. CASE level = Null
      BY <2>1, <3>1 DEF FreedInv
    <3>2. CASE level # Null
      <4>1. /\ Made \in 1 .. MidEntries * HighEntries
            /\ mid = Slots(IF level = 0 THEN 0 ELSE Made)
            /\ high = IF level = 2 THEN MidsFor(Made) ELSE {}
        BY <2>1, <3>2 DEF ShapeInv
      <4>2. (IF level = 0 THEN 0 ELSE Made) \in 0 .. MidEntries * HighEntries
        BY <4>1, Sizes
      <4> QED
        BY <4>1, <4>2, SlotsType DEF MidsFor
    <3> QED
      BY <3>1, <3>2
  <2>4. tables \subseteq {T!LowTable(n) : n \in T!LowTables}
                  \cup {T!MidTable(k) : k \in 0 .. HighEntries - 1} \cup {T!HighTable}
    <3>1. CASE level = Null
      BY <2>1, <3>1 DEF FreedInv
    <3>2. CASE level # Null
      <4>1. tables = AllFor(level, Made) /\ Made \in 1 .. MidEntries * HighEntries
        BY <2>1, <3>2 DEF ShapeInv
      <4>2. 0 .. Made - 1 \subseteq T!LowTables
        BY <4>1, Sizes DEF T!LowTables
      <4>3. MidsFor(Made) \subseteq 0 .. HighEntries - 1
        BY DEF MidsFor
      <4> QED
        BY <4>1, <4>2, <4>3 DEF AllFor, LowsFor
    <3> QED
      BY <3>1, <3>2
  <2>5. handle \in [Readers -> 0 .. T!SizeOfHandle(T!MaxHandle)]
    <3>1. ASSUME NEW r \in Readers
          PROVE  handle[r] \in 0 .. T!SizeOfHandle(T!MaxHandle)
      <4>1. /\ Number(r) \in Nat /\ handle[r] = 4 * Number(r)
            /\ Number(r) < LowEntries * T!Fresh
            /\ T!Fresh \in Nat /\ T!Fresh <= MidEntries * HighEntries
        BY <2>1, NumberFacts
      <4>2. /\ LowEntries * T!Fresh <= LowEntries * (MidEntries * HighEntries)
            /\ LowEntries * T!Fresh \in Int
            /\ LowEntries * (MidEntries * HighEntries) \in Int
        BY <4>1, Sizes, TimesMonotone
      <4>3. LowEntries * (MidEntries * HighEntries) = LowEntries * MidEntries * HighEntries
        BY Sizes
      <4> QED
        BY <4>1, <4>2, <4>3 DEF T!SizeOfHandle, T!PtrSize, T!MaxHandle
    <3> QED
      BY <2>1, <3>1 DEF ReaderInv
  <2> QED
    BY <2>1, <2>2, <2>3, <2>4, <2>5 DEF T!TypeOK, NeedInv, ReaderInv
<1>3. TreeInv => LookupExact
  BY <1>1, <1>2 DEF LookupExact
<1> QED
  BY <1>3, TreeInvariance, PTL

(* ExpFreeHandleTable frees every table that the growth of the handle      *)
(* table allocated, although its loops end at the first empty slot.        *)
THEOREM FreeSafety == ASpec => []NoLeak
<1>1. TreeInv => NoLeak
  BY DEF TreeInv, FreedInv, NoLeak, T!NoLeak
<1> QED
  BY <1>1, TreeInvariance, PTL

-----------------------------------------------------------------------------
(* Where an entry is. *)
Places == {"none", "first", "last", "moved", "block", "busy", "open", "lost"}

(* The entries that w places at p. *)
In(w, p) == {e \in Entries : w[e] = p}

(* The list that starts with b is S: its links g are one to one, none      *)
(* leads back to its start, and no part of S is closed under them.         *)
IsList(b, S, g) ==
    /\ b \in S \cup {0}
    /\ \A e \in S : g[e] \in S \cup {0} /\ (g[e] = b => b = 0)
    /\ \A e, f \in S : g[e] = g[f] /\ g[e] # 0 => e = f
    /\ \A R \in SUBSET S :
          b \in R \cup {0} /\ (\A e \in R : g[e] \in R \cup {0}) => R = S

(* t is taking LastFree over to FirstFree, *)
Moving(t) == pc[t] \in {"wait", "waited", "moved"}

(* or putting a new table of entries in front of FirstFree. *)
Adding(t) == pc[t] \in {"link", "publish"}

(* The entries of the table whose first one is h. *)
Span(h) == h .. h + Low - 2

(* Where such tables start. *)
Firsts == {Low * k + 1 : k \in 0 .. MaxTables - 1}

(* Nobody closes a handle. *)
NoClosers == users \cap Closers = {}

(* Who uses the table, and what each thread is doing. *)
RolesInv ==
    /\ users \subseteq Threads
    /\ NoClosers \/ \E c \in Creators : users = {c} \cup Closers
    /\ \A t \in Threads :
          /\ t \notin users => pc[t] = "idle"
          /\ pc[t] \in {"idle", "select", "chain", "push"} \/ t \in Creators
          /\ pc[t] \in {"select", "chain", "push"} => t \in Closers

(* What the local variables hold, by place in the code. *)
LocalsInv ==
    \A t \in Threads :
       /\ flag[t] => pc[t] \in {"link", "publish", "grown", "grew", "unshare", "write",
                                "unlock", "chain", "push"}
       /\ pc[t] \in {"wait", "waited", "moved", "leave", "share", "check", "next", "pop"} =>
             old[t] # 0
       /\ pc[t] \in {"wait", "waited"} => new[t] \in 1 .. Locks - 1

(* The two lists, and the one being moved, have the entries placed there. *)
WLists(w) ==
    /\ \A e \in Entries : w[e] = "none" <=> e >= pool
    /\ IsList(firstFree, In(w, "first"), nextFree)
    /\ IsList(lastFree, In(w, "last"), nextFree)
    /\ \A t \in Threads : Moving(t) => IsList(old[t], In(w, "moved"), nextFree)

(* An entry in use is in one thread's hands, or open. *)
WHands(w) ==
    /\ open = In(w, "open")
    /\ \A t \in Busy : old[t] \in In(w, "busy")
    /\ \A e \in In(w, "busy") : \E t \in Busy : old[t] = e
    /\ \A t, u \in Busy : old[t] = old[u] => t = u
    /\ \A t \in Threads : pc[t] = "push" => nextFree[old[t]] = new[t]

(* A new table is one thread's until it is published. *)
WBlocks(w) ==
    /\ \A t \in Threads : Adding(t) => new[t] \in Firsts /\ Span(new[t]) \subseteq In(w, "block")
    /\ \A e \in In(w, "block") : \E t \in Threads : Adding(t) /\ e \in Span(new[t])
    /\ \A t, u \in Threads : Adding(t) /\ Adding(u) /\ new[t] = new[u] => t = u
    /\ \A t \in Threads : Adding(t) =>
          \A e \in Span(new[t]) : e # new[t] + Low - 2 => nextFree[e] = e + 1
    /\ \A t \in Threads : pc[t] = "publish" => nextFree[new[t] + Low - 2] = old[t]

(* The candidate of a pop, once its link is read, is on the list with that *)
(* link or, where nobody closes, will never be on it again: the exchange   *)
(* that compares the head alone cannot be taken in.                        *)
WPops(w) ==
    \A t \in Threads :
       /\ pc[t] \in {"next", "pop"} =>
             w[old[t]] = "first" \/ (NoClosers /\ w[old[t]] \in {"busy", "open"})
       /\ pc[t] = "pop" /\ w[old[t]] = "first" => new[t] = nextFree[old[t]]

(* Where nobody closes, nothing is lost. *)
WAll(w) == NoClosers => /\ lastFree = 0 /\ \A t \in Threads : ~Moving(t)
                        /\ \A e \in Entries : w[e] \notin {"last", "moved", "lost"}

Sorted(w) == WLists(w) /\ WHands(w) /\ WBlocks(w) /\ WPops(w) /\ WAll(w)

HInv == TypeOK /\ RolesInv /\ LocalsInv /\ \E w \in [Entries -> Places] : Sorted(w)

-----------------------------------------------------------------------------
(* A set of numbers has a least one. *)
LEMMA LeastNumber ==
    ASSUME NEW S \in SUBSET Nat, S # {}
    PROVE  \E x \in S : \A y \in S : x <= y
<1> DEFINE R == OpToRel(<, Nat)
<1>1. \E x \in S : \A y \in S : ~ (<<y, x>> \in R)
  BY NatLessThanWellFounded, WFMin
<1>2. \A x, y \in Nat : <<y, x>> \in R <=> y < x
  BY DEF OpToRel
<1> HIDE DEF R
<1>3. PICK x \in S : \A y \in S : ~ (<<y, x>> \in R)
  BY <1>1
<1>4. ASSUME NEW y \in S PROVE x <= y
  <2>1. ~(y < x) /\ x \in Nat /\ y \in Nat
    BY <1>2, <1>3
  <2> QED
    BY <2>1
<1> QED
  BY <1>4

(* An entry is a positive number, inside the table. *)
LEMMA EntryFacts ==
    /\ 0 \notin Entries /\ Access \notin Entries /\ Access \in Nat
    /\ \A e \in Entries : e \in Nat /\ e > 0 /\ e < Low * MaxTables
    /\ Low \in Nat /\ Low > 2 /\ MaxTables \in Nat /\ MaxTables > 0
<1>1. Low * MaxTables \in Nat
  BY SizeAssumption
<1> QED
  BY <1>1, SizeAssumption DEF Entries, Access

(* The k-th table of entries. *)
LEMMA SpanIs ==
    ASSUME NEW k \in 0 .. MaxTables - 1, NEW h, h = Low * k + 1
    PROVE  /\ h \in Nat /\ h > 0 /\ h \in Span(h) /\ h + Low - 2 \in Span(h)
           /\ Span(h) \subseteq Entries
           /\ Span(h) = {e \in Entries : e \div Low = k}
           /\ h \div Low = k /\ Low * k \in Nat
           /\ \A e \in Span(h) : e \in Nat /\ e >= h /\ e <= h + Low - 2 /\ e > Low * k
<1>1. Low \in Nat \ {0} /\ Low > 2 /\ k \in Nat /\ Low * k \in Nat /\ Low * MaxTables \in Nat
  BY SizeAssumption
<1>2. Low * k + Low <= Low * MaxTables
  BY <1>1, SizeAssumption, TimesStrict
<1>3. ASSUME NEW r \in 0 .. Low - 1
      PROVE  (Low * k + r) \div Low = k /\ (Low * k + r) % Low = r
  <2>1. k \in Int /\ Low \in Nat \ {0}
    BY <1>1
  <2> QED
    BY <2>1, Quotient
<1>4. ASSUME NEW e \in Span(h) PROVE e \in Entries /\ e \div Low = k /\ e > Low * k
  <2>1. PICK r \in 1 .. Low - 1 : e = Low * k + r
    <3>1. e - Low * k \in 1 .. Low - 1 /\ e = Low * k + (e - Low * k)
      BY <1>1, <1>4 DEF Span
    <3> QED
      BY <3>1
  <2>2. r \in 0 .. Low - 1 /\ r # 0
    BY <1>1
  <2>3. e \div Low = k /\ e % Low = r
    BY <1>3, <2>1, <2>2
  <2> QED
    BY <1>1, <1>2, <2>1, <2>2, <2>3 DEF Entries
<1>5. ASSUME NEW e \in Entries, e \div Low = k PROVE e \in Span(h)
  <2>1. e \in Nat /\ e % Low # 0
    BY EntryFacts DEF Entries
  <2>2. e = Low * k + (e % Low) /\ e % Low \in 0 .. Low - 1
    <3>1. e = Low * (e \div Low) + (e % Low) /\ e % Low \in 0 .. Low - 1
      <4>1. e \in Int /\ Low \in Nat \ {0}
        BY <1>1, <2>1
      <4> QED
        BY <4>1, DivMod
    <3> QED
      BY <1>5, <3>1
  <2> QED
    BY <1>1, <2>1, <2>2 DEF Span
<1>6. h \div Low = k
  BY <1>1, <1>3
<1>7. h \in Nat /\ h > 0 /\ h \in Span(h) /\ h + Low - 2 \in Span(h)
  BY <1>1 DEF Span
<1>8. \A e \in Span(h) : e \in Nat /\ e >= h /\ e <= h + Low - 2
  BY <1>7 DEF Span
<1> QED
  BY <1>1, <1>4, <1>5, <1>6, <1>7, <1>8

(* A list depends on the links of its entries only. *)
LEMMA ListKept ==
    ASSUME NEW b, NEW S, NEW g, NEW f, IsList(b, S, g), \A e \in S : f[e] = g[e]
    PROVE  IsList(b, S, f)
BY DEF IsList

(* The empty list. *)
LEMMA ListNone ==
    ASSUME NEW S, NEW g, IsList(0, S, g), 0 \notin S PROVE S = {}
<1>1. {} \in SUBSET S
  OBVIOUS
<1> QED
  BY <1>1 DEF IsList

(* The first entry is taken off a list. *)
LEMMA ListPop ==
    ASSUME NEW S \in SUBSET Entries, NEW g, NEW b \in S, IsList(b, S, g)
    PROVE  IsList(g[b], S \ {b}, g)
<1>0. 0 \notin S
  BY EntryFacts
<1>1. g[b] \in (S \ {b}) \cup {0}
  BY <1>0 DEF IsList
<1>2. \A e \in S \ {b} : g[e] \in (S \ {b}) \cup {0} /\ (g[e] = g[b] => g[b] = 0)
  BY <1>0 DEF IsList
<1>3. \A e, f \in S \ {b} : g[e] = g[f] /\ g[e] # 0 => e = f
  BY DEF IsList
<1>4. ASSUME NEW R \in SUBSET (S \ {b}), g[b] \in R \cup {0}, \A e \in R : g[e] \in R \cup {0}
      PROVE  R = S \ {b}
  <2>1. /\ R \cup {b} \in SUBSET S
        /\ b \in R \cup {b}
        /\ \A e \in R \cup {b} : g[e] \in (R \cup {b}) \cup {0}
    BY <1>4
  <2>2. R \cup {b} = S
    BY <2>1 DEF IsList
  <2> QED
    BY <2>2
<1> QED
  BY <1>1, <1>2, <1>3, <1>4 DEF IsList

(* An entry is put before a list. *)
LEMMA ListPush ==
    ASSUME NEW S \in SUBSET Entries, NEW g, NEW b, IsList(b, S, g),
           NEW h \in Entries, h \notin S, g[h] = b
    PROVE  IsList(h, S \cup {h}, g)
<1>0. 0 \notin S /\ h # 0
  BY EntryFacts
<1>1. h \in S \cup {h} \cup {0}
  OBVIOUS
<1>2. \A e \in S \cup {h} : g[e] \in S \cup {h} \cup {0} /\ (g[e] = h => h = 0)
  BY <1>0 DEF IsList
<1>3. \A e, f \in S \cup {h} : g[e] = g[f] /\ g[e] # 0 => e = f
  BY DEF IsList
<1>4. ASSUME NEW R \in SUBSET (S \cup {h}), h \in R \cup {0}, \A e \in R : g[e] \in R \cup {0}
      PROVE  R = S \cup {h}
  <2>1. R \ {h} \in SUBSET S /\ h \in R
    BY <1>0, <1>4
  <2>2. b \in (R \ {h}) \cup {0} /\ \A e \in R \ {h} : g[e] \in (R \ {h}) \cup {0}
    BY <1>0, <1>4, <2>1 DEF IsList
  <2>3. R \ {h} = S
    BY <2>1, <2>2 DEF IsList
  <2> QED
    BY <2>1, <2>3
<1> QED
  BY <1>1, <1>2, <1>3, <1>4 DEF IsList

(* A new table, each of its entries linked to the next one, is put before  *)
(* a list.                                                                 *)
LEMMA ListAdd ==
    ASSUME NEW S \in SUBSET Entries, NEW g, NEW b, IsList(b, S, g),
           NEW h \in Firsts, Span(h) \cap S = {},
           \A e \in Span(h) : e # h + Low - 2 => g[e] = e + 1,
           g[h + Low - 2] = b
    PROVE  IsList(h, S \cup Span(h), g)
<1> DEFINE l == h + Low - 2
<1>1. PICK k \in 0 .. MaxTables - 1 : h = Low * k + 1
  BY DEF Firsts
<1>2. /\ h \in Nat /\ h > 0 /\ h \in Span(h) /\ l \in Span(h)
      /\ \A e \in Span(h) : e \in Nat /\ e >= h /\ e <= l
      /\ Span(h) \subseteq Entries
  BY <1>1, SpanIs
<1>3. /\ Low \in Nat /\ Low > 2 /\ l \in Nat
      /\ \A e \in Nat : e \in Span(h) <=> (e >= h /\ e <= l)
  BY <1>2, EntryFacts DEF Span
<1>4. \A e \in Span(h) : e # l => g[e] = e + 1
  OBVIOUS
<1>5. g[l] = b
  OBVIOUS
<1>6. 0 \notin S /\ 0 \notin Span(h)
  BY <1>2, EntryFacts
<1> HIDE DEF l
<1>7. \A e \in Span(h) : e # l => e + 1 \in Span(h) /\ e + 1 # h /\ e + 1 # 0
  BY <1>2, <1>3
<1>8. b \in S \cup {0} /\ (\A e \in S : g[e] \in S \cup {0} /\ (g[e] = b => b = 0))
  BY DEF IsList
<1>9. \A e \in S \cup Span(h) : g[e] \in S \cup Span(h) \cup {0} /\ g[e] # h
  <2>1. ASSUME NEW e \in S PROVE g[e] \in S \cup Span(h) \cup {0} /\ g[e] # h
    BY <1>2, <1>6, <1>8
  <2>2. ASSUME NEW e \in Span(h), e # l PROVE g[e] \in S \cup Span(h) \cup {0} /\ g[e] # h
    BY <1>4, <1>7, <2>2
  <2>3. g[l] \in S \cup Span(h) \cup {0} /\ g[l] # h
    BY <1>2, <1>5, <1>6, <1>8
  <2> QED
    BY <2>1, <2>2, <2>3
<1>10. \A e, f \in S \cup Span(h) : g[e] = g[f] /\ g[e] # 0 => e = f
  <2> SUFFICES ASSUME NEW e \in S \cup Span(h), NEW f \in S \cup Span(h), g[e] = g[f], g[e] # 0
               PROVE  e = f
    OBVIOUS
  <2>1. CASE e \in S /\ f \in S
    BY <2>1 DEF IsList
  <2>2. ASSUME NEW x \in S, NEW y \in Span(h) PROVE ~(g[x] = g[y] /\ g[x] # 0)
    <3>1. CASE y = l
      BY <1>5, <1>8, <3>1
    <3>2. CASE y # l
      BY <1>4, <1>6, <1>7, <1>8, <3>2
    <3> QED
      BY <3>1, <3>2
  <2>3. CASE e \in Span(h) /\ f \in Span(h)
    <3>1. CASE e = l \/ f = l
      BY <1>4, <1>5, <1>7, <1>8, <2>3, <3>1
    <3>2. CASE e # l /\ f # l
      <4>1. e + 1 = f + 1 /\ e \in Nat /\ f \in Nat
        BY <1>2, <1>4, <2>3, <3>2
      <4> QED
        BY <4>1
    <3> QED
      BY <3>1, <3>2
  <2> QED
    BY <2>1, <2>2, <2>3
<1>11. ASSUME NEW R \in SUBSET (S \cup Span(h)), h \in R \cup {0}, \A e \in R : g[e] \in R \cup {0}
       PROVE  R = S \cup Span(h)
  <2>1. Span(h) \subseteq R
    <3> DEFINE D == Span(h) \ R
    <3> SUFFICES ASSUME D # {} PROVE FALSE
      OBVIOUS
    <3>1. D \in SUBSET Nat
      BY <1>2
    <3>2. PICK x \in D : \A y \in D : x <= y
      BY <3>1, LeastNumber
    <3>3. x \in Nat /\ x >= h /\ x <= l /\ x # h
      BY <1>2, <1>11, <3>2
    <3>4. x - 1 \in Nat /\ x - 1 \in Span(h) /\ x - 1 # l /\ ~(x <= x - 1)
      BY <1>2, <1>3, <3>3
    <3>5. x - 1 \in R
      BY <3>2, <3>4
    <3>6. g[x - 1] = x
      BY <1>4, <3>3, <3>4
    <3>7. x # 0 /\ x \notin R
      BY <1>2, <3>2, <3>3
    <3> QED
      BY <1>11, <3>5, <3>6, <3>7
  <2>2. l \in R
    BY <1>2, <2>1
  <2>3. b \in (R \cap S) \cup {0}
    BY <1>2, <1>5, <1>8, <1>11, <2>2
  <2>4. \A e \in R \cap S : g[e] \in (R \cap S) \cup {0}
    BY <1>8, <1>11
  <2>5. R \cap S = S
    BY <2>3, <2>4 DEF IsList
  <2> QED
    BY <2>1, <2>5
<1> QED
  BY <1>2, <1>9, <1>10, <1>11 DEF IsList

(* The entries that a list leads to are its own. *)
LEMMA ListIs ==
    ASSUME NEW b, NEW S \in SUBSET Entries, IsList(b, S, nextFree)
    PROVE  ListFrom(b) = S
<1>0. 0 \notin Entries
  BY EntryFacts
<1>1. (b \in Entries => b \in S) /\ Closed(S)
  BY <1>0 DEF IsList, Closed
<1>2. ASSUME NEW R \in SUBSET Entries, b \in Entries => b \in R, Closed(R)
      PROVE  S \subseteq R
  <2>1. b \in (R \cap S) \cup {0} /\ \A e \in R \cap S : nextFree[e] \in (R \cap S) \cup {0}
    BY <1>2 DEF IsList, Closed
  <2> QED
    BY <2>1 DEF IsList
<1> QED
  BY <1>1, <1>2 DEF ListFrom

(* What the local variable new may hold. *)
News == Entries \cup (0 .. Locks - 1) \cup {Access}

(* Where in the code a thread has an entry of its own in old. *)
BusyAt(l, f) == \/ l \in {"write", "unlock"} \/ (l = "unshare" /\ f)
                \/ l \in {"select", "chain", "push"}

(* The busy threads are those there. *)
LEMMA BusyIs == \A t : t \in Busy <=> t \in Threads /\ BusyAt(pc[t], flag[t])
BY DEF Busy, Creating, Freeing, BusyAt

(* What a step of t does to the local variables. *)
Locally(t, l, o, n, f) ==
    /\ pc' = [pc EXCEPT ![t] = l] /\ old' = [old EXCEPT ![t] = o]
    /\ new' = [new EXCEPT ![t] = n] /\ flag' = [flag EXCEPT ![t] = f]

(* Steps of a thread that leave the table and the hands of the thread as   *)
(* they are: where t goes, and what it takes along.                        *)
MoveOK(t, l, o, n, f) ==
    /\ l \in {"idle", "select", "chain"} \/ t \in Creators
    /\ l \in {"select", "chain"} => t \in Closers
    /\ f => l \in {"grown", "grew", "link", "unshare", "write", "unlock", "chain"}
    /\ l \in {"wait", "waited", "moved", "leave", "share", "check", "next", "pop"} => o # 0
    /\ l \in {"wait", "waited"} => n \in 1 .. Locks - 1
    /\ l \in {"wait", "waited", "moved"} => Moving(t) /\ o = old[t]
    /\ BusyAt(l, f) => t \in Busy /\ o = old[t]
    /\ t \in Busy => BusyAt(l, f)
    /\ l \notin {"push", "publish"}
    /\ l = "link" => Adding(t) /\ n = new[t]
    /\ Adding(t) => l = "link"
    /\ l = "next" => o = firstFree
    /\ l = "pop" => pc[t] = "next" /\ o = old[t] /\ n = nextFree[o]

(* Such a step preserves the invariant. *)
LEMMA HMoveInv ==
    ASSUME HInv, NEW t \in users, NEW l \in PCs, NEW o \in Entries \cup {0}, NEW n \in News,
           NEW f \in BOOLEAN, Locally(t, l, o, n, f), MoveOK(t, l, o, n, f),
           UNCHANGED <<firstFree, lastFree, nextFree, value, pool, open, users>>
    PROVE  HInv'
<1> USE DEF HInv, Locally, MoveOK
<1>0. t \in Threads /\ users \subseteq Threads
  BY DEF RolesInv
<1>1. /\ pc'[t] = l /\ old'[t] = o /\ new'[t] = n /\ flag'[t] = f
      /\ \A u \in Threads \ {t} : /\ pc'[u] = pc[u] /\ old'[u] = old[u]
                                  /\ new'[u] = new[u] /\ flag'[u] = flag[u]
  BY <1>0 DEF TypeOK
<1>2. TypeOK'
  BY <1>0 DEF TypeOK, News
<1>3. RolesInv'
  BY <1>0, <1>1 DEF RolesInv, NoClosers
<1>4. LocalsInv'
  BY <1>0, <1>1 DEF LocalsInv
<1>5. PICK w \in [Entries -> Places] : Sorted(w)
  OBVIOUS
<1> USE DEF Sorted
<1>6. WLists(w)'
  <2>1. \A u \in Threads : Moving(u)' => Moving(u) /\ old'[u] = old[u]
    BY <1>1 DEF Moving
  <2> QED
    BY <1>5, <2>1 DEF WLists, In
<1>7. /\ \A u \in Threads : u \in Busy' <=> u \in Busy
      /\ \A u \in Busy : old'[u] = old[u] /\ u \in Threads
  <2>1. \A u : u \in Busy' <=> u \in Threads /\ BusyAt(pc'[u], flag'[u])
    BY DEF Busy, Creating, Freeing, BusyAt
  <2> QED
    BY <1>1, <2>1, BusyIs
<1>8. WHands(w)'
  <2>1. Busy' = Busy
    BY <1>7 DEF Busy
  <2>2. open' = In(w, "open") /\ (\A u \in Busy' : old'[u] \in In(w, "busy"))
    BY <1>5, <1>7, <2>1 DEF WHands
  <2>3. \A e \in In(w, "busy") : \E u \in Busy' : old'[u] = e
    BY <1>5, <1>7, <2>1 DEF WHands
  <2>4. \A v, u \in Busy' : old'[v] = old'[u] => v = u
    BY <1>5, <1>7, <2>1 DEF WHands
  <2>5. \A u \in Threads : pc'[u] = "push" => nextFree[old'[u]] = new'[u]
    BY <1>1, <1>5 DEF WHands
  <2> QED
    BY <2>2, <2>3, <2>4, <2>5 DEF WHands, In
<1>9. WBlocks(w)'
  <2>1. \A u \in Threads : (Adding(u)' <=> Adding(u)) /\ (Adding(u) => new'[u] = new[u])
    BY <1>1 DEF Adding
  <2>2. \A u \in Threads : pc'[u] = "publish" => pc[u] = "publish" /\ old'[u] = old[u]
    BY <1>1
  <2>3. \A u \in Threads : pc'[u] = "publish" => Adding(u)
    BY <2>2 DEF Adding
  <2> QED
    BY <1>5, <2>1, <2>2, <2>3 DEF WBlocks, In
<1>10. WPops(w)'
  <2> SUFFICES ASSUME NEW u \in Threads
               PROVE  /\ pc'[u] \in {"next", "pop"} =>
                            w[old'[u]] = "first" \/ (NoClosers /\ w[old'[u]] \in {"busy", "open"})
                      /\ pc'[u] = "pop" /\ w[old'[u]] = "first" => new'[u] = nextFree[old'[u]]
    BY DEF WPops, NoClosers
  <2>1. CASE u # t
    BY <1>1, <1>5, <2>1 DEF WPops
  <2>2. CASE u = t /\ l = "next"
    <3>1. firstFree \in In(w, "first")
      BY <1>5, <2>2 DEF WLists, IsList
    <3> QED
      BY <1>1, <2>2, <3>1 DEF In
  <2>3. CASE u = t /\ l = "pop"
    BY <1>1, <1>5, <2>3 DEF WPops
  <2>4. CASE u = t /\ l \notin {"next", "pop"}
    BY <1>1, <2>4
  <2> QED
    BY <2>1, <2>2, <2>3, <2>4
<1>11. WAll(w)'
  <2>1. \A u \in Threads : Moving(u)' => Moving(u)
    BY <1>1 DEF Moving
  <2> QED
    BY <1>5, <2>1 DEF WAll, NoClosers
<1>12. Sorted(w)'
  BY <1>6, <1>8, <1>9, <1>10, <1>11
<1> QED
  BY <1>2, <1>3, <1>4, <1>12

(* What a step of t leaves to the other threads. *)
Others(t) == \A u \in Threads \ {t} : /\ pc'[u] = pc[u] /\ old'[u] = old[u]
                                      /\ new'[u] = new[u] /\ flag'[u] = flag[u]

(* How the set of the busy threads changes. *)
LEMMA BusyStep ==
    ASSUME NEW t \in Threads, Others(t)
    PROVE  /\ \A u \in Threads \ {t} : u \in Busy' <=> u \in Busy
           /\ t \in Busy' <=> BusyAt(pc'[t], flag'[t])
           /\ Busy \subseteq Threads /\ Busy' \subseteq Threads
<1>1. \A u : u \in Busy' <=> u \in Threads /\ BusyAt(pc'[u], flag'[u])
  BY DEF Busy, Creating, Freeing, BusyAt
<1> QED
  BY <1>1, BusyIs DEF Others

(* What t may do depends on its role. *)
LEMMA HFrame ==
    ASSUME HInv, NEW t \in users, NEW l \in PCs, NEW o \in Entries \cup {0}, NEW n \in News,
           NEW f \in BOOLEAN, Locally(t, l, o, n, f), users' = users,
           l \in {"idle", "select", "chain", "push"} \/ t \in Creators,
           l \in {"select", "chain", "push"} => t \in Closers,
           f => l \in {"link", "publish", "grown", "grew", "unshare", "write", "unlock",
                       "chain", "push"},
           l \in {"wait", "waited", "moved", "leave", "share", "check", "next", "pop"} => o # 0,
           l \in {"wait", "waited"} => n \in 1 .. Locks - 1
    PROVE  /\ t \in Threads /\ Others(t)
           /\ pc'[t] = l /\ old'[t] = o /\ new'[t] = n /\ flag'[t] = f
           /\ pc' \in [Threads -> PCs] /\ old' \in [Threads -> Entries \cup {0}]
           /\ new' \in [Threads -> Entries \cup (0 .. Locks - 1) \cup {Access}]
           /\ flag' \in [Threads -> BOOLEAN]
           /\ RolesInv' /\ LocalsInv'
<1> USE DEF HInv
<1>0. t \in Threads
  BY DEF RolesInv
<1>1. /\ pc'[t] = l /\ old'[t] = o /\ new'[t] = n /\ flag'[t] = f /\ Others(t)
  BY <1>0 DEF TypeOK, Others, Locally
<1>2. /\ pc' \in [Threads -> PCs] /\ old' \in [Threads -> Entries \cup {0}]
      /\ new' \in [Threads -> Entries \cup (0 .. Locks - 1) \cup {Access}]
      /\ flag' \in [Threads -> BOOLEAN]
  BY <1>0 DEF TypeOK, Locally, News
<1>3. RolesInv'
  BY <1>0, <1>1 DEF RolesInv, NoClosers, Others
<1>4. LocalsInv'
  BY <1>0, <1>1 DEF LocalsInv, Others
<1> QED
  BY <1>0, <1>1, <1>2, <1>3, <1>4

(* Nothing about the tables that are being added changes. *)
LEMMA BlocksKept ==
    ASSUME NEW w, NEW z, WBlocks(w), NEW t \in Threads, Others(t),
           pc[t] \notin {"link", "publish"}, pc'[t] \notin {"link", "publish"},
           In(z, "block") = In(w, "block"),
           \A e \in In(w, "block") : nextFree'[e] = nextFree[e]
    PROVE  WBlocks(z)'
<1>1. /\ \A u \in Threads : Adding(u)' <=> Adding(u)
      /\ \A u \in Threads : Adding(u) => new'[u] = new[u] /\ old'[u] = old[u]
      /\ \A u \in Threads : pc'[u] = "publish" => pc[u] = "publish" /\ Adding(u)
  BY DEF Adding, Others
<1>2. \A u \in Threads : Adding(u)' =>
         new'[u] \in Firsts /\ Span(new'[u]) \subseteq In(z, "block")
  BY <1>1 DEF WBlocks
<1>3. \A e \in In(z, "block") : \E u \in Threads : Adding(u)' /\ e \in Span(new'[u])
  BY <1>1 DEF WBlocks
<1>4. \A v, u \in Threads : Adding(v)' /\ Adding(u)' /\ new'[v] = new'[u] => v = u
  BY <1>1 DEF WBlocks
<1>5. \A u \in Threads : Adding(u)' =>
         \A e \in Span(new'[u]) : e # new'[u] + Low - 2 => nextFree'[e] = e + 1
  BY <1>1 DEF WBlocks
<1>6. \A u \in Threads : pc'[u] = "publish" => nextFree'[new'[u] + Low - 2] = old'[u]
  <2> SUFFICES ASSUME NEW u \in Threads, pc'[u] = "publish"
               PROVE  nextFree'[new'[u] + Low - 2] = old'[u]
    OBVIOUS
  <2>1. Adding(u) /\ pc[u] = "publish" /\ new'[u] = new[u] /\ old'[u] = old[u]
    BY <1>1
  <2>2. PICK k \in 0 .. MaxTables - 1 : new[u] = Low * k + 1
    BY <2>1 DEF WBlocks, Firsts
  <2>3. new[u] + Low - 2 \in Span(new[u])
    BY <2>2, SpanIs
  <2> QED
    BY <2>1, <2>3 DEF WBlocks
<1> QED
  BY <1>2, <1>3, <1>4, <1>5, <1>6 DEF WBlocks, In

(* What the threads that allocate have read stays true. *)
LEMMA PopsKept ==
    ASSUME TypeOK, LocalsInv, NEW w, NEW z, WPops(w), NEW t \in Threads, Others(t),
           pc'[t] \notin {"next", "pop"}, users' = users,
           \A e \in Entries : w[e] = "first" => z[e] = "first" /\ nextFree'[e] = nextFree[e],
           NoClosers => \A e \in Entries : w[e] \in {"busy", "open"} => z[e] \in {"busy", "open"}
    PROVE  WPops(z)'
<1> SUFFICES ASSUME NEW u \in Threads
             PROVE  /\ pc'[u] \in {"next", "pop"} =>
                          z[old'[u]] = "first" \/ (NoClosers /\ z[old'[u]] \in {"busy", "open"})
                    /\ pc'[u] = "pop" /\ z[old'[u]] = "first" => new'[u] = nextFree'[old'[u]]
  BY DEF WPops, NoClosers
<1>1. CASE u = t
  BY <1>1
<1>2. CASE u # t /\ pc[u] \notin {"next", "pop"}
  BY <1>2 DEF Others
<1>3. CASE u # t /\ pc[u] \in {"next", "pop"}
  <2>1. old[u] \in Entries
    BY <1>3 DEF TypeOK, LocalsInv
  <2> QED
    BY <1>3, <2>1 DEF WPops, Others
<1> QED
  BY <1>1, <1>2, <1>3

(* No thread begins to move the freed entries, and none is freed. *)
LEMMA AllKept ==
    ASSUME NEW w, NEW z, WAll(w), NEW t \in Threads, Others(t), users' = users,
           lastFree' = lastFree \/ ~NoClosers, pc'[t] \notin {"wait", "waited", "moved"},
           \A e \in Entries : z[e] \in {"last", "moved", "lost"} => z[e] = w[e] \/ ~NoClosers
    PROVE  WAll(z)'
<1>1. \A u \in Threads : Moving(u)' => Moving(u)
  BY DEF Moving, Others
<1> QED
  BY <1>1 DEF WAll, NoClosers

(* The compare-exchange takes the first free entry. *)
LEMMA HPopInv ==
    ASSUME HInv, NEW t \in users, Pop(t), firstFree = old[t], users' = users
    PROVE  HInv'
<1> USE DEF HInv
<1>0. t \in Threads /\ t \in Creators
  BY DEF RolesInv, Pop
<1>1. /\ pc[t] = "pop" /\ pc'[t] = "unshare" /\ old' = old /\ new'[t] = 0 /\ flag'[t] = TRUE
      /\ Others(t) /\ firstFree' = new[t]
      /\ UNCHANGED <<lastFree, nextFree, value, pool, open>>
  BY <1>0 DEF Pop, Pops, Goto, TypeOK, Others
<1>2. PICK w \in [Entries -> Places] : Sorted(w)
  OBVIOUS
<1>3. PICK h \in Entries : h = old[t]
  BY <1>0, <1>1 DEF LocalsInv, TypeOK
<1>4. h \in In(w, "first") /\ w[h] = "first"
  BY <1>2, <1>3, EntryFacts DEF Sorted, WLists, IsList, In
<1>5. new[t] = nextFree[h]
  BY <1>0, <1>1, <1>2, <1>3, <1>4 DEF Sorted, WPops
<1> DEFINE z == [w EXCEPT ![h] = "busy"]
<1>6. /\ z \in [Entries -> Places] /\ z[h] = "busy" /\ \A e \in Entries \ {h} : z[e] = w[e]
  BY <1>3 DEF Places
<1>7. /\ In(z, "first") = In(w, "first") \ {h} /\ In(z, "busy") = In(w, "busy") \cup {h}
      /\ \A p \in Places \ {"first", "busy"} : In(z, p) = In(w, p)
  BY <1>3, <1>4, <1>6 DEF In
<1>8. h \notin In(w, "busy")
  BY <1>4 DEF In
<1> HIDE DEF z
<1>9. WLists(z)'
  <2>1. \A e \in Entries : z[e] = "none" <=> e >= pool
    BY <1>2, <1>4, <1>6 DEF Sorted, WLists
  <2>2. IsList(new[t], In(z, "first"), nextFree)
    <3>1. In(w, "first") \in SUBSET Entries /\ IsList(h, In(w, "first"), nextFree)
      BY <1>2, <1>3 DEF Sorted, WLists, In
    <3> QED
      BY <1>4, <1>5, <1>7, <3>1, ListPop
  <2>3. IsList(lastFree, In(z, "last"), nextFree)
    BY <1>2, <1>7 DEF Sorted, WLists, Places
  <2>4. \A u \in Threads : Moving(u)' => IsList(old[u], In(z, "moved"), nextFree)
    <3>1. \A u \in Threads : Moving(u)' => Moving(u)
      BY <1>1 DEF Moving, Others
    <3> QED
      BY <1>2, <1>7, <3>1 DEF Sorted, WLists, Places
  <2> QED
    BY <1>1, <2>1, <2>2, <2>3, <2>4 DEF WLists, In
<1>10. WHands(z)'
  <2>1. /\ \A u \in Threads \ {t} : u \in Busy' <=> u \in Busy
        /\ t \in Busy' /\ t \notin Busy
        /\ Busy \subseteq Threads /\ Busy' \subseteq Threads
    BY <1>0, <1>1, BusyStep, BusyIs DEF BusyAt
  <2>2. open' = In(z, "open")
    BY <1>1, <1>2, <1>7 DEF Sorted, WHands, Places
  <2>3. \A u \in Busy' : old[u] \in In(z, "busy")
    BY <1>2, <1>3, <1>7, <2>1 DEF Sorted, WHands
  <2>4. \A e \in In(z, "busy") : \E u \in Busy' : old[u] = e
    BY <1>2, <1>3, <1>7, <2>1 DEF Sorted, WHands
  <2>5. \A v, u \in Busy' : old[v] = old[u] => v = u
    BY <1>2, <1>3, <1>8, <2>1 DEF Sorted, WHands
  <2>6. \A u \in Threads : pc'[u] = "push" => nextFree[old[u]] = new'[u]
    BY <1>1, <1>2 DEF Sorted, WHands, Others
  <2> QED
    BY <1>1, <2>2, <2>3, <2>4, <2>5, <2>6 DEF WHands, In
<1>11. WBlocks(z)'
  <2>1. /\ \A u \in Threads : Adding(u)' <=> Adding(u)
        /\ \A u \in Threads : Adding(u) => new'[u] = new[u]
        /\ \A u \in Threads : pc'[u] = "publish" => pc[u] = "publish" /\ Adding(u)
    BY <1>0, <1>1 DEF Adding, Others
  <2>2. In(z, "block") = In(w, "block")
    BY <1>7 DEF Places
  <2> QED
    BY <1>1, <1>2, <2>1, <2>2 DEF Sorted, WBlocks, In
<1>12. WPops(z)'
  <2> SUFFICES ASSUME NEW u \in Threads
               PROVE  /\ pc'[u] \in {"next", "pop"} =>
                            z[old[u]] = "first" \/ (NoClosers /\ z[old[u]] \in {"busy", "open"})
                      /\ pc'[u] = "pop" /\ z[old[u]] = "first" => new'[u] = nextFree[old[u]]
    BY <1>1 DEF WPops, NoClosers
  <2>1. CASE u = t
    BY <1>1, <2>1
  <2>2. CASE u # t /\ old[u] = h
    <3>1. pc'[u] = pc[u] /\ (pc[u] \in {"next", "pop"} => NoClosers)
      <4>1. pc[u] \in {"next", "pop"} => u \in users /\ u \in Creators /\ t \in users
        BY DEF RolesInv
      <4> QED
        BY <1>0, <1>1, <2>2, <4>1, RolesAssumption DEF RolesInv, Others
    <3> QED
      BY <1>6, <2>2, <3>1
  <2>3. CASE u # t /\ old[u] # h
    <3>1. pc[u] \in {"next", "pop"} => old[u] \in Entries
      BY DEF LocalsInv, TypeOK
    <3> QED
      BY <1>1, <1>2, <1>6, <2>3, <3>1 DEF Sorted, WPops, Others
  <2> QED
    BY <2>1, <2>2, <2>3
<1>13. WAll(z)'
  <2>1. \A u \in Threads : Moving(u)' => Moving(u)
    BY <1>1 DEF Moving, Others
  <2>2. \A e \in Entries : z[e] \in {"last", "moved", "lost"} => z[e] = w[e]
    BY <1>3, <1>6
  <2> QED
    BY <1>1, <1>2, <2>1, <2>2 DEF Sorted, WAll, NoClosers
<1>14. TypeOK'
  <2>1. firstFree' \in {e \in Entries : e < pool} \cup {0}
    <3>1. new[t] \in In(z, "first") \cup {0}
      BY <1>1, <1>9 DEF WLists, IsList
    <3>2. \A e \in Entries : z[e] = "first" => e < pool
      BY <1>1, <1>9, EntryFacts DEF WLists, TypeOK
    <3> QED
      BY <1>1, <3>1, <3>2 DEF In
  <2>2. /\ new' \in [Threads -> News]
        /\ flag' \in [Threads -> BOOLEAN]
        /\ pc' \in [Threads -> PCs]
    <3>1. /\ new' = [new EXCEPT ![t] = 0] /\ flag' = [flag EXCEPT ![t] = TRUE]
          /\ pc' = [pc EXCEPT ![t] = "unshare"]
      BY DEF Pop, Pops, Goto
    <3>2. 0 \in News
      BY DEF News, Locks
    <3>3. new \in [Threads -> News]
      BY DEF TypeOK, News
    <3> QED
      BY <3>1, <3>2, <3>3 DEF TypeOK, PCs
  <2> QED
    BY <1>1, <2>1, <2>2 DEF TypeOK, News
<1>15. RolesInv'
  BY <1>0, <1>1 DEF RolesInv, NoClosers, Others
<1>16. LocalsInv'
  BY <1>0, <1>1 DEF LocalsInv, Others
<1> QED
  BY <1>6, <1>9, <1>10, <1>11, <1>12, <1>13, <1>14, <1>15, <1>16 DEF Sorted

(* A thread writes the entry that it has in its hands. *)
LEMMA HWriteInv ==
    ASSUME HInv, NEW t \in users, NEW h \in Entries, h = old[t],
           NEW l \in PCs, pc[t] \in {"write", "chain"},
           l = IF pc[t] = "write" THEN "unlock" ELSE "push",
           NEW x \in Entries \cup {0, Access}, nextFree' = [nextFree EXCEPT ![h] = x],
           NEW n \in News, l = "push" => n = x, Locally(t, l, h, n, flag[t]),
           value' \in [Entries -> {"free", "locked", "unlocked"}],
           UNCHANGED <<firstFree, lastFree, pool, open, users>>
    PROVE  HInv'
<1> USE DEF HInv
<1>1. PICK w \in [Entries -> Places] : Sorted(w)
  OBVIOUS
<1>2. /\ t \in Threads /\ (pc[t] = "write" => t \in Creators) /\ (pc[t] = "chain" => t \in Closers)
      /\ flag[t] \in BOOLEAN /\ l \in {"unlock", "push"}
  BY DEF RolesInv, TypeOK
<1>3. t \in Busy
  BY <1>2, BusyIs DEF BusyAt
<1>5. w[h] = "busy"
  BY <1>1, <1>3 DEF Sorted, WHands, In
<1>7. /\ Others(t) /\ pc'[t] = l /\ old'[t] = h /\ new'[t] = n /\ flag'[t] = flag[t]
      /\ pc' \in [Threads -> PCs] /\ old' \in [Threads -> Entries \cup {0}]
      /\ new' \in [Threads -> Entries \cup (0 .. Locks - 1) \cup {Access}]
      /\ flag' \in [Threads -> BOOLEAN] /\ RolesInv' /\ LocalsInv'
  BY <1>2, HFrame
<1>8. nextFree'[h] = x /\ \A e \in Entries \ {h} : nextFree'[e] = nextFree[e]
  BY DEF TypeOK
<1>9. TypeOK'
  BY <1>7 DEF TypeOK
<1>10. WLists(w)'
  <2>1. \A p \in {"first", "last", "moved"} : \A e \in In(w, p) : nextFree'[e] = nextFree[e]
    BY <1>5, <1>8 DEF In
  <2>2. \A u \in Threads : Moving(u)' => Moving(u) /\ old'[u] = old[u]
    BY <1>7 DEF Moving, Others
  <2>3. /\ IsList(firstFree, In(w, "first"), nextFree')
        /\ IsList(lastFree, In(w, "last"), nextFree')
    <3>1. /\ IsList(firstFree, In(w, "first"), nextFree) /\ IsList(lastFree, In(w, "last"), nextFree)
          /\ \A e \in In(w, "first") : nextFree'[e] = nextFree[e]
          /\ \A e \in In(w, "last") : nextFree'[e] = nextFree[e]
      BY <1>1, <2>1 DEF Sorted, WLists
    <3>2. PICK A, B : A = In(w, "first") /\ B = In(w, "last")
      OBVIOUS
    <3>3. IsList(firstFree, A, nextFree')
      BY <3>1, <3>2, ListKept
    <3>4. IsList(lastFree, B, nextFree')
      BY <3>1, <3>2, ListKept
    <3> QED
      BY <3>2, <3>3, <3>4
  <2>4. \A u \in Threads : Moving(u)' => IsList(old'[u], In(w, "moved"), nextFree')
    BY <1>1, <2>1, <2>2, ListKept DEF Sorted, WLists
  <2> QED
    BY <1>1, <2>3, <2>4 DEF Sorted, WLists, In
<1>11. WHands(w)'
  <2>1. Busy' = Busy /\ \A u \in Threads : old'[u] = old[u]
    <3>1. BusyAt(pc'[t], flag'[t])
      BY <1>2, <1>7 DEF BusyAt
    <3>2. /\ \A u \in Threads \ {t} : u \in Busy' <=> u \in Busy
          /\ t \in Busy' /\ Busy \subseteq Threads /\ Busy' \subseteq Threads
      BY <1>2, <1>7, <3>1, BusyStep
    <3>3. Busy' = Busy
      <4>1. \A u : u \in Busy' <=> u \in Busy
        BY <1>3, <3>2
      <4> QED
        BY <4>1
    <3>4. \A u \in Threads : old'[u] = old[u]
      BY <1>7 DEF Others
    <3> QED
      BY <3>3, <3>4
  <2>2. Busy \subseteq Threads
    BY DEF Busy
  <2>3. \A u \in Threads : pc'[u] = "push" => nextFree'[old'[u]] = new'[u]
    <3> SUFFICES ASSUME NEW u \in Threads, pc'[u] = "push"
                 PROVE  nextFree'[old'[u]] = new'[u]
      OBVIOUS
    <3>1. CASE u = t
      BY <1>7, <1>8, <3>1
    <3>2. CASE u # t
      <4>1. pc[u] = "push" /\ old'[u] = old[u] /\ new'[u] = new[u]
        BY <1>7, <3>2 DEF Others
      <4>2. u \in Busy
        BY <4>1, BusyIs DEF BusyAt
      <4>3. old[u] \in Entries \ {h}
        BY <1>1, <1>3, <3>2, <4>2 DEF Sorted, WHands, In
      <4> QED
        BY <1>1, <1>8, <4>1, <4>3 DEF Sorted, WHands
    <3> QED
      BY <3>1, <3>2
  <2> QED
    BY <1>1, <2>1, <2>2, <2>3 DEF Sorted, WHands, In
<1>12. WBlocks(w)'
  BY <1>1, <1>2, <1>5, <1>7, <1>8, BlocksKept DEF Sorted, In
<1>13. WPops(w)'
  BY <1>1, <1>2, <1>5, <1>7, <1>8, PopsKept DEF Sorted
<1>14. WAll(w)'
  BY <1>1, <1>2, <1>7, AllKept DEF Sorted
<1> QED
  BY <1>7, <1>9, <1>10, <1>11, <1>12, <1>13, <1>14 DEF Sorted

(* A new handle is unlocked and returned. *)
LEMMA HUnlockInv ==
    ASSUME HInv, NEW t \in users, Unlock(t), users' = users PROVE HInv'
<1> USE DEF HInv
<1>1. PICK w \in [Entries -> Places] : Sorted(w)
  OBVIOUS
<1>2. t \in Threads /\ pc[t] = "unlock"
  BY DEF RolesInv, Unlock
<1>3. t \in Busy
  BY <1>2, BusyIs DEF BusyAt
<1>4. PICK h \in Entries : h = old[t]
  BY <1>1, <1>3 DEF Sorted, WHands, In
<1>5. w[h] = "busy"
  BY <1>1, <1>3, <1>4 DEF Sorted, WHands, In
<1>6. /\ Locally(t, "idle", 0, 0, FALSE)
      /\ value' = [value EXCEPT ![h] = "unlocked"] /\ open' = open \cup {h}
      /\ UNCHANGED <<firstFree, lastFree, nextFree, pool>>
  BY <1>2, <1>4 DEF Unlock, Return, Goto, Locally
<1>7. /\ Others(t) /\ pc'[t] = "idle" /\ flag'[t] = FALSE
      /\ pc' \in [Threads -> PCs] /\ old' \in [Threads -> Entries \cup {0}]
      /\ new' \in [Threads -> Entries \cup (0 .. Locks - 1) \cup {Access}]
      /\ flag' \in [Threads -> BOOLEAN] /\ RolesInv' /\ LocalsInv'
  <2>1. \A l \in PCs, o \in Entries \cup {0}, n \in News, f \in BOOLEAN :
           l = "idle" /\ ~f /\ Locally(t, l, o, n, f) =>
           /\ Others(t) /\ pc'[t] = l /\ flag'[t] = f
           /\ pc' \in [Threads -> PCs] /\ old' \in [Threads -> Entries \cup {0}]
           /\ new' \in [Threads -> Entries \cup (0 .. Locks - 1) \cup {Access}]
           /\ flag' \in [Threads -> BOOLEAN] /\ RolesInv' /\ LocalsInv'
    BY HFrame
  <2>2. "idle" \in PCs /\ 0 \in News
    BY DEF PCs, News, Locks
  <2> QED
    BY <1>6, <2>1, <2>2
<1> DEFINE z == [w EXCEPT ![h] = "open"]
<1>8. /\ z \in [Entries -> Places] /\ z[h] = "open" /\ \A e \in Entries \ {h} : z[e] = w[e]
  BY DEF Places
<1>9. /\ In(z, "busy") = In(w, "busy") \ {h} /\ In(z, "open") = In(w, "open") \cup {h}
      /\ \A p \in Places \ {"busy", "open"} : In(z, p) = In(w, p)
  BY <1>5, <1>8 DEF In
<1> HIDE DEF z
<1>10. TypeOK'
  BY <1>6, <1>7 DEF TypeOK
<1>11. WLists(z)'
  <2>1. \A u \in Threads : Moving(u)' => Moving(u) /\ old'[u] = old[u]
    BY <1>7 DEF Moving, Others
  <2>2. /\ In(z, "first") = In(w, "first")
        /\ In(z, "last") = In(w, "last")
        /\ In(z, "moved") = In(w, "moved")
    BY <1>9 DEF Places
  <2>3. \A e \in Entries : z[e] = "none" <=> e >= pool
    BY <1>1, <1>5, <1>8 DEF Sorted, WLists
  <2> QED
    BY <1>1, <1>6, <2>1, <2>2, <2>3 DEF Sorted, WLists, In
<1>12. WHands(z)'
  <2>1. /\ Busy' = Busy \ {t} /\ \A u \in Busy' : old'[u] = old[u]
        /\ Busy \subseteq Threads /\ Busy' \subseteq Threads
    BY <1>2, <1>7, BusyStep DEF BusyAt, Others
  <2>2. open' = In(z, "open")
    BY <1>1, <1>6, <1>9 DEF Sorted, WHands
  <2>3. \A u \in Busy' : old'[u] \in In(z, "busy")
    BY <1>1, <1>3, <1>4, <1>9, <2>1 DEF Sorted, WHands
  <2>4. \A e \in In(z, "busy") : \E u \in Busy' : old'[u] = e
    BY <1>1, <1>4, <1>9, <2>1 DEF Sorted, WHands
  <2>5. \A v, u \in Busy' : old'[v] = old'[u] => v = u
    BY <1>1, <2>1 DEF Sorted, WHands
  <2>6. \A u \in Threads : pc'[u] = "push" => nextFree'[old'[u]] = new'[u]
    BY <1>1, <1>6, <1>7 DEF Sorted, WHands, Others
  <2> QED
    BY <2>2, <2>3, <2>4, <2>5, <2>6 DEF WHands, In
<1>13. WBlocks(z)'
  <2>1. In(z, "block") = In(w, "block")
    BY <1>9 DEF Places
  <2> QED
    BY <1>1, <1>2, <1>6, <1>7, <2>1, BlocksKept DEF Sorted
<1>14. WPops(z)'
  BY <1>1, <1>2, <1>5, <1>6, <1>7, <1>8, PopsKept DEF Sorted
<1>15. WAll(z)'
  <2>1. \A e \in Entries : z[e] \in {"last", "moved", "lost"} => z[e] = w[e]
    BY <1>8
  <2> QED
    BY <1>1, <1>2, <1>6, <1>7, <2>1, AllKept DEF Sorted
<1> QED
  BY <1>7, <1>8, <1>10, <1>11, <1>12, <1>13, <1>14, <1>15 DEF Sorted

(* A handle is closed: its entry is cleared, and in the hands of t. *)
LEMMA HDestroyInv ==
    ASSUME HInv, NEW t \in users, Destroy(t), users' = users PROVE HInv'
<1> USE DEF HInv
<1>1. PICK w \in [Entries -> Places] : Sorted(w)
  OBVIOUS
<1>2. t \in Threads /\ t \in Closers /\ pc[t] = "idle" /\ ~NoClosers
  BY DEF RolesInv, Destroy, NoClosers
<1>3. t \notin Busy
  BY <1>2, BusyIs DEF BusyAt, LocalsInv
<1>4. PICK h \in open : /\ value' = [value EXCEPT ![h] = "free"] /\ open' = open \ {h}
                        /\ old' = [old EXCEPT ![t] = h]
  BY DEF Destroy
<1>5. h \in Entries /\ w[h] = "open" /\ h \notin In(w, "busy")
  BY <1>1, <1>4 DEF Sorted, WHands, In
<1>6. /\ Locally(t, "select", h, new[t], flag[t])
      /\ UNCHANGED <<firstFree, lastFree, nextFree, pool>>
  BY <1>2, <1>4 DEF Destroy, Goto, Locally, TypeOK
<1>7. /\ Others(t) /\ pc'[t] = "select" /\ old'[t] = h
      /\ pc' \in [Threads -> PCs] /\ old' \in [Threads -> Entries \cup {0}]
      /\ new' \in [Threads -> Entries \cup (0 .. Locks - 1) \cup {Access}]
      /\ flag' \in [Threads -> BOOLEAN] /\ RolesInv' /\ LocalsInv'
  <2>1. \A l \in PCs, n \in News, f \in BOOLEAN :
           l = "select" /\ ~f /\ Locally(t, l, h, n, f) =>
           /\ Others(t) /\ pc'[t] = l /\ old'[t] = h
           /\ pc' \in [Threads -> PCs] /\ old' \in [Threads -> Entries \cup {0}]
           /\ new' \in [Threads -> Entries \cup (0 .. Locks - 1) \cup {Access}]
           /\ flag' \in [Threads -> BOOLEAN] /\ RolesInv' /\ LocalsInv'
    BY <1>2, <1>5, HFrame
  <2>2. "select" \in PCs /\ new[t] \in News /\ flag[t] \in BOOLEAN /\ ~flag[t]
    BY <1>2 DEF PCs, News, TypeOK, LocalsInv
  <2> QED
    BY <1>6, <2>1, <2>2
<1> DEFINE z == [w EXCEPT ![h] = "busy"]
<1>8. /\ z \in [Entries -> Places] /\ z[h] = "busy" /\ \A e \in Entries \ {h} : z[e] = w[e]
  BY <1>5 DEF Places
<1>9. /\ In(z, "open") = In(w, "open") \ {h} /\ In(z, "busy") = In(w, "busy") \cup {h}
      /\ \A p \in Places \ {"busy", "open"} : In(z, p) = In(w, p)
  BY <1>5, <1>8 DEF In
<1> HIDE DEF z
<1>10. TypeOK'
  BY <1>4, <1>6, <1>7 DEF TypeOK
<1>11. WLists(z)'
  <2>1. \A u \in Threads : Moving(u)' => Moving(u) /\ old'[u] = old[u]
    BY <1>7 DEF Moving, Others
  <2>2. /\ In(z, "first") = In(w, "first")
        /\ In(z, "last") = In(w, "last")
        /\ In(z, "moved") = In(w, "moved")
    BY <1>9 DEF Places
  <2>3. \A e \in Entries : z[e] = "none" <=> e >= pool
    BY <1>1, <1>5, <1>8 DEF Sorted, WLists
  <2> QED
    BY <1>1, <1>6, <2>1, <2>2, <2>3 DEF Sorted, WLists, In
<1>12. WHands(z)'
  <2>1. /\ \A u \in Threads \ {t} : u \in Busy' <=> u \in Busy
        /\ t \in Busy' /\ Busy \subseteq Threads /\ Busy' \subseteq Threads
    BY <1>2, <1>7, BusyStep DEF BusyAt
  <2>2. open' = In(z, "open")
    BY <1>1, <1>4, <1>9 DEF Sorted, WHands
  <2>3. \A u \in Busy' : old'[u] \in In(z, "busy")
    BY <1>1, <1>7, <1>9, <2>1 DEF Sorted, WHands, Others
  <2>4. \A e \in In(z, "busy") : \E u \in Busy' : old'[u] = e
    BY <1>1, <1>3, <1>7, <1>9, <2>1 DEF Sorted, WHands, Others
  <2>5. \A v, u \in Busy' : old'[v] = old'[u] => v = u
    BY <1>1, <1>5, <1>7, <2>1 DEF Sorted, WHands, Others
  <2>6. \A u \in Threads : pc'[u] = "push" => nextFree'[old'[u]] = new'[u]
    BY <1>1, <1>6, <1>7 DEF Sorted, WHands, Others
  <2> QED
    BY <2>2, <2>3, <2>4, <2>5, <2>6 DEF WHands, In
<1>13. WBlocks(z)'
  <2>1. In(z, "block") = In(w, "block")
    BY <1>9 DEF Places
  <2> QED
    BY <1>1, <1>2, <1>6, <1>7, <2>1, BlocksKept DEF Sorted
<1>14. WPops(z)'
  BY <1>1, <1>2, <1>5, <1>6, <1>7, <1>8, PopsKept DEF Sorted
<1>15. WAll(z)'
  BY <1>1, <1>2, <1>6, <1>7, AllKept DEF Sorted
<1> QED
  BY <1>7, <1>8, <1>10, <1>11, <1>12, <1>13, <1>14, <1>15 DEF Sorted

(* The entry is pushed on one of the lists. *)
LEMMA HPushInv ==
    ASSUME HInv, NEW t \in users, Push(t), Pushes(t), users' = users PROVE HInv'
<1> USE DEF HInv
<1>1. PICK w \in [Entries -> Places] : Sorted(w)
  OBVIOUS
<1>2. t \in Threads /\ t \in Closers /\ pc[t] = "push" /\ ~NoClosers
  BY DEF RolesInv, Push, NoClosers
<1>3. t \in Busy
  BY <1>2, BusyIs DEF BusyAt
<1>4. PICK h \in Entries : h = old[t]
  BY <1>1, <1>3 DEF Sorted, WHands, In
<1>5. w[h] = "busy" /\ nextFree[h] = new[t] /\ new[t] = IF flag[t] THEN firstFree ELSE lastFree
  BY <1>1, <1>2, <1>3, <1>4 DEF Sorted, WHands, In, Pushes, FreeList
<1>6. /\ Locally(t, "idle", 0, 0, FALSE)
      /\ firstFree' = (IF flag[t] THEN h ELSE firstFree)
      /\ lastFree' = (IF flag[t] THEN lastFree ELSE h)
      /\ UNCHANGED <<nextFree, value, pool, open>>
  BY <1>2, <1>4 DEF Push, Return, Goto, Locally
<1>7. /\ Others(t) /\ pc'[t] = "idle" /\ flag'[t] = FALSE
      /\ pc' \in [Threads -> PCs] /\ old' \in [Threads -> Entries \cup {0}]
      /\ new' \in [Threads -> Entries \cup (0 .. Locks - 1) \cup {Access}]
      /\ flag' \in [Threads -> BOOLEAN] /\ RolesInv' /\ LocalsInv'
  <2>1. \A l \in PCs, o \in Entries \cup {0}, n \in News, f \in BOOLEAN :
           l = "idle" /\ ~f /\ Locally(t, l, o, n, f) =>
           /\ Others(t) /\ pc'[t] = l /\ flag'[t] = f
           /\ pc' \in [Threads -> PCs] /\ old' \in [Threads -> Entries \cup {0}]
           /\ new' \in [Threads -> Entries \cup (0 .. Locks - 1) \cup {Access}]
           /\ flag' \in [Threads -> BOOLEAN] /\ RolesInv' /\ LocalsInv'
    BY HFrame
  <2>2. "idle" \in PCs /\ 0 \in News
    BY DEF PCs, News, Locks
  <2> QED
    BY <1>6, <2>1, <2>2
<1>8. PICK q \in {"first", "last"} : q = IF flag[t] THEN "first" ELSE "last"
  OBVIOUS
<1> DEFINE z == [w EXCEPT ![h] = q]
<1>9. /\ z \in [Entries -> Places] /\ z[h] = q /\ \A e \in Entries \ {h} : z[e] = w[e]
  BY DEF Places
<1>10. /\ In(z, "busy") = In(w, "busy") \ {h} /\ In(z, q) = In(w, q) \cup {h}
       /\ \A p \in Places \ {"busy", q} : In(z, p) = In(w, p)
       /\ h \notin In(w, q)
  BY <1>5, <1>9 DEF In
<1> HIDE DEF z
<1>11. WLists(z)'
  <2>1. \A u \in Threads : Moving(u)' => Moving(u) /\ old'[u] = old[u]
    BY <1>7 DEF Moving, Others
  <2>2. \A e \in Entries : z[e] = "none" <=> e >= pool
    BY <1>1, <1>5, <1>9 DEF Sorted, WLists
  <2>3. IsList(IF flag[t] THEN firstFree ELSE lastFree, In(w, q), nextFree)
    BY <1>1, <1>8 DEF Sorted, WLists
  <2>4. IsList(h, In(z, q), nextFree)
    <3>1. In(w, q) \in SUBSET Entries
      BY DEF In
    <3>2. IsList(new[t], In(w, q), nextFree)
      BY <1>5, <2>3
    <3> QED
      BY <1>5, <1>10, <3>1, <3>2, ListPush
  <2>5. IsList(firstFree', In(z, "first"), nextFree)
    <3>1. CASE flag[t]
      BY <1>6, <1>8, <2>4, <3>1
    <3>2. CASE ~flag[t]
      BY <1>1, <1>6, <1>8, <1>10, <3>2 DEF Sorted, WLists, Places
    <3> QED
      BY <3>1, <3>2
  <2>6. IsList(lastFree', In(z, "last"), nextFree)
    <3>1. CASE flag[t]
      BY <1>1, <1>6, <1>8, <1>10, <3>1 DEF Sorted, WLists, Places
    <3>2. CASE ~flag[t]
      BY <1>6, <1>8, <2>4, <3>2
    <3> QED
      BY <3>1, <3>2
  <2>7. In(z, "moved") = In(w, "moved")
    BY <1>10 DEF Places
  <2> QED
    BY <1>1, <1>6, <2>1, <2>2, <2>5, <2>6, <2>7 DEF Sorted, WLists, In
<1>12. WHands(z)'
  <2>1. /\ Busy' = Busy \ {t} /\ \A u \in Busy' : old'[u] = old[u]
        /\ Busy \subseteq Threads /\ Busy' \subseteq Threads
    BY <1>2, <1>7, BusyStep DEF BusyAt, Others
  <2>2. open' = In(z, "open")
    BY <1>1, <1>6, <1>10 DEF Sorted, WHands, Places
  <2>3. \A u \in Busy' : old'[u] \in In(z, "busy")
    BY <1>1, <1>3, <1>4, <1>10, <2>1 DEF Sorted, WHands
  <2>4. \A e \in In(z, "busy") : \E u \in Busy' : old'[u] = e
    BY <1>1, <1>4, <1>10, <2>1 DEF Sorted, WHands
  <2>5. \A v, u \in Busy' : old'[v] = old'[u] => v = u
    BY <1>1, <2>1 DEF Sorted, WHands
  <2>6. \A u \in Threads : pc'[u] = "push" => nextFree'[old'[u]] = new'[u]
    BY <1>1, <1>6, <1>7 DEF Sorted, WHands, Others
  <2> QED
    BY <2>2, <2>3, <2>4, <2>5, <2>6 DEF WHands, In
<1>13. WBlocks(z)'
  <2>1. In(z, "block") = In(w, "block")
    BY <1>10 DEF Places
  <2> QED
    BY <1>1, <1>2, <1>6, <1>7, <2>1, BlocksKept DEF Sorted
<1>14. WPops(z)'
  BY <1>1, <1>2, <1>5, <1>6, <1>7, <1>9, PopsKept DEF Sorted
<1>15. WAll(z)'
  BY <1>1, <1>2, <1>6, <1>7, AllKept DEF Sorted
<1>16. TypeOK'
  <2>1. h < pool
    BY <1>1, <1>5, EntryFacts DEF Sorted, WLists, TypeOK
  <2> QED
    BY <1>6, <1>7, <2>1 DEF TypeOK
<1> QED
  BY <1>7, <1>9, <1>11, <1>12, <1>13, <1>14, <1>15, <1>16 DEF Sorted

(* The hands of the threads stay as they are. *)
LEMMA HandsKept ==
    ASSUME NEW w, NEW z, WHands(w), NEW t \in Threads, Others(t),
           t \notin Busy, ~BusyAt(pc'[t], flag'[t]), open' = open,
           In(z, "open") = In(w, "open"), In(z, "busy") = In(w, "busy"),
           \A e \in In(w, "busy") : nextFree'[e] = nextFree[e]
    PROVE  WHands(z)'
<1>1. /\ Busy' = Busy /\ Busy \subseteq Threads \ {t}
      /\ \A u \in Busy : old'[u] = old[u]
  BY BusyStep DEF Others
<1>2. \A u \in Threads : pc'[u] = "push" => nextFree'[old'[u]] = new'[u]
  <2> SUFFICES ASSUME NEW u \in Threads, pc'[u] = "push" PROVE nextFree'[old'[u]] = new'[u]
    OBVIOUS
  <2>1. u # t /\ pc[u] = "push" /\ old'[u] = old[u] /\ new'[u] = new[u]
    BY DEF Others, BusyAt
  <2>2. u \in Busy
    BY <2>1, BusyIs DEF BusyAt
  <2> QED
    BY <2>1, <2>2 DEF WHands
<1> QED
  BY <1>1, <1>2 DEF WHands, In

(* ExpMoveFreeHandles takes the list of the freed entries. *)
LEMMA HTakeInv ==
    ASSUME HInv, NEW t \in users, Move(t), lastFree # 0, users' = users PROVE HInv'
<1> USE DEF HInv
<1>1. PICK w \in [Entries -> Places] : Sorted(w)
  OBVIOUS
<1>2. t \in Threads /\ t \in Creators /\ pc[t] = "move" /\ ~NoClosers
  BY <1>1 DEF RolesInv, Move, Sorted, WAll
<1>3. PICK b \in Entries : b = lastFree
  BY DEF TypeOK
<1>4. t \notin Busy
  BY <1>2, BusyIs DEF BusyAt
<1>5. /\ Locally(t, "wait", b, 1, flag[t]) /\ lastFree' = 0
      /\ UNCHANGED <<firstFree, nextFree, value, pool, open>>
  BY <1>2, <1>3 DEF Move, Goto, Locally, TypeOK
<1>6. /\ Others(t) /\ pc'[t] = "wait" /\ old'[t] = b
      /\ pc' \in [Threads -> PCs] /\ old' \in [Threads -> Entries \cup {0}]
      /\ new' \in [Threads -> Entries \cup (0 .. Locks - 1) \cup {Access}]
      /\ flag' \in [Threads -> BOOLEAN] /\ RolesInv' /\ LocalsInv'
  <2>1. \A l \in PCs, n \in News, f \in BOOLEAN :
           l = "wait" /\ n = 1 /\ ~f /\ Locally(t, l, b, n, f) =>
           /\ Others(t) /\ pc'[t] = l /\ old'[t] = b
           /\ pc' \in [Threads -> PCs] /\ old' \in [Threads -> Entries \cup {0}]
           /\ new' \in [Threads -> Entries \cup (0 .. Locks - 1) \cup {Access}]
           /\ flag' \in [Threads -> BOOLEAN] /\ RolesInv' /\ LocalsInv'
    BY <1>2, EntryFacts, HFrame DEF Locks
  <2>2. "wait" \in PCs /\ 1 \in News /\ flag[t] \in BOOLEAN /\ ~flag[t]
    BY <1>2 DEF PCs, News, Locks, TypeOK, LocalsInv
  <2> QED
    BY <1>5, <2>1, <2>2
<1>7. \A u \in Threads \ {t} : ~Moving(u) /\ ~Moving(u)'
  <2>1. \A u \in Threads \ {t} : Moving(u) => u \in users /\ u \in Creators
    BY DEF RolesInv, Moving
  <2>2. \A u \in Threads \ {t} : ~Moving(u)
    BY <1>2, <2>1, RolesAssumption DEF RolesInv
  <2> QED
    BY <1>6, <2>2 DEF Moving, Others
<1> DEFINE z == [e \in Entries |-> CASE w[e] = "last" -> "moved" [] w[e] = "moved" -> "lost"
                                     [] OTHER -> w[e]]
<1>8. /\ z \in [Entries -> Places]
      /\ \A e \in Entries : /\ w[e] = "last" => z[e] = "moved"
                            /\ w[e] = "moved" => z[e] = "lost"
                            /\ w[e] \notin {"last", "moved"} => z[e] = w[e]
  BY DEF Places
<1> HIDE DEF z
<1>9. /\ In(z, "moved") = In(w, "last") /\ In(z, "last") = {}
      /\ \A p \in Places \ {"last", "moved", "lost"} : In(z, p) = In(w, p)
  BY <1>8 DEF In
<1>10. TypeOK'
  BY <1>5, <1>6 DEF TypeOK
<1>11. WLists(z)'
  <2>1. \A e \in Entries : z[e] = "none" <=> e >= pool
    BY <1>1, <1>8 DEF Sorted, WLists
  <2>2. IsList(0, {}, nextFree)
    BY DEF IsList
  <2>3. IsList(b, In(z, "moved"), nextFree) /\ IsList(firstFree, In(z, "first"), nextFree)
    BY <1>1, <1>3, <1>9 DEF Sorted, WLists, Places
  <2> QED
    BY <1>5, <1>6, <1>7, <1>9, <2>1, <2>2, <2>3 DEF WLists, In
<1>12. /\ In(z, "open") = In(w, "open")
       /\ In(z, "busy") = In(w, "busy")
       /\ In(z, "block") = In(w, "block")
  BY <1>9 DEF Places
<1>13. WHands(z)'
  <2>1. ~BusyAt(pc'[t], flag'[t])
    BY <1>6 DEF BusyAt
  <2> QED
    BY <1>1, <1>2, <1>4, <1>5, <1>6, <1>12, <2>1, HandsKept DEF Sorted
<1>14. WBlocks(z)'
  BY <1>1, <1>2, <1>5, <1>6, <1>12, BlocksKept DEF Sorted
<1>15. WPops(z)'
  BY <1>1, <1>2, <1>5, <1>6, <1>8, PopsKept DEF Sorted
<1>16. WAll(z)'
  BY <1>2 DEF WAll, NoClosers
<1> QED
  BY <1>6, <1>8, <1>10, <1>11, <1>13, <1>14, <1>15, <1>16 DEF Sorted

(* The entries that were moved become the ones to allocate from. *)
LEMMA HMovedInv ==
    ASSUME HInv, NEW t \in users, MoveList(t), firstFree = 0, users' = users PROVE HInv'
<1> USE DEF HInv
<1>1. PICK w \in [Entries -> Places] : Sorted(w)
  OBVIOUS
<1>2. t \in Threads /\ t \in Creators /\ pc[t] = "moved" /\ Moving(t) /\ ~NoClosers
  BY <1>1 DEF RolesInv, MoveList, Sorted, WAll, Moving
<1>3. PICK b \in Entries : b = old[t]
  BY <1>2 DEF TypeOK, LocalsInv
<1>4. t \notin Busy
  BY <1>2, BusyIs DEF BusyAt
<1>5. /\ Locally(t, "leave", b, new[t], flag[t]) /\ firstFree' = b
      /\ UNCHANGED <<lastFree, nextFree, value, pool, open>>
  BY <1>2, <1>3 DEF MoveList, Goto, Locally, TypeOK
<1>6. /\ Others(t) /\ pc'[t] = "leave"
      /\ pc' \in [Threads -> PCs] /\ old' \in [Threads -> Entries \cup {0}]
      /\ new' \in [Threads -> Entries \cup (0 .. Locks - 1) \cup {Access}]
      /\ flag' \in [Threads -> BOOLEAN] /\ RolesInv' /\ LocalsInv'
  <2>1. \A l \in PCs, n \in News, f \in BOOLEAN :
           l = "leave" /\ ~f /\ Locally(t, l, b, n, f) =>
           /\ Others(t) /\ pc'[t] = l
           /\ pc' \in [Threads -> PCs] /\ old' \in [Threads -> Entries \cup {0}]
           /\ new' \in [Threads -> Entries \cup (0 .. Locks - 1) \cup {Access}]
           /\ flag' \in [Threads -> BOOLEAN] /\ RolesInv' /\ LocalsInv'
    BY <1>2, EntryFacts, HFrame
  <2>2. "leave" \in PCs /\ new[t] \in News /\ flag[t] \in BOOLEAN /\ ~flag[t]
    BY <1>2 DEF PCs, News, TypeOK, LocalsInv
  <2> QED
    BY <1>5, <2>1, <2>2
<1>7. In(w, "first") = {} /\ \A u \in Threads : pc[u] \notin {"next", "pop"}
  <2>1. In(w, "first") = {}
    BY <1>1, EntryFacts, ListNone DEF Sorted, WLists, In
  <2>2. \A u \in Threads : pc[u] \in {"next", "pop"} => old[u] \in Entries /\ w[old[u]] = "first"
    BY <1>1, <1>2 DEF Sorted, WPops, TypeOK, LocalsInv
  <2> QED
    BY <2>1, <2>2 DEF In
<1>8. \A u \in Threads : ~Moving(u)'
  <2>1. \A u \in Threads \ {t} : Moving(u) => u \in users /\ u \in Creators
    BY DEF RolesInv, Moving
  <2>2. \A u \in Threads \ {t} : ~Moving(u)
    BY <1>2, <2>1, RolesAssumption DEF RolesInv
  <2> QED
    BY <1>6, <2>2 DEF Moving, Others
<1> DEFINE z == [e \in Entries |-> IF w[e] = "moved" THEN "first" ELSE w[e]]
<1>9. /\ z \in [Entries -> Places]
      /\ \A e \in Entries : /\ w[e] = "moved" => z[e] = "first"
                            /\ w[e] # "moved" => z[e] = w[e]
  BY DEF Places
<1> HIDE DEF z
<1>10. /\ In(z, "first") = In(w, "moved") /\ In(z, "last") = In(w, "last")
       /\ In(z, "open") = In(w, "open") /\ In(z, "busy") = In(w, "busy")
       /\ In(z, "block") = In(w, "block")
  BY <1>7, <1>9 DEF In
<1>11. WLists(z)'
  <2>1. \A e \in Entries : z[e] = "none" <=> e >= pool
    BY <1>1, <1>9 DEF Sorted, WLists
  <2>2. IsList(b, In(z, "first"), nextFree) /\ IsList(lastFree, In(z, "last"), nextFree)
    BY <1>1, <1>2, <1>3, <1>10 DEF Sorted, WLists
  <2> QED
    BY <1>5, <1>8, <2>1, <2>2 DEF WLists, In
<1>12. TypeOK'
  <2>1. b < pool
    <3>1. b \in In(z, "first")
      BY <1>1, <1>2, <1>3, <1>10, EntryFacts DEF Sorted, WLists, IsList
    <3> QED
      BY <1>5, <1>11, <3>1, EntryFacts DEF WLists, In, TypeOK
  <2> QED
    BY <1>5, <1>6, <2>1 DEF TypeOK
<1>13. WHands(z)'
  <2>1. ~BusyAt(pc'[t], flag'[t])
    BY <1>6 DEF BusyAt
  <2> QED
    BY <1>1, <1>2, <1>4, <1>5, <1>6, <1>10, <2>1, HandsKept DEF Sorted
<1>14. WBlocks(z)'
  BY <1>1, <1>2, <1>5, <1>6, <1>10, BlocksKept DEF Sorted
<1>15. WPops(z)'
  BY <1>6, <1>7 DEF WPops, Others
<1>16. WAll(z)'
  BY <1>2 DEF WAll, NoClosers
<1> QED
  BY <1>6, <1>9, <1>11, <1>12, <1>13, <1>14, <1>15, <1>16 DEF Sorted

(* The lists stay as they are. *)
LEMMA ListsKept ==
    ASSUME NEW w, NEW z, WLists(w), NEW t \in Threads, Others(t), ~Moving(t)',
           UNCHANGED <<firstFree, lastFree>>,
           \A e \in Entries : z[e] = "none" <=> e >= pool',
           In(z, "first") = In(w, "first"), In(z, "last") = In(w, "last"),
           In(z, "moved") = In(w, "moved"),
           \A p \in {"first", "last", "moved"} : \A e \in In(w, p) : nextFree'[e] = nextFree[e]
    PROVE  WLists(z)'
<1>1. \A u \in Threads : Moving(u)' => Moving(u) /\ old'[u] = old[u]
  BY DEF Moving, Others
<1>2. /\ IsList(firstFree, In(z, "first"), nextFree')
      /\ IsList(lastFree, In(z, "last"), nextFree')
  BY ListKept DEF WLists
<1>3. \A u \in Threads : Moving(u)' => IsList(old'[u], In(z, "moved"), nextFree')
  BY <1>1, ListKept DEF WLists
<1> QED
  BY <1>2, <1>3 DEF WLists, In

(* The pool grows by one table. *)
LEMMA PoolGrows ==
    ASSUME TypeOK, Fits(pool)
    PROVE  /\ pool + 1 \in Firsts /\ pool \in Nat /\ pool + Low \in {Low * n : n \in 1 .. MaxTables}
           /\ Span(pool + 1) \subseteq Entries
           /\ Span(pool + 1) = {e \in Entries : e \div Low = pool \div Low}
           /\ \A e \in Entries : e >= pool <=> e \in Span(pool + 1) \/ e >= pool + Low
           /\ \A e \in Span(pool + 1) : /\ e >= pool /\ e < pool + Low
                                        /\ e # pool + Low - 1 => Linked(e) = e + 1 /\ e + 1 \in Entries
                                        /\ e = pool + Low - 1 => Linked(e) = 0
<1>1. PICK n \in 1 .. MaxTables : pool = Low * n
  BY DEF TypeOK
<1>2. Low \in Nat \ {0} /\ Low > 2 /\ n \in Nat /\ Low * n \in Nat /\ Low * MaxTables \in Nat
      /\ MaxTables \in Nat
  BY SizeAssumption
<1>3. n # MaxTables /\ n \in 0 .. MaxTables - 1 /\ n + 1 \in 1 .. MaxTables
  BY <1>1, <1>2 DEF Fits
<1>4. Low * (n + 1) = pool + Low
  BY <1>1, <1>2
<1>5. pool + Low \in {Low * m : m \in 1 .. MaxTables} /\ pool + 1 \in Firsts
  BY <1>1, <1>3, <1>4 DEF Firsts
<1> DEFINE h == pool + 1
<1>6. h = Low * n + 1 /\ n \in 0 .. MaxTables - 1
  BY <1>1, <1>3
<1>7. pool \div Low = n /\ pool % Low = 0
  <2>1. 0 \in 0 .. Low - 1 /\ pool = Low * n + 0
    BY <1>1, <1>2
  <2> QED
    BY <1>2, <2>1, Quotient
<1>8. pool \in Nat /\ h + Low - 2 = pool + Low - 1
  BY <1>1, <1>2
<1>9. \A e \in Span(h) : e \in Nat /\ e > pool /\ e <= pool + Low - 1
  BY <1>1, <1>2, <1>8 DEF Span
<1>10. \A e \in Nat : e > pool /\ e <= pool + Low - 1 => e \in Span(h)
  BY <1>1, <1>2, <1>8 DEF Span
<1> HIDE DEF h
<1>11. /\ Span(h) \subseteq Entries /\ Span(h) = {e \in Entries : e \div Low = n}
  BY <1>6, SpanIs
<1>12. \A e \in Entries : e # pool /\ e \in Nat
  BY <1>7, EntryFacts DEF Entries
<1>13. \A e \in Entries : e >= pool <=> e \in Span(h) \/ e >= pool + Low
  <2> SUFFICES ASSUME NEW e \in Entries PROVE e >= pool <=> e \in Span(h) \/ e >= pool + Low
    OBVIOUS
  <2>1. e \in Nat /\ e # pool
    BY <1>12
  <2>2. e \in Span(h) <=> (e > pool /\ e <= pool + Low - 1)
    BY <1>9, <1>10, <2>1
  <2> QED
    BY <1>2, <1>8, <2>1, <2>2
<1>14. ASSUME NEW e \in Span(h)
       PROVE  /\ e # pool + Low - 1 => Linked(e) = e + 1 /\ e + 1 \in Entries
              /\ e = pool + Low - 1 => Linked(e) = 0
  <2>1. e \in Nat /\ e > pool /\ e <= pool + Low - 1 /\ e \div Low = n
    BY <1>9, <1>11
  <2>2. e = Low * n + (e % Low) /\ e % Low \in 0 .. Low - 1
    <3>1. e = Low * (e \div Low) + (e % Low) /\ e % Low \in 0 .. Low - 1
      <4>1. e \in Int /\ Low \in Nat \ {0}
        BY <1>2, <2>1
      <4> QED
        BY <4>1, DivMod
    <3> QED
      BY <2>1, <3>1
  <2>3. e % Low = Low - 1 <=> e = pool + Low - 1
    BY <1>1, <1>2, <2>1, <2>2
  <2>4. e # pool + Low - 1 => e + 1 \in Span(h)
    BY <1>2, <1>8, <1>10, <2>1
  <2> QED
    BY <1>11, <2>3, <2>4 DEF Linked
<1>15. \A e \in Span(h) : e >= pool /\ e < pool + Low
  BY <1>2, <1>8, <1>9
<1> QED
  BY <1>5, <1>7, <1>8, <1>11, <1>13, <1>14, <1>15 DEF h

(* A table of entries is added to the handle table. *)
Grows(t) ==
    /\ pc[t] = "grow" /\ Fits(pool)
    /\ nextFree' = [e \in Entries |-> IF e \div Low = pool \div Low THEN Linked(e)
                                      ELSE nextFree[e]]
    /\ pool' = pool + Low
    /\ Locally(t, "link", old[t], pool + 1, TRUE)
    /\ UNCHANGED <<firstFree, lastFree, value, open>>

(* The invariant survives that: the new entries are this thread's block. *)
LEMMA HGrowInv ==
    ASSUME HInv, NEW t \in users, Grows(t), users' = users PROVE HInv'
<1> USE DEF HInv
<1>1. PICK w \in [Entries -> Places] : Sorted(w)
  OBVIOUS
<1>2. t \in Threads /\ t \in Creators /\ pc[t] = "grow" /\ Fits(pool) /\ pool' = pool + Low
      /\ UNCHANGED <<firstFree, lastFree, value, open>>
  BY DEF RolesInv, Grows
<1>3. PICK h \in Entries : h = pool + 1
  <2>1. pool + 1 \in Firsts /\ Span(pool + 1) \subseteq Entries
    BY <1>2, PoolGrows
  <2>2. pool + 1 \in Entries
    BY <2>1, SpanIs DEF Firsts
  <2> QED
    BY <2>2
<1>4. /\ h \in Firsts /\ pool \in Nat /\ pool' \in {Low * n : n \in 1 .. MaxTables}
      /\ Span(h) \subseteq Entries
      /\ Span(h) = {e \in Entries : e \div Low = pool \div Low}
      /\ \A e \in Entries : e >= pool <=> e \in Span(h) \/ e >= pool'
      /\ \A e \in Span(h) : /\ e >= pool /\ ~(e >= pool')
                            /\ e # h + Low - 2 => Linked(e) = e + 1 /\ e + 1 \in Entries
                            /\ e = h + Low - 2 => Linked(e) = 0
  <2>1. h + Low - 2 = pool + Low - 1 /\ pool \in Nat /\ Low \in Nat
    BY <1>2, <1>3, PoolGrows, EntryFacts
  <2>2. \A e \in Span(h) : e < pool + Low => ~(e >= pool')
    BY <1>2, <1>3, <2>1 DEF Span
  <2> QED
    BY <1>2, <1>3, <2>1, <2>2, PoolGrows
<1>5. /\ \A e \in Span(h) : nextFree'[e] = Linked(e)
      /\ \A e \in Entries \ Span(h) : nextFree'[e] = nextFree[e]
      /\ nextFree' \in [Entries -> Entries \cup {0, Access}]
  <2>1. \A e \in Entries : nextFree'[e] = IF e \in Span(h) THEN Linked(e) ELSE nextFree[e]
    BY <1>4 DEF Grows
  <2>2. \A e \in Span(h) : Linked(e) \in Entries \cup {0, Access}
    BY <1>4
  <2>3. \A e \in Entries : nextFree'[e] \in Entries \cup {0, Access}
    BY <2>1, <2>2 DEF TypeOK
  <2>4. nextFree' \in [Entries -> Entries \cup {0, Access}]
    BY <2>3 DEF Grows
  <2> QED
    BY <1>4, <2>1, <2>4
<1>6. /\ Others(t) /\ pc'[t] = "link" /\ new'[t] = h
      /\ pc' \in [Threads -> PCs] /\ old' \in [Threads -> Entries \cup {0}]
      /\ new' \in [Threads -> Entries \cup (0 .. Locks - 1) \cup {Access}]
      /\ flag' \in [Threads -> BOOLEAN] /\ RolesInv' /\ LocalsInv'
  <2>1. ASSUME NEW l \in PCs, NEW o \in Entries \cup {0}, NEW n \in News, NEW f \in BOOLEAN,
               l = "link", Locally(t, l, o, n, f)
        PROVE  /\ Others(t) /\ pc'[t] = l /\ new'[t] = n
               /\ pc' \in [Threads -> PCs] /\ old' \in [Threads -> Entries \cup {0}]
               /\ new' \in [Threads -> Entries \cup (0 .. Locks - 1) \cup {Access}]
               /\ flag' \in [Threads -> BOOLEAN] /\ RolesInv' /\ LocalsInv'
    <3>1. /\ l \in {"idle", "select", "chain", "push"} \/ t \in Creators
          /\ l \in {"select", "chain", "push"} => t \in Closers
          /\ f => l \in {"link", "publish", "grown", "grew", "unshare", "write", "unlock",
                         "chain", "push"}
          /\ l \in {"wait", "waited", "moved", "leave", "share", "check", "next", "pop"} => o # 0
          /\ l \in {"wait", "waited"} => n \in 1 .. Locks - 1
      BY <1>2, <2>1
    <3> HIDE DEF HInv
    <3> QED
      BY <2>1, <3>1, HFrame
  <2>2. "link" \in PCs /\ h \in News /\ old[t] \in Entries \cup {0}
    BY <1>2 DEF PCs, News, TypeOK
  <2>3. Locally(t, "link", old[t], h, TRUE)
    BY <1>3 DEF Grows
  <2> QED
    BY <2>1, <2>2, <2>3
<1> DEFINE z == [e \in Entries |-> IF e \in Span(h) THEN "block" ELSE w[e]]
<1>7. /\ z \in [Entries -> Places]
      /\ \A e \in Entries : /\ e \in Span(h) => z[e] = "block"
                            /\ e \notin Span(h) => z[e] = w[e]
  BY DEF Places
<1> HIDE DEF z
<1>8. \A e \in Span(h) : e \in Entries /\ w[e] = "none"
  BY <1>1, <1>4 DEF Sorted, WLists
<1>9. /\ In(z, "block") = In(w, "block") \cup Span(h)
      /\ \A p \in Places \ {"none", "block"} : In(z, p) = In(w, p)
      /\ \A p \in Places \ {"none"} : \A e \in In(w, p) : nextFree'[e] = nextFree[e]
  BY <1>5, <1>7, <1>8 DEF In
<1>10. /\ In(z, "first") = In(w, "first") /\ In(z, "last") = In(w, "last")
       /\ In(z, "moved") = In(w, "moved") /\ In(z, "open") = In(w, "open")
       /\ In(z, "busy") = In(w, "busy")
  BY <1>9 DEF Places
<1>11. TypeOK'
  <2>1. \A e \in Entries : e < pool => e < pool'
    BY <1>2, <1>4, EntryFacts
  <2> QED
    BY <1>2, <1>4, <1>5, <1>6, <2>1 DEF TypeOK
<1>12. WLists(z)'
  <2>1. \A e \in Entries : z[e] = "none" <=> e >= pool'
    <3> SUFFICES ASSUME NEW e \in Entries PROVE z[e] = "none" <=> e >= pool'
      OBVIOUS
    <3>1. CASE e \in Span(h)
      BY <1>4, <1>7, <3>1
    <3>2. CASE e \notin Span(h)
      BY <1>1, <1>4, <1>7, <3>2 DEF Sorted, WLists
    <3> QED
      BY <3>1, <3>2
  <2>2. \A p \in {"first", "last", "moved"} : \A e \in In(w, p) : nextFree'[e] = nextFree[e]
    BY <1>9 DEF Places
  <2>3. ~Moving(t)'
    BY <1>6 DEF Moving
  <2> QED
    BY <1>1, <1>2, <1>6, <1>10, <2>1, <2>2, <2>3, ListsKept DEF Sorted
<1>13. WHands(z)'
  <2>1. ~BusyAt(pc'[t], flag'[t]) /\ t \notin Busy
    BY <1>2, <1>6, BusyIs DEF BusyAt
  <2>2. \A e \in In(w, "busy") : nextFree'[e] = nextFree[e]
    BY <1>9 DEF Places
  <2> QED
    BY <1>1, <1>2, <1>6, <1>10, <2>1, <2>2, HandsKept DEF Sorted
<1>14. WBlocks(z)'
  <2>1. /\ Adding(t)' /\ \A u \in Threads \ {t} : Adding(u)' <=> Adding(u)
        /\ \A u \in Threads \ {t} : new'[u] = new[u]
        /\ \A u \in Threads : pc'[u] = "publish" => u # t /\ pc[u] = "publish" /\ Adding(u)
    BY <1>6 DEF Adding, Others
  <2>2. \A u \in Threads \ {t} : Adding(u) =>
           new[u] \in Firsts /\ Span(new[u]) \subseteq In(w, "block") /\ new[u] # h
    <3>1. \A u \in Threads \ {t} : Adding(u) => new[u] \in Firsts /\ Span(new[u]) \subseteq In(w, "block")
      BY <1>1 DEF Sorted, WBlocks
    <3>2. h \in Span(h)
      BY <1>4, SpanIs DEF Firsts
    <3>3. h \notin In(w, "block")
      BY <1>8, <3>2 DEF In
    <3> QED
      BY <3>1, <3>2, <3>3
  <2>3. \A u \in Threads : Adding(u)' => new'[u] \in Firsts /\ Span(new'[u]) \subseteq In(z, "block")
    BY <1>4, <1>6, <1>9, <2>1, <2>2
  <2>4. \A e \in In(z, "block") : \E u \in Threads : Adding(u)' /\ e \in Span(new'[u])
    <3> SUFFICES ASSUME NEW e \in In(z, "block")
                 PROVE  \E u \in Threads : Adding(u)' /\ e \in Span(new'[u])
      OBVIOUS
    <3>1. CASE e \in Span(h)
      BY <1>2, <1>6, <2>1, <3>1
    <3>2. CASE e \in In(w, "block")
      <4>1. PICK u \in Threads : Adding(u) /\ e \in Span(new[u])
        BY <1>1, <3>2 DEF Sorted, WBlocks
      <4>2. u # t
        BY <1>2, <4>1 DEF Adding
      <4> QED
        BY <2>1, <4>1, <4>2
    <3> QED
      BY <1>9, <3>1, <3>2
  <2>5. \A v, u \in Threads : Adding(v)' /\ Adding(u)' /\ new'[v] = new'[u] => v = u
    BY <1>1, <1>6, <2>1, <2>2 DEF Sorted, WBlocks
  <2>6. \A u \in Threads : Adding(u)' =>
           \A e \in Span(new'[u]) : e # new'[u] + Low - 2 => nextFree'[e] = e + 1
    <3>1. \A e \in Span(h) : e # h + Low - 2 => nextFree'[e] = e + 1
      BY <1>4, <1>5
    <3>2. \A u \in Threads \ {t} : Adding(u) =>
             \A e \in Span(new[u]) : e # new[u] + Low - 2 => nextFree'[e] = e + 1
      BY <1>1, <1>9, <2>2 DEF Sorted, WBlocks, Places
    <3> QED
      BY <1>6, <2>1, <3>1, <3>2
  <2>7. \A u \in Threads : pc'[u] = "publish" => nextFree'[new'[u] + Low - 2] = old'[u]
    <3> SUFFICES ASSUME NEW u \in Threads, pc'[u] = "publish"
                 PROVE  nextFree'[new'[u] + Low - 2] = old'[u]
      OBVIOUS
    <3>1. u # t /\ Adding(u) /\ pc[u] = "publish" /\ new'[u] = new[u] /\ old'[u] = old[u]
      BY <1>6, <2>1 DEF Others
    <3>2. new[u] + Low - 2 \in Span(new[u])
      BY <2>2, <3>1, SpanIs DEF Firsts
    <3>3. nextFree'[new[u] + Low - 2] = nextFree[new[u] + Low - 2]
      BY <1>9, <2>2, <3>1, <3>2 DEF Places
    <3> QED
      BY <1>1, <3>1, <3>3 DEF Sorted, WBlocks
  <2> QED
    BY <2>3, <2>4, <2>5, <2>6, <2>7 DEF WBlocks, In
<1>15. WPops(z)'
  <2>1. \A e \in Entries : w[e] = "first" => z[e] = "first" /\ nextFree'[e] = nextFree[e]
    BY <1>5, <1>7, <1>8
  <2>2. \A e \in Entries : w[e] \in {"busy", "open"} => z[e] \in {"busy", "open"}
    BY <1>7, <1>8
  <2> QED
    BY <1>1, <1>2, <1>6, <2>1, <2>2, PopsKept DEF Sorted
<1>16. WAll(z)'
  <2>1. \A e \in Entries : z[e] \in {"last", "moved", "lost"} => z[e] = w[e]
    BY <1>7
  <2> QED
    BY <1>1, <1>2, <1>6, <2>1, AllKept DEF Sorted
<1> QED
  BY <1>6, <1>7, <1>11, <1>12, <1>13, <1>14, <1>15, <1>16 DEF Sorted

(* The last entry of the new table is linked to what is free. *)
LEMMA HLinkInv ==
    ASSUME HInv, NEW t \in users, Link(t), users' = users PROVE HInv'
<1> USE DEF HInv
<1>1. PICK w \in [Entries -> Places] : Sorted(w)
  OBVIOUS
<1>2. t \in Threads /\ t \in Creators /\ pc[t] = "link" /\ Adding(t)
  BY DEF RolesInv, Link, Adding
<1>3. new[t] \in Firsts /\ Span(new[t]) \subseteq In(w, "block")
  BY <1>1, <1>2 DEF Sorted, WBlocks
<1>4. PICK l \in Entries : l = new[t] + Low - 2 /\ l \in Span(new[t]) /\ w[l] = "block"
  <2>1. new[t] + Low - 2 \in Span(new[t])
    BY <1>3, SpanIs DEF Firsts
  <2> QED
    BY <1>3, <2>1 DEF In
<1>5. PICK b \in Entries \cup {0} : b = firstFree
  BY DEF TypeOK
<1>6. /\ Locally(t, "publish", b, new[t], flag[t])
      /\ nextFree' = [nextFree EXCEPT ![l] = b]
      /\ UNCHANGED <<firstFree, lastFree, value, pool, open>>
  BY <1>2, <1>4, <1>5 DEF Link, Goto, Locally, TypeOK
<1>7. /\ Others(t) /\ pc'[t] = "publish" /\ old'[t] = b /\ new'[t] = new[t]
      /\ pc' \in [Threads -> PCs] /\ old' \in [Threads -> Entries \cup {0}]
      /\ new' \in [Threads -> Entries \cup (0 .. Locks - 1) \cup {Access}]
      /\ flag' \in [Threads -> BOOLEAN] /\ RolesInv' /\ LocalsInv'
  <2>1. \A p \in PCs, n \in News, f \in BOOLEAN :
           p = "publish" /\ Locally(t, p, b, n, f) =>
           /\ Others(t) /\ pc'[t] = p /\ old'[t] = b /\ new'[t] = n
           /\ pc' \in [Threads -> PCs] /\ old' \in [Threads -> Entries \cup {0}]
           /\ new' \in [Threads -> Entries \cup (0 .. Locks - 1) \cup {Access}]
           /\ flag' \in [Threads -> BOOLEAN] /\ RolesInv' /\ LocalsInv'
    BY <1>2, HFrame
  <2>2. "publish" \in PCs /\ new[t] \in News /\ flag[t] \in BOOLEAN
    BY <1>2 DEF PCs, News, TypeOK
  <2> QED
    BY <1>6, <2>1, <2>2
<1>8. nextFree'[l] = b /\ \A e \in Entries \ {l} : nextFree'[e] = nextFree[e]
  BY <1>6 DEF TypeOK
<1>9. TypeOK'
  BY <1>6, <1>7 DEF TypeOK
<1>10. WLists(w)'
  <2>1. \A p \in {"first", "last", "moved"} : \A e \in In(w, p) : nextFree'[e] = nextFree[e]
    BY <1>4, <1>8 DEF In
  <2>2. ~Moving(t)' /\ \A e \in Entries : w[e] = "none" <=> e >= pool'
    BY <1>1, <1>6, <1>7 DEF Moving, Sorted, WLists
  <2> QED
    BY <1>1, <1>2, <1>6, <1>7, <2>1, <2>2, ListsKept DEF Sorted
<1>11. WHands(w)'
  <2>1. ~BusyAt(pc'[t], flag'[t]) /\ t \notin Busy
    BY <1>2, <1>7, BusyIs DEF BusyAt
  <2>2. \A e \in In(w, "busy") : nextFree'[e] = nextFree[e]
    BY <1>4, <1>8 DEF In
  <2> QED
    BY <1>1, <1>2, <1>6, <1>7, <2>1, <2>2, HandsKept DEF Sorted
<1>12. WBlocks(w)'
  <2>1. \A u \in Threads : (Adding(u)' <=> Adding(u)) /\ new'[u] = new[u]
    BY <1>2, <1>7 DEF Adding, Others
  <2>2. \A u \in Threads \ {t} : Adding(u) =>
           Span(new[u]) \subseteq Entries /\ l \notin Span(new[u]) /\ new[u] + Low - 2 \in Span(new[u])
    <3> SUFFICES ASSUME NEW u \in Threads \ {t}, Adding(u)
                 PROVE  /\ Span(new[u]) \subseteq Entries /\ l \notin Span(new[u])
                        /\ new[u] + Low - 2 \in Span(new[u])
      OBVIOUS
    <3>1. PICK j \in 0 .. MaxTables - 1 : new[t] = Low * j + 1
      BY <1>3 DEF Firsts
    <3>2. PICK k \in 0 .. MaxTables - 1 : new[u] = Low * k + 1
      BY <1>1 DEF Sorted, WBlocks, Firsts
    <3>3. j # k
      BY <1>1, <1>2, <3>1, <3>2 DEF Sorted, WBlocks
    <3>4. Span(new[t]) = {e \in Entries : e \div Low = j}
      BY <3>1, SpanIs
    <3>5. Span(new[u]) = {e \in Entries : e \div Low = k} /\ new[u] + Low - 2 \in Span(new[u])
      BY <3>2, SpanIs
    <3> QED
      BY <1>4, <3>3, <3>4, <3>5
  <2>3. \A u \in Threads : Adding(u) =>
           \A e \in Span(new[u]) : e # new[u] + Low - 2 => nextFree'[e] = e + 1
    <3> SUFFICES ASSUME NEW u \in Threads, Adding(u), NEW e \in Span(new[u]), e # new[u] + Low - 2
                 PROVE  nextFree'[e] = e + 1
      OBVIOUS
    <3>1. nextFree[e] = e + 1
      BY <1>1 DEF Sorted, WBlocks
    <3>2. e \in Entries /\ e # l
      BY <1>3, <1>4, <2>2 DEF In
    <3> QED
      BY <1>8, <3>1, <3>2
  <2>4. \A u \in Threads : pc'[u] = "publish" => nextFree'[new[u] + Low - 2] = old'[u]
    <3> SUFFICES ASSUME NEW u \in Threads, pc'[u] = "publish"
                 PROVE  nextFree'[new[u] + Low - 2] = old'[u]
      OBVIOUS
    <3>1. CASE u = t
      BY <1>4, <1>7, <1>8, <3>1
    <3>2. CASE u # t
      <4>1. pc[u] = "publish" /\ Adding(u) /\ old'[u] = old[u]
        BY <1>7, <3>2 DEF Others, Adding
      <4>2. new[u] + Low - 2 \in Entries \ {l}
        BY <2>2, <3>2, <4>1
      <4> QED
        BY <1>1, <1>8, <4>1, <4>2 DEF Sorted, WBlocks
    <3> QED
      BY <3>1, <3>2
  <2> QED
    BY <1>1, <2>1, <2>3, <2>4 DEF Sorted, WBlocks, In
<1>13. WPops(w)'
  <2>1. \A e \in Entries : w[e] = "first" => nextFree'[e] = nextFree[e]
    BY <1>4, <1>8
  <2> QED
    BY <1>1, <1>2, <1>7, <2>1, PopsKept DEF Sorted
<1>14. WAll(w)'
  BY <1>1, <1>2, <1>6, <1>7, AllKept DEF Sorted
<1> QED
  BY <1>7, <1>9, <1>10, <1>11, <1>12, <1>13, <1>14 DEF Sorted

(* The new table is put before what is free. *)
LEMMA HPublishInv ==
    ASSUME HInv, NEW t \in users, Publish(t), firstFree = old[t], users' = users PROVE HInv'
<1> USE DEF HInv
<1>1. PICK w \in [Entries -> Places] : Sorted(w)
  OBVIOUS
<1>2. t \in Threads /\ t \in Creators /\ pc[t] = "publish" /\ Adding(t)
  BY DEF RolesInv, Publish, Adding
<1>3. PICK h \in Firsts : h = new[t]
  BY <1>1, <1>2 DEF Sorted, WBlocks
<1>4. Span(h) \subseteq In(w, "block") /\ h \in Span(h) /\ h \in Entries
  <2>1. h \in Span(h)
    BY SpanIs DEF Firsts
  <2> QED
    BY <1>1, <1>2, <1>3, <2>1 DEF Sorted, WBlocks, In
<1>5. /\ Locally(t, "grown", old[t], 0, flag[t]) /\ firstFree' = h
      /\ UNCHANGED <<lastFree, nextFree, value, pool, open>>
  BY <1>2, <1>3 DEF Publish, Goto, Locally, TypeOK
<1>6. /\ Others(t) /\ pc'[t] = "grown" /\ old'[t] = old[t]
      /\ pc' \in [Threads -> PCs] /\ old' \in [Threads -> Entries \cup {0}]
      /\ new' \in [Threads -> Entries \cup (0 .. Locks - 1) \cup {Access}]
      /\ flag' \in [Threads -> BOOLEAN] /\ RolesInv' /\ LocalsInv'
  <2>1. \A p \in PCs, o \in Entries \cup {0}, n \in News, f \in BOOLEAN :
           p = "grown" /\ Locally(t, p, o, n, f) =>
           /\ Others(t) /\ pc'[t] = p /\ old'[t] = o
           /\ pc' \in [Threads -> PCs] /\ old' \in [Threads -> Entries \cup {0}]
           /\ new' \in [Threads -> Entries \cup (0 .. Locks - 1) \cup {Access}]
           /\ flag' \in [Threads -> BOOLEAN] /\ RolesInv' /\ LocalsInv'
    BY <1>2, HFrame
  <2>2. "grown" \in PCs /\ 0 \in News /\ flag[t] \in BOOLEAN /\ old[t] \in Entries \cup {0}
    BY <1>2 DEF PCs, News, Locks, TypeOK
  <2> QED
    BY <1>5, <2>1, <2>2
<1> DEFINE z == [e \in Entries |-> IF e \in Span(h) THEN "first" ELSE w[e]]
<1>7. /\ z \in [Entries -> Places]
      /\ \A e \in Entries : /\ e \in Span(h) => z[e] = "first"
                            /\ e \notin Span(h) => z[e] = w[e]
  BY DEF Places
<1> HIDE DEF z
<1>8. \A e \in Span(h) : e \in Entries /\ w[e] = "block"
  BY <1>4 DEF In
<1>9. /\ In(z, "block") = In(w, "block") \ Span(h) /\ In(z, "first") = In(w, "first") \cup Span(h)
      /\ In(z, "last") = In(w, "last") /\ In(z, "moved") = In(w, "moved")
      /\ In(z, "open") = In(w, "open") /\ In(z, "busy") = In(w, "busy")
  BY <1>7, <1>8 DEF In
<1>10. WLists(z)'
  <2>1. \A e \in Entries : z[e] = "none" <=> e >= pool
    BY <1>1, <1>7, <1>8 DEF Sorted, WLists
  <2>2. IsList(h, In(z, "first"), nextFree)
    <3>1. In(w, "first") \in SUBSET Entries /\ IsList(old[t], In(w, "first"), nextFree)
      BY <1>1 DEF Sorted, WLists, In
    <3>2. Span(h) \cap In(w, "first") = {}
      BY <1>8 DEF In
    <3>3. /\ \A e \in Span(h) : e # h + Low - 2 => nextFree[e] = e + 1
          /\ nextFree[h + Low - 2] = old[t]
      BY <1>1, <1>2, <1>3 DEF Sorted, WBlocks
    <3> QED
      BY <1>9, <3>1, <3>2, <3>3, ListAdd
  <2>3. \A u \in Threads : Moving(u)' => Moving(u) /\ old'[u] = old[u]
    BY <1>6 DEF Moving, Others
  <2> QED
    BY <1>1, <1>5, <1>9, <2>1, <2>2, <2>3 DEF Sorted, WLists, In
<1>11. TypeOK'
  <2>1. h < pool
    <3>1. w[h] # "none"
      BY <1>4, <1>8
    <3> QED
      BY <1>1, <1>4, <3>1, EntryFacts DEF Sorted, WLists, TypeOK
  <2> QED
    BY <1>4, <1>5, <1>6, <2>1 DEF TypeOK
<1>12. WHands(z)'
  <2>1. ~BusyAt(pc'[t], flag'[t]) /\ t \notin Busy
    BY <1>2, <1>6, BusyIs DEF BusyAt
  <2> QED
    BY <1>1, <1>2, <1>5, <1>6, <1>9, <2>1, HandsKept DEF Sorted
<1>13. WBlocks(z)'
  <2>1. /\ \A u \in Threads : Adding(u)' => u # t /\ Adding(u)
        /\ \A u \in Threads : u # t /\ Adding(u) => Adding(u)'
        /\ \A u \in Threads : u # t => new'[u] = new[u] /\ old'[u] = old[u] /\ pc'[u] = pc[u]
        /\ pc'[t] # "publish"
    BY <1>6 DEF Adding, Others
  <2>2. \A u \in Threads : u # t /\ Adding(u) => Span(new[u]) \cap Span(h) = {}
    <3> SUFFICES ASSUME NEW u \in Threads, u # t, Adding(u)
                 PROVE  Span(new[u]) \cap Span(h) = {}
      OBVIOUS
    <3>1. PICK j \in 0 .. MaxTables - 1 : h = Low * j + 1
      BY DEF Firsts
    <3>2. PICK k \in 0 .. MaxTables - 1 : new[u] = Low * k + 1
      BY <1>1 DEF Sorted, WBlocks, Firsts
    <3>3. j # k
      BY <1>1, <1>2, <1>3, <3>1, <3>2 DEF Sorted, WBlocks
    <3>4. Span(h) = {e \in Entries : e \div Low = j}
      BY <3>1, SpanIs
    <3>5. Span(new[u]) = {e \in Entries : e \div Low = k}
      BY <3>2, SpanIs
    <3> QED
      BY <3>3, <3>4, <3>5
  <2>3. \A u \in Threads : Adding(u)' => new'[u] \in Firsts /\ Span(new'[u]) \subseteq In(z, "block")
    BY <1>1, <1>9, <2>1, <2>2 DEF Sorted, WBlocks
  <2>4. \A e \in In(z, "block") : \E u \in Threads : Adding(u)' /\ e \in Span(new'[u])
    BY <1>1, <1>3, <1>9, <2>1 DEF Sorted, WBlocks
  <2>5. \A v, u \in Threads : Adding(v)' /\ Adding(u)' /\ new'[v] = new'[u] => v = u
    BY <1>1, <2>1 DEF Sorted, WBlocks
  <2>6. \A u \in Threads : Adding(u)' =>
           \A e \in Span(new'[u]) : e # new'[u] + Low - 2 => nextFree[e] = e + 1
    BY <1>1, <2>1 DEF Sorted, WBlocks
  <2>7. \A u \in Threads : pc'[u] = "publish" => nextFree[new'[u] + Low - 2] = old'[u]
    BY <1>1, <2>1 DEF Sorted, WBlocks
  <2> QED
    BY <1>5, <2>3, <2>4, <2>5, <2>6, <2>7 DEF WBlocks, In
<1>14. WPops(z)'
  <2>1. \A e \in Entries : w[e] = "first" => z[e] = "first"
    BY <1>7, <1>8
  <2>2. \A e \in Entries : w[e] \in {"busy", "open"} => z[e] \in {"busy", "open"}
    BY <1>7, <1>8
  <2> QED
    BY <1>1, <1>2, <1>5, <1>6, <2>1, <2>2, PopsKept DEF Sorted
<1>15. WAll(z)'
  <2>1. \A e \in Entries : z[e] \in {"last", "moved", "lost"} => z[e] = w[e]
    BY <1>7
  <2> QED
    BY <1>1, <1>2, <1>5, <1>6, <2>1, AllKept DEF Sorted
<1> QED
  BY <1>6, <1>7, <1>10, <1>11, <1>12, <1>13, <1>14, <1>15 DEF Sorted

(* The first states: one table, all of it free. *)
LEMMA HInitInv == AInit => HInv
<1> SUFFICES ASSUME AInit PROVE HInv
  OBVIOUS
<1>1. /\ firstFree = 1 /\ lastFree = 0 /\ pool = Low /\ open = {}
      /\ nextFree = [e \in Entries |-> IF e < Low - 1 THEN e + 1 ELSE 0]
      /\ value = [e \in Entries |-> "free"]
      /\ pc = [t \in Threads |-> "idle"] /\ old = [t \in Threads |-> 0]
      /\ new = [t \in Threads |-> 0] /\ flag = [t \in Threads |-> FALSE]
      /\ users \in {{}, Creators} \cup {{t} \cup Closers : t \in Creators}
  BY DEF AInit, Init
<1>2. /\ 0 \in 0 .. MaxTables - 1 /\ 1 = Low * 0 + 1 /\ 1 \in Firsts /\ Low \in Nat /\ Low > 2
      /\ Low = Low * 1 /\ 1 \in 1 .. MaxTables
  BY EntryFacts DEF Firsts
<1>3. /\ Span(1) \subseteq Entries /\ 1 \in Span(1) /\ 1 + Low - 2 \in Span(1)
      /\ \A e \in Span(1) : e \in Nat /\ e <= Low - 1
  BY <1>2, SpanIs DEF Span
<1>4. \A e \in Entries : e \in Span(1) <=> ~(e >= Low)
  BY <1>2, EntryFacts DEF Span
<1>5. \A e \in Entries : e < Low - 1 => e + 1 \in Entries
  <2> SUFFICES ASSUME NEW e \in Entries, e < Low - 1 PROVE e + 1 \in Entries
    OBVIOUS
  <2>1. e + 1 \in Span(1)
    BY <1>2, EntryFacts DEF Span
  <2> QED
    BY <1>3, <2>1
<1>6. TypeOK
  <2>1. 1 \in {e \in Entries : e < pool}
    BY <1>1, <1>2, <1>3
  <2>2. pool \in {Low * n : n \in 1 .. MaxTables}
    BY <1>1, <1>2
  <2>3. nextFree \in [Entries -> Entries \cup {0, Access}]
    BY <1>1, <1>5
  <2>4. 0 \in 0 .. Locks - 1 /\ "idle" \in PCs
    BY DEF Locks, PCs
  <2> QED
    BY <1>1, <2>1, <2>2, <2>3, <2>4 DEF TypeOK
<1>7. RolesInv
  BY <1>1, RolesAssumption DEF RolesInv, NoClosers, Threads
<1>8. LocalsInv
  BY <1>1 DEF LocalsInv
<1> DEFINE z == [e \in Entries |-> IF e \in Span(1) THEN "first" ELSE "none"]
<1>9. /\ z \in [Entries -> Places]
      /\ \A e \in Entries : /\ e \in Span(1) => z[e] = "first"
                            /\ e \notin Span(1) => z[e] = "none"
  BY DEF Places
<1> HIDE DEF z
<1>10. /\ In(z, "first") = Span(1) /\ In(z, "last") = {} /\ In(z, "open") = {}
       /\ In(z, "busy") = {} /\ In(z, "block") = {}
  BY <1>3, <1>9 DEF In
<1>11. WLists(z)
  <2>1. IsList(0, {}, nextFree)
    BY DEF IsList
  <2>2. IsList(1, Span(1), nextFree)
    <3>1. 1 + Low - 2 = Low - 1
      BY <1>2
    <3>2. /\ \A e \in Span(1) : e # 1 + Low - 2 => nextFree[e] = e + 1
          /\ nextFree[1 + Low - 2] = 0
      BY <1>1, <1>2, <1>3, <3>1
    <3>3. \A S \in SUBSET Entries, h \in Firsts :
             /\ IsList(0, S, nextFree) /\ Span(h) \cap S = {}
             /\ \A e \in Span(h) : e # h + Low - 2 => nextFree[e] = e + 1
             /\ nextFree[h + Low - 2] = 0
             => IsList(h, S \cup Span(h), nextFree)
      BY ListAdd
    <3>4. IsList(1, {} \cup Span(1), nextFree)
      BY <1>2, <2>1, <3>2, <3>3
    <3>5. {} \cup Span(1) = Span(1)
      OBVIOUS
    <3> QED
      BY <3>4, <3>5
  <2>3. \A e \in Entries : z[e] = "none" <=> e >= pool
    BY <1>1, <1>4, <1>9
  <2> QED
    BY <1>1, <1>10, <2>1, <2>2, <2>3 DEF WLists, Moving
<1>12. Busy = {}
  BY <1>1, BusyIs DEF BusyAt, Busy
<1>13. WHands(z) /\ WBlocks(z) /\ WPops(z)
  BY <1>1, <1>10, <1>12 DEF WHands, WBlocks, WPops, Adding
<1>14. WAll(z)
  BY <1>1, <1>9 DEF WAll, Moving
<1> QED
  BY <1>6, <1>7, <1>8, <1>9, <1>11, <1>13, <1>14 DEF HInv, Sorted

(* Steps that only change the local variables of t. *)
LEMMA HLocalInv ==
    ASSUME HInv, NEW t \in users,
           UNCHANGED <<firstFree, lastFree, nextFree, value, pool, open, users>>,
           \E l \in PCs, o \in Entries \cup {0}, n \in News, f \in BOOLEAN :
              Locally(t, l, o, n, f) /\ MoveOK(t, l, o, n, f)
    PROVE  HInv'
BY HMoveInv

(* Every step of the free lists keeps the invariant: those that only      *)
(* change the local variables of t, *)
LEMMA HQuietInv ==
    ASSUME HInv, NEW t \in users, users' = users,
           \/ ReadFirst(t) \/ LockTable(t) \/ ReadAgain(t) \/ WaitOnLock(t) \/ LeaveLock(t)
           \/ LeaveTable(t) \/ UnlockTable(t) \/ AfterGrowth(t) \/ Share(t) \/ Check(t)
           \/ ReadNext(t) \/ Unshare(t) \/ Select(t)
    PROVE  HInv'
<1> USE DEF HInv
<1> DEFINE o == old[t]
           n == new[t]
           f == flag[t]
<1>1. /\ t \in Threads /\ o \in Entries \cup {0} /\ n \in News /\ f \in BOOLEAN
      /\ firstFree \in Entries \cup {0} /\ 0 \in News
      /\ old = [old EXCEPT ![t] = o] /\ new = [new EXCEPT ![t] = n]
      /\ flag = [flag EXCEPT ![t] = f]
  BY DEF TypeOK, RolesInv, News, Locks
<1>2. /\ f => pc[t] \in {"link", "publish", "grown", "grew", "unshare", "write", "unlock",
                         "chain", "push"}
      /\ pc[t] \in {"wait", "waited", "moved", "leave", "share", "check", "next", "pop"} => o # 0
      /\ pc[t] \in {"wait", "waited"} => n \in 1 .. Locks - 1
      /\ pc[t] \in {"idle", "select", "chain", "push"} \/ t \in Creators
      /\ pc[t] \in {"select", "chain", "push"} => t \in Closers
  BY <1>1 DEF LocalsInv, RolesInv
<1>3. t \in Busy <=> BusyAt(pc[t], f)
  BY <1>1, BusyIs
<1> HIDE DEF HInv
<1>4. CASE ReadFirst(t)
  <2> DEFINE l == IF firstFree = 0 THEN "lock" ELSE "share"
  <2>1. t \in Creators /\ pc[t] \in {"idle", "first"}
    BY <1>2, <1>4 DEF ReadFirst
  <2>2. Locally(t, l, firstFree, n, f) /\ l \in PCs
    BY <1>1, <1>4 DEF ReadFirst, Goto, Locally, PCs
  <2>3. MoveOK(t, l, firstFree, n, f)
    BY <1>2, <1>3, <2>1 DEF MoveOK, BusyAt, Adding
  <2> HIDE DEF l
  <2> QED
    BY <1>1, <1>4, <2>2, <2>3, HLocalInv DEF ReadFirst
<1>5. CASE LockTable(t)
  <2>1. Locally(t, "again", o, n, f) /\ "again" \in PCs
    BY <1>1, <1>5 DEF LockTable, Goto, Locally, PCs
  <2>2. MoveOK(t, "again", o, n, f)
    BY <1>2, <1>3, <1>5 DEF MoveOK, BusyAt, Adding, LockTable
  <2> QED
    BY <1>1, <1>5, <2>1, <2>2, HLocalInv DEF LockTable
<1>6. CASE ReadAgain(t)
  <2> DEFINE l == IF firstFree = 0 THEN "move" ELSE "leave"
  <2>1. Locally(t, l, firstFree, n, f) /\ l \in PCs
    BY <1>1, <1>6 DEF ReadAgain, Goto, Locally, PCs
  <2>2. MoveOK(t, l, firstFree, n, f)
    BY <1>2, <1>3, <1>6 DEF MoveOK, BusyAt, Adding, ReadAgain
  <2> HIDE DEF l
  <2> QED
    BY <1>1, <1>6, <2>1, <2>2, HLocalInv DEF ReadAgain
<1>7. CASE WaitOnLock(t)
  <2>1. Locally(t, "waited", o, n, f) /\ "waited" \in PCs
    BY <1>1, <1>7 DEF WaitOnLock, Goto, Locally, PCs
  <2>2. MoveOK(t, "waited", o, n, f)
    BY <1>2, <1>3, <1>7 DEF MoveOK, BusyAt, Adding, Moving, WaitOnLock
  <2> QED
    BY <1>1, <1>7, <2>1, <2>2, HLocalInv DEF WaitOnLock
<1>8. CASE LeaveLock(t)
  <2>1. pc[t] = "waited" /\ n \in 1 .. 3
    BY <1>2, <1>8 DEF LeaveLock, Locks
  <2>2. CASE n = Locks - 1
    <3>1. Locally(t, "moved", o, 0, f) /\ "moved" \in PCs
      BY <1>1, <1>8, <2>2 DEF LeaveLock, Goto, Locally, PCs
    <3>2. MoveOK(t, "moved", o, 0, f)
      BY <1>2, <1>3, <2>1 DEF MoveOK, BusyAt, Adding, Moving
    <3> QED
      BY <1>1, <1>8, <3>1, <3>2, HLocalInv DEF LeaveLock
  <2>3. CASE n # Locks - 1
    <3>1. n + 1 \in 1 .. Locks - 1 /\ n + 1 \in News
      BY <2>1, <2>3 DEF Locks, News
    <3>2. Locally(t, "wait", o, n + 1, f) /\ "wait" \in PCs
      BY <1>1, <1>8, <2>3 DEF LeaveLock, Goto, Locally, PCs
    <3>3. MoveOK(t, "wait", o, n + 1, f)
      BY <1>2, <1>3, <2>1, <3>1 DEF MoveOK, BusyAt, Adding, Moving
    <3> QED
      BY <1>1, <1>8, <3>1, <3>2, <3>3, HLocalInv DEF LeaveLock
  <2> QED
    BY <2>2, <2>3
<1>9. CASE LeaveTable(t)
  <2>1. Locally(t, "share", o, n, f) /\ "share" \in PCs
    BY <1>1, <1>9 DEF LeaveTable, Goto, Locally, PCs
  <2>2. MoveOK(t, "share", o, n, f)
    BY <1>2, <1>3, <1>9 DEF MoveOK, BusyAt, Adding, LeaveTable
  <2> QED
    BY <1>1, <1>9, <2>1, <2>2, HLocalInv DEF LeaveTable
<1>10. CASE UnlockTable(t)
  <2>1. Locally(t, "grew", o, n, f) /\ "grew" \in PCs
    BY <1>1, <1>10 DEF UnlockTable, Goto, Locally, PCs
  <2>2. MoveOK(t, "grew", o, n, f)
    BY <1>2, <1>3, <1>10 DEF MoveOK, BusyAt, Adding, UnlockTable
  <2> QED
    BY <1>1, <1>10, <2>1, <2>2, HLocalInv DEF UnlockTable
<1>11. CASE AfterGrowth(t)
  <2>1. pc[t] = "grew"
    BY <1>11 DEF AfterGrowth
  <2>2. CASE firstFree = 0 /\ ~f
    <3>1. Locally(t, "idle", 0, 0, FALSE) /\ "idle" \in PCs
      BY <1>11, <2>2 DEF AfterGrowth, Return, Goto, Locally, PCs
    <3>2. MoveOK(t, "idle", 0, 0, FALSE)
      BY <1>2, <1>3, <2>1 DEF MoveOK, BusyAt, Adding
    <3> QED
      BY <1>1, <1>11, <3>1, <3>2, HLocalInv DEF AfterGrowth
  <2>3. CASE ~(firstFree = 0 /\ ~f)
    <3> DEFINE l == IF firstFree = 0 THEN "lock" ELSE "share"
    <3>1. Locally(t, l, firstFree, n, FALSE) /\ l \in PCs
      BY <1>1, <1>11, <2>3 DEF AfterGrowth, Goto, Locally, PCs
    <3>2. MoveOK(t, l, firstFree, n, FALSE)
      BY <1>2, <1>3, <2>1 DEF MoveOK, BusyAt, Adding
    <3> QED
      BY <1>1, <1>11, <3>1, <3>2, HLocalInv DEF AfterGrowth
  <2> QED
    BY <2>2, <2>3
<1>12. CASE Share(t)
  <2>1. Locally(t, "check", o, n, f) /\ "check" \in PCs
    BY <1>1, <1>12 DEF Share, Goto, Locally, PCs
  <2>2. MoveOK(t, "check", o, n, f)
    BY <1>2, <1>3, <1>12 DEF MoveOK, BusyAt, Adding, Share
  <2> QED
    BY <1>1, <1>12, <2>1, <2>2, HLocalInv DEF Share
<1>13. CASE Check(t)
  <2> DEFINE l == IF firstFree = o THEN "next" ELSE "unshare"
  <2>1. Locally(t, l, o, n, f) /\ l \in PCs
    BY <1>1, <1>13 DEF Check, Goto, Locally, PCs
  <2>2. MoveOK(t, l, o, n, f)
    BY <1>2, <1>3, <1>13 DEF MoveOK, BusyAt, Adding, Check
  <2> QED
    BY <1>1, <1>13, <2>1, <2>2, HLocalInv DEF Check
<1>14. CASE ReadNext(t)
  <2> DEFINE x == nextFree[o]
  <2>1. Locally(t, "pop", o, x, f) /\ "pop" \in PCs /\ x \in News
    BY <1>1, <1>14 DEF ReadNext, Goto, Locally, PCs, HInv, TypeOK, News, Locks
  <2>2. MoveOK(t, "pop", o, x, f)
    BY <1>2, <1>3, <1>14 DEF MoveOK, BusyAt, Adding, ReadNext
  <2> QED
    BY <1>1, <1>14, <2>1, <2>2, HLocalInv DEF ReadNext
<1>15. CASE Unshare(t)
  <2> DEFINE l == IF f THEN "write" ELSE "first"
  <2>1. Locally(t, l, o, n, f) /\ l \in PCs
    BY <1>1, <1>15 DEF Unshare, Goto, Locally, PCs
  <2>2. MoveOK(t, l, o, n, f)
    BY <1>2, <1>3, <1>15 DEF MoveOK, BusyAt, Adding, Unshare
  <2> HIDE DEF l
  <2> QED
    BY <1>1, <1>15, <2>1, <2>2, HLocalInv DEF Unshare
<1>16. CASE Select(t)
  <2> DEFINE x == Locked(LockOf(o))
  <2>1. x \in BOOLEAN
    BY DEF Locked
  <2>2. Locally(t, "chain", o, n, x) /\ "chain" \in PCs
    BY <1>1, <1>16 DEF Select, Goto, Locally, PCs
  <2> HIDE DEF x
  <2>3. MoveOK(t, "chain", o, n, x)
    BY <1>2, <1>3, <1>16 DEF MoveOK, BusyAt, Adding, Select
  <2> QED
    BY <1>1, <1>16, <2>1, <2>2, <2>3, HLocalInv DEF Select
<1> QED
  BY <1>4, <1>5, <1>6, <1>7, <1>8, <1>9, <1>10, <1>11, <1>12, <1>13, <1>14, <1>15, <1>16

(* and those that change the table. *)
LEMMA HStepInv ==
    ASSUME HInv, NEW t \in users, users' = users, SlowStep(t) \/ PopStep(t) \/ FreeStep(t)
    PROVE  HInv'
<1> DEFINE o == old[t]
           n == new[t]
           f == flag[t]
<1>1. /\ t \in Threads /\ o \in Entries \cup {0} /\ n \in News /\ f \in BOOLEAN
      /\ firstFree \in Entries \cup {0} /\ lastFree \in Entries \cup {0} /\ 0 \in News
      /\ old = [old EXCEPT ![t] = o] /\ new = [new EXCEPT ![t] = n]
      /\ flag = [flag EXCEPT ![t] = f]
  BY DEF HInv, TypeOK, RolesInv, News, Locks
<1>2. /\ f => pc[t] \in {"link", "publish", "grown", "grew", "unshare", "write", "unlock",
                         "chain", "push"}
      /\ pc[t] \in {"wait", "waited", "moved", "leave", "share", "check", "next", "pop"} => o # 0
      /\ pc[t] \in {"idle", "select", "chain", "push"} \/ t \in Creators
      /\ pc[t] \in {"select", "chain", "push"} => t \in Closers
  BY <1>1 DEF HInv, LocalsInv, RolesInv
<1>3. t \in Busy <=> BusyAt(pc[t], f)
  BY <1>1, BusyIs
<1>4. t \in Busy => o \in Entries
  BY DEF HInv, Sorted, WHands, In
<1>5. CASE Move(t)
  <2>1. CASE lastFree = 0
    <3>1. Locally(t, "grow", 0, n, f) /\ "grow" \in PCs
      BY <1>1, <1>5, <2>1 DEF Move, Goto, Locally, PCs
    <3>2. MoveOK(t, "grow", 0, n, f)
      BY <1>2, <1>3, <1>5 DEF MoveOK, BusyAt, Adding, Move
    <3> QED
      BY <1>1, <1>5, <2>1, <3>1, <3>2, HLocalInv DEF Move
  <2>2. CASE lastFree # 0
    BY <1>5, <2>2, HTakeInv
  <2> QED
    BY <2>1, <2>2
<1>6. CASE MoveList(t)
  <2>1. CASE firstFree = 0
    BY <1>6, <2>1, HMovedInv
  <2>2. CASE firstFree # 0
    <3>1. Locally(t, "leave", o, n, f) /\ "leave" \in PCs
      BY <1>1, <1>6, <2>2 DEF MoveList, Goto, Locally, PCs
    <3>2. MoveOK(t, "leave", o, n, f)
      BY <1>2, <1>3, <1>6 DEF MoveOK, BusyAt, Adding, MoveList
    <3> QED
      BY <1>1, <1>6, <2>2, <3>1, <3>2, HLocalInv DEF MoveList
  <2> QED
    BY <2>1, <2>2
<1>7. CASE Grow(t)
  <2>1. CASE Grows(t)
    BY <2>1, HGrowInv
  <2>2. CASE Goto(t, "grown") /\ UNCHANGED <<nextFree, pool, flag, new>>
    <3>1. Locally(t, "grown", o, n, f) /\ "grown" \in PCs
      BY <1>1, <1>7, <2>2 DEF Grow, Goto, Locally, PCs
    <3>2. MoveOK(t, "grown", o, n, f)
      BY <1>2, <1>3, <1>7 DEF MoveOK, BusyAt, Adding, Grow
    <3> QED
      BY <1>1, <1>7, <2>2, <3>1, <3>2, HLocalInv DEF Grow
  <2> QED
    BY <1>1, <1>7, <2>1, <2>2 DEF Grow, Grows, Locally, Goto
<1>8. CASE Link(t)
  BY <1>8, HLinkInv
<1>9. CASE Publish(t)
  <2>1. CASE firstFree = old[t]
    BY <1>9, <2>1, HPublishInv
  <2>2. CASE firstFree # old[t]
    <3>1. Locally(t, "link", o, n, f) /\ "link" \in PCs
      BY <1>1, <1>9, <2>2 DEF Publish, Goto, Locally, PCs
    <3>2. MoveOK(t, "link", o, n, f)
      BY <1>2, <1>3, <1>9 DEF MoveOK, BusyAt, Adding, Publish
    <3> QED
      BY <1>1, <1>9, <2>2, <3>1, <3>2, HLocalInv DEF Publish
  <2> QED
    BY <2>1, <2>2
<1>10. CASE Pop(t)
  <2>1. CASE firstFree = old[t]
    BY <1>10, <2>1, HPopInv
  <2>2. CASE firstFree # old[t]
    <3>1. Locally(t, "unshare", o, 0, f) /\ "unshare" \in PCs
      BY <1>1, <1>10, <2>2 DEF Pop, Pops, Goto, Locally, PCs
    <3>2. MoveOK(t, "unshare", o, 0, f)
      BY <1>2, <1>3, <1>10 DEF MoveOK, BusyAt, Adding, Pop
    <3> QED
      BY <1>1, <1>10, <2>2, <3>1, <3>2, HLocalInv DEF Pop, Pops
  <2> QED
    BY <2>1, <2>2
<1>11. CASE Write(t)
  <2>1. pc[t] = "write" /\ o \in Entries /\ Locally(t, "unlock", o, n, f) /\ "unlock" \in PCs
    BY <1>1, <1>3, <1>4, <1>11 DEF Write, Goto, Locally, PCs, BusyAt
  <2>2. /\ nextFree' = [nextFree EXCEPT ![o] = Access]
        /\ value' \in [Entries -> {"free", "locked", "unlocked"}]
        /\ UNCHANGED <<firstFree, lastFree, pool, open>>
    BY <1>11 DEF Write, HInv, TypeOK
  <2>3. Access \in Entries \cup {0, Access}
    OBVIOUS
  <2> QED
    BY <1>1, <2>1, <2>2, <2>3, HWriteInv
<1>12. CASE Unlock(t)
  BY <1>12, HUnlockInv
<1>13. CASE Destroy(t)
  BY <1>13, HDestroyInv
<1>14. CASE Chain(t)
  <2> DEFINE x == FreeList(t)
  <2>1. pc[t] = "chain" /\ o \in Entries /\ Locally(t, "push", o, x, f) /\ "push" \in PCs
    BY <1>1, <1>3, <1>4, <1>14 DEF Chain, Goto, Locally, PCs, BusyAt
  <2>2. x \in Entries \cup {0, Access} /\ x \in News
    BY <1>1 DEF FreeList, News, Locks
  <2>3. /\ nextFree' = [nextFree EXCEPT ![o] = x]
        /\ value' \in [Entries -> {"free", "locked", "unlocked"}]
        /\ UNCHANGED <<firstFree, lastFree, pool, open>>
    BY <1>14 DEF Chain, HInv, TypeOK
  <2> HIDE DEF x
  <2> QED
    BY <1>1, <2>1, <2>2, <2>3, HWriteInv
<1>15. CASE Push(t)
  <2>1. CASE Pushes(t)
    BY <1>15, <2>1, HPushInv
  <2>2. CASE ~Pushes(t)
    <3>1. Locally(t, "chain", o, n, f) /\ "chain" \in PCs
      BY <1>1, <1>15, <2>2 DEF Push, Goto, Locally, PCs
    <3>2. MoveOK(t, "chain", o, n, f)
      BY <1>2, <1>3, <1>15 DEF MoveOK, BusyAt, Adding, Push
    <3> QED
      BY <1>1, <1>15, <2>2, <3>1, <3>2, HLocalInv DEF Push
  <2> QED
    BY <2>1, <2>2
<1> QED
  BY <1>5, <1>6, <1>7, <1>8, <1>9, <1>10, <1>11, <1>12, <1>13, <1>14, <1>15, HQuietInv
     DEF SlowStep, PopStep, FreeStep

(* The invariant of the free lists: every entry has one place. *)
THEOREM ListInvariance == ASpec => []HInv
<1>1. HInv /\ [ANext]_avars => HInv'
  <2> SUFFICES ASSUME HInv, [ANext]_avars PROVE HInv'
    OBVIOUS
  <2>1. CASE UNCHANGED <<vars, users>>
    <3>1. UNCHANGED <<firstFree, lastFree, nextFree, value, pool, pc, old, new, flag, open, users>>
      BY <2>1 DEF vars
    <3>2. TypeOK' /\ RolesInv' /\ LocalsInv'
      BY <3>1 DEF HInv, TypeOK, RolesInv, NoClosers, LocalsInv
    <3>3. \A w \in [Entries -> Places] : Sorted(w) => Sorted(w)'
      BY <3>1 DEF Sorted, WLists, WHands, WBlocks, WPops, WAll, Moving, Adding, NoClosers, In,
                  Busy, Creating, Freeing
    <3> QED
      BY <3>2, <3>3 DEF HInv
  <2>2. CASE Lists
    BY <2>2, HStepInv DEF Lists
  <2> QED
    BY <2>1, <2>2 DEF ANext, Tree, Over, avars
<1> QED
  BY <1>1, HInitInv, PTL DEF ASpec

(* A handle is given to one caller at a time, whoever creates handles while *)
(* nobody closes any, and whoever closes them while one thread creates.    *)
THEOREM OwnerSafety == ASpec => []OneOwner
<1>1. HInv => OneOwner
  <2> SUFFICES ASSUME HInv PROVE OneOwner
    OBVIOUS
  <2>1. PICK w \in [Entries -> Places] : Sorted(w)
    BY DEF HInv
  <2>2. ListFrom(firstFree) = In(w, "first") /\ ListFrom(lastFree) = In(w, "last")
    <3>1. In(w, "first") \in SUBSET Entries /\ In(w, "last") \in SUBSET Entries
      BY DEF In
    <3> QED
      BY <2>1, <3>1, ListIs DEF Sorted, WLists
  <2>3. \A t \in Busy : old[t] \in In(w, "busy") /\ \A u \in Busy : old[u] = old[t] => u = t
    BY <2>1 DEF Sorted, WHands
  <2>4. open = In(w, "open")
    BY <2>1 DEF Sorted, WHands
  <2> QED
    BY <2>2, <2>3, <2>4 DEF OneOwner, In
<1> QED
  BY <1>1, ListInvariance, PTL

(* No list leads out of the table, and while nobody closes a handle every  *)
(* entry of the table is free, on its way to the list, being created or    *)
(* open, however many threads grow the table.                              *)
THEOREM LossSafety == ASpec => []NoneLostByCreators
<1>1. HInv => NoneLostByCreators
  <2> SUFFICES ASSUME HInv, users = Creators PROVE NoneLost
    BY DEF NoneLostByCreators, HInv
  <2>1. PICK w \in [Entries -> Places] : Sorted(w)
    BY DEF HInv
  <2>2. NoClosers
    BY RolesAssumption DEF NoClosers
  <2>3. ListFrom(firstFree) = In(w, "first") /\ ListFrom(lastFree) = In(w, "last")
    <3>1. In(w, "first") \in SUBSET Entries /\ In(w, "last") \in SUBSET Entries
      BY DEF In
    <3> QED
      BY <2>1, <3>1, ListIs DEF Sorted, WLists
  <2>4. open = In(w, "open") /\ {old[t] : t \in Busy} = In(w, "busy")
    BY <2>1 DEF Sorted, WHands
  <2>5. UNION {InTransit(t) : t \in Threads} = In(w, "block")
    <3>1. ASSUME NEW t \in Threads
          PROVE  InTransit(t) = IF Adding(t) THEN Span(new[t]) ELSE {}
      <4>1. ~Moving(t)
        BY <2>1, <2>2 DEF Sorted, WAll
      <4>2. ASSUME Adding(t) PROVE Span(new[t]) = {e \in Entries : e \div Low = new[t] \div Low}
        <5>1. PICK k \in 0 .. MaxTables - 1 : new[t] = Low * k + 1
          BY <2>1, <4>2 DEF Sorted, WBlocks, Firsts
        <5>2. Span(new[t]) = {e \in Entries : e \div Low = k} /\ new[t] \div Low = k
          BY <5>1, SpanIs
        <5> QED
          BY <5>2
      <4> QED
        BY <4>1, <4>2 DEF InTransit, Moving, Adding
    <3>2. \A t \in Threads : Adding(t) => Span(new[t]) \subseteq In(w, "block")
      BY <2>1 DEF Sorted, WBlocks
    <3>3. \A e \in In(w, "block") : \E t \in Threads : Adding(t) /\ e \in Span(new[t])
      BY <2>1 DEF Sorted, WBlocks
    <3> QED
      BY <3>1, <3>2, <3>3
  <2>6. \A e \in Entries : e < pool <=> w[e] # "none"
    BY <2>1, EntryFacts DEF Sorted, WLists, HInv, TypeOK
  <2>7. \A e \in Entries : w[e] \in {"none", "first", "block", "busy", "open"}
    BY <2>1, <2>2 DEF Sorted, WAll, Places
  <2>8. {e \in Entries : e < pool} =
           In(w, "block") \cup In(w, "first") \cup In(w, "last") \cup In(w, "open")
              \cup In(w, "busy")
    <3>1. \A e \in Entries : e < pool <=> w[e] \in {"block", "first", "last", "open", "busy"}
      BY <2>6, <2>7
    <3> QED
      BY <3>1 DEF In
  <2> DEFINE A == UNION {InTransit(t) : t \in Threads}
             B == {old[t] : t \in Busy}
             E == {e \in Entries : e < pool}
  <2>9. NoneLost <=> E = A \cup ListFrom(firstFree) \cup ListFrom(lastFree) \cup open \cup B
    BY DEF NoneLost
  <2>10. A = In(w, "block") /\ B = In(w, "busy")
    BY <2>4, <2>5
  <2>11. E = In(w, "block") \cup In(w, "first") \cup In(w, "last") \cup In(w, "open")
               \cup In(w, "busy")
    BY <2>8
  <2> HIDE DEF A, B, E
  <2> QED
    BY <2>3, <2>4, <2>9, <2>10, <2>11
<1> QED
  BY <1>1, ListInvariance, PTL
=============================================================================
