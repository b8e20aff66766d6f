----------------------------- MODULE LocksProofs -----------------------------
(***************************************************************************)
(* Proofs about GuardedMutex, FastMutex and HandleLock, for any finite set *)
(* of threads.                                                             *)
(*                                                                         *)
(* For both mutexes, the counts need the list of those who sleep (exactly  *)
(* the threads that wait, each once) and the number of owners.  The        *)
(* guarded mutex also needs to know what a release has left behind:        *)
(* NeedsWake held of it, so that taking one waiter off cannot borrow.      *)
(*                                                                         *)
(* An entry lock keeps no count, only a list through the stacks of those   *)
(* who wait.  The invariant says that there are sequences, one for the     *)
(* table and one for each thread that has taken the list, which the        *)
(* pointers spell out, in which every thread that waits is once; and that  *)
(* who is on the list of the table is Due to be woken.                     *)
(***************************************************************************)
EXTENDS MCLocks, Sequences, FiniteSetTheorems, WellFoundedInduction, TLAPS

Listed(ws, t) == \E i \in DOMAIN ws : ws[i] = t

OnceEach(ws) == \A i, j \in DOMAIN ws : ws[i] = ws[j] => i = j

(* Who joins a list is its last, and the others stay. *)
LEMMA Joined ==
    ASSUME NEW ws \in Seq(Threads), NEW t \in Threads
    PROVE  /\ Append(ws, t) \in Seq(Threads)
           /\ \A u : Listed(Append(ws, t), u) <=> Listed(ws, u) \/ u = t
           /\ OnceEach(ws) /\ ~Listed(ws, t) => OnceEach(Append(ws, t))
<1>1. /\ Append(ws, t) \in Seq(Threads)
      /\ DOMAIN Append(ws, t) = 1 .. Len(ws) + 1
      /\ DOMAIN ws = 1 .. Len(ws) /\ Len(ws) \in Nat
      /\ \A i \in 1 .. Len(ws) : Append(ws, t)[i] = ws[i]
      /\ Append(ws, t)[Len(ws) + 1] = t
  OBVIOUS
<1> QED
  BY <1>1 DEF Listed, OnceEach

(* Who leaves is the first, and the others stay. *)
LEMMA Left ==
    ASSUME NEW ws \in Seq(Threads), ws # <<>>
    PROVE  /\ Head(ws) \in Threads /\ Listed(ws, Head(ws))
           /\ Tail(ws) \in Seq(Threads)
           /\ OnceEach(ws) => /\ OnceEach(Tail(ws))
                              /\ \A u : Listed(Tail(ws), u) <=> Listed(ws, u) /\ u # Head(ws)
<1>1. /\ Tail(ws) \in Seq(Threads) /\ Head(ws) \in Threads
      /\ DOMAIN Tail(ws) = 1 .. Len(ws) - 1
      /\ DOMAIN ws = 1 .. Len(ws) /\ Len(ws) \in Nat /\ Len(ws) >= 1
      /\ \A i \in 1 .. Len(ws) - 1 : Tail(ws)[i] = ws[i + 1]
      /\ Head(ws) = ws[1]
  OBVIOUS
<1>2. Listed(ws, Head(ws))
  BY <1>1 DEF Listed
<1>3. ASSUME OnceEach(ws) PROVE OnceEach(Tail(ws))
  BY <1>1, <1>3 DEF OnceEach
<1>4. ASSUME OnceEach(ws), NEW u, Listed(Tail(ws), u)
      PROVE  Listed(ws, u) /\ u # Head(ws)
  <2>1. PICK i \in 1 .. Len(ws) - 1 : ws[i + 1] = u
    BY <1>1, <1>4 DEF Listed
  <2>2. i + 1 \in DOMAIN ws /\ 1 \in DOMAIN ws /\ i + 1 # 1
    BY <1>1
  <2> QED
    BY <1>1, <1>4, <2>1, <2>2 DEF Listed, OnceEach
<1>5. ASSUME NEW u, Listed(ws, u), u # Head(ws) PROVE Listed(Tail(ws), u)
  <2>1. PICK i \in 1 .. Len(ws) : ws[i] = u
    BY <1>1, <1>5 DEF Listed
  <2>2. i # 1
    BY <1>1, <1>5, <2>1
  <2>3. i - 1 \in DOMAIN Tail(ws) /\ Tail(ws)[i - 1] = u
    BY <1>1, <2>1, <2>2
  <2> QED
    BY <2>3 DEF Listed
<1> QED
  BY <1>1, <1>2, <1>3, <1>4, <1>5

(* What one thread more or less does to a number of threads. *)
LEMMA OneMore ==
    ASSUME NEW S \in SUBSET Threads, NEW t
    PROVE  /\ Cardinality(S) \in Nat
           /\ Cardinality(S \cup {t}) = IF t \in S THEN Cardinality(S) ELSE Cardinality(S) + 1
           /\ Cardinality(S \ {t}) = IF t \in S THEN Cardinality(S) - 1 ELSE Cardinality(S)
           /\ Cardinality(S) = 0 <=> S = {}
BY ThreadsAssumption, FS_Subset, FS_CardinalityType, FS_AddElement, FS_RemoveElement,
   FS_EmptySet

(* Both mutexes count with the same Cardinality. *)
LEMMA SameCardinality ==
    \A S : F!Cardinality(S) = Cardinality(S) /\ G!Cardinality(S) = Cardinality(S)
BY DEF F!Cardinality, G!Cardinality, Cardinality

-----------------------------------------------------------------------------
(* Fast mutexes.                                                           *)

FPCs == {"idle", "own", "owner", "release", "wait", "waiting", "signal"}

FTypes == /\ fpc \in [Threads -> FPCs]
          /\ fCount \in Int
          /\ fEvent \in [signaled : BOOLEAN, list : Seq(Threads)]

(* The list has those who wait for the event, each once. *)
FListExact == /\ OnceEach(fEvent.list)
              /\ \A t \in Threads : fpc[t] = "waiting" <=> Listed(fEvent.list, t)
              /\ fEvent.signaled => fEvent.list = <<>>

(* The counts of the invariant, of the module's own Cardinality. *)
FCounted ==
    /\ Cardinality(F!Owners) + Cardinality(F!Signalers) + (IF fEvent.signaled THEN 1 ELSE 0)
          = IF fCount = 1 THEN 0 ELSE 1
    /\ fCount = 1 - Cardinality(F!Owners) - Cardinality(F!Waiters)

FInv == FTypes /\ FListExact /\ FCounted

(* A mutex that was just initialized satisfies the invariant. *)
LEMMA FInitInv == F!Init => FInv
<1> SUFFICES ASSUME F!Init PROVE FInv
  OBVIOUS
<1>1. FTypes /\ FListExact
  BY DEF F!Init, FTypes, FPCs, FListExact, Listed, OnceEach
<1>2. F!Owners = {} /\ F!Signalers = {} /\ F!Waiters = {}
  BY DEF F!Init, F!Owners, F!Signalers, F!Waiters
<1>3. FCounted
  BY <1>2, FS_EmptySet DEF FCounted, F!Init
<1> QED
  BY <1>1, <1>3 DEF FInv

(* Where a thread owns the fast mutex, and where it waits for it. *)
OwnPCs == {"own", "owner", "release"}
WaitPCs == {"wait", "waiting"}

(* A step that only moves a thread from one place to another: what the     *)
(* three numbers become.                                                   *)
LEMMA FMove ==
    ASSUME FTypes, NEW t \in Threads, NEW l \in FPCs, fpc' = [fpc EXCEPT ![t] = l]
    PROVE  /\ fpc' \in [Threads -> FPCs]
           /\ Cardinality(F!Owners) \in Nat /\ Cardinality(F!Signalers) \in Nat
           /\ Cardinality(F!Waiters) \in Nat
           /\ t \in F!Owners <=> fpc[t] \in OwnPCs
           /\ t \in F!Signalers <=> fpc[t] = "signal"
           /\ t \in F!Waiters <=> fpc[t] \in WaitPCs
           /\ Cardinality(F!Owners') = IF l \in OwnPCs
                 THEN IF fpc[t] \in OwnPCs THEN Cardinality(F!Owners) ELSE Cardinality(F!Owners) + 1
                 ELSE IF fpc[t] \in OwnPCs THEN Cardinality(F!Owners) - 1 ELSE Cardinality(F!Owners)
           /\ Cardinality(F!Signalers') = IF l = "signal"
                 THEN IF fpc[t] = "signal" THEN Cardinality(F!Signalers) ELSE Cardinality(F!Signalers) + 1
                 ELSE IF fpc[t] = "signal" THEN Cardinality(F!Signalers) - 1 ELSE Cardinality(F!Signalers)
           /\ Cardinality(F!Waiters') = IF l \in WaitPCs
                 THEN IF fpc[t] \in WaitPCs THEN Cardinality(F!Waiters) ELSE Cardinality(F!Waiters) + 1
                 ELSE IF fpc[t] \in WaitPCs THEN Cardinality(F!Waiters) - 1 ELSE Cardinality(F!Waiters)
<1>1. /\ F!Owners \in SUBSET Threads /\ F!Signalers \in SUBSET Threads /\ F!Waiters \in SUBSET Threads
      /\ t \in F!Owners <=> fpc[t] \in OwnPCs
      /\ t \in F!Signalers <=> fpc[t] = "signal"
      /\ t \in F!Waiters <=> fpc[t] \in WaitPCs
  BY DEF F!Owners, F!Signalers, F!Waiters, OwnPCs, WaitPCs
<1>2. F!Owners' = IF l \in OwnPCs THEN F!Owners \cup {t} ELSE F!Owners \ {t}
  BY DEF F!Owners, OwnPCs, FTypes
<1>3. F!Signalers' = IF l = "signal" THEN F!Signalers \cup {t} ELSE F!Signalers \ {t}
  BY DEF F!Signalers, FTypes
<1>4. F!Waiters' = IF l \in WaitPCs THEN F!Waiters \cup {t} ELSE F!Waiters \ {t}
  BY DEF F!Waiters, WaitPCs, FTypes
<1>5. fpc' \in [Threads -> FPCs]
  BY DEF FTypes
<1>6. Cardinality(F!Owners') = IF l \in OwnPCs
         THEN IF fpc[t] \in OwnPCs THEN Cardinality(F!Owners) ELSE Cardinality(F!Owners) + 1
         ELSE IF fpc[t] \in OwnPCs THEN Cardinality(F!Owners) - 1 ELSE Cardinality(F!Owners)
  BY <1>1, <1>2, OneMore
<1>7. Cardinality(F!Signalers') = IF l = "signal"
         THEN IF fpc[t] = "signal" THEN Cardinality(F!Signalers) ELSE Cardinality(F!Signalers) + 1
         ELSE IF fpc[t] = "signal" THEN Cardinality(F!Signalers) - 1 ELSE Cardinality(F!Signalers)
  BY <1>1, <1>3, OneMore
<1>8. Cardinality(F!Waiters') = IF l \in WaitPCs
         THEN IF fpc[t] \in WaitPCs THEN Cardinality(F!Waiters) ELSE Cardinality(F!Waiters) + 1
         ELSE IF fpc[t] \in WaitPCs THEN Cardinality(F!Waiters) - 1 ELSE Cardinality(F!Waiters)
  BY <1>1, <1>4, OneMore
<1>9. /\ Cardinality(F!Owners) \in Nat /\ Cardinality(F!Signalers) \in Nat
      /\ Cardinality(F!Waiters) \in Nat
  BY <1>1, OneMore
<1> QED
  BY <1>1, <1>5, <1>6, <1>7, <1>8, <1>9

(* An acquire takes one off the count, and owns or waits. *)
LEMMA FAcquireInv ==
    ASSUME FInv, NEW t \in Threads, F!Acquire(t) \/ F!TryToAcquire(t) PROVE FInv'
<1> USE DEF FInv
<1>1. CASE UNCHANGED fvars
  BY <1>1 DEF fvars, FTypes, FListExact, FCounted, F!Owners, F!Signalers, F!Waiters
<1>2. CASE ~UNCHANGED fvars
  <2>1. PICK l \in {"own", "wait"} :
             /\ fpc' = [fpc EXCEPT ![t] = l] /\ fpc[t] = "idle"
             /\ fCount' = fCount - 1 /\ UNCHANGED fEvent
             /\ l = "own" <=> fCount = 1
    BY <1>2 DEF F!Acquire, F!TryToAcquire, F!Goto, F!Alone, F!Tried, fvars, FTypes
  <2>2. l \in FPCs
    BY DEF FPCs
  <2>3. FTypes'
    BY <2>1, <2>2, FMove DEF FTypes
  <2>4. FListExact'
    BY <2>1 DEF FListExact, FTypes
  <2>5. FCounted'
    <3>1. /\ Cardinality(F!Owners) \in Nat /\ Cardinality(F!Signalers) \in Nat
          /\ Cardinality(F!Waiters) \in Nat
          /\ Cardinality(F!Owners') = IF l = "own" THEN Cardinality(F!Owners) + 1
                                                   ELSE Cardinality(F!Owners)
          /\ Cardinality(F!Signalers') = Cardinality(F!Signalers)
          /\ Cardinality(F!Waiters') = IF l = "own" THEN Cardinality(F!Waiters)
                                                    ELSE Cardinality(F!Waiters) + 1
      BY <2>1, <2>2, FMove DEF OwnPCs, WaitPCs
    <3> QED
      BY <2>1, <3>1 DEF FCounted, FTypes
  <2> QED
    BY <2>3, <2>4, <2>5
<1> QED
  BY <1>1, <1>2

(* A thread that comes to the event passes it or joins the list. *)
LEMMA FWaitInv ==
    ASSUME FInv, NEW t \in Threads, F!Wait(t) PROVE FInv'
<1> USE DEF FInv, F!Wait, F!Goto
<1>1. CASE fEvent.signaled
  <2>1. /\ fpc[t] = "wait" /\ fpc' = [fpc EXCEPT ![t] = "own"] /\ "own" \in FPCs
        /\ fEvent' = [fEvent EXCEPT !.signaled = FALSE] /\ fCount' = fCount
    BY <1>1 DEF FPCs
  <2>2. fEvent'.list = fEvent.list /\ fEvent'.signaled = FALSE
    BY <2>1 DEF FTypes
  <2>3. FTypes'
    BY <2>1, FMove DEF FTypes
  <2>4. FListExact'
    BY <2>1, <2>2 DEF FListExact, FTypes
  <2>5. FCounted'
    <3>1. /\ Cardinality(F!Owners) \in Nat /\ Cardinality(F!Signalers) \in Nat /\ Cardinality(F!Waiters) \in Nat
          /\ Cardinality(F!Owners') = Cardinality(F!Owners) + 1
          /\ Cardinality(F!Signalers') = Cardinality(F!Signalers)
          /\ Cardinality(F!Waiters') = Cardinality(F!Waiters) - 1
      BY <1>1, <2>1, <2>2, FMove DEF OwnPCs, WaitPCs
    <3> QED
      BY <1>1, <2>1, <2>2, <3>1 DEF FCounted, FTypes
  <2> QED
    BY <2>3, <2>4, <2>5
<1>2. CASE ~fEvent.signaled
  <2>1. /\ fpc[t] = "wait" /\ fpc' = [fpc EXCEPT ![t] = "waiting"] /\ "waiting" \in FPCs
        /\ fEvent' = [fEvent EXCEPT !.list = Append(fEvent.list, t)] /\ fCount' = fCount
    BY <1>2 DEF FPCs
  <2>2. fEvent'.list = Append(fEvent.list, t) /\ fEvent'.signaled = FALSE
    BY <1>2, <2>1 DEF FTypes
  <2>3. FTypes'
    BY <2>1, FMove, Joined DEF FTypes
  <2>4. FListExact'
    <3>1. fEvent.list \in Seq(Threads) /\ ~Listed(fEvent.list, t)
      BY <2>1 DEF FTypes, FListExact
    <3> QED
      BY <2>1, <2>2, <3>1, Joined DEF FListExact, FTypes
  <2>5. FCounted'
    <3>1. /\ Cardinality(F!Owners) \in Nat /\ Cardinality(F!Signalers) \in Nat /\ Cardinality(F!Waiters) \in Nat
          /\ Cardinality(F!Owners') = Cardinality(F!Owners)
          /\ Cardinality(F!Signalers') = Cardinality(F!Signalers)
          /\ Cardinality(F!Waiters') = Cardinality(F!Waiters)
      BY <1>2, <2>1, <2>2, FMove DEF OwnPCs, WaitPCs
    <3> QED
      BY <1>2, <2>1, <2>2, <3>1 DEF FCounted, FTypes
  <2> QED
    BY <2>3, <2>4, <2>5
<1> QED
  BY <1>1, <1>2

(* The owner goes on, without touching the count or the event. *)
LEMMA FOwnerInv ==
    ASSUME FInv, NEW t \in Threads, F!SetOwner(t) \/ F!ClearOwner(t) PROVE FInv'
<1> USE DEF FInv
<1>1. PICK l \in OwnPCs : /\ fpc[t] \in OwnPCs /\ fpc' = [fpc EXCEPT ![t] = l]
                          /\ UNCHANGED <<fCount, fEvent>>
  BY DEF F!SetOwner, F!ClearOwner, F!Goto, OwnPCs
<1>2. l \in FPCs
  BY DEF FPCs, OwnPCs
<1>3. FTypes'
  BY <1>1, <1>2, FMove DEF FTypes
<1>4. FListExact'
  BY <1>1 DEF FListExact, FTypes, OwnPCs
<1>5. FCounted'
  BY <1>1, <1>2, FMove DEF FCounted, FTypes, OwnPCs, WaitPCs
<1> QED
  BY <1>3, <1>4, <1>5

(* The owner gives the mutex back, or keeps it for the first of those who  *)
(* wait: SomeoneWaits tells which.                                         *)
LEMMA FReleaseInv ==
    ASSUME FInv, NEW t \in Threads, F!Release(t) PROVE FInv'
<1> USE DEF FInv
<1>1. PICK l \in {"signal", "idle"} :
           /\ fpc[t] = "release" /\ fpc' = [fpc EXCEPT ![t] = l]
           /\ fCount' = fCount + 1 /\ UNCHANGED fEvent
           /\ l = "signal" <=> fCount + 1 <= 0
  BY DEF F!Release, F!Goto, F!SomeoneWaits
<1>2. l \in FPCs
  BY DEF FPCs
<1>3. FTypes'
  BY <1>1, <1>2, FMove DEF FTypes
<1>4. FListExact'
  BY <1>1 DEF FListExact, FTypes
<1>5. FCounted'
  <2>1. /\ Cardinality(F!Owners) \in Nat /\ Cardinality(F!Signalers) \in Nat
        /\ Cardinality(F!Waiters) \in Nat
        /\ Cardinality(F!Owners') = Cardinality(F!Owners) - 1
        /\ Cardinality(F!Signalers') = IF l = "signal" THEN Cardinality(F!Signalers) + 1
                                                       ELSE Cardinality(F!Signalers)
        /\ Cardinality(F!Waiters') = Cardinality(F!Waiters)
    BY <1>1, <1>2, FMove DEF OwnPCs, WaitPCs
  <2>2. Cardinality(F!Owners) # 0
    <3>1. t \in F!Owners /\ F!Owners \in SUBSET Threads
      BY <1>1 DEF F!Owners
    <3> QED
      BY <3>1, OneMore
  <2>3. /\ Cardinality(F!Owners) = 1 /\ Cardinality(F!Signalers) = 0
        /\ (IF fEvent.signaled THEN 1 ELSE 0) = 0
        /\ fCount = 0 - Cardinality(F!Waiters)
    BY <2>1, <2>2 DEF FCounted
  <2>4. (IF fEvent'.signaled THEN 1 ELSE 0) = 0
    BY <1>1, <2>3
  <2>5. fCount' = 1 - Cardinality(F!Waiters')
    BY <1>1, <2>1, <2>3
  <2>6. CASE l = "signal"
    BY <1>1, <2>1, <2>3, <2>4, <2>5, <2>6 DEF FCounted
  <2>7. CASE l = "idle"
    BY <1>1, <2>1, <2>3, <2>4, <2>5, <2>7 DEF FCounted
  <2> QED
    BY <2>6, <2>7
<1> QED
  BY <1>3, <1>4, <1>5

(* The event is set for a thread that has still to come, or passes the     *)
(* mutex to the first who waits.                                           *)
LEMMA FSetEventInv ==
    ASSUME FInv, NEW t \in Threads, F!SetEvent(t) PROVE FInv'
<1> USE DEF FInv
<1>1. CASE fEvent.list = <<>>
  <2>1. /\ fpc[t] = "signal" /\ fpc' = [fpc EXCEPT ![t] = "idle"] /\ "idle" \in FPCs
        /\ fEvent' = [fEvent EXCEPT !.signaled = TRUE] /\ fCount' = fCount
    BY <1>1 DEF FPCs, F!SetEvent, F!Goto
  <2>2. fEvent'.list = fEvent.list /\ fEvent'.signaled = TRUE
    BY <2>1 DEF FTypes
  <2>3. FTypes'
    BY <2>1, FMove DEF FTypes
  <2>4. FListExact'
    BY <1>1, <2>1, <2>2 DEF FListExact, FTypes
  <2>5. FCounted'
    <3>1. /\ Cardinality(F!Owners) \in Nat /\ Cardinality(F!Signalers) \in Nat /\ Cardinality(F!Waiters) \in Nat
          /\ Cardinality(F!Owners') = Cardinality(F!Owners)
          /\ Cardinality(F!Signalers') = Cardinality(F!Signalers) - 1
          /\ Cardinality(F!Waiters') = Cardinality(F!Waiters)
      BY <2>1, <2>2, FMove DEF OwnPCs, WaitPCs
    <3>2. Cardinality(F!Signalers) # 0
      <4>1. t \in F!Signalers /\ F!Signalers \in SUBSET Threads
        BY <2>1 DEF F!Signalers
      <4> QED
        BY <4>1, OneMore
    <3> QED
      BY <2>1, <2>2, <3>1, <3>2 DEF FCounted, FTypes
  <2> QED
    BY <2>3, <2>4, <2>5
<1>2. CASE fEvent.list # <<>>
  <2> DEFINE w == Head(fEvent.list)
             p == [fpc EXCEPT ![t] = "idle"]
  <2>1. /\ fpc[t] = "signal" /\ fpc' = [fpc EXCEPT ![t] = "idle", ![w] = "own"]
        /\ fEvent' = [fEvent EXCEPT !.list = Tail(fEvent.list)] /\ fCount' = fCount
    BY <1>2 DEF F!SetEvent, F!PassedOn
  <2>2. /\ fEvent.list \in Seq(Threads)
        /\ w \in Threads /\ fpc[w] = "waiting" /\ w # t
        /\ ~fEvent.signaled
    BY <1>2, <2>1, Left DEF FTypes, FListExact
  <2> HIDE DEF w
  <2>3. fEvent'.list = Tail(fEvent.list) /\ fEvent'.signaled = FALSE
    BY <2>1, <2>2 DEF FTypes
  <2>4. FTypes'
    BY <1>2, <2>1, <2>2, Left DEF FTypes, FPCs
  <2>5. FListExact'
    BY <1>2, <2>1, <2>2, <2>3, Left DEF FListExact, FTypes, w
  <2>6. /\ F!Owners' = F!Owners \cup {w}
        /\ F!Signalers' = F!Signalers \ {t}
        /\ F!Waiters' = F!Waiters \ {w}
    BY <2>1, <2>2 DEF F!Owners, F!Signalers, F!Waiters, FTypes
  <2>7. /\ w \notin F!Owners /\ t \in F!Signalers /\ w \in F!Waiters
        /\ F!Owners \in SUBSET Threads /\ F!Signalers \in SUBSET Threads
        /\ F!Waiters \in SUBSET Threads
    BY <2>1, <2>2 DEF F!Owners, F!Signalers, F!Waiters
  <2>8. FCounted'
    <3>1. /\ Cardinality(F!Owners) \in Nat /\ Cardinality(F!Signalers) \in Nat /\ Cardinality(F!Waiters) \in Nat
          /\ Cardinality(F!Owners') = Cardinality(F!Owners) + 1
          /\ Cardinality(F!Signalers') = Cardinality(F!Signalers) - 1
          /\ Cardinality(F!Waiters') = Cardinality(F!Waiters) - 1
      BY <2>6, <2>7, OneMore
    <3>2. fCount' = fCount /\ ~fEvent.signaled /\ ~fEvent'.signaled
      BY <2>1, <2>2, <2>3
    <3>3. fCount \in Int
      BY DEF FTypes
    <3> QED
      BY <3>1, <3>2, <3>3 DEF FCounted
  <2> QED
    BY <2>4, <2>5, <2>8
<1> QED
  BY <1>1, <1>2

(* Every step of a thread preserves the invariant of the fast mutex. *)
LEMMA FNextInv ==
    FInv /\ (F!Next \/ UNCHANGED fvars) => FInv'
<1>1. ASSUME FInv, UNCHANGED fvars PROVE FInv'
  BY <1>1 DEF fvars, FInv, FTypes, FListExact, FCounted, F!Owners, F!Signalers, F!Waiters
<1> QED
  BY <1>1, FAcquireInv, FWaitInv, FOwnerInv, FReleaseInv, FSetEventInv DEF F!Next, F!Inside

(* From the invariant to what is promised of the fast mutex: the count is  *)
(* exact, and nobody sleeps beside a set event.                            *)
LEMMA FHoldersExact == FInv => F!HoldersExact
<1> SUFFICES ASSUME FInv PROVE F!HoldersExact
  OBVIOUS
<1> USE DEF FInv
<1>1. F!OneHolder /\ F!CountExact
  BY SameCardinality DEF F!OneHolder, F!CountExact, FCounted
<1>2. {t \in Threads : fpc[t] = "waiting"} = {fEvent.list[i] : i \in DOMAIN fEvent.list}
  BY DEF FListExact, FTypes, Listed
<1>3. ASSUME fEvent.signaled PROVE \E t \in Threads : fpc[t] = "wait"
  <2>1. fEvent.list = <<>> /\ \A t \in Threads : fpc[t] # "waiting"
    BY <1>3 DEF FListExact, Listed
  <2>2. /\ F!Owners \in SUBSET Threads /\ F!Signalers \in SUBSET Threads
        /\ F!Waiters \in SUBSET Threads
    BY DEF F!Owners, F!Signalers, F!Waiters
  <2>3. F!Waiters # {}
    <3>1. /\ Cardinality(F!Owners) \in Nat /\ Cardinality(F!Signalers) \in Nat
          /\ Cardinality(F!Waiters) \in Nat
          /\ F!Waiters = {} => Cardinality(F!Waiters) = 0
      BY <2>2, OneMore
    <3> QED
      BY <1>3, <3>1 DEF FCounted, FTypes
  <2> QED
    BY <2>1, <2>3 DEF F!Waiters
<1>4. fEvent.signaled => fEvent.list = <<>>
  BY DEF FListExact
<1> QED
  BY <1>1, <1>2, <1>3, <1>4 DEF F!HoldersExact, F!NobodyAsleep

-----------------------------------------------------------------------------
(* Guarded mutexes.                                                        *)

GatePCs == {"gate", "waiting"}

GPCs == OwnPCs \cup GatePCs \cup {"idle", "contend", "wake", "signal"}

Counts == [lock : BOOLEAN, woken : BOOLEAN, waiters : Nat]

GTypes == /\ gpc \in [Threads -> GPCs]
          /\ gwoken \in [Threads -> BOOLEAN]
          /\ gCount \in Counts
          /\ gOldValue \in [Threads -> Counts]
          /\ gGate \in [signaled : BOOLEAN, list : Seq(Threads)]

(* The list has those who wait at the gate, each once. *)
GListExact == /\ OnceEach(gGate.list)
              /\ \A t \in Threads : gpc[t] = "waiting" <=> Listed(gGate.list, t)
              /\ gGate.signaled => gGate.list = <<>>

(* Who has been at the gate is there again, or contends; and a release     *)
(* that is about to wake somebody has left waiters, and none of them woken.*)
GPlaces == \A t \in Threads : /\ gwoken[t] => gpc[t] \in GatePCs \cup {"contend"}
                              /\ gpc[t] = "wake" => /\ gOldValue[t].waiters > 0
                                                    /\ ~gOldValue[t].woken

InLine == G!AtGate \cup G!Passed

One(b) == IF b THEN 1 ELSE 0

GCounted ==
    /\ Cardinality(G!Owners) = 1 - One(gCount.lock)
    /\ gCount.waiters + One(gCount.woken) = Cardinality(InLine)
    /\ Cardinality(G!Signalers) + Cardinality(G!Passed) + One(gGate.signaled) = One(gCount.woken)

GInv == GTypes /\ GListExact /\ GPlaces /\ GCounted /\ G!NobodyForgotten

(* A mutex that was just initialized satisfies the invariant. *)
LEMMA GInitInv == G!Init => GInv
<1> SUFFICES ASSUME G!Init PROVE GInv
  OBVIOUS
<1>1. GTypes
  BY DEF G!Init, G!Free, GTypes, GPCs, OwnPCs, GatePCs, Counts
<1>2. GListExact /\ GPlaces /\ G!NobodyForgotten
  BY DEF G!Init, G!Free, GListExact, Listed, OnceEach, GPlaces, G!NobodyForgotten
<1>3. G!Owners = {} /\ G!Signalers = {} /\ G!Passed = {} /\ InLine = {}
  BY DEF G!Init, G!Owners, G!Signalers, G!Passed, G!AtGate, InLine
<1>4. GCounted
  BY <1>3, FS_EmptySet DEF GCounted, G!Init, G!Free, One
<1> QED
  BY <1>1, <1>2, <1>4 DEF GInv

(* From S to R one thread at most joins or leaves. *)
Changed(S, R, t) ==
    /\ Cardinality(S) \in Nat /\ Cardinality(R) \in Nat
    /\ t \in S => Cardinality(S) > 0
    /\ Cardinality(R) = Cardinality(S) + One(t \in R) - One(t \in S)

(* A set that differs in one thread has changed so. *)
LEMMA OneChanged ==
    ASSUME NEW S \in SUBSET Threads, NEW R \in SUBSET Threads, NEW t \in Threads,
           \A u \in Threads : u # t => (u \in R <=> u \in S)
    PROVE  Changed(S, R, t)
<1>1. /\ Cardinality(S) \in Nat /\ Cardinality(R) \in Nat
      /\ Cardinality(S) = 0 <=> S = {}
      /\ Cardinality(S \cup {t}) = IF t \in S THEN Cardinality(S) ELSE Cardinality(S) + 1
      /\ Cardinality(S \ {t}) = IF t \in S THEN Cardinality(S) - 1 ELSE Cardinality(S)
  BY OneMore
<1>2. R = IF t \in R THEN S \cup {t} ELSE S \ {t}
  OBVIOUS
<1>3. CASE t \in R
  BY <1>1, <1>2, <1>3 DEF Changed, One
<1>4. CASE t \notin R
  BY <1>1, <1>2, <1>4 DEF Changed, One
<1> QED
  BY <1>3, <1>4

(* What the four numbers become when a thread moves. *)
LEMMA GMove ==
    ASSUME GTypes, NEW t \in Threads, NEW l \in GPCs, NEW b \in BOOLEAN,
           gpc' = [gpc EXCEPT ![t] = l], gwoken' = [gwoken EXCEPT ![t] = b]
    PROVE  /\ gpc' \in [Threads -> GPCs] /\ gwoken' \in [Threads -> BOOLEAN]
           /\ Changed(G!Owners, G!Owners', t)
           /\ Changed(G!Signalers, G!Signalers', t)
           /\ Changed(G!Passed, G!Passed', t)
           /\ Changed(InLine, InLine', t)
<1>1. /\ G!Owners \in SUBSET Threads /\ G!Owners' \in SUBSET Threads
      /\ G!Signalers \in SUBSET Threads /\ G!Signalers' \in SUBSET Threads
      /\ G!Passed \in SUBSET Threads /\ G!Passed' \in SUBSET Threads
      /\ InLine \in SUBSET Threads /\ InLine' \in SUBSET Threads
  BY DEF G!Owners, G!Signalers, G!Passed, G!AtGate, InLine
<1>2. ASSUME NEW u \in Threads, u # t
      PROVE  /\ u \in G!Owners' <=> u \in G!Owners
             /\ u \in G!Signalers' <=> u \in G!Signalers
             /\ u \in G!Passed' <=> u \in G!Passed
             /\ u \in InLine' <=> u \in InLine
  <2>1. gpc'[u] = gpc[u] /\ gwoken'[u] = gwoken[u]
    BY <1>2 DEF GTypes
  <2> QED
    BY <2>1 DEF G!Owners, G!Signalers, G!Passed, G!AtGate, InLine
<1>3. gpc' \in [Threads -> GPCs] /\ gwoken' \in [Threads -> BOOLEAN]
  BY DEF GTypes
<1>4. Changed(G!Owners, G!Owners', t)
  BY <1>1, <1>2, OneChanged
<1>5. Changed(G!Signalers, G!Signalers', t)
  BY <1>1, <1>2, OneChanged
<1>6. Changed(G!Passed, G!Passed', t)
  BY <1>1, <1>2, OneChanged
<1>7. Changed(InLine, InLine', t)
  BY <1>1, <1>2, OneChanged
<1> QED
  BY <1>3, <1>4, <1>5, <1>6, <1>7

(* Who is in the four sets. *)
LEMMA GMembers ==
    ASSUME NEW t \in Threads
    PROVE  /\ t \in G!Owners <=> gpc[t] \in OwnPCs
           /\ t \in G!Signalers <=> gpc[t] = "signal"
           /\ t \in G!Passed <=> gpc[t] = "contend" /\ gwoken[t]
           /\ t \in InLine <=> gpc[t] \in GatePCs \/ (gpc[t] = "contend" /\ gwoken[t])
           /\ t \in G!Owners' <=> gpc'[t] \in OwnPCs
           /\ t \in G!Signalers' <=> gpc'[t] = "signal"
           /\ t \in G!Passed' <=> gpc'[t] = "contend" /\ gwoken'[t]
           /\ t \in InLine' <=> gpc'[t] \in GatePCs \/ (gpc'[t] = "contend" /\ gwoken'[t])
BY DEF G!Owners, G!Signalers, G!Passed, G!AtGate, InLine, OwnPCs, GatePCs

(* An acquire owns the free mutex, or contends. *)
LEMMA GAcquireInv ==
    ASSUME GInv, NEW t \in Threads, G!Acquire(t) \/ G!TryToAcquire(t) PROVE GInv'
<1> USE DEF GInv
<1>1. PICK l \in {"own", "contend"} :
           /\ gpc[t] = "idle" /\ gpc' = [gpc EXCEPT ![t] = l]
           /\ gCount' = [gCount EXCEPT !.lock = FALSE]
           /\ l = "own" <=> gCount.lock
           /\ UNCHANGED <<gGate, gwoken, gOldValue>>
  BY DEF G!Acquire, G!TryToAcquire, G!Goto
<1>2. l \in GPCs /\ gwoken[t] = FALSE /\ gwoken' = [gwoken EXCEPT ![t] = FALSE]
  BY <1>1 DEF GPCs, OwnPCs, GatePCs, GTypes, GPlaces
<1>3. gCount' \in Counts /\ ~gCount'.lock /\ gCount'.woken = gCount.woken
      /\ gCount'.waiters = gCount.waiters
  BY <1>1 DEF Counts, GTypes
<1>4. GTypes'
  BY <1>1, <1>2, <1>3, GMove DEF GTypes
<1>5. GListExact' /\ GPlaces'
  BY <1>1, <1>2 DEF GListExact, GPlaces, GTypes, GatePCs
<1>6. GCounted'
  <2>1. /\ Changed(G!Owners, G!Owners', t) /\ Changed(G!Signalers, G!Signalers', t)
        /\ Changed(G!Passed, G!Passed', t) /\ Changed(InLine, InLine', t)
    BY <1>1, <1>2, GMove
  <2>2. /\ t \notin G!Owners /\ (t \in G!Owners' <=> l = "own")
        /\ t \notin G!Signalers /\ t \notin G!Signalers'
        /\ t \notin G!Passed /\ t \notin G!Passed'
        /\ t \notin InLine /\ t \notin InLine'
    BY <1>1, <1>2, GMembers DEF OwnPCs, GatePCs, GTypes
  <2> QED
    BY <1>1, <1>3, <2>1, <2>2 DEF GCounted, Changed, One, GTypes, Counts
<1>7. G!NobodyForgotten'
  BY <1>3 DEF G!NobodyForgotten
<1> QED
  BY <1>4, <1>5, <1>6, <1>7

(* Who contends takes a free mutex.  If it was woken, it takes the bit     *)
(* with it that stands for it.                                             *)
LEMMA GContendTakeInv ==
    ASSUME GInv, NEW t \in Threads, G!ContendTake(t) PROVE GInv'
<1> USE DEF GInv
<1>1. /\ gpc[t] = "contend" /\ gpc' = [gpc EXCEPT ![t] = "own"]
      /\ gCount.lock /\ gwoken' = [gwoken EXCEPT ![t] = FALSE]
      /\ UNCHANGED <<gGate, gOldValue>>
      /\ gCount' = [gCount EXCEPT !.lock = FALSE,
                                  !.woken = IF gwoken[t] THEN ~gCount.woken ELSE gCount.woken]
  BY DEF G!ContendTake, G!MayTake, G!Taken, G!Goto
<1>2. "own" \in GPCs
  BY DEF GPCs, OwnPCs
<1>3. /\ gCount' \in Counts /\ ~gCount'.lock /\ gCount'.waiters = gCount.waiters
      /\ gCount'.woken = IF gwoken[t] THEN ~gCount.woken ELSE gCount.woken
  BY <1>1 DEF Counts, GTypes
<1>4. GTypes'
  BY <1>1, <1>2, <1>3, GMove DEF GTypes
<1>5. GListExact' /\ GPlaces'
  BY <1>1 DEF GListExact, GPlaces, GTypes, GatePCs
<1>6. GCounted'
  <2>1. /\ Changed(G!Owners, G!Owners', t) /\ Changed(G!Signalers, G!Signalers', t)
        /\ Changed(G!Passed, G!Passed', t) /\ Changed(InLine, InLine', t)
    BY <1>1, <1>2, GMove
  <2>2. /\ t \notin G!Owners /\ t \in G!Owners'
        /\ t \notin G!Signalers /\ t \notin G!Signalers'
        /\ (t \in G!Passed <=> gwoken[t]) /\ t \notin G!Passed'
        /\ (t \in InLine <=> gwoken[t]) /\ t \notin InLine'
    BY <1>1, <1>2, GMembers DEF OwnPCs, GatePCs, GTypes
  <2>3. Cardinality(G!Owners') = 1 - One(gCount'.lock)
    BY <1>1, <1>3, <2>1, <2>2 DEF GCounted, Changed, One, GTypes, Counts
  <2>4. gCount'.waiters + One(gCount'.woken) = Cardinality(InLine')
    BY <1>1, <1>3, <2>1, <2>2, SMTT(30) DEF GCounted, Changed, One, GTypes, Counts
  <2>5. Cardinality(G!Signalers') + Cardinality(G!Passed') + One(gGate'.signaled) = One(gCount'.woken)
    BY <1>1, <1>3, <2>1, <2>2, SMTT(30) DEF GCounted, Changed, One, GTypes, Counts
  <2> QED
    BY <2>3, <2>4, <2>5 DEF GCounted
<1>7. G!NobodyForgotten'
  BY <1>3 DEF G!NobodyForgotten
<1> QED
  BY <1>4, <1>5, <1>6, <1>7

(* Who contends for a mutex that is not free is counted, or goes back in   *)
(* line: the bit that stood for it carries over into the count.            *)
LEMMA GContendWaitInv ==
    ASSUME GInv, NEW t \in Threads, G!ContendWait(t) PROVE GInv'
<1> USE DEF GInv
<1>1. /\ gpc[t] = "contend" /\ gpc' = [gpc EXCEPT ![t] = "gate"]
      /\ ~gCount.lock
      /\ UNCHANGED <<gGate, gwoken, gOldValue>>
      /\ gCount' = [gCount EXCEPT
            !.woken = IF gwoken[t] THEN ~gCount.woken ELSE gCount.woken,
            !.waiters = IF gwoken[t] /\ ~gCount.woken THEN gCount.waiters ELSE gCount.waiters + 1]
  BY DEF G!ContendWait, G!MayTake, G!Added, G!Goto
<1>2. "gate" \in GPCs /\ gwoken[t] \in BOOLEAN /\ gwoken' = [gwoken EXCEPT ![t] = gwoken[t]]
  BY <1>1 DEF GPCs, GatePCs, GTypes
<1>3. /\ gCount' \in Counts /\ ~gCount'.lock
      /\ gCount'.waiters = IF gwoken[t] /\ ~gCount.woken THEN gCount.waiters ELSE gCount.waiters + 1
      /\ gCount'.woken = IF gwoken[t] THEN ~gCount.woken ELSE gCount.woken
      /\ gCount'.lock = gCount.lock
  <2> DEFINE w == IF gwoken[t] THEN ~gCount.woken ELSE gCount.woken
             n == IF gwoken[t] /\ ~gCount.woken THEN gCount.waiters ELSE gCount.waiters + 1
  <2>1. w \in BOOLEAN
    BY DEF Counts, GTypes
  <2>2. n \in Nat
    BY DEF Counts, GTypes
  <2>3. gCount' = [gCount EXCEPT !.woken = w, !.waiters = n]
    BY <1>1
  <2> HIDE DEF w, n
  <2>4. /\ gCount' \in Counts /\ gCount'.lock = gCount.lock
        /\ gCount'.waiters = n /\ gCount'.woken = w
    BY <2>1, <2>2, <2>3 DEF Counts, GTypes
  <2> QED
    BY <1>1, <2>4 DEF w, n
<1>4. GTypes'
  BY <1>1, <1>2, <1>3, GMove DEF GTypes
<1>5. GListExact' /\ GPlaces'
  BY <1>1 DEF GListExact, GPlaces, GTypes, GatePCs
<1>6. GCounted'
  <2>1. /\ Changed(G!Owners, G!Owners', t) /\ Changed(G!Signalers, G!Signalers', t)
        /\ Changed(G!Passed, G!Passed', t) /\ Changed(InLine, InLine', t)
    BY <1>1, <1>2, GMove
  <2>2. /\ t \notin G!Owners /\ t \notin G!Owners'
        /\ t \notin G!Signalers /\ t \notin G!Signalers'
        /\ (t \in G!Passed <=> gwoken[t]) /\ t \notin G!Passed'
        /\ (t \in InLine <=> gwoken[t]) /\ t \in InLine'
    BY <1>1, <1>2, GMembers DEF OwnPCs, GatePCs, GTypes
  <2>3. Cardinality(G!Owners') = 1 - One(gCount'.lock)
    BY <1>1, <1>3, <2>1, <2>2 DEF GCounted, Changed, One, GTypes, Counts
  <2>4. gCount'.waiters + One(gCount'.woken) = Cardinality(InLine')
    BY <1>1, <1>3, <2>1, <2>2 DEF GCounted, Changed, One, GTypes, Counts
  <2>5. Cardinality(G!Signalers') + Cardinality(G!Passed') + One(gGate'.signaled) = One(gCount'.woken)
    BY <1>1, <1>3, <2>1, <2>2 DEF GCounted, Changed, One, GTypes, Counts
  <2> QED
    BY <2>3, <2>4, <2>5 DEF GCounted
<1>7. G!NobodyForgotten'
  BY <1>3 DEF G!NobodyForgotten
<1> QED
  BY <1>4, <1>5, <1>6, <1>7

(* At the gate: a thread passes, or joins the list. *)
LEMMA GWaitForGateInv ==
    ASSUME GInv, NEW t \in Threads, G!WaitForGate(t) PROVE GInv'
<1> USE DEF GInv
<1>1. CASE gGate.signaled
  <2>1. /\ gpc[t] = "gate" /\ gpc' = [gpc EXCEPT ![t] = "contend"]
        /\ gwoken' = [gwoken EXCEPT ![t] = TRUE]
        /\ gGate' = [gGate EXCEPT !.signaled = FALSE]
        /\ UNCHANGED <<gCount, gOldValue>>
    BY <1>1 DEF G!WaitForGate, G!Goto
  <2>2. "contend" \in GPCs
    BY DEF GPCs
  <2>3. gGate' \in [signaled : BOOLEAN, list : Seq(Threads)]
        /\ gGate'.list = gGate.list /\ gGate'.signaled = FALSE
    BY <2>1 DEF GTypes
  <2>4. GTypes'
    BY <2>1, <2>2, <2>3, GMove DEF GTypes
  <2>5. GListExact' /\ GPlaces'
    BY <2>1, <2>3 DEF GListExact, GPlaces, GTypes, GatePCs
  <2>6. GCounted'
    <3>1. /\ Changed(G!Owners, G!Owners', t) /\ Changed(G!Signalers, G!Signalers', t)
          /\ Changed(G!Passed, G!Passed', t) /\ Changed(InLine, InLine', t)
      BY <2>1, <2>2, GMove
    <3>2. /\ t \notin G!Owners /\ t \notin G!Owners'
          /\ t \notin G!Signalers /\ t \notin G!Signalers'
          /\ t \notin G!Passed /\ t \in G!Passed'
          /\ t \in InLine /\ t \in InLine'
      BY <2>1, <2>2, GMembers DEF OwnPCs, GatePCs, GTypes
    <3> QED
      BY <1>1, <2>1, <2>3, <3>1, <3>2 DEF GCounted, Changed, One, GTypes, Counts
  <2>7. G!NobodyForgotten'
    BY <2>1 DEF G!NobodyForgotten, GTypes
  <2> QED
    BY <2>4, <2>5, <2>6, <2>7
<1>2. CASE ~gGate.signaled
  <2>1. /\ gpc[t] = "gate" /\ gpc' = [gpc EXCEPT ![t] = "waiting"]
        /\ gGate' = [gGate EXCEPT !.list = Append(gGate.list, t)]
        /\ UNCHANGED <<gCount, gwoken, gOldValue>>
    BY <1>2 DEF G!WaitForGate, G!Goto
  <2>2. /\ "waiting" \in GPCs
        /\ gwoken[t] \in BOOLEAN
        /\ gwoken' = [gwoken EXCEPT ![t] = gwoken[t]]
    BY <2>1 DEF GPCs, GatePCs, GTypes
  <2>3. /\ gGate.list \in Seq(Threads) /\ ~Listed(gGate.list, t)
        /\ gGate' \in [signaled : BOOLEAN, list : Seq(Threads)]
        /\ gGate'.list = Append(gGate.list, t) /\ gGate'.signaled = FALSE
    BY <1>2, <2>1, Joined DEF GTypes, GListExact
  <2>4. GTypes'
    BY <2>1, <2>2, <2>3, GMove DEF GTypes
  <2>5. GListExact'
    BY <2>1, <2>3, Joined DEF GListExact, GTypes
  <2>6. GPlaces'
    BY <2>1 DEF GPlaces, GTypes, GatePCs
  <2>7. GCounted'
    <3>1. /\ Changed(G!Owners, G!Owners', t) /\ Changed(G!Signalers, G!Signalers', t)
          /\ Changed(G!Passed, G!Passed', t) /\ Changed(InLine, InLine', t)
      BY <2>1, <2>2, GMove
    <3>2. /\ t \notin G!Owners /\ t \notin G!Owners'
          /\ t \notin G!Signalers /\ t \notin G!Signalers'
          /\ t \notin G!Passed /\ t \notin G!Passed'
          /\ t \in InLine /\ t \in InLine'
      BY <2>1, <2>2, GMembers DEF OwnPCs, GatePCs, GTypes
    <3> QED
      BY <1>2, <2>1, <2>3, <3>1, <3>2 DEF GCounted, Changed, One, GTypes, Counts
  <2>8. G!NobodyForgotten'
    BY <2>1 DEF G!NobodyForgotten, GTypes
  <2> QED
    BY <2>4, <2>5, <2>6, <2>7, <2>8
<1> QED
  BY <1>1, <1>2

(* The owner goes on, without touching the count or the gate. *)
LEMMA GOwnerInv ==
    ASSUME GInv, NEW t \in Threads, G!SetOwner(t) \/ G!ClearOwner(t) PROVE GInv'
<1> USE DEF GInv
<1>1. PICK l \in OwnPCs : /\ gpc[t] \in OwnPCs /\ gpc' = [gpc EXCEPT ![t] = l]
                          /\ UNCHANGED <<gCount, gGate, gwoken, gOldValue>>
  BY DEF G!SetOwner, G!ClearOwner, G!Goto, OwnPCs
<1>2. l \in GPCs /\ gwoken[t] \in BOOLEAN /\ gwoken' = [gwoken EXCEPT ![t] = gwoken[t]]
  BY <1>1 DEF GPCs, GTypes
<1>3. GTypes'
  BY <1>1, <1>2, GMove DEF GTypes
<1>4. GListExact'
  BY <1>1 DEF GListExact, GTypes, OwnPCs
<1>5. GPlaces'
  BY <1>1 DEF GPlaces, GTypes, GatePCs, OwnPCs
<1>6. GCounted'
  <2>1. /\ Changed(G!Owners, G!Owners', t) /\ Changed(G!Signalers, G!Signalers', t)
        /\ Changed(G!Passed, G!Passed', t) /\ Changed(InLine, InLine', t)
    BY <1>1, <1>2, GMove
  <2>2. /\ t \in G!Owners /\ t \in G!Owners'
        /\ t \notin G!Signalers /\ t \notin G!Signalers'
        /\ t \notin G!Passed /\ t \notin G!Passed'
        /\ t \notin InLine /\ t \notin InLine'
    BY <1>1, <1>2, GMembers DEF OwnPCs, GatePCs, GTypes
  <2> QED
    BY <1>1, <2>1, <2>2 DEF GCounted, Changed, One, GTypes, Counts
<1>7. G!NobodyForgotten'
  BY <1>1 DEF G!NobodyForgotten, GTypes, OwnPCs
<1> QED
  BY <1>3, <1>4, <1>5, <1>6, <1>7

(* The owner frees the mutex, and goes on to wake somebody if there are    *)
(* waiters and none has been woken.                                        *)
LEMMA GReleaseInv ==
    ASSUME GInv, NEW t \in Threads, G!Release(t) PROVE GInv'
<1> USE DEF GInv
<1> DEFINE new == [gCount EXCEPT !.lock = TRUE]
<1>1. PICK l \in {"wake", "idle"} :
           /\ gpc[t] = "release" /\ gpc' = [gpc EXCEPT ![t] = l]
           /\ gCount' = new /\ UNCHANGED <<gGate, gwoken>>
           /\ l = "wake" <=> gCount.waiters > 0 /\ ~gCount.woken
           /\ l = "wake" => gOldValue' = [gOldValue EXCEPT ![t] = new]
           /\ l = "idle" => gOldValue' = gOldValue
  BY DEF G!Release, G!Goto, G!NeedsWake
<1>2. l \in GPCs /\ gwoken[t] = FALSE /\ gwoken' = [gwoken EXCEPT ![t] = FALSE]
  BY <1>1 DEF GPCs, GTypes, GPlaces, GatePCs
<1>3. /\ new \in Counts /\ gCount'.lock = TRUE /\ gCount'.woken = gCount.woken
      /\ gCount'.waiters = gCount.waiters
  BY <1>1 DEF Counts, GTypes
<1>4. GTypes'
  BY <1>1, <1>2, <1>3, GMove DEF GTypes
<1>5. GListExact'
  BY <1>1 DEF GListExact, GTypes
<1>6. GPlaces'
  BY <1>1, <1>2, <1>3 DEF GPlaces, GTypes, GatePCs
<1>7. GCounted'
  <2>1. /\ Changed(G!Owners, G!Owners', t) /\ Changed(G!Signalers, G!Signalers', t)
        /\ Changed(G!Passed, G!Passed', t) /\ Changed(InLine, InLine', t)
    BY <1>1, <1>2, GMove
  <2>2. /\ t \in G!Owners /\ t \notin G!Owners'
        /\ t \notin G!Signalers /\ t \notin G!Signalers'
        /\ t \notin G!Passed /\ t \notin G!Passed'
        /\ t \notin InLine /\ t \notin InLine'
    BY <1>1, <1>2, GMembers DEF OwnPCs, GatePCs, GTypes
  <2> QED
    BY <1>1, <1>3, <2>1, <2>2 DEF GCounted, Changed, One, GTypes, Counts
<1>8. G!NobodyForgotten'
  BY <1>1, <1>3 DEF G!NobodyForgotten, GTypes, Counts
<1> QED
  BY <1>4, <1>5, <1>6, <1>7, <1>8

(* If the count is still what the release has left, one waiter is taken    *)
(* off it and the bit set that stands for it.                              *)
LEMMA GWakeInv ==
    ASSUME GInv, NEW t \in Threads, G!Wake(t) PROVE GInv'
<1> USE DEF GInv
<1> DEFINE same == gCount = gOldValue[t]
<1>1. PICK l \in {"signal", "idle"} :
           /\ gpc[t] = "wake" /\ gpc' = [gpc EXCEPT ![t] = l]
           /\ l = "signal" <=> same
           /\ gCount' = IF same THEN [gCount EXCEPT !.woken = TRUE, !.waiters = gCount.waiters - 1]
                                ELSE gCount
           /\ gOldValue' = [gOldValue EXCEPT ![t] = G!Free]
           /\ UNCHANGED <<gGate, gwoken>>
  BY DEF G!Wake, G!Goto, G!OneWoken
<1>2. l \in GPCs /\ gwoken[t] = FALSE /\ gwoken' = [gwoken EXCEPT ![t] = FALSE]
  BY <1>1 DEF GPCs, GTypes, GPlaces, GatePCs
<1>3. /\ gCount.waiters \in Nat
      /\ same => gCount.waiters > 0 /\ ~gCount.woken
      /\ gCount' \in Counts /\ gCount'.lock = gCount.lock
      /\ same => gCount'.woken /\ gCount'.waiters = gCount.waiters - 1
      /\ ~same => gCount'.woken = gCount.woken /\ gCount'.waiters = gCount.waiters
  <2>1. CASE same
    <3>1. /\ gCount \in Counts
          /\ gCount.waiters > 0
          /\ ~gCount.woken
          /\ gCount.waiters - 1 \in Nat
      BY <1>1, <2>1 DEF GTypes, GPlaces, Counts
    <3>2. gCount' = [gCount EXCEPT !.woken = TRUE, !.waiters = gCount.waiters - 1]
      BY <1>1, <2>1
    <3> QED
      BY <2>1, <3>1, <3>2 DEF Counts
  <2>2. CASE ~same
    BY <1>1, <2>2 DEF GTypes, Counts
  <2> QED
    BY <2>1, <2>2
<1>4. GTypes'
  BY <1>1, <1>2, <1>3, GMove DEF GTypes, Counts, G!Free
<1>5. GListExact'
  BY <1>1 DEF GListExact, GTypes
<1>6. GPlaces'
  BY <1>1, <1>2 DEF GPlaces, GTypes
<1>7. GCounted'
  <2>1. /\ Changed(G!Owners, G!Owners', t) /\ Changed(G!Signalers, G!Signalers', t)
        /\ Changed(G!Passed, G!Passed', t) /\ Changed(InLine, InLine', t)
    BY <1>1, <1>2, GMove
  <2>2. /\ t \notin G!Owners /\ t \notin G!Owners'
        /\ t \notin G!Signalers /\ (t \in G!Signalers' <=> l = "signal")
        /\ t \notin G!Passed /\ t \notin G!Passed'
        /\ t \notin InLine /\ t \notin InLine'
    BY <1>1, <1>2, GMembers DEF OwnPCs, GatePCs, GTypes
  <2>3. /\ Cardinality(G!Owners') = Cardinality(G!Owners)
        /\ Cardinality(G!Passed') = Cardinality(G!Passed)
        /\ Cardinality(InLine') = Cardinality(InLine)
        /\ Cardinality(G!Signalers') = Cardinality(G!Signalers) + One(same)
    BY <1>1, <2>1, <2>2 DEF Changed, One
  <2>4. CASE same
    <3>1. /\ One(gCount.woken) = 0 /\ One(gCount'.woken) = 1 /\ One(same) = 1
          /\ gCount'.waiters = gCount.waiters - 1 /\ gCount.waiters \in Nat
          /\ One(gGate'.signaled) = One(gGate.signaled)
          /\ One(gCount'.lock) = One(gCount.lock)
      BY <1>1, <1>3, <2>4 DEF One
    <3>2. /\ Cardinality(G!Signalers) \in Nat /\ Cardinality(G!Passed) \in Nat
          /\ One(gGate.signaled) \in Nat
      BY <2>1 DEF Changed, One
    <3> HIDE DEF same
    <3> QED
      BY <2>3, <3>1, <3>2 DEF GCounted
  <2>5. CASE ~same
    BY <1>1, <1>3, <2>1, <2>3, <2>5 DEF GCounted, One, Changed
  <2> QED
    BY <2>4, <2>5
<1>8. G!NobodyForgotten'
  BY <1>1, <1>3 DEF G!NobodyForgotten, GTypes, Counts
<1> QED
  BY <1>4, <1>5, <1>6, <1>7, <1>8

(* The signal is left at the gate for a thread that has still to come, or  *)
(* lets the first pass that waits.                                         *)
LEMMA GSignalGateInv ==
    ASSUME GInv, NEW t \in Threads, G!SignalGate(t) PROVE GInv'
<1> USE DEF GInv
<1>0. gpc[t] = "signal" /\ gCount.woken /\ ~gGate.signaled
  <2>1. gpc[t] = "signal"
    BY DEF G!SignalGate
  <2>2. /\ Cardinality(G!Signalers) \in Nat /\ Cardinality(G!Passed) \in Nat
        /\ Cardinality(G!Signalers) > 0
    <3>1. G!Signalers \in SUBSET Threads /\ G!Passed \in SUBSET Threads /\ t \in G!Signalers
      BY <2>1 DEF G!Signalers, G!Passed
    <3>2. /\ Cardinality(G!Signalers) \in Nat /\ Cardinality(G!Passed) \in Nat
          /\ Cardinality(G!Signalers) = 0 <=> G!Signalers = {}
      BY <3>1, OneMore
    <3> QED
      BY <3>1, <3>2
  <2> QED
    BY <2>1, <2>2 DEF GCounted, One
<1>1. CASE gGate.list = <<>>
  <2>1. /\ gpc' = [gpc EXCEPT ![t] = "idle"]
        /\ gGate' = [gGate EXCEPT !.signaled = TRUE]
        /\ UNCHANGED <<gCount, gwoken, gOldValue>>
    BY <1>1 DEF G!SignalGate, G!Goto
  <2>2. "idle" \in GPCs /\ gwoken[t] = FALSE /\ gwoken' = [gwoken EXCEPT ![t] = FALSE]
    BY <1>0, <2>1 DEF GPCs, GTypes, GPlaces, GatePCs
  <2>3. gGate' \in [signaled : BOOLEAN, list : Seq(Threads)]
        /\ gGate'.list = gGate.list /\ gGate'.signaled = TRUE
    BY <2>1 DEF GTypes
  <2>4. GTypes'
    BY <2>1, <2>2, <2>3, GMove DEF GTypes
  <2>5. GListExact'
    BY <1>0, <1>1, <2>1, <2>3 DEF GListExact, GTypes
  <2>6. GPlaces'
    BY <1>0, <2>1, <2>2 DEF GPlaces, GTypes
  <2>7. GCounted'
    <3>1. /\ Changed(G!Owners, G!Owners', t) /\ Changed(G!Signalers, G!Signalers', t)
          /\ Changed(G!Passed, G!Passed', t) /\ Changed(InLine, InLine', t)
      BY <2>1, <2>2, GMove
    <3>2. /\ t \notin G!Owners /\ t \notin G!Owners'
          /\ t \in G!Signalers /\ t \notin G!Signalers'
          /\ t \notin G!Passed /\ t \notin G!Passed'
          /\ t \notin InLine /\ t \notin InLine'
      BY <1>0, <2>1, <2>2, GMembers DEF OwnPCs, GatePCs, GTypes
    <3> QED
      BY <1>0, <2>1, <2>3, <3>1, <3>2 DEF GCounted, Changed, One, GTypes, Counts
  <2>8. G!NobodyForgotten'
    BY <1>0, <2>1 DEF G!NobodyForgotten
  <2> QED
    BY <2>4, <2>5, <2>6, <2>7, <2>8
<1>2. CASE gGate.list # <<>>
  <2> DEFINE w == Head(gGate.list)
  <2>1. /\ gpc' = [gpc EXCEPT ![t] = "idle", ![w] = "contend"]
        /\ gwoken' = [gwoken EXCEPT ![w] = TRUE]
        /\ gGate' = [gGate EXCEPT !.list = Tail(gGate.list)]
        /\ UNCHANGED <<gCount, gOldValue>>
    BY <1>0, <1>2 DEF G!SignalGate
  <2>2. /\ gGate.list \in Seq(Threads)
        /\ w \in Threads /\ gpc[w] = "waiting" /\ w # t
    BY <1>0, <1>2, Left DEF GTypes, GListExact
  <2>3. /\ gGate' \in [signaled : BOOLEAN, list : Seq(Threads)]
        /\ gGate'.list = Tail(gGate.list) /\ gGate'.signaled = FALSE
    BY <1>0, <1>2, <2>1, <2>2, Left DEF GTypes
  <2>4. GListExact'
    BY <1>0, <1>2, <2>1, <2>2, <2>3, Left DEF GListExact, GTypes
  <2> HIDE DEF w
  <2>5. GTypes'
    BY <2>1, <2>2, <2>3 DEF GTypes, GPCs
  <2>6. GPlaces'
    BY <1>0, <2>1, <2>2 DEF GPlaces, GTypes, GatePCs
  <2>7. /\ G!Owners' = G!Owners /\ InLine' = InLine
        /\ G!Signalers' = G!Signalers \ {t} /\ G!Passed' = G!Passed \cup {w}
    <3>1. /\ \A u \in Threads : u # t /\ u # w => gpc'[u] = gpc[u] /\ gwoken'[u] = gwoken[u]
          /\ gpc'[t] = "idle" /\ gpc'[w] = "contend" /\ gwoken'[w]
      BY <2>1, <2>2 DEF GTypes
    <3> QED
      BY <1>0, <2>2, <3>1 DEF G!Owners, G!Signalers, G!Passed, G!AtGate, InLine
  <2>8. /\ G!Signalers \in SUBSET Threads /\ t \in G!Signalers
        /\ G!Passed \in SUBSET Threads /\ w \notin G!Passed
    BY <1>0, <2>2 DEF G!Signalers, G!Passed
  <2>9. /\ Cardinality(G!Signalers) \in Nat /\ Cardinality(G!Passed) \in Nat
        /\ Cardinality(G!Signalers') = Cardinality(G!Signalers) - 1
        /\ Cardinality(G!Passed') = Cardinality(G!Passed) + 1
    BY <2>7, <2>8, OneMore
  <2>10. GCounted'
    BY <1>0, <2>1, <2>3, <2>7, <2>9 DEF GCounted, One
  <2>11. G!NobodyForgotten'
    BY <1>0, <2>1 DEF G!NobodyForgotten
  <2> QED
    BY <2>4, <2>5, <2>6, <2>10, <2>11
<1> QED
  BY <1>1, <1>2

(* Every step of a thread preserves the invariant of the guarded mutex. *)
LEMMA GNextInv == GInv /\ (G!Next \/ UNCHANGED gvars) => GInv'
<1>1. ASSUME GInv, UNCHANGED gvars PROVE GInv'
  <2> USE <1>1 DEF gvars, GInv
  <2>1. GTypes' /\ GListExact' /\ GPlaces'
    BY DEF GTypes, GListExact, GPlaces
  <2>2. GCounted'
    BY DEF GCounted, InLine, G!Owners, G!Signalers, G!Passed, G!AtGate
  <2>3. G!NobodyForgotten'
    BY DEF G!NobodyForgotten
  <2> QED
    BY <2>1, <2>2, <2>3
<1> QED
  BY <1>1, GAcquireInv, GContendTakeInv, GContendWaitInv, GWaitForGateInv, GOwnerInv,
     GReleaseInv, GWakeInv, GSignalGateInv DEF G!Next, G!Inside

(* From the invariant to what is promised of the guarded mutex: count, bit *)
(* and gate agree with the threads.                                        *)
LEMMA GWaitersExact == GInv => G!WaitersExact
<1> SUFFICES ASSUME GInv PROVE G!WaitersExact
  OBVIOUS
<1>1. G!CountExact
  BY SameCardinality DEF GInv, GCounted, G!CountExact, InLine, One
<1>2. G!WakeUpIsDue
  BY SameCardinality DEF GInv, GCounted, GListExact, Listed, G!WakeUpIsDue, One
<1> QED
  BY <1>1, <1>2 DEF GInv, G!WaitersExact

-----------------------------------------------------------------------------
(* The threads of MCLocks use one lock at a time; the others stay as they  *)
(* are.                                                                    *)
LEMMA AStep ==
    [ANext]_avars => /\ G!Next \/ UNCHANGED gvars
                     /\ F!Next \/ UNCHANGED fvars
<1> SUFFICES ASSUME [ANext]_avars
             PROVE  /\ G!Next \/ UNCHANGED gvars
                    /\ F!Next \/ UNCHANGED fvars
  OBVIOUS
<1>1. CASE UNCHANGED avars
  BY <1>1 DEF avars
<1>2. CASE ACall
  BY <1>2 DEF ACall, Begins, G!Next, F!Next
<1>3. ASSUME NEW t \in Threads, AGo(t)
      PROVE  /\ G!Next \/ UNCHANGED gvars
             /\ F!Next \/ UNCHANGED fvars
  BY <1>3 DEF AGo, Releases, Continues, G!Next, F!Next
<1> QED
  BY <1>1, <1>2, <1>3 DEF ANext

(* The inductive invariants are ones of the threads' use of the locks. *)
THEOREM MutexInvariance == AFairSpec => [](GInv /\ FInv)
<1>1. AInit => GInv /\ FInv
  BY GInitInv, FInitInv DEF AInit
<1>2. (GInv /\ FInv) /\ [ANext]_avars => (GInv /\ FInv)'
  BY AStep, GNextInv, FNextInv
<1> QED
  BY <1>1, <1>2, PTL DEF AFairSpec

(* The counts of both mutexes, the woken bit, the gate and the event agree *)
(* with the threads that have them, wait, or are about to be woken.        *)
THEOREM MutexSafety == AFairSpec => []MutexesExact
<1>1. GInv /\ FInv => MutexesExact
  BY GWaitersExact, FHoldersExact DEF MutexesExact
<1> QED
  BY <1>1, MutexInvariance, PTL

-----------------------------------------------------------------------------
(* Both mutexes implement RWLock.                                          *)

OneAtMost(S) == S = {} \/ \E t \in Threads : S = {t}

(* Fewer than two threads are none or one. *)
LEMMA FewOwners ==
    ASSUME NEW S \in SUBSET Threads, Cardinality(S) = 0 \/ Cardinality(S) = 1
    PROVE  OneAtMost(S)
BY ThreadsAssumption, FS_Subset, FS_EmptySet, FS_Singleton DEF OneAtMost

(* A guarded mutex has one owner at most, before and after a step. *)
LEMMA GOneOwner ==
    /\ GInv => OneAtMost(G!Owners)
    /\ GInv' => OneAtMost(G!Owners')
<1>1. /\ GInv => Cardinality(G!Owners) = 0 \/ Cardinality(G!Owners) = 1
      /\ GInv' => Cardinality(G!Owners') = 0 \/ Cardinality(G!Owners') = 1
  BY DEF GInv, GCounted, One
<1>2. G!Owners \in SUBSET Threads /\ G!Owners' \in SUBSET Threads
  BY DEF G!Owners
<1> QED
  BY <1>1, <1>2, FewOwners

(* And so does a fast mutex. *)
LEMMA FOneOwner ==
    /\ FInv => OneAtMost(F!Owners)
    /\ FInv' => OneAtMost(F!Owners')
<1>1. /\ F!Owners \in SUBSET Threads /\ F!Owners' \in SUBSET Threads
      /\ F!Signalers \in SUBSET Threads /\ F!Signalers' \in SUBSET Threads
  BY DEF F!Owners, F!Signalers
<1>2. /\ Cardinality(F!Owners) \in Nat /\ Cardinality(F!Owners') \in Nat
      /\ Cardinality(F!Signalers) \in Nat /\ Cardinality(F!Signalers') \in Nat
  BY <1>1, OneMore
<1>3. /\ FInv => Cardinality(F!Owners) = 0 \/ Cardinality(F!Owners) = 1
      /\ FInv' => Cardinality(F!Owners') = 0 \/ Cardinality(F!Owners') = 1
  BY <1>2 DEF FInv, FCounted
<1> QED
  BY <1>1, <1>3, FewOwners

(* The owners of the guarded mutex, as RWLock sees them. *)
GHold == [t \in Threads |-> IF t \in G!Owners THEN "excl" ELSE "none"]

(* Who takes the guarded mutex finds it free, and who has it is alone. *)
LEMMA GExcludes ==
    /\ GInv /\ G!Owners = {} => G!RW!Init
    /\ GInv /\ GInv' => G!RW!Next \/ UNCHANGED GHold
<1>1. G!Owners = {} => G!RW!Init
  BY DEF G!RW!Init
<1>2. ASSUME GInv, GInv' PROVE G!RW!Next \/ UNCHANGED GHold
  <2>1. OneAtMost(G!Owners) /\ OneAtMost(G!Owners')
    BY <1>2, GOneOwner
  <2>2. CASE G!Owners' = G!Owners
    BY <2>2 DEF GHold
  <2>3. ASSUME NEW t \in Threads, G!Owners = {}, G!Owners' = {t}
        PROVE  G!RW!AcquireExclusive(t)
    BY <2>3 DEF G!RW!AcquireExclusive, G!RW!Holders
  <2>4. ASSUME NEW t \in Threads, G!Owners = {t}, G!Owners' = {}
        PROVE  G!RW!Release(t)
    BY <2>4 DEF G!RW!Release
  <2>5. ASSUME NEW t \in Threads, NEW u \in Threads, t # u, G!Owners = {t}, G!Owners' = {u}
        PROVE  G!RW!Transfer(t, u)
    BY <2>5 DEF G!RW!Transfer
  <2> QED
    BY <2>1, <2>2, <2>3, <2>4, <2>5 DEF OneAtMost, G!RW!Next
<1> QED
  BY <1>1, <1>2

(* The owners of the fast mutex, as RWLock sees them. *)
FHold == [t \in Threads |-> IF t \in F!Owners THEN "excl" ELSE "none"]

(* Who takes the fast mutex finds it free, and who has it is alone. *)
LEMMA FExcludes ==
    /\ FInv /\ F!Owners = {} => F!RW!Init
    /\ FInv /\ FInv' => F!RW!Next \/ UNCHANGED FHold
<1>1. F!Owners = {} => F!RW!Init
  BY DEF F!RW!Init
<1>2. ASSUME FInv, FInv' PROVE F!RW!Next \/ UNCHANGED FHold
  <2>1. OneAtMost(F!Owners) /\ OneAtMost(F!Owners')
    BY <1>2, FOneOwner
  <2>2. CASE F!Owners' = F!Owners
    BY <2>2 DEF FHold
  <2>3. ASSUME NEW t \in Threads, F!Owners = {}, F!Owners' = {t}
        PROVE  F!RW!AcquireExclusive(t)
    BY <2>3 DEF F!RW!AcquireExclusive, F!RW!Holders
  <2>4. ASSUME NEW t \in Threads, F!Owners = {t}, F!Owners' = {}
        PROVE  F!RW!Release(t)
    BY <2>4 DEF F!RW!Release
  <2>5. ASSUME NEW t \in Threads, NEW u \in Threads, t # u, F!Owners = {t}, F!Owners' = {u}
        PROVE  F!RW!Transfer(t, u)
    BY <2>5 DEF F!RW!Transfer
  <2> QED
    BY <2>1, <2>2, <2>3, <2>4, <2>5 DEF OneAtMost, F!RW!Next
<1> QED
  BY <1>1, <1>2

(* An owner of a guarded or of a fast mutex is alone until it lets go,     *)
(* whichever routine has granted it: both implement RWLock.                *)
THEOREM MutexRefinement == AFairSpec => LocksExclude
<1>1. AInit => G!RW!Init /\ F!RW!Init
  <2>1. ASSUME AInit PROVE GInv /\ FInv /\ G!Owners = {} /\ F!Owners = {}
    BY <2>1, GInitInv, FInitInv DEF AInit, G!Init, F!Init, G!Owners, F!Owners
  <2> QED
    BY <2>1, GExcludes, FExcludes
<1>2. (GInv /\ FInv) /\ (GInv /\ FInv)'
         => (G!RW!Next \/ UNCHANGED GHold) /\ (F!RW!Next \/ UNCHANGED FHold)
  BY GExcludes, FExcludes
<1>3. /\ UNCHANGED GHold <=> UNCHANGED [t \in Threads |-> IF t \in G!Owners THEN "excl" ELSE "none"]
      /\ UNCHANGED FHold <=> UNCHANGED [t \in Threads |-> IF t \in F!Owners THEN "excl" ELSE "none"]
  BY DEF GHold, FHold
<1> QED
  BY <1>1, <1>2, <1>3, MutexInvariance, PTL
     DEF AFairSpec, LocksExclude, G!MutualExclusion, F!MutualExclusion, G!RW!Spec, F!RW!Spec

-----------------------------------------------------------------------------
(* The entry locks of a handle table.                                      *)

(* The list ws starts at the pointer b, with g the blocks. *)
At(ws, i) == IF i \in DOMAIN ws THEN ws[i] ELSE Null

Path(b, ws, g) == /\ ws \in Seq(Users)
                  /\ b = At(ws, 1)
                  /\ \A i \in DOMAIN ws : g[ws[i]].next = At(ws, i + 1)

(* What a thread has, depending on where it is. *)
EPlaces ==
    \A t \in Users :
       /\ epc[t] \notin {"wake", "signal"} => cur[t] = Null
       /\ epc[t] = "signal" => cur[t] \in Users /\ epc[cur[t]] = "sleep" /\ ~blk[cur[t]].event
       /\ epc[t] = "sleep" => ~blk[t].wait
       /\ own[t] => epc[t] \in {"unblock", "wake", "signal"}
       /\ epc[t] \in {"read", "cas", "block", "push"} \/ E!Blocked(t) => ent[t] \in Entries
       /\ hold[t] # Null => epc[t] = "idle"

(* The history of who has locked what, and the entries. *)
EOwners ==
    /\ \A t \in Users : hold[t] # Null => entry[hold[t]] = E!LockedEntry
    /\ \A t, u \in Users : hold[t] # Null /\ hold[t] = hold[u] => t = u
    /\ \A e \in Entries : entry[e] = E!LockedEntry => \E t \in Users : hold[t] = e

(* A thread whose block nobody has taken the wait bit of, or that sleeps   *)
(* and is not woken.                                                       *)
Waits(u) == /\ E!Blocked(u)
            /\ blk[u].wait \/ (epc[u] = "sleep" /\ ~blk[u].event)

(* Who is on the list of the table has not yet taken it, and sleeps only   *)
(* with its entry locked or with a thread about to take the list.          *)
Due(u) == /\ own[u] => epc[u] = "unblock"
          /\ epc[u] \in {"prepare", "sleep"} =>
                entry[ent[u]] = E!LockedEntry \/ \E v \in Users : epc[v] = "unblock"

(* The list ws of the table, and the lists ks that threads have taken:     *)
(* those who wait are in one of them, once.                                *)
ELists(ws, ks) ==
    /\ Path(head, ws, blk) /\ OnceEach(ws)
    /\ \A t \in Users : Path(cur[t], ks[t], blk) /\ OnceEach(ks[t])
    /\ \A t, u \in Users : ~(Listed(ws, u) /\ Listed(ks[t], u))
    /\ \A t, v, u \in Users : t # v => ~(Listed(ks[t], u) /\ Listed(ks[v], u))
    /\ \A u \in Users : Waits(u) <=> Listed(ws, u) \/ \E t \in Users : Listed(ks[t], u)
    /\ \A u \in Users : Listed(ws, u) => Due(u)

SomeLists == \E ws \in Seq(Users), ks \in [Users -> Seq(Users)] : ELists(ws, ks)

EInv == E!TypeOK /\ EPlaces /\ EOwners /\ SomeLists

(* A set of numbers has a least one. *)
LEMMA LeastNumber ==
    ASSUME NEW S \in SUBSET Nat, S # {}
    PROVE  \E x \in S : \A y \in S : x <= y
<1> DEFINE R == OpToRel(<, Nat)
<1>1. \E x \in S : \A y \in S : ~ (<<y, x>> \in R)
  BY NatLessThanWellFounded, WFMin
<1>2. \A x, y \in Nat : <<y, x>> \in R <=> y < x
  BY DEF OpToRel
<1> HIDE DEF R
<1>3. PICK x \in S : \A y \in S : ~ (<<y, x>> \in R)
  BY <1>1
<1>4. ASSUME NEW y \in S PROVE x <= y
  <2>1. ~(y < x) /\ x \in Nat /\ y \in Nat
    BY <1>2, <1>3
  <2> QED
    BY <2>1
<1> QED
  BY <1>4

(* ChainFrom is defined: the blocks that can be reached satisfy it. *)
ChainStep(c, x) == IF blk[x].next = Null THEN {x} ELSE {x} \cup c[blk[x].next]

Closed(S) == \A z \in S : blk[z].next \in S \cup {Null}

Reach(x) == {y \in Users : \A S \in SUBSET Users : x \in S /\ Closed(S) => y \in S}

(* There is such a function, so that CHOOSE finds one. *)
LEMMA ChainExists ==
    ASSUME E!TypeOK
    PROVE  \E c : c = [x \in Users |-> ChainStep(c, x)]
<1> DEFINE c == [x \in Users |-> Reach(x)]
<1>1. ASSUME NEW x \in Users PROVE Reach(x) = ChainStep(c, x)
  <2>1. x \in Reach(x)
    BY DEF Reach
  <2>2. CASE blk[x].next = Null
    <3>1. {x} \in SUBSET Users /\ Closed({x})
      BY <2>2 DEF Closed
    <3> QED
      BY <2>1, <2>2, <3>1 DEF Reach, ChainStep
  <2>3. CASE blk[x].next # Null
    <3> DEFINE n == blk[x].next
    <3>1. n \in Users
      BY <2>3 DEF E!TypeOK, E!Ptrs
    <3> HIDE DEF n
    <3>2. n \in Reach(n) /\ Reach(n) \subseteq Users
      BY <3>1 DEF Reach
    <3>3. Closed(Reach(n))
      BY EntryAssumption DEF Closed, Reach, E!TypeOK, E!Ptrs
    <3>4. Reach(n) \subseteq Reach(x)
      BY <3>1, EntryAssumption DEF Closed, Reach, n
    <3>5. Closed({x} \cup Reach(n)) /\ {x} \cup Reach(n) \in SUBSET Users
      BY <3>2, <3>3 DEF Closed, n
    <3>6. Reach(x) \subseteq {x} \cup Reach(n)
      BY <3>5 DEF Reach
    <3>7. Reach(x) = {x} \cup Reach(n)
      BY <2>1, <3>4, <3>6
    <3> QED
      BY <2>3, <3>1, <3>7 DEF ChainStep, n
  <2> QED
    BY <2>2, <2>3
<1>2. c = [x \in Users |-> ChainStep(c, x)]
  BY <1>1
<1> HIDE DEF c
<1> QED
  BY <1>2

(* The blocks from a pointer are those of the list that starts there. *)
LEMMA ChainIsPath ==
    ASSUME E!TypeOK, NEW b, NEW ws, Path(b, ws, blk)
    PROVE  \A u : u \in E!ChainFrom(b) <=> Listed(ws, u)
<1> DEFINE chain == CHOOSE c : c = [x \in Users |-> ChainStep(c, x)]
           n == Len(ws)
<1>1. chain = [x \in Users |-> ChainStep(chain, x)]
  BY ChainExists
<1>2. E!ChainFrom(b) = IF b = Null THEN {} ELSE chain[b]
  BY DEF E!ChainFrom, ChainStep
<1> HIDE DEF chain
<1>3. \A x \in Users : chain[x] = ChainStep(chain, x)
  BY <1>1
<1>4. n \in Nat /\ DOMAIN ws = 1 .. n /\ \A j \in 1 .. n : ws[j] \in Users
  BY DEF Path
<1> HIDE DEF n
<1>5. ASSUME NEW j \in 1 .. n
      PROVE  chain[ws[j]] = IF j = n THEN {ws[j]} ELSE {ws[j]} \cup chain[ws[j + 1]]
  <2>1. j + 1 \in 1 .. n <=> j # n
    BY <1>4
  <2>2. blk[ws[j]].next = IF j = n THEN Null ELSE ws[j + 1]
    BY <1>4, <2>1 DEF Path, At
  <2>3. j # n => ws[j + 1] # Null
    BY <1>4, <2>1, EntryAssumption
  <2> QED
    BY <1>3, <1>4, <2>2, <2>3 DEF ChainStep
<1>6. \A j \in 1 .. n : \A u : u \in chain[ws[j]] <=> \E i \in j .. n : ws[i] = u
  <2> DEFINE Bad == {m \in 0 .. n - 1 :
                       ~ \A u : u \in chain[ws[n - m]] <=> \E i \in (n - m) .. n : ws[i] = u}
  <2>1. Bad = {}
    <3> SUFFICES ASSUME Bad # {} PROVE FALSE
      OBVIOUS
    <3>1. Bad \in SUBSET Nat
      BY <1>4
    <3>2. PICK m \in Bad : \A y \in Bad : m <= y
      <4> HIDE DEF Bad
      <4> QED
        BY <3>1, LeastNumber
    <3>3. m \in 0 .. n - 1 /\ n - m \in 1 .. n
      BY <1>4, <3>2
    <3>4. CASE m = 0
      <4>1. n - m = n /\ n \in 1 .. n /\ \A i : i \in n .. n <=> i = n
        BY <1>4, <3>3, <3>4
      <4>2. chain[ws[n]] = {ws[n]}
        BY <1>5, <4>1
      <4>3. \A u : u \in chain[ws[n]] <=> \E i \in n .. n : ws[i] = u
        BY <4>1, <4>2
      <4> QED
        BY <3>2, <4>1, <4>3
    <3>5. CASE m # 0
      <4> DEFINE j == n - m
      <4>0. m - 1 \notin Bad
        <5> HIDE DEF Bad
        <5>1. m \in Nat /\ ~(m <= m - 1)
          BY <1>4, <3>3
        <5> QED
          BY <3>2, <5>1
      <4>1. m - 1 \in 0 .. n - 1 /\ n - (m - 1) = j + 1 /\ j # n /\ j \in 1 .. n
        BY <1>4, <3>3, <3>5
      <4>2. \A u : u \in chain[ws[j + 1]] <=> \E i \in (j + 1) .. n : ws[i] = u
        BY <4>0, <4>1
      <4>3. chain[ws[j]] = {ws[j]} \cup chain[ws[j + 1]]
        BY <1>5, <4>1
      <4>4. \A i : i \in j .. n <=> i = j \/ i \in (j + 1) .. n
        BY <1>4, <4>1
      <4>5. \A u : u \in chain[ws[j]] <=> \E i \in j .. n : ws[i] = u
        BY <4>2, <4>3, <4>4
      <4> QED
        BY <3>2, <4>5
    <3> QED
      BY <3>4, <3>5
  <2>2. ASSUME NEW j \in 1 .. n
        PROVE  \A u : u \in chain[ws[j]] <=> \E i \in j .. n : ws[i] = u
    <3>1. n - j \in 0 .. n - 1 /\ n - (n - j) = j
      BY <1>4
    <3> QED
      BY <2>1, <3>1
  <2> QED
    BY <2>2
<1>7. CASE n = 0
  BY <1>2, <1>4, <1>7 DEF Path, At, Listed
<1>8. CASE n # 0
  <2>1. 1 \in 1 .. n /\ b = ws[1] /\ b # Null
    BY <1>4, <1>8, EntryAssumption DEF Path, At
  <2> QED
    BY <1>2, <1>4, <1>6, <2>1 DEF Listed
<1> QED
  BY <1>7, <1>8

(* Lists keep their shape while the pointers of their blocks stay. *)
LEMMA PathKept ==
    ASSUME NEW b, NEW ws, NEW g, NEW h, Path(b, ws, g),
           \A u \in Users : Listed(ws, u) => h[u].next = g[u].next
    PROVE  Path(b, ws, h)
<1>1. \A i \in DOMAIN ws : ws[i] \in Users /\ Listed(ws, ws[i])
  BY DEF Path, Listed
<1> QED
  BY <1>1 DEF Path

(* The list that starts at the null pointer is empty. *)
LEMMA PathNull ==
    ASSUME NEW ws, NEW g, Path(Null, ws, g)
    PROVE  ws = <<>> /\ \A u : ~Listed(ws, u)
<1>1. ws \in Seq(Users) /\ 1 \notin DOMAIN ws
  BY EntryAssumption DEF Path, At
<1> QED
  BY <1>1 DEF Listed

(* A list without its first block. *)
LEMMA PathTail ==
    ASSUME NEW b, NEW ws, NEW g, Path(b, ws, g), b # Null, OnceEach(ws)
    PROVE  /\ b \in Users /\ Listed(ws, b)
           /\ Tail(ws) \in Seq(Users)
           /\ Path(g[b].next, Tail(ws), g)
           /\ OnceEach(Tail(ws))
           /\ \A u : Listed(Tail(ws), u) <=> Listed(ws, u) /\ u # b
<1> DEFINE n == Len(ws)
           r == Tail(ws)
<1>1. 1 \in DOMAIN ws /\ b = ws[1] /\ ws \in Seq(Users)
  BY DEF Path, At
<1>2. /\ n \in Nat /\ n >= 1 /\ DOMAIN ws = 1 .. n /\ b \in Users
      /\ r \in Seq(Users) /\ DOMAIN r = 1 .. n - 1
      /\ \A i \in 1 .. n - 1 : r[i] = ws[i + 1]
  BY <1>1
<1>3. \A i, j \in 1 .. n : ws[i] = ws[j] => i = j
  BY <1>2 DEF OnceEach
<1>4. \A i \in 1 .. n : g[ws[i]].next = At(ws, i + 1)
  BY <1>2 DEF Path
<1> HIDE DEF n, r
<1>5. \A i \in Nat \ {0} : At(r, i) = At(ws, i + 1)
  <2> SUFFICES ASSUME NEW i \in Nat \ {0} PROVE At(r, i) = At(ws, i + 1)
    OBVIOUS
  <2>1. i \in 1 .. n - 1 <=> i + 1 \in 1 .. n
    BY <1>2
  <2> QED
    BY <1>2, <2>1 DEF At
<1>6. Path(g[b].next, r, g)
  <2>1. g[b].next = At(r, 1)
    BY <1>1, <1>2, <1>4, <1>5
  <2>2. ASSUME NEW i \in 1 .. n - 1 PROVE g[r[i]].next = At(r, i + 1)
    <3>1. i + 1 \in 1 .. n /\ i + 1 \in Nat \ {0}
      BY <1>2
    <3> QED
      BY <1>2, <1>4, <1>5, <3>1
  <2> QED
    BY <1>2, <2>1, <2>2 DEF Path
<1>7. OnceEach(r)
  <2> SUFFICES ASSUME NEW i \in 1 .. n - 1, NEW j \in 1 .. n - 1, r[i] = r[j] PROVE i = j
    BY <1>2 DEF OnceEach
  <2>1. i + 1 \in 1 .. n /\ j + 1 \in 1 .. n /\ ws[i + 1] = ws[j + 1]
    BY <1>2
  <2>2. i + 1 = j + 1
    BY <1>3, <2>1
  <2> QED
    BY <1>2, <2>2
<1>8. ASSUME NEW u PROVE Listed(r, u) <=> Listed(ws, u) /\ u # b
  <2>1. ASSUME NEW i \in 1 .. n - 1, r[i] = u PROVE Listed(ws, u) /\ u # b
    <3>1. i + 1 \in 1 .. n /\ 1 \in 1 .. n /\ i + 1 # 1 /\ ws[i + 1] = u
      BY <1>2, <2>1
    <3> QED
      BY <1>1, <1>2, <1>3, <3>1 DEF Listed
  <2>2. ASSUME NEW i \in 1 .. n, ws[i] = u, u # b PROVE Listed(r, u)
    <3>1. i # 1
      BY <1>1, <2>2
    <3>2. i - 1 \in 1 .. n - 1 /\ (i - 1) + 1 = i
      BY <1>2, <3>1
    <3> QED
      BY <1>2, <2>2, <3>2 DEF Listed
  <2> QED
    BY <1>2, <2>1, <2>2 DEF Listed
<1>9. Listed(ws, b)
  BY <1>1 DEF Listed
<1> QED
  BY <1>2, <1>6, <1>7, <1>8, <1>9 DEF r

(* A list with one more block before it. *)
LEMMA PathPush ==
    ASSUME NEW b, NEW ws, NEW g, Path(b, ws, g), OnceEach(ws),
           NEW t \in Users, ~Listed(ws, t), g[t].next = b
    PROVE  /\ <<t>> \o ws \in Seq(Users)
           /\ Path(t, <<t>> \o ws, g)
           /\ OnceEach(<<t>> \o ws)
           /\ \A u : Listed(<<t>> \o ws, u) <=> Listed(ws, u) \/ u = t
<1> DEFINE n == Len(ws)
           r == <<t>> \o ws
<1>1. ws \in Seq(Users) /\ b = At(ws, 1)
  BY DEF Path
<1>2. /\ n \in Nat /\ DOMAIN ws = 1 .. n
      /\ r \in Seq(Users) /\ DOMAIN r = 1 .. n + 1
      /\ r[1] = t
      /\ \A i \in 1 .. n : r[i + 1] = ws[i]
  BY <1>1
<1>3. \A i, j \in 1 .. n : ws[i] = ws[j] => i = j
  BY <1>2 DEF OnceEach
<1>4. \A i \in 1 .. n : g[ws[i]].next = At(ws, i + 1) /\ ws[i] # t
  BY <1>2 DEF Path, Listed
<1> HIDE DEF n, r
<1>5. \A i \in Nat \ {0} : At(r, i + 1) = At(ws, i)
  <2> SUFFICES ASSUME NEW i \in Nat \ {0} PROVE At(r, i + 1) = At(ws, i)
    OBVIOUS
  <2>1. i \in 1 .. n <=> i + 1 \in 1 .. n + 1
    BY <1>2
  <2> QED
    BY <1>2, <2>1 DEF At
<1>6. \A i \in 1 .. n + 1 : i = 1 \/ (i - 1 \in 1 .. n /\ i - 1 \in Nat \ {0} /\ (i - 1) + 1 = i)
  BY <1>2
<1>7. Path(t, r, g)
  <2>1. t = At(r, 1)
    BY <1>2 DEF At
  <2>2. ASSUME NEW i \in 1 .. n + 1 PROVE g[r[i]].next = At(r, i + 1)
    <3>1. CASE i = 1
      BY <1>1, <1>2, <1>5, <3>1
    <3>2. CASE i # 1
      <4>1. r[i] = ws[i - 1] /\ g[ws[i - 1]].next = At(ws, i)
        BY <1>2, <1>4, <1>6, <3>2
      <4>2. At(r, i + 1) = At(ws, i)
        BY <1>2, <1>5
      <4> QED
        BY <4>1, <4>2
    <3> QED
      BY <3>1, <3>2
  <2> QED
    BY <1>2, <2>1, <2>2 DEF Path
<1>8. OnceEach(r)
  <2> SUFFICES ASSUME NEW i \in 1 .. n + 1, NEW j \in 1 .. n + 1, r[i] = r[j] PROVE i = j
    BY <1>2 DEF OnceEach
  <2>0. ASSUME NEW a \in 1 .. n + 1, a # 1
        PROVE  a - 1 \in 1 .. n /\ r[a] = ws[a - 1] /\ r[a] # t
    <3>1. a - 1 \in 1 .. n /\ (a - 1) + 1 = a
      BY <1>6, <2>0
    <3>2. r[(a - 1) + 1] = ws[a - 1] /\ ws[a - 1] # t
      BY <1>2, <1>4, <3>1
    <3> QED
      BY <3>1, <3>2
  <2>1. i # 1 => i - 1 \in 1 .. n /\ r[i] = ws[i - 1] /\ r[i] # t
    BY <2>0
  <2>2. j # 1 => j - 1 \in 1 .. n /\ r[j] = ws[j - 1] /\ r[j] # t
    BY <2>0
  <2>3. CASE i = 1 \/ j = 1
    BY <1>2, <2>1, <2>2, <2>3
  <2>4. CASE i # 1 /\ j # 1
    <3>1. i - 1 = j - 1
      BY <1>3, <2>1, <2>2, <2>4
    <3> QED
      BY <1>2, <3>1
  <2> QED
    BY <2>3, <2>4
<1>9. ASSUME NEW u PROVE Listed(r, u) <=> Listed(ws, u) \/ u = t
  <2>1. ASSUME NEW i \in 1 .. n + 1, r[i] = u PROVE Listed(ws, u) \/ u = t
    BY <1>2, <1>6, <2>1 DEF Listed
  <2>2. ASSUME NEW i \in 1 .. n, ws[i] = u PROVE Listed(r, u)
    <3>1. i + 1 \in 1 .. n + 1 /\ r[i + 1] = u
      BY <1>2, <2>2
    <3> QED
      BY <1>2, <3>1 DEF Listed
  <2>3. Listed(r, t)
    <3>1. 1 \in 1 .. n + 1
      BY <1>2
    <3> QED
      BY <1>2, <3>1 DEF Listed
  <2> QED
    BY <1>2, <2>1, <2>2, <2>3 DEF Listed
<1> QED
  BY <1>2, <1>7, <1>8, <1>9 DEF r

(* The values of an object pointer differ in its null bit or its lock bit, *)
LEMMA SameValue ==
    ASSUME NEW v \in E!Values, NEW w \in E!Values, v.object = w.object, v.lockBit = w.lockBit
    PROVE  v = w
BY DEF E!Values

(* which are set one by one. *)
LEMMA LockBitSet ==
    ASSUME NEW v \in E!Values, NEW b \in BOOLEAN
    PROVE  /\ [v EXCEPT !.lockBit = b] \in E!Values
           /\ [v EXCEPT !.lockBit = b].object = v.object
           /\ [v EXCEPT !.lockBit = b].lockBit = b
BY DEF E!Values

(* An entry is free, locked or unlocked, and not two of them. *)
LEMMA EntryValues ==
    /\ E!FreeEntry # E!LockedEntry /\ E!UnlockedEntry # E!LockedEntry
    /\ E!FreeEntry # E!UnlockedEntry
    /\ [E!UnlockedEntry EXCEPT !.lockBit = FALSE] = E!LockedEntry
    /\ [E!LockedEntry EXCEPT !.lockBit = TRUE] = E!UnlockedEntry
    /\ E!UnlockedEntry.lockBit /\ ~E!LockedEntry.lockBit /\ ~E!FreeEntry.lockBit
<1> USE DEF E!FreeEntry, E!LockedEntry, E!UnlockedEntry
<1>1. /\ E!UnlockedEntry.lockBit = TRUE /\ E!LockedEntry.lockBit = FALSE
      /\ E!FreeEntry.lockBit = FALSE
      /\ E!LockedEntry.object = TRUE /\ E!FreeEntry.object = FALSE
  OBVIOUS
<1>2. /\ E!UnlockedEntry \in E!Values
      /\ E!LockedEntry \in E!Values
      /\ E!UnlockedEntry.object = TRUE
  BY DEF E!Values
<1> HIDE DEF E!FreeEntry, E!LockedEntry, E!UnlockedEntry
<1>3. /\ [E!UnlockedEntry EXCEPT !.lockBit = FALSE] = E!LockedEntry
      /\ [E!LockedEntry EXCEPT !.lockBit = TRUE] = E!UnlockedEntry
  <2>1. FALSE \in BOOLEAN /\ TRUE \in BOOLEAN
    OBVIOUS
  <2>2. /\ [E!UnlockedEntry EXCEPT !.lockBit = FALSE] \in E!Values
        /\ [E!UnlockedEntry EXCEPT !.lockBit = FALSE].object = E!LockedEntry.object
        /\ [E!UnlockedEntry EXCEPT !.lockBit = FALSE].lockBit = E!LockedEntry.lockBit
    BY <1>1, <1>2, <2>1, LockBitSet, Zenon
  <2>3. /\ [E!LockedEntry EXCEPT !.lockBit = TRUE] \in E!Values
        /\ [E!LockedEntry EXCEPT !.lockBit = TRUE].object = E!UnlockedEntry.object
        /\ [E!LockedEntry EXCEPT !.lockBit = TRUE].lockBit = E!UnlockedEntry.lockBit
    BY <1>1, <1>2, <2>1, LockBitSet, Zenon
  <2> QED
    BY <1>2, <2>2, <2>3, SameValue, Zenon
<1>4. /\ E!FreeEntry # E!LockedEntry /\ E!UnlockedEntry # E!LockedEntry
      /\ E!FreeEntry # E!UnlockedEntry
  BY <1>1
<1> QED
  BY <1>1, <1>2, <1>3, <1>4

(* A step of t that leaves the lists alone. *)
LEMMA EListsKept ==
    ASSUME E!TypeOK, EPlaces, SomeLists, NEW t \in Users, NEW l,
           epc' = [epc EXCEPT ![t] = l], epc[t] # "unblock",
           head' = head, cur' = cur,
           \A u \in Users \ {t} : own'[u] = own[u] /\ blk'[u] = blk[u] /\ ent'[u] = ent[u],
           Waits(t)' <=> Waits(t),
           Waits(t) => blk'[t].next = blk[t].next,
           Waits(t) /\ Due(t) => Due(t)',
           \A e \in Entries : entry[e] = E!LockedEntry =>
                                 entry'[e] = E!LockedEntry \/ l = "unblock"
    PROVE  SomeLists'
<1>1. PICK ws \in Seq(Users), ks \in [Users -> Seq(Users)] : ELists(ws, ks)
  BY DEF SomeLists
<1>2. epc \in [Users -> E!PCs] /\ \A u \in Users \ {t} : epc'[u] = epc[u]
  BY DEF E!TypeOK
<1>3. \A u \in Users : Waits(u)' <=> Waits(u)
  BY <1>2 DEF Waits, E!Blocked
<1>4. ASSUME NEW u \in Users, Waits(u), Due(u) PROVE Due(u)'
  <2>1. CASE u = t
    BY <1>4, <2>1
  <2>2. CASE u # t
    <3>1. ent[u] \in Entries /\ ent'[u] = ent[u]
      BY <1>4, <2>2 DEF Waits, EPlaces
    <3>2. (\E v \in Users : epc[v] = "unblock") => \E v \in Users : epc'[v] = "unblock"
      BY <1>2
    <3>3. l = "unblock" => \E v \in Users : epc'[v] = "unblock"
      BY <1>2
    <3> QED
      BY <1>2, <1>4, <2>2, <3>1, <3>2, <3>3 DEF Due
  <2> QED
    BY <2>1, <2>2
<1>5. \A u \in Users : Waits(u) => blk'[u].next = blk[u].next
  OBVIOUS
<1>6. /\ \A u \in Users : Listed(ws, u) => Waits(u)
      /\ \A v, u \in Users : Listed(ks[v], u) => Waits(u)
  BY <1>1 DEF ELists
<1>7. Path(head', ws, blk') /\ OnceEach(ws)
  <2>1. Path(head, ws, blk) /\ OnceEach(ws)
    BY <1>1 DEF ELists
  <2>2. Path(head, ws, blk')
    BY <1>5, <1>6, <2>1, PathKept
  <2> QED
    BY <2>1, <2>2
<1>8. \A v \in Users : Path(cur'[v], ks[v], blk') /\ OnceEach(ks[v])
  <2> SUFFICES ASSUME NEW v \in Users PROVE Path(cur'[v], ks[v], blk') /\ OnceEach(ks[v])
    OBVIOUS
  <2>1. Path(cur[v], ks[v], blk) /\ OnceEach(ks[v])
    BY <1>1 DEF ELists
  <2>2. Path(cur[v], ks[v], blk')
    BY <1>5, <1>6, <2>1, PathKept
  <2> QED
    BY <2>1, <2>2
<1>9. ELists(ws, ks)'
  BY <1>1, <1>3, <1>4, <1>6, <1>7, <1>8 DEF ELists
<1> QED
  BY <1>9 DEF SomeLists

(* The first states. *)
LEMMA EInitInv == E!Init => EInv
<1> SUFFICES ASSUME E!Init PROVE EInv
  OBVIOUS
<1> USE DEF E!Init
<1>1. E!TypeOK
  BY DEF E!TypeOK, E!Ptrs, E!PCs, E!NoWaitBlock
<1>2. EPlaces
  BY DEF EPlaces, E!Blocked
<1>3. EOwners
  BY EntryValues DEF EOwners
<1>4. SomeLists
  <2> DEFINE ks == [t \in Users |-> << >>]
  <2>1. << >> \in Seq(Users) /\ ks \in [Users -> Seq(Users)]
    OBVIOUS
  <2>2. \A g : Path(Null, << >>, g) /\ OnceEach(<< >>) /\ \A u : ~Listed(<< >>, u)
    BY DEF Path, At, OnceEach, Listed
  <2>3. \A u \in Users : ~Waits(u)
    BY DEF Waits, E!Blocked
  <2>4. ELists(<< >>, ks)
    BY <2>2, <2>3 DEF ELists
  <2> HIDE DEF ks
  <2> QED
    BY <2>1, <2>4 DEF SomeLists
<1> QED
  BY <1>1, <1>2, <1>3, <1>4 DEF EInv

(* ExCreateHandle *)
LEMMA ECreateInv ==
    ASSUME EInv, NEW t \in Users, E!Create(t) PROVE EInv'
<1> USE DEF EInv
<1>1. PICK e \in Entries :
         /\ entry[e] = E!FreeEntry
         /\ entry' = [entry EXCEPT ![e] = E!LockedEntry]
         /\ hold' = [hold EXCEPT ![t] = e]
  BY DEF E!Create
<1>2. /\ epc[t] = "idle" /\ hold[t] = Null
      /\ UNCHANGED <<head, blk, epc, ent, ov, cur, own>>
  BY DEF E!Create
<1>3. E!TypeOK'
  BY <1>1, <1>2 DEF E!TypeOK
<1>4. EPlaces'
  BY <1>1, <1>2 DEF EPlaces, E!Blocked, E!TypeOK
<1>5. /\ \A d \in Entries : entry'[d] = IF d = e THEN E!LockedEntry ELSE entry[d]
      /\ \A u \in Users : hold'[u] = IF u = t THEN e ELSE hold[u]
      /\ \A u \in Users : hold[u] # e
      /\ \A u \in Users : hold[u] \in Entries \cup {Null}
  BY <1>1, <1>2, EntryValues, EntryAssumption DEF E!TypeOK, EOwners
<1>6. EOwners'
  BY <1>2, <1>5, EntryAssumption DEF EOwners
<1>7. SomeLists'
  <2>1. epc' = [epc EXCEPT ![t] = "idle"]
    BY <1>2 DEF E!TypeOK
  <2>2. ~Waits(t) /\ ~Waits(t)'
    BY <1>2 DEF Waits, E!Blocked, EPlaces
  <2> QED
    BY <1>2, <1>5, <2>1, <2>2, EListsKept
<1> QED
  BY <1>3, <1>4, <1>6, <1>7

(* Steps of a thread that is not blocked and does not block, and that      *)
(* leaves the entries alone.                                               *)
LEMMA EMoveInv ==
    ASSUME EInv, NEW t \in Users,
           NEW l \in {"idle", "read", "cas", "block", "push"},
           epc[t] \in {"idle", "read", "cas", "block", "push"},
           epc' = [epc EXCEPT ![t] = l],
           l # "idle" => hold[t] = Null,
           NEW e \in Entries \cup {Null}, ent' = [ent EXCEPT ![t] = e],
           l # "idle" => e \in Entries,
           NEW p \in E!Ptrs, ov' = [ov EXCEPT ![t] = p],
           UNCHANGED <<entry, head, blk, cur, own, hold>>
    PROVE  EInv'
<1> USE DEF EInv
<1>1. E!TypeOK'
  BY DEF E!TypeOK, E!PCs
<1>2. EPlaces'
  BY DEF EPlaces, E!Blocked, E!TypeOK
<1>3. EOwners'
  BY DEF EOwners
<1>4. ~Waits(t) /\ ~Waits(t)'
  BY <1>2 DEF Waits, E!Blocked, EPlaces, E!TypeOK
<1>5. SomeLists'
  BY <1>4, EListsKept DEF E!TypeOK
<1> QED
  BY <1>1, <1>2, <1>3, <1>5

(* The compare-exchange that locks an entry. *)
LEMMA ELockInv ==
    ASSUME EInv, NEW t \in Users, epc[t] = "cas", entry[ent[t]] = E!UnlockedEntry,
           entry' = [entry EXCEPT ![ent[t]].lockBit = FALSE],
           hold' = [hold EXCEPT ![t] = ent[t]],
           epc' = [epc EXCEPT ![t] = "idle"], ent' = [ent EXCEPT ![t] = Null],
           UNCHANGED <<head, blk, ov, cur, own>>
    PROVE  EInv'
<1> USE DEF EInv
<1> DEFINE e == ent[t]
<1>1. e \in Entries /\ hold[t] = Null
  BY DEF EPlaces
<1>2. entry' = [entry EXCEPT ![e] = E!LockedEntry]
  BY <1>1, EntryValues DEF E!TypeOK
<1>3. E!TypeOK'
  BY <1>1, <1>2 DEF E!TypeOK, E!PCs
<1>4. EPlaces'
  BY <1>1 DEF EPlaces, E!Blocked, E!TypeOK
<1>5. /\ \A d \in Entries : entry'[d] = IF d = e THEN E!LockedEntry ELSE entry[d]
      /\ \A u \in Users : hold'[u] = IF u = t THEN e ELSE hold[u]
      /\ \A u \in Users : hold[u] # e
      /\ \A u \in Users : hold[u] \in Entries \cup {Null}
  <2>1. entry[e] # E!LockedEntry /\ e # Null
    BY <1>1, EntryValues, EntryAssumption
  <2>2. \A u \in Users : hold[u] # e
    BY <2>1 DEF EOwners
  <2> HIDE DEF e
  <2> QED
    BY <1>1, <1>2, <2>2 DEF E!TypeOK, e
<1>6. EOwners'
  BY <1>1, <1>5, EntryAssumption DEF EOwners
<1>7. SomeLists'
  <2>1. ~Waits(t) /\ ~Waits(t)'
    BY <1>4 DEF Waits, E!Blocked, EPlaces, E!TypeOK
  <2> QED
    BY <1>5, <2>1, EListsKept DEF E!TypeOK
<1> QED
  BY <1>3, <1>4, <1>6, <1>7

(* A block is pushed on the list of the table. *)
LEMMA EPushInv ==
    ASSUME EInv, NEW t \in Users, epc[t] = "push", head = ov[t],
           head' = t,
           blk' = [blk EXCEPT ![t] = [next |-> ov[t], wait |-> TRUE, event |-> FALSE]],
           ov' = [ov EXCEPT ![t] = Null], epc' = [epc EXCEPT ![t] = "recheck"],
           UNCHANGED <<entry, ent, cur, own, hold>>
    PROVE  EInv'
<1> USE DEF EInv
<1>1. /\ blk'[t] = [next |-> head, wait |-> TRUE, event |-> FALSE]
      /\ \A u \in Users \ {t} : blk'[u] = blk[u] /\ epc'[u] = epc[u]
      /\ epc'[t] = "recheck"
      /\ blk' \in [Users -> [next : E!Ptrs, wait : BOOLEAN, event : BOOLEAN]]
  BY DEF E!TypeOK
<1>2. blk'[t].next = head /\ blk'[t].wait = TRUE
  BY <1>1
<1>3. E!TypeOK'
  BY <1>1 DEF E!TypeOK, E!PCs, E!Ptrs
<1>4. EPlaces'
  BY <1>1 DEF EPlaces, E!Blocked
<1>5. EOwners'
  BY DEF EOwners
<1>6. SomeLists'
  <2>1. PICK ws \in Seq(Users), ks \in [Users -> Seq(Users)] : ELists(ws, ks)
    BY DEF SomeLists
  <2>2. ~Waits(t) /\ Waits(t)' /\ ~own[t]
    BY <1>1, <1>2 DEF Waits, E!Blocked, EPlaces
  <2>3. \A u \in Users \ {t} : /\ Waits(u)' <=> Waits(u)
                               /\ Due(u) => Due(u)'
    <3>1. (\E v \in Users : epc[v] = "unblock") => \E v \in Users : epc'[v] = "unblock"
      BY <1>1
    <3> QED
      BY <1>1, <3>1 DEF Waits, E!Blocked, Due
  <2>4. Due(t)'
    BY <1>1, <2>2 DEF Due
  <2>5. /\ ~Listed(ws, t) /\ \A v \in Users : ~Listed(ks[v], t)
    BY <2>1, <2>2 DEF ELists
  <2> DEFINE rs == <<t>> \o ws
  <2>6. /\ rs \in Seq(Users) /\ Path(t, rs, blk') /\ OnceEach(rs)
        /\ \A u : Listed(rs, u) <=> Listed(ws, u) \/ u = t
    <3>1. Path(head, ws, blk) /\ OnceEach(ws)
      BY <2>1 DEF ELists
    <3>2. Path(head, ws, blk')
      <4>1. \A u \in Users : Listed(ws, u) => blk'[u].next = blk[u].next
        BY <1>1, <2>5
      <4> QED
        BY <3>1, <4>1, PathKept
    <3>3. \A g, b : Path(b, ws, g) /\ g[t].next = b =>
             /\ rs \in Seq(Users) /\ Path(t, rs, g) /\ OnceEach(rs)
             /\ \A u : Listed(rs, u) <=> Listed(ws, u) \/ u = t
      BY <2>5, <3>1, PathPush
    <3> HIDE DEF rs
    <3> QED
      BY <1>2, <3>2, <3>3
  <2> HIDE DEF rs
  <2>7. \A v \in Users : Path(cur[v], ks[v], blk') /\ OnceEach(ks[v])
    <3> SUFFICES ASSUME NEW v \in Users PROVE Path(cur[v], ks[v], blk') /\ OnceEach(ks[v])
      OBVIOUS
    <3>1. Path(cur[v], ks[v], blk) /\ OnceEach(ks[v])
      BY <2>1 DEF ELists
    <3>2. \A u \in Users : Listed(ks[v], u) => blk'[u].next = blk[u].next
      BY <1>1, <2>5
    <3> QED
      BY <3>1, <3>2, PathKept
  <2>8. \A v, u \in Users : ~(Listed(rs, u) /\ Listed(ks[v], u))
    BY <2>1, <2>5, <2>6 DEF ELists
  <2>9. \A u \in Users : Waits(u)' <=> Listed(rs, u) \/ \E v \in Users : Listed(ks[v], u)
    BY <2>1, <2>2, <2>3, <2>6 DEF ELists
  <2>10. \A u \in Users : Listed(rs, u) => Due(u)'
    BY <2>1, <2>3, <2>4, <2>6 DEF ELists
  <2>11. ELists(rs, ks)'
    BY <2>1, <2>6, <2>7, <2>8, <2>9, <2>10 DEF ELists
  <2> QED
    BY <2>6, <2>11 DEF SomeLists
<1> QED
  BY <1>3, <1>4, <1>5, <1>6

(* The second look at the entry. *)
LEMMA ERecheckInv ==
    ASSUME EInv, NEW t \in Users, E!Recheck(t) PROVE EInv'
<1> USE DEF EInv
<1> DEFINE l == IF entry[ent[t]] = E!LockedEntry THEN "prepare" ELSE "unblock"
<1>1. /\ epc[t] = "recheck" /\ epc' = [epc EXCEPT ![t] = l]
      /\ own' = [own EXCEPT ![t] = (l = "unblock")]
      /\ UNCHANGED <<entry, head, blk, ent, ov, cur, hold>>
  <2>1. epc[t] = "recheck" /\ own[t] = FALSE
    BY DEF E!Recheck, EPlaces, E!TypeOK
  <2> QED
    BY <2>1 DEF E!Recheck, E!MustSleep, E!GotoUnblock, E!Goto, E!TypeOK
<1>2. /\ l \in {"prepare", "unblock"}
      /\ epc'[t] = l /\ (own'[t] <=> l = "unblock") /\ ent'[t] = ent[t] /\ blk'[t] = blk[t]
      /\ \A u \in Users \ {t} : epc'[u] = epc[u] /\ own'[u] = own[u]
      /\ l = "prepare" => entry[ent[t]] = E!LockedEntry
  BY <1>1 DEF E!TypeOK
<1> HIDE DEF l
<1>3. E!TypeOK'
  BY <1>1, <1>2 DEF E!TypeOK, E!PCs
<1>4. EPlaces'
  BY <1>1, <1>2 DEF EPlaces, E!Blocked
<1>5. EOwners'
  BY <1>1 DEF EOwners
<1>6. (Waits(t)' <=> Waits(t)) /\ Due(t)'
  BY <1>1, <1>2 DEF Waits, E!Blocked, Due
<1>7. SomeLists'
  BY <1>1, <1>2, <1>6, EListsKept
<1> QED
  BY <1>3, <1>4, <1>5, <1>7

(* A thread takes its own wait bit back, to sleep. *)
LEMMA EPrepareInv ==
    ASSUME EInv, NEW t \in Users, epc[t] = "prepare", blk[t].wait,
           blk' = [blk EXCEPT ![t].event = FALSE, ![t].wait = FALSE],
           epc' = [epc EXCEPT ![t] = "sleep"],
           UNCHANGED <<entry, head, ent, ov, cur, own, hold>>
    PROVE  EInv'
<1> USE DEF EInv
<1>1. /\ epc'[t] = "sleep" /\ ~own[t]
      /\ \A u \in Users \ {t} : epc'[u] = epc[u] /\ blk'[u] = blk[u]
      /\ blk'[t].next = blk[t].next /\ ~blk'[t].wait /\ ~blk'[t].event
      /\ blk' \in [Users -> [next : E!Ptrs, wait : BOOLEAN, event : BOOLEAN]]
  BY DEF E!TypeOK, EPlaces
<1>2. E!TypeOK'
  BY <1>1 DEF E!TypeOK, E!PCs
<1>3. EPlaces'
  BY <1>1 DEF EPlaces, E!Blocked
<1>4. EOwners'
  BY DEF EOwners
<1>5. Waits(t)' /\ Waits(t)
  BY <1>1 DEF Waits, E!Blocked
<1>6. Due(t) => Due(t)'
  <2>1. (\E v \in Users : epc[v] = "unblock") => \E v \in Users : epc'[v] = "unblock"
    BY <1>1
  <2> QED
    BY <1>1, <2>1 DEF Due
<1>7. SomeLists'
  BY <1>1, <1>5, <1>6, EListsKept
<1> QED
  BY <1>2, <1>3, <1>4, <1>7

(* A thread that has been woken goes round the loop of the lock again. *)
LEMMA EAgainInv ==
    ASSUME EInv, NEW t \in Users, E!Blocked(t), ~Waits(t), cur[t] = Null, epc[t] # "unblock",
           blk' = [blk EXCEPT ![t] = E!NoWaitBlock],
           epc' = [epc EXCEPT ![t] = "read"],
           own' = [own EXCEPT ![t] = FALSE],
           UNCHANGED <<entry, head, ent, ov, cur, hold>>
    PROVE  EInv'
<1> USE DEF EInv
<1>1. /\ epc'[t] = "read" /\ ~own'[t] /\ ent[t] \in Entries /\ hold[t] = Null
      /\ \A u \in Users \ {t} : epc'[u] = epc[u] /\ blk'[u] = blk[u] /\ own'[u] = own[u]
      /\ blk' \in [Users -> [next : E!Ptrs, wait : BOOLEAN, event : BOOLEAN]]
  BY DEF E!TypeOK, EPlaces, E!Blocked, E!NoWaitBlock, E!Ptrs
<1>2. E!TypeOK'
  BY <1>1 DEF E!TypeOK, E!PCs
<1>3. \A u \in Users : epc[u] = "signal" => cur[u] # t
  BY DEF EPlaces, Waits
<1>4. EPlaces'
  BY <1>1, <1>3 DEF EPlaces, E!Blocked
<1>5. EOwners'
  BY DEF EOwners
<1>6. ~Waits(t)'
  BY <1>1 DEF Waits, E!Blocked
<1>7. SomeLists'
  BY <1>1, <1>6, EListsKept
<1> QED
  BY <1>2, <1>4, <1>5, <1>7

(* The owner of an entry unlocks it, or frees it, and is about to take the *)
(* list.                                                                   *)
LEMMA EReleaseInv ==
    ASSUME EInv, NEW t \in Users, epc[t] = "idle", hold[t] # Null,
           NEW v \in {E!FreeEntry, E!UnlockedEntry},
           entry' = [entry EXCEPT ![hold[t]] = v],
           hold' = [hold EXCEPT ![t] = Null],
           ent' = ent \/ ent' = [ent EXCEPT ![t] = hold[t]],
           epc' = [epc EXCEPT ![t] = "unblock"], own' = [own EXCEPT ![t] = FALSE],
           UNCHANGED <<head, blk, ov, cur>>
    PROVE  EInv'
<1> USE DEF EInv
<1> DEFINE e == hold[t]
<1>1. e \in Entries /\ ~own[t]
  BY DEF E!TypeOK, EPlaces
<1>2. /\ epc'[t] = "unblock" /\ ~own'[t]
      /\ \A u \in Users \ {t} : epc'[u] = epc[u] /\ own'[u] = own[u] /\ ent'[u] = ent[u]
      /\ ent' \in [Users -> Entries \cup {Null}]
  BY <1>1 DEF E!TypeOK
<1>3. E!TypeOK'
  BY <1>1, <1>2 DEF E!TypeOK, E!PCs
<1>4. EPlaces'
  BY <1>2 DEF EPlaces, E!Blocked, E!TypeOK
<1>5. EOwners'
  <2>1. /\ \A d \in Entries : entry'[d] = IF d = e THEN v ELSE entry[d]
        /\ v # E!LockedEntry
        /\ \A u \in Users : hold'[u] = IF u = t THEN Null ELSE hold[u]
        /\ \A u \in Users : u # t => hold[u] # e
        /\ \A u \in Users : hold[u] \in Entries \cup {Null}
    BY <1>1, EntryValues DEF E!TypeOK, EOwners
  <2> QED
    BY <2>1, EntryAssumption DEF EOwners
<1>6. ~Waits(t) /\ ~Waits(t)'
  BY <1>1, <1>2 DEF Waits, E!Blocked
<1>7. SomeLists'
  BY <1>2, <1>6, EListsKept
<1> QED
  BY <1>3, <1>4, <1>5, <1>7

(* A thread takes the list of the table. *)
LEMMA EUnblockInv ==
    ASSUME EInv, NEW t \in Users, E!Unblock(t) PROVE EInv'
<1> USE DEF EInv
<1>1. /\ epc[t] = "unblock" /\ epc' = [epc EXCEPT ![t] = "wake"]
      /\ head' = Null /\ cur' = [cur EXCEPT ![t] = head] /\ cur[t] = Null
      /\ UNCHANGED <<entry, blk, ent, ov, own, hold>>
  BY DEF E!Unblock, E!TakeList, E!Goto, EPlaces
<1>2. /\ epc'[t] = "wake" /\ cur'[t] = head
      /\ \A u \in Users \ {t} : epc'[u] = epc[u] /\ cur'[u] = cur[u]
  BY <1>1 DEF E!TypeOK
<1>3. E!TypeOK'
  BY <1>1 DEF E!TypeOK, E!PCs, E!Ptrs
<1>4. EPlaces'
  BY <1>1, <1>2 DEF EPlaces, E!Blocked
<1>5. EOwners'
  BY <1>1 DEF EOwners
<1>6. SomeLists'
  <2>1. PICK ws \in Seq(Users), ks \in [Users -> Seq(Users)] : ELists(ws, ks)
    BY DEF SomeLists
  <2>2. \A u \in Users : Waits(u)' <=> Waits(u)
    BY <1>1, <1>2 DEF Waits, E!Blocked
  <2> DEFINE js == [ks EXCEPT ![t] = ws]
  <2>3. /\ js \in [Users -> Seq(Users)] /\ js[t] = ws
        /\ \A v \in Users \ {t} : js[v] = ks[v]
    OBVIOUS
  <2>4. \A u : ~Listed(ks[t], u)
    <3>1. Path(Null, ks[t], blk)
      BY <1>1, <2>1 DEF ELists
    <3> QED
      BY <3>1, PathNull
  <2>5. Path(Null, << >>, blk) /\ OnceEach(<< >>) /\ \A u : ~Listed(<< >>, u)
    BY DEF Path, At, OnceEach, Listed
  <2> HIDE DEF js
  <2>6. \A v \in Users : Path(cur'[v], js[v], blk) /\ OnceEach(js[v])
    BY <1>2, <2>1, <2>3 DEF ELists
  <2>7. \A v, w, u \in Users : v # w => ~(Listed(js[v], u) /\ Listed(js[w], u))
    BY <2>1, <2>3 DEF ELists
  <2>8. \A u \in Users : Waits(u)' <=> \E v \in Users : Listed(js[v], u)
    BY <2>1, <2>2, <2>3, <2>4 DEF ELists
  <2>9. ELists(<< >>, js)'
    BY <1>1, <2>5, <2>6, <2>7, <2>8 DEF ELists
  <2>10. << >> \in Seq(Users)
    OBVIOUS
  <2> QED
    BY <2>3, <2>9, <2>10 DEF SomeLists
<1> QED
  BY <1>3, <1>4, <1>5, <1>6

(* A thread is done with the first block of the list that it has taken. *)
LEMMA EPopInv ==
    ASSUME EInv, NEW t \in Users, epc[t] \in {"wake", "signal"},
           NEW x \in Users, cur[t] = x,
           blk' \in [Users -> [next : E!Ptrs, wait : BOOLEAN, event : BOOLEAN]],
           \A u \in Users \ {x} : blk'[u] = blk[u],
           blk'[x].next = blk[x].next, ~blk'[x].wait, epc[x] = "sleep" => blk'[x].event,
           epc' = [epc EXCEPT ![t] = "wake"], cur' = [cur EXCEPT ![t] = blk[x].next],
           UNCHANGED <<entry, head, ent, ov, own, hold>>
    PROVE  EInv'
<1> USE DEF EInv
<1>1. /\ epc'[t] = "wake" /\ cur'[t] = blk[x].next
      /\ \A u \in Users \ {t} : epc'[u] = epc[u] /\ cur'[u] = cur[u]
      /\ blk[x].next \in E!Ptrs
  BY DEF E!TypeOK
<1>2. PICK ws \in Seq(Users), ks \in [Users -> Seq(Users)] : ELists(ws, ks)
  BY DEF SomeLists
<1>3. /\ Path(cur[t], ks[t], blk) /\ OnceEach(ks[t]) /\ x # Null
  BY <1>2, EntryAssumption DEF ELists
<1> DEFINE rs == Tail(ks[t])
           js == [ks EXCEPT ![t] = rs]
<1>4. /\ Listed(ks[t], x) /\ rs \in Seq(Users) /\ Path(blk[x].next, rs, blk) /\ OnceEach(rs)
      /\ \A u : Listed(rs, u) <=> Listed(ks[t], u) /\ u # x
  BY <1>3, PathTail
<1> HIDE DEF rs
<1>5. /\ js \in [Users -> Seq(Users)] /\ js[t] = rs
      /\ \A v \in Users \ {t} : js[v] = ks[v]
  BY <1>4
<1> HIDE DEF js
<1>6. \A v \in Users \ {t} : epc[v] = "signal" => cur[v] # x /\ cur[v] # t
  <2> SUFFICES ASSUME NEW v \in Users \ {t}, epc[v] = "signal" PROVE cur[v] # x /\ cur[v] # t
    OBVIOUS
  <2>1. cur[v] \in Users /\ epc[cur[v]] = "sleep" /\ Path(cur[v], ks[v], blk)
    BY <1>2 DEF EPlaces, ELists
  <2>2. Listed(ks[v], cur[v])
    BY <1>2, <2>1, EntryAssumption, PathTail DEF ELists
  <2> QED
    BY <1>2, <1>4, <2>1, <2>2 DEF ELists
<1>7. E!TypeOK'
  BY <1>1 DEF E!TypeOK, E!PCs
<1>8. EPlaces'
  <2> SUFFICES ASSUME NEW v \in Users
               PROVE  /\ epc'[v] \notin {"wake", "signal"} => cur'[v] = Null
                      /\ epc'[v] = "signal" => /\ cur'[v] \in Users /\ epc'[cur'[v]] = "sleep"
                                               /\ ~blk'[cur'[v]].event
                      /\ epc'[v] = "sleep" => ~blk'[v].wait
                      /\ own[v] => epc'[v] \in {"unblock", "wake", "signal"}
                      /\ epc'[v] \in {"read", "cas", "block", "push"} \/ E!Blocked(v)' =>
                            ent[v] \in Entries
                      /\ hold[v] # Null => epc'[v] = "idle"
    BY DEF EPlaces
  <2>1. CASE v = t
    <3>1. E!Blocked(t)' => E!Blocked(t)
      BY <1>1 DEF E!Blocked
    <3>2. hold[t] = Null /\ (E!Blocked(t) => ent[t] \in Entries)
      BY DEF EPlaces
    <3> QED
      BY <1>1, <2>1, <3>1, <3>2
  <2>2. CASE v # t
    <3>1. /\ epc'[v] = epc[v] /\ cur'[v] = cur[v] /\ (E!Blocked(v)' <=> E!Blocked(v))
      BY <1>1, <2>2 DEF E!Blocked
    <3>2. epc[v] = "signal" => /\ cur[v] \in Users /\ epc'[cur[v]] = "sleep"
                               /\ ~blk'[cur[v]].event
      <4> SUFFICES ASSUME epc[v] = "signal"
                   PROVE  cur[v] \in Users /\ epc'[cur[v]] = "sleep" /\ ~blk'[cur[v]].event
        OBVIOUS
      <4>1. cur[v] \in Users /\ epc[cur[v]] = "sleep" /\ ~blk[cur[v]].event
        BY DEF EPlaces
      <4>2. cur[v] # x /\ cur[v] # t
        BY <1>6, <2>2
      <4>3. epc'[cur[v]] = epc[cur[v]] /\ blk'[cur[v]] = blk[cur[v]]
        BY <1>1, <4>1, <4>2
      <4> QED
        BY <4>1, <4>3
    <3>3. epc[v] = "sleep" => ~blk'[v].wait
      <4>1. CASE v = x
        BY <4>1
      <4>2. CASE v # x
        BY <4>2 DEF EPlaces
      <4> QED
        BY <4>1, <4>2
    <3> QED
      BY <3>1, <3>2, <3>3 DEF EPlaces
  <2> QED
    BY <2>1, <2>2
<1>9. EOwners'
  BY DEF EOwners
<1>10. \A u \in Users : Waits(u)' <=> Waits(u) /\ u # x
  <2> SUFFICES ASSUME NEW u \in Users PROVE Waits(u)' <=> Waits(u) /\ u # x
    OBVIOUS
  <2>1. E!Blocked(u)' <=> E!Blocked(u)
    BY <1>1 DEF E!Blocked
  <2>2. epc'[u] = "sleep" <=> epc[u] = "sleep"
    BY <1>1
  <2>3. CASE u = x
    BY <2>2, <2>3 DEF Waits
  <2>4. CASE u # x
    BY <2>1, <2>2, <2>4 DEF Waits
  <2> QED
    BY <2>3, <2>4
<1>11. Path(head, ws, blk') /\ OnceEach(ws)
  <2>1. Path(head, ws, blk) /\ OnceEach(ws)
    BY <1>2 DEF ELists
  <2>2. \A u \in Users : Listed(ws, u) => blk'[u].next = blk[u].next
    OBVIOUS
  <2> QED
    BY <2>1, <2>2, PathKept
<1>12. \A v \in Users : Path(cur'[v], js[v], blk') /\ OnceEach(js[v])
  <2> SUFFICES ASSUME NEW v \in Users PROVE Path(cur'[v], js[v], blk') /\ OnceEach(js[v])
    OBVIOUS
  <2>1. Path(cur'[v], js[v], blk) /\ OnceEach(js[v])
    BY <1>1, <1>2, <1>4, <1>5 DEF ELists
  <2>2. \A u \in Users : Listed(js[v], u) => blk'[u].next = blk[u].next
    OBVIOUS
  <2> QED
    BY <2>1, <2>2, PathKept
<1>13. \A v, u \in Users : Listed(js[v], u) <=> Listed(ks[v], u) /\ ~(v = t /\ u = x)
  BY <1>4, <1>5
<1>14. \A v \in Users : Listed(ks[v], x) => v = t
  BY <1>2, <1>4 DEF ELists
<1>15. \A v, w, u \in Users : v # w => ~(Listed(js[v], u) /\ Listed(js[w], u))
  BY <1>2, <1>13 DEF ELists
<1>16. \A v, u \in Users : ~(Listed(ws, u) /\ Listed(js[v], u))
  BY <1>2, <1>13 DEF ELists
<1>17. \A u \in Users : Waits(u)' <=> Listed(ws, u) \/ \E v \in Users : Listed(js[v], u)
  <2> SUFFICES ASSUME NEW u \in Users
               PROVE  Waits(u)' <=> Listed(ws, u) \/ \E v \in Users : Listed(js[v], u)
    OBVIOUS
  <2>1. Waits(u) <=> Listed(ws, u) \/ \E v \in Users : Listed(ks[v], u)
    BY <1>2 DEF ELists
  <2>2. CASE u = x
    <3>1. ~Listed(ws, u) /\ \A v \in Users : ~Listed(js[v], u)
      BY <1>2, <1>4, <1>13, <1>14, <2>2 DEF ELists
    <3> QED
      BY <1>10, <2>2, <3>1
  <2>3. CASE u # x
    <3>1. \A v \in Users : Listed(js[v], u) <=> Listed(ks[v], u)
      BY <1>13, <2>3
    <3> QED
      BY <1>10, <2>1, <2>3, <3>1
  <2> QED
    BY <2>2, <2>3
<1>18. \A u \in Users : Listed(ws, u) => Due(u)'
  <2> SUFFICES ASSUME NEW u \in Users, Listed(ws, u) PROVE Due(u)'
    OBVIOUS
  <2>1. Due(u) /\ Waits(u)
    BY <1>2 DEF ELists
  <2>2. u # t
    BY <2>1 DEF Due, Waits, E!Blocked
  <2>3. (\E v \in Users : epc[v] = "unblock") => \E v \in Users : epc'[v] = "unblock"
    BY <1>1
  <2> QED
    BY <1>1, <2>1, <2>2, <2>3 DEF Due
<1>19. ELists(ws, js)'
  BY <1>11, <1>12, <1>15, <1>16, <1>17, <1>18 DEF ELists
<1>20. SomeLists'
  BY <1>5, <1>19 DEF SomeLists
<1> QED
  BY <1>7, <1>8, <1>9, <1>20

(* The blocks of those in a list are theirs. *)
LEMMA FirstWaits ==
    ASSUME EInv, NEW t \in Users, cur[t] # Null
    PROVE  cur[t] \in Users /\ Waits(cur[t])
<1> USE DEF EInv
<1>1. PICK ws \in Seq(Users), ks \in [Users -> Seq(Users)] : ELists(ws, ks)
  BY DEF SomeLists
<1>2. Path(cur[t], ks[t], blk) /\ OnceEach(ks[t])
  BY <1>1 DEF ELists
<1>3. cur[t] \in Users /\ Listed(ks[t], cur[t])
  BY <1>2, PathTail
<1> QED
  BY <1>1, <1>3 DEF ELists

(* One turn of the loop of ExfUnblockPushLock. *)
LEMMA EWakeInv ==
    ASSUME EInv, NEW t \in Users, E!Wake(t) PROVE EInv'
<1> USE DEF EInv
<1> DEFINE x == cur[t]
<1>1. /\ epc[t] = "wake" /\ x \in Users /\ Waits(x)
      /\ blk' = [blk EXCEPT ![x].wait = FALSE]
      /\ UNCHANGED <<entry, head, ent, ov, own, hold>>
  BY FirstWaits DEF E!Wake
<1>2. /\ blk' \in [Users -> [next : E!Ptrs, wait : BOOLEAN, event : BOOLEAN]]
      /\ \A u \in Users \ {x} : blk'[u] = blk[u]
      /\ blk'[x].next = blk[x].next /\ ~blk'[x].wait /\ blk'[x].event = blk[x].event
  BY <1>1 DEF E!TypeOK
<1>3. CASE blk[x].wait
  <2>1. epc[x] # "sleep"
    BY <1>1, <1>3 DEF EPlaces
  <2>2. epc' = [epc EXCEPT ![t] = "wake"] /\ cur' = [cur EXCEPT ![t] = blk[x].next]
    BY <1>1, <1>3 DEF E!Wake, E!TypeOK
  <2> HIDE DEF x
  <2>3. cur[t] = x
    BY DEF x
  <2> QED
    BY <1>1, <1>2, <2>1, <2>2, <2>3, EPopInv
<1>4. CASE ~blk[x].wait
  <2>1. epc' = [epc EXCEPT ![t] = "signal"] /\ cur' = cur
    BY <1>1, <1>4 DEF E!Wake, E!Goto
  <2>2. epc[x] = "sleep" /\ ~blk[x].event
    BY <1>1, <1>4 DEF Waits
  <2>3. /\ epc'[t] = "signal" /\ x # t
        /\ \A u \in Users \ {t} : epc'[u] = epc[u]
        /\ \A u \in Users : /\ blk'[u].next = blk[u].next /\ (blk'[u].wait <=> blk[u].wait)
                            /\ (blk'[u].event <=> blk[u].event)
    BY <1>1, <1>2, <1>4, <2>1, <2>2 DEF E!TypeOK
  <2>4. E!TypeOK'
    BY <1>1, <1>2, <2>1 DEF E!TypeOK, E!PCs
  <2>5. EPlaces'
    BY <1>1, <2>1, <2>2, <2>3 DEF EPlaces, E!Blocked
  <2>6. EOwners'
    BY <1>1 DEF EOwners
  <2>7. SomeLists'
    <3>1. PICK ws \in Seq(Users), ks \in [Users -> Seq(Users)] : ELists(ws, ks)
      BY DEF SomeLists
    <3>2. \A u \in Users : Waits(u)' <=> Waits(u)
      BY <1>1, <2>3 DEF Waits, E!Blocked
    <3>3. \A u \in Users : Due(u) => Due(u)'
      <4>1. (\E v \in Users : epc[v] = "unblock") => \E v \in Users : epc'[v] = "unblock"
        BY <1>1, <2>3
      <4> QED
        BY <1>1, <2>3, <4>1 DEF Due
    <3>4. \A b, ls : Path(b, ls, blk) => Path(b, ls, blk')
      BY <2>3, PathKept
    <3>5. ELists(ws, ks)'
      BY <1>1, <2>1, <3>1, <3>2, <3>3, <3>4 DEF ELists
    <3> QED
      BY <3>5 DEF SomeLists
  <2> QED
    BY <2>4, <2>5, <2>6, <2>7
<1> QED
  BY <1>3, <1>4

(* The event of a thread that sleeps is set. *)
LEMMA ESignalInv ==
    ASSUME EInv, NEW t \in Users, E!Signal(t) PROVE EInv'
<1> USE DEF EInv
<1>0. PICK x \in Users : cur[t] = x
  BY DEF E!Signal, EPlaces
<1>1. /\ epc[t] = "signal" /\ epc[x] = "sleep" /\ ~blk[x].wait
      /\ blk' = [blk EXCEPT ![x].event = TRUE]
      /\ cur' = [cur EXCEPT ![t] = blk[x].next] /\ epc' = [epc EXCEPT ![t] = "wake"]
      /\ UNCHANGED <<entry, head, ent, ov, own, hold>>
  BY <1>0 DEF E!Signal, E!Goto, EPlaces
<1>2. /\ blk' \in [Users -> [next : E!Ptrs, wait : BOOLEAN, event : BOOLEAN]]
      /\ \A u \in Users \ {x} : blk'[u] = blk[u]
      /\ blk'[x].next = blk[x].next /\ ~blk'[x].wait /\ blk'[x].event
  BY <1>1 DEF E!TypeOK
<1>3. epc[t] \in {"wake", "signal"} /\ (epc[x] = "sleep" => blk'[x].event)
  BY <1>1, <1>2
<1>4. /\ cur' = [cur EXCEPT ![t] = blk[x].next] /\ epc' = [epc EXCEPT ![t] = "wake"]
      /\ UNCHANGED <<entry, head, ent, ov, own, hold>>
  BY <1>1
<1> HIDE DEF EInv
<1> QED
  BY <1>0, <1>2, <1>3, <1>4, EPopInv

(* The list is done. *)
LEMMA EWakeDoneInv ==
    ASSUME EInv, NEW t \in Users, E!WakeDone(t) PROVE EInv'
<1> USE DEF EInv
<1>1. /\ epc[t] = "wake" /\ cur[t] = Null /\ own' = [own EXCEPT ![t] = FALSE]
      /\ hold[t] = Null
      /\ UNCHANGED <<entry, head, ov, cur, hold>>
  BY DEF E!WakeDone, EPlaces
<1>2. CASE ~own[t] /\ E!Return(t) /\ UNCHANGED blk
  <2>1. /\ epc' = [epc EXCEPT ![t] = "idle"] /\ ent' = [ent EXCEPT ![t] = Null] /\ blk' = blk
    BY <1>2 DEF E!Return, E!Goto
  <2>2. /\ epc'[t] = "idle" /\ ~own'[t] /\ \A u \in Users : own'[u] = own[u]
        /\ \A u \in Users \ {t} : epc'[u] = epc[u] /\ ent'[u] = ent[u]
    BY <1>1, <1>2, <2>1 DEF E!TypeOK
  <2>3. E!TypeOK'
    BY <1>1, <2>1 DEF E!TypeOK, E!PCs
  <2>4. EPlaces'
    BY <1>1, <2>1, <2>2 DEF EPlaces, E!Blocked
  <2>5. EOwners'
    BY <1>1 DEF EOwners
  <2>6. ~Waits(t) /\ ~Waits(t)'
    BY <1>1, <1>2, <2>2 DEF Waits, E!Blocked
  <2>7. SomeLists'
    BY <1>1, <2>1, <2>2, <2>6, EListsKept
  <2> QED
    BY <2>3, <2>4, <2>5, <2>7
<1>3. CASE own[t] /\ blk[t].wait /\ E!Goto(t, "prepare") /\ UNCHANGED <<blk, ent>>
  <2>1. epc' = [epc EXCEPT ![t] = "prepare"] /\ ent' = ent /\ blk' = blk
    BY <1>3 DEF E!Goto
  <2>2. /\ epc'[t] = "prepare" /\ ~own'[t]
        /\ \A u \in Users \ {t} : epc'[u] = epc[u] /\ ent'[u] = ent[u] /\ own'[u] = own[u]
    BY <1>1, <1>3, <2>1 DEF E!TypeOK
  <2>3. E!TypeOK'
    BY <1>1, <2>1 DEF E!TypeOK, E!PCs
  <2>4. EPlaces'
    BY <1>1, <1>3, <2>1, <2>2 DEF EPlaces, E!Blocked
  <2>5. EOwners'
    BY <1>1 DEF EOwners
  <2>6. Waits(t) /\ Waits(t)' /\ ~Due(t)
    BY <1>1, <1>3, <2>1, <2>2 DEF Waits, E!Blocked, Due
  <2>7. SomeLists'
    BY <1>1, <2>1, <2>2, <2>6, EListsKept
  <2> QED
    BY <2>3, <2>4, <2>5, <2>7
<1>4. CASE /\ own[t] /\ ~blk[t].wait /\ E!Goto(t, "read") /\ UNCHANGED ent
           /\ blk' = [blk EXCEPT ![t] = E!NoWaitBlock]
  <2>1. E!Blocked(t) /\ ~Waits(t)
    BY <1>1, <1>4 DEF E!Blocked, Waits
  <2>2. epc[t] # "unblock" /\ epc' = [epc EXCEPT ![t] = "read"]
    BY <1>1, <1>4 DEF E!Goto
  <2>3. /\ blk' = [blk EXCEPT ![t] = E!NoWaitBlock]
        /\ UNCHANGED <<entry, head, ent, ov, cur, hold>>
    BY <1>1, <1>4
  <2> QED
    BY <1>1, <2>1, <2>2, <2>3, EAgainInv
<1> QED
  BY <1>2, <1>3, <1>4 DEF E!WakeDone

(* Every step of the entry locks keeps the invariant. *)
LEMMA EStepInv ==
    ASSUME EInv, NEW t \in Users, E!Begin(t) \/ E!BeginRelease(t) \/ E!Continue(t)
    PROVE  EInv'
<1> USE DEF EInv
<1>0. /\ ent = [ent EXCEPT ![t] = ent[t]] /\ ov = [ov EXCEPT ![t] = ov[t]]
      /\ ent[t] \in Entries \cup {Null} /\ ov[t] \in E!Ptrs /\ head \in E!Ptrs
      /\ epc = [epc EXCEPT ![t] = epc[t]] /\ own = [own EXCEPT ![t] = own[t]]
  BY DEF E!TypeOK
<1>1. CASE E!Create(t)
  BY <1>1, ECreateInv
<1>2. CASE E!Lock(t)
  <2>1. PICK e \in Entries : ent' = [ent EXCEPT ![t] = e]
    BY <1>2 DEF E!Lock
  <2> QED
    BY <1>0, <1>2, <2>1, EMoveInv DEF E!Lock, E!Goto
<1>3. CASE E!LockRead(t)
  <2>1. epc[t] = "read" /\ ent[t] \in Entries /\ hold[t] = Null
    BY <1>3 DEF E!LockRead, EPlaces
  <2>2. /\ UNCHANGED <<entry, head, blk, cur, own, hold>>
        /\ ov' = [ov EXCEPT ![t] = ov[t]]
    BY <1>0, <1>3 DEF E!LockRead
  <2>3. ASSUME NEW l \in {"cas", "block"}, E!Goto(t, l), UNCHANGED ent PROVE EInv'
    BY <1>0, <2>1, <2>2, <2>3, EMoveInv DEF E!Goto
  <2>4. CASE E!Return(t)
    BY <1>0, <2>1, <2>2, <2>4, EMoveInv DEF E!Return, E!Goto
  <2> QED
    BY <1>3, <2>3, <2>4 DEF E!LockRead
<1>4. CASE E!LockCas(t)
  <2>1. epc[t] = "cas" /\ ent[t] \in Entries /\ hold[t] = Null
    BY <1>4 DEF E!LockCas, EPlaces
  <2>2. CASE entry[ent[t]] = E!UnlockedEntry
    BY <1>4, <2>1, <2>2, ELockInv DEF E!LockCas, E!MayLock, E!Return, E!Goto
  <2>3. CASE entry[ent[t]] # E!UnlockedEntry
    BY <1>0, <1>4, <2>1, <2>3, EMoveInv DEF E!LockCas, E!MayLock, E!Goto
  <2> QED
    BY <2>2, <2>3
<1>5. CASE E!Block(t)
  <2>1. ent[t] \in Entries /\ hold[t] = Null
    BY <1>5 DEF E!Block, EPlaces
  <2> QED
    BY <1>0, <1>5, <2>1, EMoveInv DEF E!Block, E!Goto
<1>6. CASE E!Push(t)
  <2>1. epc[t] = "push" /\ ent[t] \in Entries /\ hold[t] = Null
    BY <1>6 DEF E!Push, EPlaces
  <2>2. CASE head = ov[t]
    BY <1>6, <2>1, <2>2, EPushInv DEF E!Push, E!NextBlock, E!Goto
  <2>3. CASE head # ov[t]
    BY <1>0, <1>6, <2>1, <2>3, EMoveInv DEF E!Push
  <2> QED
    BY <2>2, <2>3
<1>7. CASE E!Recheck(t)
  BY <1>7, ERecheckInv
<1>8. CASE E!PrepareWait(t)
  <2>1. epc[t] = "prepare" /\ cur[t] = Null /\ ~own[t]
    BY <1>8 DEF E!PrepareWait, EPlaces
  <2>2. CASE blk[t].wait
    BY <1>8, <2>1, <2>2, EPrepareInv DEF E!PrepareWait, E!Goto
  <2>3. CASE ~blk[t].wait
    <3>1. E!Blocked(t) /\ ~Waits(t) /\ own = [own EXCEPT ![t] = FALSE]
      BY <1>0, <2>1, <2>3 DEF E!Blocked, Waits, E!TypeOK
    <3> QED
      BY <1>8, <2>1, <2>3, <3>1, EAgainInv DEF E!PrepareWait, E!Goto
  <2> QED
    BY <2>2, <2>3
<1>9. CASE E!Wait(t)
  <2>1. epc[t] = "sleep" /\ cur[t] = Null /\ ~own[t] /\ blk[t].event /\ ~blk[t].wait
    BY <1>9 DEF E!Wait, EPlaces
  <2>2. E!Blocked(t) /\ ~Waits(t) /\ own = [own EXCEPT ![t] = FALSE]
    BY <1>0, <2>1 DEF E!Blocked, Waits, E!TypeOK
  <2> QED
    BY <1>9, <2>1, <2>2, EAgainInv DEF E!Wait, E!Goto
<1>10. CASE E!Unlock(t)
  <2>1. epc[t] = "idle" /\ hold[t] # Null /\ hold[t] \in Entries
    BY <1>10 DEF E!Unlock, E!TypeOK
  <2>2. entry[hold[t]] = E!LockedEntry
    BY <2>1 DEF EOwners
  <2>3. entry' = [entry EXCEPT ![hold[t]] = E!UnlockedEntry]
    BY <1>10, <2>1, <2>2, EntryValues DEF E!Unlock, E!TypeOK
  <2> QED
    BY <1>10, <2>1, <2>3, EReleaseInv DEF E!Unlock, E!GotoUnblock, E!Goto
<1>11. CASE E!Destroy(t)
  BY <1>11, EReleaseInv DEF E!Destroy, E!GotoUnblock, E!Goto
<1>12. CASE E!Unblock(t)
  BY <1>12, EUnblockInv
<1>13. CASE E!Wake(t)
  BY <1>13, EWakeInv
<1>14. CASE E!Signal(t)
  BY <1>14, ESignalInv
<1>15. CASE E!WakeDone(t)
  BY <1>15, EWakeDoneInv
<1> QED
  BY <1>1, <1>2, <1>3, <1>4, <1>5, <1>6, <1>7, <1>8, <1>9, <1>10, <1>11, <1>12, <1>13,
     <1>14, <1>15 DEF E!Begin, E!BeginRelease, E!Continue

(* The invariant implies what the run checks. *)
LEMMA EExact ==
    ASSUME EInv PROVE E!TypeOK /\ E!OneOwner /\ E!NoDeadBlock /\ E!WakeUpIsDue
<1> USE DEF EInv
<1>1. E!OneOwner
  <2> SUFFICES ASSUME NEW e \in Entries
               PROVE  E!Cardinality({t \in Users : hold[t] = e}) =
                         IF entry[e] = E!LockedEntry THEN 1 ELSE 0
    BY DEF E!OneOwner
  <2> DEFINE S == {t \in Users : hold[t] = e}
  <2>1. E!Cardinality(S) = Cardinality(S)
    BY DEF E!Cardinality, Cardinality
  <2>2. CASE entry[e] = E!LockedEntry
    <3>1. PICK t \in Users : hold[t] = e
      BY <2>2 DEF EOwners
    <3>2. S = {t}
      BY <3>1, EntryAssumption DEF EOwners
    <3> QED
      BY <2>1, <2>2, <3>2, FS_Singleton
  <2>3. CASE entry[e] # E!LockedEntry
    <3>1. S = {}
      BY <2>3, EntryAssumption DEF EOwners
    <3> QED
      BY <2>1, <2>3, <3>1, FS_EmptySet
  <2> QED
    BY <2>2, <2>3
<1>2. PICK ws \in Seq(Users), ks \in [Users -> Seq(Users)] : ELists(ws, ks)
  BY DEF SomeLists
<1>3. \A u : u \in E!ChainFrom(head) <=> Listed(ws, u)
  BY <1>2, ChainIsPath DEF ELists
<1>4. \A t \in Users : \A u : u \in E!ChainFrom(cur[t]) <=> Listed(ks[t], u)
  BY <1>2, ChainIsPath DEF ELists
<1>5. \A u : u \in E!Taken <=> \E t \in Users : Listed(ks[t], u)
  BY <1>4 DEF E!Taken
<1>6. /\ \A u : Listed(ws, u) => u \in Users
      /\ \A t \in Users : \A u : Listed(ks[t], u) => u \in Users
  BY <1>2 DEF Listed
<1>7. E!NoDeadBlock
  BY <1>2, <1>3, <1>5, <1>6 DEF E!NoDeadBlock, ELists, Waits
<1>8. E!WakeUpIsDue
  <2> SUFFICES ASSUME NEW t \in Users, E!Unsignaled(t), t \notin E!Taken
               PROVE  /\ t \in E!ChainFrom(head)
                      /\ \/ entry[ent[t]] = E!LockedEntry
                         \/ \E u \in Users : epc[u] = "unblock"
    BY DEF E!WakeUpIsDue
  <2>1. Waits(t) /\ epc[t] \in {"prepare", "sleep"}
    BY DEF E!Unsignaled, Waits, E!Blocked
  <2>2. Listed(ws, t) /\ Due(t)
    BY <1>2, <1>5, <2>1 DEF ELists
  <2> QED
    BY <1>3, <2>1, <2>2 DEF Due
<1> QED
  BY <1>1, <1>7, <1>8

(* Under every interleaving of ex/handle.c and the blocking half of        *)
(* ex/pushlock.c, those who wait for an entry are once on the list of the  *)
(* table or on a list that ExfUnblockPushLock has taken from it.           *)
THEOREM EntryInvariance == AFairSpec => []EInv
<1>1. AInit => EInv
  BY EInitInv DEF AInit
<1>2. EInv /\ [ANext]_avars => EInv'
  <2> SUFFICES ASSUME EInv, [ANext]_avars PROVE EInv'
    OBVIOUS
  <2>1. CASE UNCHANGED evars
    <3>1. UNCHANGED <<entry, head, blk, epc, ent, ov, cur, own, hold>>
      BY <2>1 DEF evars
    <3>2. E!TypeOK' /\ EPlaces' /\ EOwners'
      BY <3>1 DEF EInv, E!TypeOK, EPlaces, E!Blocked, EOwners
    <3>3. SomeLists'
      BY <3>1 DEF EInv, SomeLists, ELists, Waits, E!Blocked, Due
    <3> QED
      BY <3>2, <3>3 DEF EInv
  <2>2. ASSUME NEW t \in Users, E!Begin(t) \/ E!BeginRelease(t) \/ E!Continue(t)
        PROVE  EInv'
    BY <2>2, EStepInv
  <2> QED
    BY <2>1, <2>2 DEF avars, ANext, ACall, AGo, Begins, Releases, Continues
<1> QED
  BY <1>1, <1>2, PTL DEF AFairSpec

(* The entry locks of a handle table, however many threads and entries: a  *)
(* locked entry has one owner, no list leads to the stack of a thread that *)
(* has left ExpBlockOnLockedHandleEntry, and no wake-up is lost.           *)
THEOREM EntrySafety == AFairSpec => []EntryLocksExact
<1>1. EInv => EntryLocksExact
  BY EExact DEF EntryLocksExact
<1> QED
  BY <1>1, EntryInvariance, PTL
=============================================================================
