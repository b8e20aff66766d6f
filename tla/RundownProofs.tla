--------------------------- MODULE RundownProofs ---------------------------
(***************************************************************************)
(* Proofs about Rundown, for any number of users, references and waiters.  *)
(* IInv is inductive; the safety properties and the refinement of          *)
(* RundownSpec follow from it.                                             *)
(***************************************************************************)
EXTENDS Rundown, FiniteSetTheorems, TLAPS

-----------------------------------------------------------------------------
(* Counting references. *)

(* There are finitely many references, so the word's count is a number. *)
LEMMA RefsFinite ==
    ASSUME NEW S \in SUBSET Refs
    PROVE  IsFiniteSet(S) /\ Cardinality(S) \in Nat
<1>1. IsFiniteSet(Refs)
  BY SlotsAssumption, FS_Product DEF Refs
<1> QED
  BY <1>1, FS_Subset, FS_CardinalityType

(* Granting references nobody has adds their number. *)
LEMMA GrantCount ==
    ASSUME NEW S \in SUBSET Refs, NEW T \in SUBSET Refs, T \cap S = {}
    PROVE  Cardinality(S \cup T) = Cardinality(S) + Cardinality(T)
<1>1. S \cap T = {}
  OBVIOUS
<1>2. /\ IsFiniteSet(S) /\ IsFiniteSet(T)
      /\ Cardinality(S) \in Nat /\ Cardinality(T) \in Nat
  BY RefsFinite
<1>3. Cardinality(S \cup T) =
        Cardinality(S) + Cardinality(T) - Cardinality(S \cap T)
  BY <1>2, FS_Union
<1> QED
  BY <1>1, <1>2, <1>3, FS_EmptySet

(* Releasing references that are outstanding subtracts their number. *)
LEMMA ReleaseCount ==
    ASSUME NEW S \in SUBSET Refs, NEW T \in SUBSET Refs, T \subseteq S
    PROVE  /\ Cardinality(S \ T) = Cardinality(S) - Cardinality(T)
           /\ Cardinality(T) <= Cardinality(S)
           /\ Cardinality(S) = Cardinality(T) <=> S \ T = {}
<1>1. S \cap T = T
  OBVIOUS
<1>2. /\ IsFiniteSet(S) /\ IsFiniteSet(T) /\ IsFiniteSet(S \ T)
      /\ Cardinality(S) \in Nat /\ Cardinality(T) \in Nat
      /\ Cardinality(S \ T) \in Nat
  BY RefsFinite
<1>3. Cardinality(S \ T) = Cardinality(S) - Cardinality(S \cap T)
  BY <1>2, FS_Difference
<1>4. Cardinality(S \ T) = 0 <=> S \ T = {}
  BY <1>2, FS_EmptySet
<1> QED
  BY <1>1, <1>2, <1>3, <1>4

(* Zero references are no references. *)
LEMMA NoneCount ==
    ASSUME NEW S \in SUBSET Refs
    PROVE  Cardinality(S) = 0 <=> S = {}
  BY RefsFinite, FS_EmptySet

(* The references of two threads are different ones. *)
LEMMA OwnRefs ==
    ASSUME NEW u \in Users, NEW v \in Users, u # v,
           NEW S, NEW T, S \subseteq {u} \X Slots, T \subseteq {v} \X Slots
    PROVE  S \cap T = {}
  OBVIOUS

(* The words the code stores have the word's type. *)
LEMMA WordTypes ==
    /\ \A n \in Nat : /\ Counted(n) \in Words
                      /\ Counted(n).active = FALSE
                      /\ Counted(n).count = n
                      /\ Counted(n).ptr = NoBlock
    /\ Active \in Words /\ Active.active /\ Active.ptr = NoBlock
                        /\ Active.count = 0
    /\ \A w \in Waiters : /\ Pointing(w) \in Words
                          /\ Pointing(w).active
                          /\ Pointing(w).ptr = w
                          /\ Pointing(w).count = 0
    /\ \A x \in Words : /\ Masked(x) \in Words
                        /\ Masked(x).active = FALSE
  BY DEF Counted, Active, Pointing, Masked, Words

-----------------------------------------------------------------------------
(* The initial state. *)
LEMMA InitIInv == Init => IInv
<1> SUFFICES ASSUME Init PROVE IInv
  OBVIOUS
<1>1. Cardinality({}) = 0
  BY FS_EmptySet
<1>2. TypeOK
  BY WordTypes DEF Init, TypeOK, UserPCs, UserIdle, WaiterPCs
<1>3. WordCounts
  BY <1>1, WordTypes DEF Init, WordCounts
<1>4. OneRundown /\ BlockCounts
  BY DEF Init, OneRundown, BlockCounts
<1>5. CallsAreValid /\ SignalIsDue /\ WakeUpIsDue
  BY DEF Init, CallsAreValid, SignalIsDue, WakeUpIsDue, Acquiring, Releasing
<1> QED
  BY <1>2, <1>3, <1>4, <1>5 DEF IInv

-----------------------------------------------------------------------------
(* What the invariant says while no rundown is active. *)
LEMMA WhileInactive ==
    ASSUME IInv, ~word.active
    PROVE  /\ word = Counted(Cardinality(held))
           /\ word.count = Cardinality(held)
           /\ Cardinality(held) \in Nat
           /\ \A w \in Waiters : wpc[w] \notin {"wait", "down"}
           /\ \A u \in Users : upc[u] # "rsignal"
           /\ \A u \in Users : upc[u] = "rcas" => ~val[u].active
<1>1. held \in SUBSET Refs /\ word = Counted(Cardinality(held))
  BY DEF IInv, TypeOK, WordCounts
<1>2. Cardinality(held) \in Nat
  BY <1>1, RefsFinite
<1>3. word.count = Cardinality(held)
  BY <1>1, <1>2, WordTypes
<1>4. \A w \in Waiters : wpc[w] \notin {"wait", "down"}
  BY DEF IInv, WordCounts
<1>5. \A u \in Users : upc[u] # "rsignal"
  BY <1>4 DEF IInv, SignalIsDue
<1>6. \A u \in Users : upc[u] = "rcas" => ~val[u].active
  BY DEF IInv, CallsAreValid
<1> QED
  BY <1>1, <1>2, <1>3, <1>4, <1>5, <1>6

(* The references a call is about. *)
LEMMA CallRefs ==
    ASSUME IInv, NEW u \in Users, upc[u] \in Acquiring \cup Releasing
    PROVE  /\ req[u] \in SUBSET Refs
           /\ req[u] \subseteq {u} \X Slots
           /\ req[u] # {}
           /\ Cardinality(req[u]) \in Nat
           /\ Cardinality(req[u]) # 0
<1>1. req[u] \in SUBSET Refs /\ req[u] \subseteq {u} \X Slots /\ req[u] # {}
  BY DEF IInv, TypeOK, CallsAreValid
<1> QED
  BY <1>1, RefsFinite, NoneCount

-----------------------------------------------------------------------------
(* The effects the user's steps share. *)

(* A step that only moves a call on: it changes the thread's own locals.   *)
LEMMA LocalStep ==
    ASSUME IInv, NEW u \in Users,
           UNCHANGED <<word, block, wpc, wval, held>>,
           NEW p \in UserPCs \ {"rsignal"}, NEW x \in Words,
           NEW S \in SUBSET Refs,
           upc[u] # "rsignal",
           upc' = [upc EXCEPT ![u] = p],
           val' = [val EXCEPT ![u] = x],
           req' = [req EXCEPT ![u] = S],
           p \in Acquiring \cup Releasing => S # {} /\ S \subseteq {u} \X Slots,
           p \in Acquiring => S \cap held = {},
           p \in Releasing => S \subseteq held,
           p \in {"afast", "rfast"} => ~x.active /\ Cardinality(S) = 1,
           p = "rcas" /\ x.active => x = word
    PROVE  IInv'
<1>1. TypeOK'
  BY DEF IInv, TypeOK
<1>2. WordCounts' /\ OneRundown' /\ BlockCounts'
  BY DEF IInv, WordCounts, OneRundown, BlockCounts
<1>3. CallsAreValid'
  BY DEF IInv, TypeOK, CallsAreValid
<1>4. SignalIsDue'
  BY DEF IInv, TypeOK, SignalIsDue
<1>5. WakeUpIsDue'
  BY DEF IInv, TypeOK, WakeUpIsDue
<1> QED
  BY <1>1, <1>2, <1>3, <1>4, <1>5 DEF IInv

(* A successful compare-exchange of an acquire. *)
LEMMA GrantStep ==
    ASSUME IInv, NEW u \in Users, upc[u] \in Acquiring, ~word.active,
           word' = Counted(word.count + Cardinality(req[u])),
           held' = held \cup req[u],
           Return(u),
           UNCHANGED <<block, wpc, wval>>
    PROVE  IInv'
<1>1. /\ req[u] \in SUBSET Refs /\ req[u] \subseteq {u} \X Slots
      /\ Cardinality(req[u]) \in Nat
  BY CallRefs
<1>2. req[u] \cap held = {} /\ held \in SUBSET Refs
  BY DEF IInv, TypeOK, CallsAreValid
<1>3. held' \in SUBSET Refs /\ Cardinality(held') \in Nat
  BY <1>1, <1>2, RefsFinite
<1>4. word' = Counted(Cardinality(held'))
  BY <1>1, <1>2, GrantCount, WhileInactive
<1>5. word' \in Words /\ ~word'.active
  BY <1>3, <1>4, WordTypes
<1>6. TypeOK'
  BY <1>3, <1>5, WordTypes
     DEF IInv, TypeOK, Return, UserPCs, UserIdle
<1>7. WordCounts'
  BY <1>4, <1>5, WhileInactive DEF WordCounts
<1>8. OneRundown'
  BY DEF IInv, OneRundown
<1>9. BlockCounts' /\ WakeUpIsDue'
  BY WhileInactive DEF IInv, BlockCounts, WakeUpIsDue
<1>10. SignalIsDue'
  BY WhileInactive DEF IInv, TypeOK, SignalIsDue, Return
<1>11. CallsAreValid'
  <2> SUFFICES ASSUME NEW v \in Users
               PROVE  CallsAreValid!(v)'
    BY DEF CallsAreValid
  <2>1. CASE v = u
    BY <2>1 DEF IInv, TypeOK, Return, Acquiring, Releasing
  <2>2. CASE v # u
    <3>1. upc'[v] = upc[v] /\ val'[v] = val[v] /\ req'[v] = req[v]
      BY <2>2 DEF IInv, TypeOK, Return
    <3>2. upc[v] \in Acquiring \cup Releasing => req[v] \cap req[u] = {}
      BY <1>1, <2>2, OwnRefs, CallRefs
    <3> QED
      BY <3>1, <3>2, WhileInactive DEF IInv, CallsAreValid
  <2> QED
    BY <2>1, <2>2
<1> QED
  BY <1>6, <1>7, <1>8, <1>9, <1>10, <1>11 DEF IInv

(* A successful compare-exchange of a release. *)
LEMMA UngrantStep ==
    ASSUME IInv, NEW u \in Users, upc[u] \in Releasing, ~word.active,
           word' = Counted(word.count - Cardinality(req[u])),
           held' = held \ req[u],
           Return(u),
           UNCHANGED <<block, wpc, wval>>
    PROVE  IInv'
<1>1. /\ req[u] \in SUBSET Refs /\ req[u] \subseteq {u} \X Slots
      /\ Cardinality(req[u]) \in Nat
  BY CallRefs
<1>2. req[u] \subseteq held /\ held \in SUBSET Refs
  BY DEF IInv, TypeOK, CallsAreValid
<1>3. held' \in SUBSET Refs /\ Cardinality(held') \in Nat
  BY <1>1, <1>2, RefsFinite
<1>4. word' = Counted(Cardinality(held'))
  BY <1>1, <1>2, ReleaseCount, WhileInactive
<1>5. word' \in Words /\ ~word'.active
  BY <1>3, <1>4, WordTypes
<1>6. TypeOK'
  BY <1>3, <1>5, WordTypes
     DEF IInv, TypeOK, Return, UserPCs, UserIdle
<1>7. WordCounts'
  BY <1>4, <1>5, WhileInactive DEF WordCounts
<1>8. OneRundown'
  BY DEF IInv, OneRundown
<1>9. BlockCounts' /\ WakeUpIsDue'
  BY WhileInactive DEF IInv, BlockCounts, WakeUpIsDue
<1>10. SignalIsDue'
  BY WhileInactive DEF IInv, TypeOK, SignalIsDue, Return
<1>11. CallsAreValid'
  <2> SUFFICES ASSUME NEW v \in Users
               PROVE  CallsAreValid!(v)'
    BY DEF CallsAreValid
  <2>1. CASE v = u
    BY <2>1 DEF IInv, TypeOK, Return, Acquiring, Releasing
  <2>2. CASE v # u
    <3>1. upc'[v] = upc[v] /\ val'[v] = val[v] /\ req'[v] = req[v]
      BY <2>2 DEF IInv, TypeOK, Return
    <3>2. upc[v] \in Acquiring \cup Releasing => req[v] \cap req[u] = {}
      BY <1>1, <2>2, OwnRefs, CallRefs
    <3> QED
      BY <3>1, <3>2, WhileInactive DEF IInv, CallsAreValid
  <2> QED
    BY <2>1, <2>2
<1> QED
  BY <1>6, <1>7, <1>8, <1>9, <1>10, <1>11 DEF IInv

-----------------------------------------------------------------------------
(* The user's actions preserve the invariant. *)
LEMMA AcquireStepIInv ==
    ASSUME IInv, NEW u \in Users, AcquireStep(u)
    PROVE  IInv'
<1> USE DEF UserPCs, UserIdle, Acquiring, Releasing
<1>0. /\ word \in Words /\ val[u] \in Words /\ req[u] \in SUBSET Refs
      /\ Counted(0) \in Words
  BY WordTypes DEF IInv, TypeOK
<1>1. CASE AcquireFast(u)
  <2>1. PICK r \in ({u} \X Slots) \ held : req' = [req EXCEPT ![u] = {r}]
    BY <1>1 DEF AcquireFast
  <2>2. {r} \in SUBSET Refs /\ {r} \cap held = {} /\ Cardinality({r}) = 1
    BY FS_Singleton DEF Refs
  <2>3. Masked(word) \in Words /\ ~Masked(word).active
    BY <1>0, WordTypes
  <2> QED
    BY <1>1, <2>1, <2>2, <2>3, LocalStep DEF AcquireFast
<1>2. CASE AcquireFastCas(u)
  <2>1. CASE word = val[u]
    <3>1. ~word.active /\ Cardinality(req[u]) = 1
      BY <1>2, <2>1 DEF IInv, CallsAreValid, AcquireFastCas
    <3> QED
      BY <1>2, <2>1, <3>1, GrantStep DEF AcquireFastCas
  <2>2. CASE word # val[u]
    <3>1. req' = [req EXCEPT ![u] = req[u]]
      BY <1>2, <2>2 DEF IInv, TypeOK, AcquireFastCas
    <3>2. req[u] # {} /\ req[u] \subseteq {u} \X Slots /\ req[u] \cap held = {}
      BY <1>2 DEF IInv, CallsAreValid, AcquireFastCas
    <3> QED
      BY <1>0, <1>2, <2>2, <3>1, <3>2, LocalStep DEF AcquireFastCas
  <2> QED
    BY <2>1, <2>2
<1>3. CASE AcquireEx(u)
  <2>1. PICK S \in SUBSET (({u} \X Slots) \ held) :
           S # {} /\ req' = [req EXCEPT ![u] = S]
    BY <1>3 DEF AcquireEx
  <2>2. S \in SUBSET Refs /\ S \subseteq {u} \X Slots /\ S \cap held = {}
    BY DEF Refs
  <2>3. val' = [val EXCEPT ![u] = val[u]]
    BY <1>3 DEF IInv, TypeOK, AcquireEx
  <2> QED
    BY <1>0, <1>3, <2>1, <2>2, <2>3, LocalStep DEF AcquireEx
<1>4. CASE AcquireRead(u)
  <2>1. req' = [req EXCEPT ![u] = req[u]]
    BY <1>4 DEF IInv, TypeOK, AcquireRead
  <2>2. req[u] # {} /\ req[u] \subseteq {u} \X Slots /\ req[u] \cap held = {}
    BY <1>4 DEF IInv, CallsAreValid, AcquireRead
  <2> QED
    BY <1>0, <1>4, <2>1, <2>2, LocalStep DEF AcquireRead
<1>5. CASE AcquireCas(u)
  <2>1. CASE val[u].active
    BY <1>0, <1>5, <2>1, LocalStep, SMTT(30) DEF AcquireCas, Refused, Return
  <2>2. CASE ~val[u].active /\ word = val[u]
    BY <1>5, <2>2, GrantStep DEF AcquireCas, Refused
  <2>3. CASE ~val[u].active /\ word # val[u]
    <3>1. /\ req' = [req EXCEPT ![u] = req[u]]
          /\ upc' = [upc EXCEPT ![u] = "acas"]
      BY <1>5, <2>3 DEF IInv, TypeOK, AcquireCas, Refused
    <3>2. req[u] # {} /\ req[u] \subseteq {u} \X Slots /\ req[u] \cap held = {}
      BY <1>5 DEF IInv, CallsAreValid, AcquireCas, Refused
    <3> QED
      BY <1>0, <1>5, <2>3, <3>1, <3>2, LocalStep DEF AcquireCas, Refused
  <2> QED
    BY <2>1, <2>2, <2>3
<1> QED
  BY <1>1, <1>2, <1>3, <1>4, <1>5 DEF AcquireStep

(* A release while a rundown is active: the count is in the wait block.    *)
LEMMA ReleaseToBlockIInv ==
    ASSUME IInv, NEW u \in Users, ReleaseToBlock(u)
    PROVE  IInv'
<1> DEFINE w == val[u].ptr
           n == Cardinality(req[u])
<1>1. /\ upc[u] = "rcas" /\ upc[u] \in Releasing /\ w \in Waiters
      /\ word = val[u] /\ word.active
  BY DEF IInv, CallsAreValid, ReleaseToBlock, LastReference, Releasing
<1>2. /\ req[u] \in SUBSET Refs /\ req[u] \subseteq {u} \X Slots
      /\ n \in Nat /\ n # 0 /\ req[u] # {}
  BY <1>1, CallRefs
<1>3. req[u] \subseteq held /\ held \in SUBSET Refs /\ held # {}
  BY <1>1, <1>2 DEF IInv, TypeOK, CallsAreValid
<1>4. /\ wpc[w] = "wait" /\ word = Pointing(w)
      /\ block[w].count = Cardinality(held) /\ ~block[w].signaled
      /\ \A x \in Waiters : x # w => wpc[x] = "idle"
  <2>1. PICK x \in Waiters : wpc[x] \in {"wait", "down"}
    BY <1>1 DEF IInv, WordCounts
  <2>2. wpc[x] = "wait"
    BY <1>3, <2>1 DEF IInv, BlockCounts
  <2>3. word = Pointing(x)
    BY <2>2 DEF IInv, BlockCounts
  <2>4. x = w
    BY <1>1, <2>3, WordTypes
  <2> QED
    BY <1>1, <1>3, <2>2, <2>4 DEF IInv, BlockCounts, OneRundown
<1>5. /\ held' = held \ req[u] /\ held' \in SUBSET Refs
      /\ Cardinality(held') \in Nat
      /\ block[w].count - n = Cardinality(held')
      /\ block[w].count = n <=> held' = {}
  BY <1>2, <1>3, <1>4, ReleaseCount, RefsFinite DEF ReleaseToBlock, LastReference
<1>6. /\ block' = [block EXCEPT ![w].count = Cardinality(held')]
      /\ UNCHANGED <<word, wpc, wval>>
  BY <1>5 DEF ReleaseToBlock, LastReference
<1>7. /\ block' \in [Waiters -> [count : Nat, signaled : BOOLEAN]]
      /\ block'[w].count = Cardinality(held')
      /\ \A x \in Waiters : block'[x].signaled = block[x].signaled
  BY <1>1, <1>5, <1>6 DEF IInv, TypeOK
<1>8. \A v \in Users : upc[v] # "rsignal"
  BY <1>3 DEF IInv, CallsAreValid
<1>9. /\ \A v \in Users \ {u} : /\ upc'[v] = upc[v] /\ val'[v] = val[v]
                                /\ req'[v] = req[v]
      /\ held' = {} => upc'[u] = "rsignal" /\ val'[u] = val[u]
      /\ held' # {} => upc'[u] = "idle"
      /\ upc' \in [Users -> UserPCs] /\ val' \in [Users -> Words]
      /\ req' \in [Users -> SUBSET Refs]
  <2>1. CASE held' = {}
    BY <1>5, <2>1 DEF IInv, TypeOK, ReleaseToBlock, LastReference, UserPCs
  <2>2. CASE held' # {}
    <3>1. Return(u)
      BY <1>5, <2>2 DEF ReleaseToBlock, LastReference
    <3>2. Counted(0) \in Words
      BY WordTypes
    <3> QED
      BY <2>2, <3>1, <3>2 DEF IInv, TypeOK, Return, UserPCs, UserIdle
  <2> QED
    BY <2>1, <2>2
<1>10. TypeOK'
  BY <1>5, <1>6, <1>7, <1>9 DEF IInv, TypeOK
<1>11. WordCounts' /\ OneRundown'
  BY <1>1, <1>4, <1>6, BlockAssumption, WordTypes
     DEF IInv, WordCounts, OneRundown
<1>12. BlockCounts'
  BY <1>4, <1>6, <1>7 DEF IInv, BlockCounts
<1>13. CallsAreValid'
  <2> SUFFICES ASSUME NEW v \in Users
               PROVE  CallsAreValid!(v)'
    BY DEF CallsAreValid
  <2>1. CASE v = u
    BY <1>1, <1>6, <1>9, <2>1 DEF Acquiring, Releasing
  <2>2. CASE v # u
    <3>1. upc[v] \in Acquiring \cup Releasing => req[v] \cap req[u] = {}
      BY <1>2, <2>2, OwnRefs, CallRefs
    <3> QED
      BY <1>5, <1>6, <1>8, <1>9, <2>2, <3>1 DEF IInv, CallsAreValid
  <2> QED
    BY <2>1, <2>2
<1>14. SignalIsDue'
  BY <1>1, <1>4, <1>6, <1>7, <1>8, <1>9 DEF SignalIsDue
<1>15. WakeUpIsDue'
  BY <1>9 DEF WakeUpIsDue
<1> QED
  BY <1>10, <1>11, <1>12, <1>13, <1>14, <1>15 DEF IInv

(* KeSetEvent by the releaser that dropped the last reference keeps IInv. *)
LEMMA ReleaseSignalIInv ==
    ASSUME IInv, NEW u \in Users, ReleaseSignal(u)
    PROVE  IInv'
<1> DEFINE w == val[u].ptr
<1>1. /\ upc[u] = "rsignal" /\ w \in Waiters /\ wpc[w] = "wait"
      /\ held = {} /\ word = Pointing(w)
      /\ \A v \in Users : upc[v] = "rsignal" => v = u
  BY DEF IInv, CallsAreValid, SignalIsDue, BlockCounts, ReleaseSignal
<1>2. /\ block' \in [Waiters -> [count : Nat, signaled : BOOLEAN]]
      /\ block'[w].signaled
      /\ \A x \in Waiters : block'[x].count = block[x].count
      /\ \A x \in Waiters : x # w => block'[x] = block[x]
      /\ UNCHANGED <<word, wpc, wval, held>>
  BY <1>1 DEF IInv, TypeOK, ReleaseSignal
<1>3. /\ upc' \in [Users -> UserPCs] /\ val' \in [Users -> Words]
      /\ req' \in [Users -> SUBSET Refs] /\ upc'[u] = "idle"
      /\ \A v \in Users \ {u} : /\ upc'[v] = upc[v] /\ val'[v] = val[v]
                                /\ req'[v] = req[v]
  BY WordTypes
     DEF IInv, TypeOK, ReleaseSignal, Return, UserPCs, UserIdle
<1>4. TypeOK'
  BY <1>2, <1>3 DEF IInv, TypeOK
<1>5. WordCounts' /\ OneRundown'
  BY <1>2 DEF IInv, WordCounts, OneRundown
<1>6. BlockCounts'
  BY <1>1, <1>2 DEF IInv, BlockCounts
<1>7. CallsAreValid'
  BY <1>2, <1>3 DEF IInv, CallsAreValid, Acquiring, Releasing
<1>8. SignalIsDue'
  BY <1>1, <1>3 DEF SignalIsDue
<1>9. WakeUpIsDue'
  BY <1>1, <1>2, WordTypes DEF IInv, WakeUpIsDue, OneRundown
<1> QED
  BY <1>4, <1>5, <1>6, <1>7, <1>8, <1>9 DEF IInv

(* Every step of a release, on the fast or the Ex path, keeps IInv.        *)
LEMMA ReleaseStepIInv ==
    ASSUME IInv, NEW u \in Users, ReleaseBegin(u) \/ ReleaseStep(u)
    PROVE  IInv'
<1> USE DEF UserPCs, UserIdle, Acquiring, Releasing
<1>0. /\ word \in Words /\ val[u] \in Words /\ req[u] \in SUBSET Refs
      /\ Counted(0) \in Words
  BY WordTypes DEF IInv, TypeOK
<1>1. CASE ReleaseFast(u)
  <2>1. PICK r \in ({u} \X Slots) \cap held : req' = [req EXCEPT ![u] = {r}]
    BY <1>1 DEF ReleaseFast
  <2>2. {r} \in SUBSET Refs /\ {r} \subseteq held /\ Cardinality({r}) = 1
    BY FS_Singleton DEF Refs
  <2>3. Masked(word) \in Words /\ ~Masked(word).active
    BY <1>0, WordTypes
  <2> QED
    BY <1>1, <2>1, <2>2, <2>3, LocalStep DEF ReleaseFast
<1>2. CASE ReleaseFastCas(u)
  <2>1. CASE word = val[u]
    <3>1. ~word.active /\ Cardinality(req[u]) = 1
      BY <1>2, <2>1 DEF IInv, CallsAreValid, ReleaseFastCas
    <3> QED
      BY <1>2, <2>1, <3>1, UngrantStep DEF ReleaseFastCas
  <2>2. CASE word # val[u]
    <3>1. req' = [req EXCEPT ![u] = req[u]]
      BY <1>2, <2>2 DEF IInv, TypeOK, ReleaseFastCas
    <3>2. req[u] # {} /\ req[u] \subseteq {u} \X Slots /\ req[u] \subseteq held
      BY <1>2 DEF IInv, CallsAreValid, ReleaseFastCas
    <3> QED
      BY <1>0, <1>2, <2>2, <3>1, <3>2, LocalStep DEF ReleaseFastCas
  <2> QED
    BY <2>1, <2>2
<1>3. CASE ReleaseEx(u)
  <2>1. PICK S \in SUBSET (({u} \X Slots) \cap held) :
           S # {} /\ req' = [req EXCEPT ![u] = S]
    BY <1>3 DEF ReleaseEx
  <2>2. S \in SUBSET Refs /\ S \subseteq {u} \X Slots /\ S \subseteq held
    BY DEF Refs
  <2>3. val' = [val EXCEPT ![u] = val[u]]
    BY <1>3 DEF IInv, TypeOK, ReleaseEx
  <2> QED
    BY <1>0, <1>3, <2>1, <2>2, <2>3, LocalStep DEF ReleaseEx
<1>4. CASE ReleaseRead(u)
  <2>1. req' = [req EXCEPT ![u] = req[u]]
    BY <1>4 DEF IInv, TypeOK, ReleaseRead
  <2>2. req[u] # {} /\ req[u] \subseteq {u} \X Slots /\ req[u] \subseteq held
    BY <1>4 DEF IInv, CallsAreValid, ReleaseRead
  <2> QED
    BY <1>0, <1>4, <2>1, <2>2, LocalStep DEF ReleaseRead
<1>5. CASE ReleaseCas(u)
  <2>1. CASE word = val[u]
    BY <1>5, <2>1, UngrantStep DEF ReleaseCas
  <2>2. CASE word # val[u]
    <3>1. /\ req' = [req EXCEPT ![u] = req[u]]
          /\ upc' = [upc EXCEPT ![u] = "rcas"]
      BY <1>5, <2>2 DEF IInv, TypeOK, ReleaseCas
    <3>2. req[u] # {} /\ req[u] \subseteq {u} \X Slots /\ req[u] \subseteq held
      BY <1>5 DEF IInv, CallsAreValid, ReleaseCas
    <3> QED
      BY <1>0, <1>5, <2>2, <3>1, <3>2, LocalStep DEF ReleaseCas
  <2> QED
    BY <2>1, <2>2
<1>6. CASE ReleaseToBlock(u) \/ ReleaseSignal(u)
  BY <1>6, ReleaseToBlockIInv, ReleaseSignalIInv
<1> QED
  BY <1>1, <1>2, <1>3, <1>4, <1>5, <1>6 DEF ReleaseBegin, ReleaseStep

-----------------------------------------------------------------------------
(* The waiter's actions preserve the invariant. *)

(* While no rundown is active, moving a waiter towards its wait disturbs   *)
(* only what the invariant says of that waiter.                            *)
LEMMA WaiterMoves ==
    ASSUME IInv, NEW w \in Waiters, ~word.active,
           \A x \in Waiters : x # w => wpc[x] = "idle",
           NEW p \in {"wslow", "wcas"}, NEW x \in Words,
           p = "wcas" => ~x.active,
           wpc' = [wpc EXCEPT ![w] = p],
           wval' = [wval EXCEPT ![w] = x],
           UNCHANGED <<word, block, upc, val, req, held>>
    PROVE  IInv'
<1>1. TypeOK'
  BY DEF IInv, TypeOK, WaiterPCs
<1>2. WordCounts' /\ OneRundown'
  BY WhileInactive DEF IInv, TypeOK, WordCounts, OneRundown
<1>3. BlockCounts' /\ WakeUpIsDue'
  BY WhileInactive DEF IInv, TypeOK, BlockCounts, WakeUpIsDue
<1>4. CallsAreValid'
  BY DEF IInv, CallsAreValid
<1>5. SignalIsDue'
  BY WhileInactive DEF SignalIsDue
<1> QED
  BY <1>1, <1>2, <1>3, <1>4, <1>5 DEF IInv

(* The compare-exchange from 0 to EX_RUNDOWN_ACTIVE succeeds. *)
LEMMA WaiterFindsNone ==
    ASSUME IInv, NEW w \in Waiters, word = Counted(0),
           \A x \in Waiters : x # w => wpc[x] = "idle",
           word' = Active,
           wpc' = [wpc EXCEPT ![w] = "down"],
           UNCHANGED <<block, upc, val, req, wval, held>>
    PROVE  IInv'
<1>1. ~word.active /\ word.count = 0 /\ held \in SUBSET Refs
  BY WordTypes DEF IInv, TypeOK
<1>2. held = {}
  BY <1>1, WhileInactive, NoneCount
<1>3. TypeOK'
  BY WordTypes DEF IInv, TypeOK, WaiterPCs
<1>4. word'.active /\ word'.count = 0
  BY WordTypes
<1>5. WordCounts' /\ OneRundown'
  BY <1>2, <1>4 DEF IInv, TypeOK, WordCounts, OneRundown
<1>6. BlockCounts' /\ WakeUpIsDue'
  BY <1>1, <1>2, WhileInactive DEF IInv, TypeOK, BlockCounts, WakeUpIsDue
<1>7. CallsAreValid'
  BY <1>1, WhileInactive DEF IInv, CallsAreValid
<1>8. SignalIsDue'
  BY <1>1, WhileInactive DEF SignalIsDue
<1> QED
  BY <1>3, <1>5, <1>6, <1>7, <1>8 DEF IInv

(* Installing the wait block, or finding no reference left, keeps IInv.   *)
LEMMA WaitInstallIInv ==
    ASSUME IInv, NEW w \in Waiters, WaitInstall(w)
    PROVE  IInv'
<1>1. /\ wpc[w] = "wcas" /\ ~wval[w].active /\ held \in SUBSET Refs
      /\ word \in Words
      /\ \A x \in Waiters : x # w => wpc[x] = "idle"
  BY DEF IInv, TypeOK, BlockCounts, OneRundown, WaitInstall, MustWait
<1>2. ~word.active
  BY <1>1 DEF IInv, WordCounts
<1>3. CASE word = wval[w]
  <2>1. wval[w].count = Cardinality(held) /\ Cardinality(held) \in Nat
    BY <1>2, <1>3, WhileInactive
  <2>2. /\ word' = Pointing(w)
        /\ block' = [block EXCEPT ![w] =
                        [count |-> Cardinality(held), signaled |-> FALSE]]
        /\ wpc' = [wpc EXCEPT ![w] = IF held = {} THEN "down" ELSE "wait"]
        /\ wval' = [wval EXCEPT ![w] = Counted(0)]
        /\ UNCHANGED <<upc, val, req, held>>
    BY <1>1, <1>3, <2>1, NoneCount DEF WaitInstall, MustWait
  <2>3. /\ block' \in [Waiters -> [count : Nat, signaled : BOOLEAN]]
        /\ block'[w].count = Cardinality(held) /\ ~block'[w].signaled
    BY <2>1, <2>2 DEF IInv, TypeOK
  <2>4. /\ wpc' \in [Waiters -> WaiterPCs]
        /\ held = {} => wpc'[w] = "down"
        /\ held # {} => wpc'[w] = "wait"
        /\ \A x \in Waiters : x # w => wpc'[x] = "idle"
    BY <1>1, <2>2 DEF IInv, TypeOK, WaiterPCs
  <2>5. TypeOK'
    BY <2>2, <2>3, <2>4, WordTypes DEF IInv, TypeOK
  <2>6. WordCounts' /\ OneRundown'
    BY <2>2, <2>4, WordTypes, BlockAssumption DEF WordCounts, OneRundown
  <2>7. BlockCounts' /\ WakeUpIsDue'
    BY <2>2, <2>3, <2>4 DEF BlockCounts, WakeUpIsDue
  <2>8. CallsAreValid'
    BY <1>2, <2>2, WhileInactive DEF IInv, CallsAreValid
  <2>9. SignalIsDue'
    BY <1>2, <2>2, WhileInactive DEF SignalIsDue
  <2> QED
    BY <2>5, <2>6, <2>7, <2>8, <2>9 DEF IInv
<1>4. CASE word # wval[w]
  <2>1. wpc' = [wpc EXCEPT ![w] = "wcas"]
    BY <1>1, <1>4 DEF IInv, TypeOK, WaitInstall, MustWait
  <2> QED
    BY <1>1, <1>2, <1>4, <2>1, WaiterMoves DEF WaitInstall, MustWait
<1> QED
  BY <1>3, <1>4

(* The return of the waiter from its event keeps IInv.                    *)
LEMMA WaitWakeIInv ==
    ASSUME IInv, NEW w \in Waiters, WaitWake(w)
    PROVE  IInv'
<1>1. /\ wpc[w] = "wait" /\ block[w].signaled /\ word = Pointing(w)
      /\ held = {}
      /\ \A x \in Waiters : x # w => wpc[x] = "idle"
  BY DEF IInv, BlockCounts, OneRundown, WaitWake, WaitSatisfied
<1>2. \A u \in Users : upc[u] # "rsignal"
  <2> SUFFICES ASSUME NEW u \in Users, upc[u] = "rsignal" PROVE FALSE
    OBVIOUS
  <2>1. val[u].ptr = w
    BY <1>1, WordTypes DEF IInv, CallsAreValid
  <2> QED
    BY <1>1, <2>1 DEF IInv, SignalIsDue
<1>3. /\ block' \in [Waiters -> [count : Nat, signaled : BOOLEAN]]
      /\ wpc' \in [Waiters -> WaiterPCs]
      /\ wpc'[w] = "down"
      /\ \A x \in Waiters : x # w => wpc'[x] = "idle"
      /\ UNCHANGED <<word, upc, val, req, wval, held>>
  BY <1>1 DEF IInv, TypeOK, WaiterPCs, WaitWake, WaitSatisfied
<1>4. TypeOK'
  BY <1>3 DEF IInv, TypeOK
<1>5. WordCounts' /\ OneRundown'
  BY <1>1, <1>3, WordTypes DEF WordCounts, OneRundown
<1>6. BlockCounts' /\ WakeUpIsDue'
  BY <1>1, <1>3 DEF BlockCounts, WakeUpIsDue
<1>7. CallsAreValid' /\ SignalIsDue'
  BY <1>2, <1>3 DEF IInv, CallsAreValid, SignalIsDue
<1> QED
  BY <1>4, <1>5, <1>6, <1>7 DEF IInv

(* After the wait, the descriptor is marked down or opened again. *)
LEMMA RundownEndsIInv ==
    ASSUME IInv, NEW w \in Waiters, RundownCompleted(w) \/ ReInitialize(w)
    PROVE  IInv'
<1>1. /\ wpc[w] = "down" /\ held = {} /\ Cardinality(held) = 0
      /\ \A x \in Waiters : x # w => wpc[x] = "idle"
  BY FS_EmptySet
     DEF IInv, BlockCounts, OneRundown, RundownCompleted, ReInitialize
<1>2. \A u \in Users : upc[u] # "rsignal"
  BY <1>1 DEF IInv, SignalIsDue
<1>3. \A u \in Users : ~(upc[u] = "rcas" /\ val[u].active)
  BY <1>1 DEF IInv, CallsAreValid, Releasing, Acquiring
<1>4. CASE RundownCompleted(w)
  <2>1. word' = Active /\ UNCHANGED <<block, upc, val, req, wpc, wval, held>>
    BY <1>4 DEF RundownCompleted
  <2>2. TypeOK'
    BY <2>1, WordTypes DEF IInv, TypeOK
  <2>3. WordCounts' /\ OneRundown'
    BY <1>1, <2>1, WordTypes DEF IInv, WordCounts, OneRundown
  <2>4. BlockCounts' /\ WakeUpIsDue'
    BY <1>1, <2>1 DEF IInv, BlockCounts, WakeUpIsDue
  <2>5. CallsAreValid' /\ SignalIsDue'
    BY <1>2, <1>3, <2>1 DEF IInv, CallsAreValid, SignalIsDue
  <2> QED
    BY <2>2, <2>3, <2>4, <2>5 DEF IInv
<1>5. CASE ReInitialize(w)
  <2>1. /\ word' = Counted(0) /\ UNCHANGED <<block, upc, val, req, wval, held>>
        /\ wpc' \in [Waiters -> WaiterPCs]
        /\ \A x \in Waiters : wpc'[x] = "idle"
    BY <1>1, <1>5 DEF IInv, TypeOK, WaiterPCs, ReInitialize
  <2>2. TypeOK'
    BY <2>1, WordTypes DEF IInv, TypeOK
  <2>3. WordCounts' /\ OneRundown'
    BY <1>1, <2>1, WordTypes DEF WordCounts, OneRundown
  <2>4. BlockCounts' /\ WakeUpIsDue'
    BY <1>1, <2>1 DEF BlockCounts, WakeUpIsDue
  <2>5. CallsAreValid' /\ SignalIsDue'
    BY <1>2, <1>3, <2>1 DEF IInv, CallsAreValid, SignalIsDue
  <2> QED
    BY <2>2, <2>3, <2>4, <2>5 DEF IInv
<1> QED
  BY <1>4, <1>5

(* Every step of a thread that runs the structure down keeps IInv.        *)
LEMMA WaiterNextIInv ==
    ASSUME IInv, NEW w \in Waiters, WaiterNext(w)
    PROVE  IInv'
<1>0. word \in Words /\ wval[w] \in Words
  BY DEF IInv, TypeOK
<1>1. CASE WaitFast(w)
  <2>1. CASE word = Counted(0)
    <3>1. word # Active
      BY <2>1, WordTypes
    <3>2. \A x \in Waiters : x # w => wpc[x] = "idle"
      BY <1>1, <3>1 DEF WaitFast, MayRunDown
    <3> QED
      BY <1>1, <2>1, <3>1, <3>2, WaiterFindsNone DEF WaitFast
  <2>2. CASE word = Active
    <3>1. word # Counted(0)
      BY <2>2, WordTypes
    <3>2. UNCHANGED vars
      BY <1>1, <2>2, <3>1 DEF WaitFast, vars
    <3> QED
      BY <3>2 DEF vars, IInv, TypeOK, WordCounts, OneRundown, BlockCounts,
                  CallsAreValid, SignalIsDue, WakeUpIsDue
  <2>3. CASE word \notin {Counted(0), Active}
    <3>1. \A x \in Waiters : wpc[x] = "idle"
      BY <1>1, <2>3 DEF WaitFast, MayRunDown
    <3>2. ~word.active
      BY <3>1 DEF IInv, WordCounts
    <3>3. wval' = [wval EXCEPT ![w] = wval[w]]
      BY <1>1 DEF IInv, TypeOK, WaitFast
    <3> QED
      BY <1>0, <1>1, <2>3, <3>1, <3>2, <3>3, WaiterMoves DEF WaitFast
  <2> QED
    BY <2>1, <2>2, <2>3
<1>2. CASE WaitSlow(w)
  <2>1. \A x \in Waiters : x # w => wpc[x] = "idle"
    BY <1>2 DEF IInv, OneRundown, WaitSlow
  <2>2. ~word.active
    BY <1>2, <2>1 DEF IInv, WordCounts, WaitSlow
  <2>3. CASE word = Counted(0)
    BY <1>2, <2>1, <2>3, WaiterFindsNone DEF WaitSlow
  <2>4. CASE word # Counted(0)
    BY <1>0, <1>2, <2>1, <2>2, <2>4, WaiterMoves DEF WaitSlow
  <2> QED
    BY <2>3, <2>4
<1>3. CASE WaitInstall(w) \/ WaitWake(w)
  BY <1>3, WaitInstallIInv, WaitWakeIInv
<1>4. CASE RundownCompleted(w) \/ ReInitialize(w)
  BY <1>4, RundownEndsIInv
<1> QED
  BY <1>1, <1>2, <1>3, <1>4 DEF WaiterNext

-----------------------------------------------------------------------------
(* The results. *)

(* IInv holds in every reachable state, for any number of threads and      *)
(* references: every interlocked step of rundown.c preserves it.           *)
THEOREM InductiveInvariant == Spec => []IInv
<1>1. IInv /\ [Next]_vars => IInv'
  <2> SUFFICES ASSUME IInv, [Next]_vars PROVE IInv'
    OBVIOUS
  <2>1. CASE UNCHANGED vars
    BY <2>1 DEF vars, IInv, TypeOK, WordCounts, OneRundown, BlockCounts,
                CallsAreValid, SignalIsDue, WakeUpIsDue
  <2>2. ASSUME NEW u \in Users, UserNext(u) PROVE IInv'
    BY <2>2, AcquireStepIInv, ReleaseStepIInv DEF UserNext
  <2>3. ASSUME NEW w \in Waiters, WaiterNext(w) PROVE IInv'
    BY <2>3, WaiterNextIInv
  <2> QED
    BY <2>1, <2>2, <2>3 DEF Next
<1> QED
  BY <1>1, InitIInv, PTL DEF Spec

(* The variables keep their types. *)
THEOREM TypeCorrect == Spec => []TypeOK
<1>1. IInv => TypeOK
  BY DEF IInv
<1> QED
  BY <1>1, InductiveInvariant, PTL

(* Once ExWaitForRundownProtectionRelease has returned, nobody refers to   *)
(* the structure until the descriptor is opened again.                     *)
THEOREM RundownSafety == Spec => []DownMeansUnreferenced
<1>1. IInv => DownMeansUnreferenced
  BY DEF IInv, BlockCounts, DownMeansUnreferenced
<1> QED
  BY <1>1, InductiveInvariant, PTL

(* No release touches a wait block whose waiter has returned. *)
THEOREM BlockSafety == Spec => []BlockOutlivesReleasers
<1>1. IInv => BlockOutlivesReleasers
  <2> SUFFICES ASSUME IInv, NEW u \in Users,
                      (upc[u] = "rcas" /\ val[u].active) \/ upc[u] = "rsignal"
               PROVE  val[u].ptr \in Waiters /\ wpc[val[u].ptr] = "wait"
    BY DEF BlockOutlivesReleasers
  <2>1. CASE upc[u] = "rsignal"
    BY <2>1 DEF IInv, SignalIsDue
  <2>2. CASE upc[u] = "rcas" /\ val[u].active
    <3>1. word = val[u] /\ held # {}
      BY <2>2 DEF IInv, CallsAreValid, Releasing
    <3>2. PICK w \in Waiters : wpc[w] \in {"wait", "down"}
      BY <2>2, <3>1 DEF IInv, WordCounts
    <3>3. wpc[w] = "wait" /\ word = Pointing(w)
      BY <3>1, <3>2 DEF IInv, BlockCounts
    <3> QED
      BY <3>1, <3>3, WordTypes
  <2> QED
    BY <2>1, <2>2
<1> QED
  BY <1>1, InductiveInvariant, PTL

(* The sanity checks of rundown.c never fail. *)
THEOREM AssertionSafety == Spec => []Assertions
<1>1. IInv => Assertions
  <2> SUFFICES ASSUME IInv PROVE Assertions
    OBVIOUS
  <2>0. held \in SUBSET Refs
    BY DEF IInv, TypeOK
  <2>1. ASSUME NEW u \in Users, upc[u] \in Releasing
        PROVE  /\ req[u] \in SUBSET Refs /\ req[u] \subseteq held
               /\ Cardinality(req[u]) <= Cardinality(held)
    BY <2>0, <2>1, CallRefs, ReleaseCount DEF IInv, CallsAreValid
  <2>2. ASSUME NEW u \in Users, upc[u] = "rfast", word = val[u]
        PROVE  val[u].count >= 1
    <3>1. ~word.active /\ Cardinality(req[u]) = 1
      BY <2>2 DEF IInv, CallsAreValid
    <3> QED
      BY <2>1, <2>2, <3>1, WhileInactive DEF Releasing
  <2>3. ASSUME NEW u \in Users, upc[u] = "rcas", ~val[u].active,
               word = val[u]
        PROVE  val[u].count >= Cardinality(req[u])
    BY <2>1, <2>3, WhileInactive, CallRefs DEF Releasing
  <2>4. ASSUME NEW u \in Users, upc[u] = "rcas", val[u].active
        PROVE  block[val[u].ptr].count >= Cardinality(req[u])
    <3>1. word = val[u] /\ held # {}
      BY <2>4 DEF IInv, CallsAreValid, Releasing
    <3>2. PICK w \in Waiters : wpc[w] \in {"wait", "down"}
      BY <2>4, <3>1 DEF IInv, WordCounts
    <3>3. word = Pointing(w) /\ block[w].count = Cardinality(held)
      BY <3>1, <3>2 DEF IInv, BlockCounts
    <3>4. val[u].ptr = w
      BY <3>1, <3>3, WordTypes
    <3> QED
      BY <2>0, <2>1, <2>4, <3>3, <3>4, RefsFinite DEF Releasing
  <2>5. ASSUME NEW w \in Waiters, wpc[w] = "wcas" PROVE ~word.active
    BY <2>5 DEF IInv, WordCounts, OneRundown
  <2>6. ASSUME NEW w \in Waiters, wpc[w] = "wait", block[w].signaled
        PROVE  block[w].count = 0
    BY <2>6, FS_EmptySet DEF IInv, BlockCounts
  <2> QED
    BY <2>2, <2>3, <2>4, <2>5, <2>6 DEF Assertions
<1> QED
  BY <1>1, InductiveInvariant, PTL

-----------------------------------------------------------------------------
(* Every step is a step of the abstract gate, or a stutter. *)
LEMMA StepRefines ==
    ASSUME IInv, IInv', [Next]_vars
    PROVE  [Abstract!Next]_(Abstract!vars)
<1> USE DEF Abstract!Next, Abstract!vars
<1>0. held \in SUBSET Refs /\ held' \in SUBSET Refs
  BY DEF IInv, TypeOK
<1>1. ASSUME UNCHANGED <<word, wpc>>, held' = held
      PROVE  UNCHANGED Abstract!vars
  BY <1>1 DEF Phase
<1>2. ASSUME NEW S \in SUBSET Refs, ~word.active, ~word'.active,
             S \cap held = {}, held' = held \cup S
      PROVE  Abstract!Acquire(S)
  BY <1>2 DEF Abstract!Acquire, Phase
<1>3. ASSUME NEW S \in SUBSET Refs, S \subseteq held, held' = held \ S,
             word'.active = word.active, UNCHANGED wpc
      PROVE  Abstract!Release(S)
  BY <1>3 DEF Abstract!Release, Phase
<1>4. ASSUME NEW u \in Users, AcquireStep(u)
      PROVE  Abstract!Next \/ UNCHANGED Abstract!vars
  <2>1. CASE AcquireFast(u) \/ AcquireEx(u) \/ AcquireRead(u)
    BY <1>1, <2>1 DEF AcquireFast, AcquireEx, AcquireRead
  <2>2. CASE AcquireFastCas(u)
    <3>1. CASE word = val[u]
      <4>1. ~word.active
        BY <2>2, <3>1 DEF IInv, CallsAreValid, AcquireFastCas
      <4>2. ~word'.active
        BY <2>2, <3>1 DEF AcquireFastCas, Counted
      <4>3. req[u] \in SUBSET Refs /\ req[u] \cap held = {}
        BY <2>2 DEF IInv, TypeOK, CallsAreValid, Acquiring, AcquireFastCas
      <4> QED
        BY <1>2, <2>2, <3>1, <4>1, <4>2, <4>3 DEF AcquireFastCas
    <3>2. CASE word # val[u]
      BY <1>1, <2>2, <3>2 DEF AcquireFastCas
    <3> QED
      BY <3>1, <3>2
  <2>3. CASE AcquireCas(u)
    <3>1. CASE ~val[u].active /\ word = val[u]
      <4>1. ~word'.active
        BY <2>3, <3>1 DEF AcquireCas, Refused, Counted
      <4>2. req[u] \in SUBSET Refs /\ req[u] \cap held = {}
        BY <2>3 DEF IInv, TypeOK, CallsAreValid, Acquiring, AcquireCas, Refused
      <4> QED
        BY <1>2, <2>3, <3>1, <4>1, <4>2 DEF AcquireCas, Refused
    <3>2. CASE ~(~val[u].active /\ word = val[u])
      BY <1>1, <2>3, <3>2 DEF AcquireCas, Refused
    <3> QED
      BY <3>1, <3>2
  <2> QED
    BY <1>4, <2>1, <2>2, <2>3 DEF AcquireStep
<1>5. ASSUME NEW u \in Users, ReleaseBegin(u) \/ ReleaseStep(u)
      PROVE  Abstract!Next \/ UNCHANGED Abstract!vars
  <2>1. CASE \/ ReleaseFast(u) \/ ReleaseEx(u) \/ ReleaseRead(u)
             \/ ReleaseSignal(u)
    BY <1>1, <2>1 DEF ReleaseFast, ReleaseEx, ReleaseRead, ReleaseSignal
  <2>2. CASE ReleaseFastCas(u)
    <3>1. CASE word = val[u]
      <4>1. ~word.active
        BY <2>2, <3>1 DEF IInv, CallsAreValid, ReleaseFastCas
      <4>2. word'.active = FALSE
        BY <2>2, <3>1 DEF ReleaseFastCas, Counted
      <4>3. req[u] \in SUBSET Refs /\ req[u] \subseteq held
        BY <2>2 DEF IInv, TypeOK, CallsAreValid, Releasing, ReleaseFastCas
      <4>4. word.active = FALSE
        BY <4>1 DEF IInv, TypeOK, Words
      <4> QED
        BY <1>3, <2>2, <3>1, <4>2, <4>3, <4>4 DEF ReleaseFastCas
    <3>2. CASE word # val[u]
      BY <1>1, <2>2, <3>2 DEF ReleaseFastCas
    <3> QED
      BY <3>1, <3>2
  <2>3. CASE ReleaseCas(u)
    <3>1. CASE word = val[u]
      <4>1. word'.active = FALSE
        BY <2>3, <3>1 DEF ReleaseCas, Counted
      <4>2. req[u] \in SUBSET Refs /\ req[u] \subseteq held
        BY <2>3 DEF IInv, TypeOK, CallsAreValid, Releasing, ReleaseCas
      <4>3. word.active = FALSE
        BY <2>3, <3>1 DEF IInv, TypeOK, Words, ReleaseCas
      <4> QED
        BY <1>3, <2>3, <3>1, <4>1, <4>2, <4>3 DEF ReleaseCas
    <3>2. CASE word # val[u]
      BY <1>1, <2>3, <3>2 DEF ReleaseCas
    <3> QED
      BY <3>1, <3>2
  <2>4. CASE ReleaseToBlock(u)
    <3>1. req[u] \in SUBSET Refs /\ req[u] \subseteq held
      BY <2>4 DEF IInv, TypeOK, CallsAreValid, Releasing, ReleaseToBlock, LastReference
    <3> QED
      BY <1>3, <2>4, <3>1 DEF ReleaseToBlock, LastReference
  <2> QED
    BY <1>5, <2>1, <2>2, <2>3, <2>4 DEF ReleaseBegin, ReleaseStep
<1>6. ASSUME NEW w \in Waiters, WaiterNext(w)
      PROVE  Abstract!Next \/ UNCHANGED Abstract!vars
  <2>1. UNCHANGED held
    BY <1>6 DEF WaiterNext, WaitFast, WaitSlow, WaitInstall, MustWait, WaitWake, WaitSatisfied,
                RundownCompleted, ReInitialize
  <2>2. CASE word.active /\ word'.active
    <3>1. CASE Phase' = Phase
      BY <2>1, <3>1
    <3>2. CASE Phase' # Phase
      <4>1. WaitWake(w)
        <5>1. PICK x \in Waiters : wpc[x] \in {"wait", "down"}
          BY <2>2 DEF IInv, WordCounts
        <5>2. ~WaitSlow(w) /\ ~WaitInstall(w)
          BY <5>1 DEF IInv, OneRundown, WaitSlow, WaitInstall, MustWait
        <5>3. WaitFast(w) \/ RundownCompleted(w) => UNCHANGED wpc
          BY <2>2, <5>1, WordTypes
             DEF WaitFast, MayRunDown, RundownCompleted
        <5>4. ~(WaitFast(w) \/ RundownCompleted(w))
          BY <2>2, <3>2, <5>3 DEF Phase
        <5>5. ~ReInitialize(w)
          BY <2>2, WordTypes DEF ReInitialize
        <5> QED
          BY <1>6, <5>2, <5>4, <5>5 DEF WaiterNext
      <4>2. Phase = "closing" /\ held = {}
        BY <2>2, <4>1 DEF WaitWake, WaitSatisfied, Phase, IInv, BlockCounts
      <4>3. Phase' = "down"
        BY <2>2, <3>2, <4>2 DEF Phase
      <4> QED
        BY <2>1, <4>2, <4>3 DEF Abstract!Finish
    <3> QED
      BY <3>1, <3>2
  <2>3. CASE ~word.active /\ word'.active
    <3>1. Phase = "open"
      BY <2>3 DEF Phase
    <3>2. CASE \E x \in Waiters : wpc'[x] = "wait"
      BY <2>1, <2>3, <3>1, <3>2 DEF Abstract!Close, Phase
    <3>3. CASE ~\E x \in Waiters : wpc'[x] = "wait"
      <4>1. PICK x \in Waiters : wpc'[x] = "down"
        BY <2>3, <3>3 DEF IInv, WordCounts
      <4>2. held' = {}
        BY <4>1 DEF IInv, BlockCounts
      <4> QED
        BY <2>1, <2>3, <3>1, <3>3, <4>2 DEF Abstract!Finish, Phase
    <3> QED
      BY <3>2, <3>3
  <2>4. CASE word.active /\ ~word'.active
    <3>1. ReInitialize(w)
      BY <1>6, <2>4, WordTypes
         DEF WaiterNext, WaitFast, WaitSlow, WaitInstall, MustWait, WaitWake, WaitSatisfied,
             RundownCompleted
    <3>2. ~\E x \in Waiters : wpc[x] = "wait"
      BY <3>1 DEF ReInitialize, IInv, OneRundown
    <3> QED
      BY <2>1, <2>4, <3>2 DEF Abstract!Reopen, Phase
  <2>5. CASE ~word.active /\ ~word'.active
    BY <2>1, <2>5 DEF Phase
  <2> QED
    BY <2>2, <2>3, <2>4, <2>5
<1>7. CASE UNCHANGED vars
  BY <1>1, <1>7 DEF vars
<1> QED
  BY <1>4, <1>5, <1>6, <1>7 DEF Next, UserNext

(* The code implements the abstract gate: references are granted only      *)
(* while it is open, and it is down only when there are none.              *)
THEOREM Implements == Spec => Refinement
<1>1. Init => Abstract!Init
  BY WordTypes DEF Init, Abstract!Init, Phase
<1>2. IInv /\ IInv' /\ [Next]_vars => [Abstract!Next]_(Abstract!vars)
  BY StepRefines
<1> QED
  BY <1>1, <1>2, InductiveInvariant, PTL DEF Spec, Refinement, Abstract!Spec

(* No reference is granted while a rundown is active. *)
THEOREM GrantSafety == Spec => NoGrantWhileActive
<1> DEFINE A == ~(held' \subseteq held) => ~word.active /\ ~word'.active
<1>1. IInv /\ [Next]_vars => [A]_vars
  <2> SUFFICES ASSUME IInv, Next, ~(held' \subseteq held)
               PROVE  ~word.active /\ ~word'.active
    OBVIOUS
  <2>1. PICK u \in Users : AcquireFastCas(u) \/ AcquireCas(u)
    BY DEF Next, UserNext, AcquireStep, ReleaseBegin, ReleaseStep, WaiterNext,
           AcquireFast, AcquireEx, AcquireRead, ReleaseFast, ReleaseFastCas,
           ReleaseEx, ReleaseRead, ReleaseCas, ReleaseToBlock, LastReference, ReleaseSignal,
           WaitFast, WaitSlow, WaitInstall, MustWait, WaitWake, WaitSatisfied, RundownCompleted,
           ReInitialize
  <2>2. ~word.active
    BY <2>1 DEF AcquireFastCas, AcquireCas, Refused, IInv, CallsAreValid
  <2>3. ~word'.active
    BY <2>1, WordTypes DEF AcquireFastCas, AcquireCas, Refused, Counted
  <2> QED
    BY <2>2, <2>3
<1> QED
  BY <1>1, InductiveInvariant, PTL DEF Spec, NoGrantWhileActive
=============================================================================
