--------------------------- MODULE MCHandleTable ----------------------------
(***************************************************************************)
(* TLC instance of the two halves of a handle table: its free lists        *)
(* (HandleTable) and the tree its entries are in (HandleTree).             *)
(*                                                                         *)
(* The free lists are used by all creators while nobody closes a handle,   *)
(* or by one creator and the closers.  (What two creators and a closer can *)
(* do is another question: see UnlockAssertion.)  The tree is read by its  *)
(* readers while one thread makes it grow, and is freed in the end.        *)
(***************************************************************************)
EXTENDS HandleTable, TLC

CONSTANTS Readers, LowEntries, MidEntries, HighEntries, Null

ASSUME TreeAssumption == /\ LowEntries \in Nat \ {0}
                         /\ MidEntries \in Nat \ {0, 1}
                         /\ HighEntries \in Nat \ {0, 1}

ASSUME NullAssumption == Null \notin Nat

VARIABLES users,    \* the threads that use the free lists; none: the tree is used
          level, mid, high, need, growing, tables, tpc, handle, seen, found

T == INSTANCE HandleTree WITH Low <- LowEntries, Mid <- MidEntries, High <- HighEntries,
                              pool <- tables, pc <- tpc

tvars == <<level, mid, high, need, growing, tables, tpc, handle, seen, found>>

avars == <<vars, users, tvars>>

AInit == /\ Init /\ T!Init
         /\ users \in {{}, Creators} \cup {{t} \cup Closers : t \in Creators}

Lists == /\ \E t \in users : SlowStep(t) \/ PopStep(t) \/ FreeStep(t)
         /\ UNCHANGED <<users, tvars>>

Tree == /\ users = {}
        /\ T!Next
        /\ UNCHANGED <<users, vars>>

(* The tree has been freed, and nothing more is to happen. *)
Over == level = Null /\ UNCHANGED avars

ANext == Lists \/ Tree \/ Over

ASpec == AInit /\ [][ANext]_avars

(* No list leads out of the table, and as long as no handle is closed, no  *)
(* entry is lost, whoever grows the table and moves the lists.             *)
NoneLostByCreators == TypeOK /\ (users = Creators => NoneLost)

(* A lookup without a lock finds the entry of its handle, whatever level   *)
(* the tree had when it began, and whatever it grew to meanwhile.          *)
LookupExact == T!TypeOK /\ T!LookupExact

(* A table is freed with all the tables it was given as it grew. *)
NoLeak == T!NoLeak

Symmetric == Permutations(Creators) \cup Permutations(Closers)
=============================================================================
