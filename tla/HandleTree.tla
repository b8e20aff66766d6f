------------------------------ MODULE HandleTree ----------------------------
(***************************************************************************)
(* The tree of tables behind a handle table, ntoskrnl/ex/handle.c: how it  *)
(* grows from one to three levels, how a handle is looked up in it without *)
(* a lock, and how it is freed.                                            *)
(*                                                                         *)
(* The entries are in low level tables, of which the n-th made is named n; *)
(* a mid level table points to low level ones, the high level table to mid *)
(* level ones.  The level is kept in the low bits of TableCode.  A lookup  *)
(* reads NextHandleNeedingPool, then TableCode, then the tables, while the *)
(* one thread that has the lock of the table may make it grow: it links    *)
(* the new tables, and only then advances NextHandleNeedingPool.           *)
(*                                                                         *)
(* Handle values and table offsets are the bytes of a 32-bit build.        *)
(***************************************************************************)
EXTENDS Integers, FiniteSets

CONSTANTS Readers,   \* the threads that look handles up
          Low,       \* LOW_LEVEL_ENTRIES
          Mid,       \* MID_LEVEL_ENTRIES
          High,      \* HIGH_LEVEL_ENTRIES
          Null       \* no table

VARIABLES level,     \* the level bits of TableCode, Null once it is freed
          mid,       \* the low level tables in each mid level table
          high,      \* which slots of the high level table have a mid level one
          need,      \* NextHandleNeedingPool
          growing,   \* has the grower linked a table and not advanced need?
          pool,      \* the tables allocated from the pool
          pc,        \* where each reader is
          handle,    \* the handle it looks up
          seen,      \* the level bits it has read
          found      \* the table and the index of the entry it has found

vars == <<level, mid, high, need, growing, pool, pc, handle, seen, found>>

PtrSize == 4                        \* sizeof(PHANDLE_TABLE_ENTRY)
EntrySize == 8                      \* sizeof(HANDLE_TABLE_ENTRY)
SizeOfHandle(x) == PtrSize * x
MaxMidIndex == Mid * Low            \* MAX_MID_INDEX

LowTable(n) == <<"low", n>>
MidTable(k) == <<"mid", k>>
HighTable == <<"high", 0>>

MaxHandle == Low * Mid * High       \* one more than the last handle there can be

(* ExpAllocateHandleTable: a single table, the low level one. *)
Init == /\ level = 0
        /\ mid = [k \in 0 .. High - 1 |-> [j \in 0 .. Mid - 1 |-> Null]]
        /\ high = {}
        /\ need = SizeOfHandle(Low)
        /\ growing = FALSE
        /\ pool = {LowTable(0)}
        /\ pc = [r \in Readers |-> "idle"]
        /\ handle = [r \in Readers |-> 0]
        /\ seen = [r \in Readers |-> 0]
        /\ found = [r \in Readers |-> Null]

-----------------------------------------------------------------------------
(* Growing: ExpAllocateHandleTableEntrySlow, by the thread that has the    *)
(* lock of the table.  An allocation that fails leaves everything as it    *)
(* was: the tables allocated before it are freed.                          *)

(* The number of the low level table that is next. *)
Fresh == need \div SizeOfHandle(Low)

MayGrow == level # Null /\ ~growing

(* One level: a mid level table takes the old table and the new one. *)
GrowToMid ==
    /\ MayGrow /\ level = 0
    /\ mid' = [mid EXCEPT ![0][0] = 0, ![0][1] = Fresh]
    /\ level' = 1
    /\ pool' = pool \cup {MidTable(0), LowTable(Fresh)}
    /\ growing' = TRUE
    /\ UNCHANGED <<high, need, pc, handle, seen, found>>

(* Two levels: the new table goes to the next slot, while there is one. *)
GrowMid ==
    /\ MayGrow /\ level = 1
    /\ Fresh < Mid
    /\ mid' = [mid EXCEPT ![0][Fresh] = Fresh]
    /\ pool' = pool \cup {LowTable(Fresh)}
    /\ growing' = TRUE
    /\ UNCHANGED <<level, high, need, pc, handle, seen, found>>

(* Then a high level table takes the old mid level table and a new one. *)
GrowToHigh ==
    /\ MayGrow /\ level = 1
    /\ Fresh >= Mid
    /\ mid' = [mid EXCEPT ![1][0] = Fresh]
    /\ high' = {0, 1}
    /\ level' = 2
    /\ pool' = pool \cup {HighTable, MidTable(1), LowTable(Fresh)}
    /\ growing' = TRUE
    /\ UNCHANGED <<need, pc, handle, seen, found>>

RoomFor(i) == i < High

(* Mutant: the slot is the one after. *)
MidSlotAfter(n, i) == (n \div SizeOfHandle(1) - i * MaxMidIndex) \div Low + 1

(* The slot of the mid level table for the next low level one. *)
MidSlot(n, i) == (n \div SizeOfHandle(1) - i * MaxMidIndex) \div Low

(* Three levels: a new mid level table, or a slot in the last one. *)
GrowHigh ==
    /\ MayGrow /\ level = 2
    /\ LET i == need \div SizeOfHandle(MaxMidIndex)
           j == MidSlot(need, i)
       IN  /\ RoomFor(i)
           /\ IF i \notin high
              THEN /\ mid' = [mid EXCEPT ![i][0] = Fresh]
                   /\ high' = high \cup {i}
                   /\ pool' = pool \cup {MidTable(i), LowTable(Fresh)}
              ELSE /\ mid' = [mid EXCEPT ![i] = [@ EXCEPT ![j] = Fresh]]
                   /\ pool' = pool \cup {LowTable(Fresh)}
                   /\ UNCHANGED high
    /\ growing' = TRUE
    /\ UNCHANGED <<level, need, pc, handle, seen, found>>

(* Last of all, NextHandleNeedingPool. *)
Advance ==
    /\ growing
    /\ need' = need + SizeOfHandle(Low)
    /\ growing' = FALSE
    /\ UNCHANGED <<level, mid, high, pool, pc, handle, seen, found>>

-----------------------------------------------------------------------------
(* ExpLookupHandleTableEntry.                                              *)

Goto(r, l) == pc' = [pc EXCEPT ![r] = l]

(* A handle beyond what there are tables for has no entry. *)
ReadNext(r) ==
    /\ pc[r] = "idle" /\ level # Null
    /\ \E h \in 0 .. MaxHandle :
          IF SizeOfHandle(h) >= need
          THEN UNCHANGED <<pc, handle>>
          ELSE handle' = [handle EXCEPT ![r] = SizeOfHandle(h)] /\ Goto(r, "code")
    /\ UNCHANGED <<level, mid, high, need, growing, pool, seen, found>>

(* The table code. *)
ReadCode(r) ==
    /\ pc[r] = "code"
    /\ seen' = [seen EXCEPT ![r] = level]
    /\ Goto(r, "walk")
    /\ UNCHANGED <<level, mid, high, need, growing, pool, handle, found>>

(* The index, in bytes, into a low level table, and what is left of the    *)
(* handle, as an offset into a mid level table that never ends.            *)
LowOffset(v) == v % SizeOfHandle(Low)
MidOffset(v) == (v - LowOffset(v)) \div (SizeOfHandle(Low) \div PtrSize)

(* The offset into the one mid level table, and into the high level one. *)
MidIndex(k) == k % (Mid * PtrSize)
HighIndex(k) == (k - MidIndex(k)) \div Mid

(* The low level table that a lookup at level l reaches. *)
TableOf(v, l) ==
    CASE l = 0 -> 0
      [] l = 1 -> mid[0][MidOffset(v) \div PtrSize]
      [] l = 2 -> LET k == MidOffset(v)
                  IN  mid[HighIndex(k) \div PtrSize][MidIndex(k) \div PtrSize]

(* The entry in it.  At level 0 the whole handle is the index. *)
IndexOf(v, l) ==
    ((IF l = 0 THEN v ELSE LowOffset(v)) * (EntrySize \div SizeOfHandle(1)))
       \div EntrySize

Walk(r) ==
    /\ pc[r] = "walk"
    /\ found' = [found EXCEPT ![r] = <<TableOf(handle[r], seen[r]),
                                       IndexOf(handle[r], seen[r])>>]
    /\ Goto(r, "found")
    /\ UNCHANGED <<level, mid, high, need, growing, pool, handle, seen>>

(* The caller is done with the entry. *)
Done(r) ==
    /\ pc[r] = "found"
    /\ Goto(r, "idle")
    /\ handle' = [handle EXCEPT ![r] = 0]
    /\ seen' = [seen EXCEPT ![r] = 0]
    /\ found' = [found EXCEPT ![r] = Null]
    /\ UNCHANGED <<level, mid, high, need, growing, pool>>

-----------------------------------------------------------------------------
(* ExpFreeHandleTable, when nobody uses the table any more.                *)

(* Mutant: the tables are freed up to the last but one slot. *)
FreedSlotsShort(slots) ==
    {j \in 0 .. Mid - 2 : \A i \in 0 .. j : slots[i] # Null}

(* A loop over a mid level table ends with the first empty slot. *)
FreedSlots(slots) == {j \in 0 .. Mid - 1 : \A i \in 0 .. j : slots[i] # Null}

FreedBelow(k) == {LowTable(mid[k][j]) : j \in FreedSlots(mid[k])} \cup {MidTable(k)}

Freed == CASE level = 0 -> {LowTable(0)}
           [] level = 1 -> FreedBelow(0)
           [] level = 2 -> {HighTable} \cup
                 UNION {FreedBelow(k) :
                          k \in {x \in 0 .. High - 1 : 0 .. x \subseteq high}}

Free ==
    /\ MayGrow
    /\ \A r \in Readers : pc[r] = "idle"
    /\ pool' = pool \ Freed
    /\ level' = Null
    /\ UNCHANGED <<mid, high, need, growing, pc, handle, seen, found>>

-----------------------------------------------------------------------------
Next == \/ GrowToMid \/ GrowMid \/ GrowToHigh \/ GrowHigh \/ Advance \/ Free
        \/ \E r \in Readers : ReadNext(r) \/ ReadCode(r) \/ Walk(r) \/ Done(r)

Spec == Init /\ [][Next]_vars

-----------------------------------------------------------------------------
(* Properties.                                                             *)

LowTables == 0 .. Mid * High - 1

(* Types of the variables. *)
TypeOK == /\ level \in {0, 1, 2, Null}
          /\ mid \in [0 .. High - 1 -> [0 .. Mid - 1 -> LowTables \cup {Null}]]
          /\ high \subseteq 0 .. High - 1
          /\ need \in {SizeOfHandle(Low * n) : n \in 1 .. Mid * High}
          /\ growing \in BOOLEAN
          /\ pool \subseteq {LowTable(n) : n \in LowTables}
                            \cup {MidTable(k) : k \in 0 .. High - 1} \cup {HighTable}
          /\ pc \in [Readers -> {"idle", "code", "walk", "found"}]
          /\ handle \in [Readers -> 0 .. SizeOfHandle(MaxHandle)]
          /\ seen \in [Readers -> {0, 1, 2}]
          /\ found \in [Readers -> (LowTables \X (0 .. Low - 1)) \cup {Null}]

(* A lookup finds the entry of its handle, whatever the growth it raced:   *)
(* the tables are made in the order of the handles, Low of them in each.   *)
LookupExact ==
    \A r \in Readers : pc[r] = "found" =>
       LET h == handle[r] \div SizeOfHandle(1)
       IN  found[r] = <<h \div Low, h % Low>>

(* ExpFreeHandleTable frees all that was allocated for the table, although *)
(* its loops stop at the first empty slot.                                 *)
NoLeak == level = Null => pool = {}
=============================================================================
