----------------------------- MODULE HandleTable ----------------------------
(***************************************************************************)
(* The free lists of a handle table: how ntoskrnl/ex/handle.c gives out    *)
(* and takes back the entries of a table.                                  *)
(*                                                                         *)
(* Free entries are linked through NextFreeTableEntry, from FirstFree and  *)
(* from LastFree.  An allocation pops FirstFree with a compare-exchange,   *)
(* while it shares one of the four locks of the table, chosen by the       *)
(* handle.  With FirstFree empty a thread takes the first lock exclusively *)
(* and moves the entries of LastFree over, or adds a table of entries.     *)
(* A freed entry is pushed on one of the two lists; which one depends on   *)
(* whether the lock of its handle is taken at that moment.                 *)
(*                                                                         *)
(* A handle is the index of its entry (its value over SizeOfHandle(1)).    *)
(* Every read of a shared word, every interlocked operation and every      *)
(* acquire or release of a lock is a step.  The locks are RWLock's: who    *)
(* has one is told by where the threads are.  Tables are not StrictFIFO;   *)
(* nothing in the kernel sets that flag.                                   *)
(***************************************************************************)
EXTENDS Naturals, FiniteSets

CONSTANTS Creators,  \* the threads that create handles
          Closers,   \* the threads that close them
          Low,       \* LOW_LEVEL_ENTRIES: the entries of one table
          MaxTables  \* how many such tables fit

ASSUME SizeAssumption == Low \in Nat /\ Low > 2 /\ MaxTables \in Nat \ {0}

ASSUME RolesAssumption == Creators \cap Closers = {}

Threads == Creators \cup Closers

(* The first entry of each table is never given out. *)
Entries == {e \in 1 .. (Low * MaxTables - 1) : e % Low # 0}

Locks == 4

VARIABLES firstFree, \* HandleTable->FirstFree, 0 for none
          lastFree,  \* HandleTable->LastFree
          nextFree,  \* NextFreeTableEntry of each entry
          value,     \* the object of each entry: "free", "locked", "unlocked"
          pool,      \* HandleTable->NextHandleNeedingPool
          pc,        \* where each thread is
          old,       \* OldValue; once the entry is popped, its handle
          new,       \* NewValue, or the lock a move is about to wait on
          flag,      \* did the exchange, or the growth, succeed?
          open       \* the handles that were returned and not closed: a history

vars == <<firstFree, lastFree, nextFree, value, pool, pc, old, new, flag, open>>

(* ExpAllocateHandleTable: one table, all of it free. *)
Init == /\ firstFree = 1
        /\ lastFree = 0
        /\ nextFree = [e \in Entries |-> IF e < Low - 1 THEN e + 1 ELSE 0]
        /\ value = [e \in Entries |-> "free"]
        /\ pool = Low
        /\ pc = [t \in Threads |-> "idle"]
        /\ old = [t \in Threads |-> 0]
        /\ new = [t \in Threads |-> 0]
        /\ flag = [t \in Threads |-> FALSE]
        /\ open = {}

Goto(t, l) == pc' = [pc EXCEPT ![t] = l]

(* Forget the local variables of a call that is over. *)
Return(t) == /\ Goto(t, "idle")
             /\ old' = [old EXCEPT ![t] = 0]
             /\ new' = [new EXCEPT ![t] = 0]
             /\ flag' = [flag EXCEPT ![t] = FALSE]

-----------------------------------------------------------------------------
(* The four locks.                                                         *)

LockOf(h) == h % Locks

Sharing(t, i) == /\ pc[t] \in {"check", "next", "pop", "unshare"}
                 /\ LockOf(old[t]) = i

Exclusive(t, i) ==
    \/ /\ i = 0
       /\ pc[t] \in {"again", "move", "wait", "waited", "moved",
                     "grow", "link", "publish", "leave", "grown"}
    \/ pc[t] = "waited" /\ new[t] = i

(* HandleTableLock[i].Locked *)
Locked(i) == \E t \in Threads : Sharing(t, i) \/ Exclusive(t, i)

MayShare(i) == \A t \in Threads : ~Exclusive(t, i)

-----------------------------------------------------------------------------
(* ExCreateHandle and ExpAllocateHandleTableEntry.                         *)

(* The top of the allocation loop. *)
ReadFirst(t) ==
    /\ \/ pc[t] = "idle" /\ t \in Creators
       \/ pc[t] = "first"
    /\ old' = [old EXCEPT ![t] = firstFree]
    /\ Goto(t, IF firstFree = 0 THEN "lock" ELSE "share")
    /\ UNCHANGED <<firstFree, lastFree, nextFree, value, pool, new, flag, open>>

(* No entry is free: lock the table ... *)
LockTable(t) ==
    /\ pc[t] = "lock"
    /\ ~Locked(0)
    /\ Goto(t, "again")
    /\ UNCHANGED <<firstFree, lastFree, nextFree, value, pool, old, new, flag, open>>

(* ... and look again. *)
ReadAgain(t) ==
    /\ pc[t] = "again"
    /\ old' = [old EXCEPT ![t] = firstFree]
    /\ Goto(t, IF firstFree = 0 THEN "move" ELSE "leave")
    /\ UNCHANGED <<firstFree, lastFree, nextFree, value, pool, new, flag, open>>

(* ExpMoveFreeHandles takes the list of freed entries, *)
Move(t) ==
    /\ pc[t] = "move"
    /\ old' = [old EXCEPT ![t] = lastFree]
    /\ lastFree' = 0
    /\ IF lastFree = 0 THEN Goto(t, "grow") /\ UNCHANGED new
       ELSE Goto(t, "wait") /\ new' = [new EXCEPT ![t] = 1]
    /\ UNCHANGED <<firstFree, nextFree, value, pool, flag, open>>

(* waits for every allocation that might have looked at one of them,       *)
(* ExWaitOnPushLock being an acquire and a release,                        *)
WaitOnLock(t) ==
    /\ pc[t] = "wait"
    /\ ~Locked(new[t])
    /\ Goto(t, "waited")
    /\ UNCHANGED <<firstFree, lastFree, nextFree, value, pool, old, new, flag, open>>

LeaveLock(t) ==
    /\ pc[t] = "waited"
    /\ IF new[t] = Locks - 1 THEN Goto(t, "moved") /\ new' = [new EXCEPT ![t] = 0]
       ELSE Goto(t, "wait") /\ new' = [new EXCEPT ![t] = @ + 1]
    /\ UNCHANGED <<firstFree, lastFree, nextFree, value, pool, old, flag, open>>

(* and makes the list the one to allocate from.  When the exchange fails   *)
(* the assertion fails; without assertions the routine returns all the     *)
(* same, and the entries are lost.                                         *)
MoveList(t) ==
    /\ pc[t] = "moved"
    /\ firstFree' = IF firstFree = 0 THEN old[t] ELSE firstFree
    /\ Goto(t, "leave")
    /\ UNCHANGED <<lastFree, nextFree, value, pool, old, new, flag, open>>

(* The lock is released once there is something to allocate. *)
LeaveTable(t) ==
    /\ pc[t] = "leave"
    /\ Goto(t, "share")
    /\ UNCHANGED <<firstFree, lastFree, nextFree, value, pool, old, new, flag, open>>

Fits(n) == n < Low * MaxTables

(* Mutant: the last entry of a table is left out. *)
LinkedShort(e) == IF e % Low >= Low - 2 THEN 0 ELSE e + 1

(* ExpAllocateLowLevelTable: each entry is linked to the next one. *)
Linked(e) == IF e % Low = Low - 1 THEN 0 ELSE e + 1

(* ExpAllocateHandleTableEntrySlow adds a table of free entries, if there  *)
(* is room and memory for one,                                             *)
Grow(t) ==
    /\ pc[t] = "grow"
    /\ \/ /\ Fits(pool)
          /\ nextFree' = [e \in Entries |->
                            IF e \div Low = pool \div Low THEN Linked(e)
                            ELSE nextFree[e]]
          /\ pool' = pool + Low
          /\ flag' = [flag EXCEPT ![t] = TRUE]
          /\ new' = [new EXCEPT ![t] = pool + 1]
          /\ Goto(t, "link")
       \/ Goto(t, "grown") /\ UNCHANGED <<nextFree, pool, flag, new>>
    /\ UNCHANGED <<firstFree, lastFree, value, old, open>>

(* and pushes all of them: the last one is linked to what is free, *)
Link(t) ==
    /\ pc[t] = "link"
    /\ old' = [old EXCEPT ![t] = firstFree]
    /\ nextFree' = [nextFree EXCEPT ![new[t] + Low - 2] = firstFree]
    /\ Goto(t, "publish")
    /\ UNCHANGED <<firstFree, lastFree, value, pool, new, flag, open>>

(* and FirstFree moves to the first one. *)
Publish(t) ==
    /\ pc[t] = "publish"
    /\ IF firstFree = old[t]
       THEN /\ firstFree' = new[t]
            /\ new' = [new EXCEPT ![t] = 0]
            /\ Goto(t, "grown")
       ELSE Goto(t, "link") /\ UNCHANGED <<firstFree, new>>
    /\ UNCHANGED <<lastFree, nextFree, value, pool, old, flag, open>>

(* The lock is released, *)
UnlockTable(t) ==
    /\ pc[t] = "grown"
    /\ Goto(t, "grew")
    /\ UNCHANGED <<firstFree, lastFree, nextFree, value, pool, old, new, flag, open>>

(* and the allocation fails only if there is still nothing. *)
AfterGrowth(t) ==
    /\ pc[t] = "grew"
    /\ IF firstFree = 0 /\ ~flag[t] THEN Return(t)
       ELSE /\ old' = [old EXCEPT ![t] = firstFree]
            /\ flag' = [flag EXCEPT ![t] = FALSE]
            /\ Goto(t, IF firstFree = 0 THEN "lock" ELSE "share")
            /\ UNCHANGED new
    /\ UNCHANGED <<firstFree, lastFree, nextFree, value, pool, open>>

(* With a candidate in hand, its lock is shared. *)
Share(t) ==
    /\ pc[t] = "share"
    /\ MayShare(LockOf(old[t]))
    /\ Goto(t, "check")
    /\ UNCHANGED <<firstFree, lastFree, nextFree, value, pool, old, new, flag, open>>

(* A candidate that is first no more is given up. *)
Check(t) ==
    /\ pc[t] = "check"
    /\ Goto(t, IF firstFree = old[t] THEN "next" ELSE "unshare")
    /\ UNCHANGED <<firstFree, lastFree, nextFree, value, pool, old, new, flag, open>>

(* The entry after it.  (A candidate outside the table has no entry.) *)
ReadNext(t) ==
    /\ pc[t] = "next"
    /\ old[t] \in Entries
    /\ new' = [new EXCEPT ![t] = nextFree[old[t]]]
    /\ Goto(t, "pop")
    /\ UNCHANGED <<firstFree, lastFree, nextFree, value, pool, old, flag, open>>

Pops(h) == firstFree = h

(* The compare-exchange. *)
Pop(t) ==
    /\ pc[t] = "pop"
    /\ IF Pops(old[t])
       THEN firstFree' = new[t] /\ flag' = [flag EXCEPT ![t] = TRUE]
       ELSE UNCHANGED <<firstFree, flag>>
    /\ new' = [new EXCEPT ![t] = 0]
    /\ Goto(t, "unshare")
    /\ UNCHANGED <<lastFree, nextFree, value, pool, old, open>>

(* The lock is released: the entry is ours, or we go round again. *)
Unshare(t) ==
    /\ pc[t] = "unshare"
    /\ Goto(t, IF flag[t] THEN "write" ELSE "first")
    /\ UNCHANGED <<firstFree, lastFree, nextFree, value, pool, old, new, flag, open>>

(* The access mask of a handle is kept where NextFreeTableEntry was. *)
Access == Low * MaxTables

(* ExCreateHandle writes the entry, with the lock bit clear, *)
Write(t) ==
    /\ pc[t] = "write"
    /\ value' = [value EXCEPT ![old[t]] = "locked"]
    /\ nextFree' = [nextFree EXCEPT ![old[t]] = Access]
    /\ Goto(t, "unlock")
    /\ UNCHANGED <<firstFree, lastFree, pool, old, new, flag, open>>

(* sets the lock bit (ExUnlockHandleTableEntry) and returns the handle. *)
Unlock(t) ==
    /\ pc[t] = "unlock"
    /\ value' = [value EXCEPT ![old[t]] = "unlocked"]
    /\ open' = open \cup {old[t]}
    /\ Return(t)
    /\ UNCHANGED <<firstFree, lastFree, nextFree, pool>>

-----------------------------------------------------------------------------
(* ExDestroyHandle and ExpFreeHandleTableEntry.                            *)

(* The entry is locked (see HandleLock) and cleared. *)
Destroy(t) ==
    /\ pc[t] = "idle" /\ t \in Closers
    /\ \E h \in open : /\ value[h] = "unlocked"
                       /\ value' = [value EXCEPT ![h] = "free"]
                       /\ open' = open \ {h}
                       /\ old' = [old EXCEPT ![t] = h]
    /\ Goto(t, "select")
    /\ UNCHANGED <<firstFree, lastFree, nextFree, pool, new, flag>>

(* The list the entry is to go to: FirstFree (TRUE) if its lock is taken. *)
Select(t) ==
    /\ pc[t] = "select"
    /\ flag' = [flag EXCEPT ![t] = Locked(LockOf(old[t]))]
    /\ Goto(t, "chain")
    /\ UNCHANGED <<firstFree, lastFree, nextFree, value, pool, old, new, open>>

FreeList(t) == IF flag[t] THEN firstFree ELSE lastFree

(* The entry is linked to what is on that list, *)
Chain(t) ==
    /\ pc[t] = "chain"
    /\ nextFree' = [nextFree EXCEPT ![old[t]] = FreeList(t)]
    /\ new' = [new EXCEPT ![t] = FreeList(t)]
    /\ Goto(t, "push")
    /\ UNCHANGED <<firstFree, lastFree, value, pool, old, flag, open>>

(* Mutant: the entry is pushed with a plain store. *)
PushesAlways(t) == TRUE

Pushes(t) == FreeList(t) = new[t]

(* and pushed with a compare-exchange. *)
Push(t) ==
    /\ pc[t] = "push"
    /\ IF Pushes(t)
       THEN /\ firstFree' = IF flag[t] THEN old[t] ELSE firstFree
            /\ lastFree' = IF flag[t] THEN lastFree ELSE old[t]
            /\ Return(t)
       ELSE Goto(t, "chain") /\ UNCHANGED <<firstFree, lastFree, old, new, flag>>
    /\ UNCHANGED <<nextFree, value, pool, open>>

-----------------------------------------------------------------------------
SlowStep(t) == \/ LockTable(t) \/ ReadAgain(t) \/ Move(t) \/ WaitOnLock(t)
               \/ LeaveLock(t) \/ MoveList(t) \/ LeaveTable(t) \/ Grow(t)
               \/ Link(t) \/ Publish(t) \/ UnlockTable(t) \/ AfterGrowth(t)

PopStep(t) == \/ ReadFirst(t) \/ Share(t) \/ Check(t) \/ ReadNext(t)
              \/ Pop(t) \/ Unshare(t) \/ Write(t) \/ Unlock(t)

FreeStep(t) == Destroy(t) \/ Select(t) \/ Chain(t) \/ Push(t)

Next == \E t \in Threads : SlowStep(t) \/ PopStep(t) \/ FreeStep(t)

Spec == Init /\ [][Next]_vars

-----------------------------------------------------------------------------
(* Properties.                                                             *)

PCs == {"idle", "first", "lock", "again", "move", "wait", "waited", "moved",
        "leave", "grow", "link", "publish", "grown", "grew", "share", "check",
        "next", "pop", "unshare", "write", "unlock", "select", "chain", "push"}

(* Types of the variables.  A list starts with an entry of the table, as   *)
(* the assertions on NextHandleNeedingPool say.                            *)
TypeOK == /\ firstFree \in {e \in Entries : e < pool} \cup {0}
          /\ lastFree \in {e \in Entries : e < pool} \cup {0}
          /\ nextFree \in [Entries -> Entries \cup {0, Access}]
          /\ value \in [Entries -> {"free", "locked", "unlocked"}]
          /\ pool \in {Low * n : n \in 1 .. MaxTables}
          /\ pc \in [Threads -> PCs]
          /\ old \in [Threads -> Entries \cup {0}]
          /\ new \in [Threads -> Entries \cup (0 .. Locks - 1) \cup {Access}]
          /\ flag \in [Threads -> BOOLEAN]
          /\ open \subseteq Entries

(* What NextFreeTableEntry leads to from the entries of S is in S. *)
Closed(S) == \A e \in S : nextFree[e] \in Entries => nextFree[e] \in S

(* The entries on the list that starts with h: the least such set. *)
ListFrom(h) ==
    LET Sets == {S \in SUBSET Entries : (h \in Entries => h \in S) /\ Closed(S)}
    IN  {e \in Entries : \A S \in Sets : e \in S}

(* The entry each thread is creating or destroying. *)
Creating(t) == \/ pc[t] \in {"write", "unlock"}
               \/ pc[t] = "unshare" /\ flag[t]
Freeing(t)  == pc[t] \in {"select", "chain", "push"}
Busy == {t \in Threads : Creating(t) \/ Freeing(t)}

(* A handle is given to one caller at a time: the entry that a thread is   *)
(* creating or destroying is neither open nor another thread's, and no     *)
(* free list leads to it or to an open one.                                *)
OneOwner ==
    /\ \A t \in Busy : /\ old[t] \notin open
                       /\ \A u \in Busy : old[u] = old[t] => u = t
    /\ (ListFrom(firstFree) \cup ListFrom(lastFree))
          \cap (open \cup {old[t] : t \in Busy}) = {}

(* The entries in a list that a thread has off the table's lists. *)
InTransit(t) == CASE pc[t] \in {"wait", "waited", "moved"} -> ListFrom(old[t])
                  [] pc[t] \in {"link", "publish"} ->
                        {e \in Entries : e \div Low = new[t] \div Low}
                  [] OTHER -> {}

(* No entry is lost: each one below NextHandleNeedingPool is on one of the *)
(* lists, on the way to one, in a thread's hands, or open.                 *)
NoneLost ==
    {e \in Entries : e < pool} =
       (UNION {InTransit(t) : t \in Threads})
         \cup ListFrom(firstFree) \cup ListFrom(lastFree)
         \cup open \cup {old[t] : t \in Busy}

(* ExUnlockHandleTableEntry, which ends a creation, "set[s] the lock bit   *)
(* and make[s] sure it wasn't earlier".                                    *)
UnlockAssertion == \A t \in Threads : pc[t] = "unlock" => value[old[t]] = "locked"
=============================================================================
