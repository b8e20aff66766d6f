----------------------------- MODULE HandleLock -----------------------------
(***************************************************************************)
(* The lock of a handle table entry, ntoskrnl/ex/handle.c, and the blocking *)
(* half of the push locks it waits on, ntoskrnl/ex/pushlock.c.             *)
(*                                                                         *)
(* An entry is locked while the lock bit of its object pointer is clear;   *)
(* it is free while the pointer is null.  A thread that finds an entry     *)
(* locked pushes a wait block, on its own stack, on the one list of the    *)
(* table (HandleContentionEvent) and looks again before it sleeps.  Who    *)
(* unlocks or frees an entry takes the whole list and wakes every thread   *)
(* on it, whatever the entry it waits for.                                 *)
(*                                                                         *)
(* Every read and every interlocked operation on an entry, on the list or  *)
(* on the wait bit of a block is a step of its own.                        *)
(***************************************************************************)
EXTENDS Naturals, FiniteSets

CONSTANTS Threads,   \* the threads that use the table
          Entries,   \* its entries
          Null       \* the null pointer, and no entry

VARIABLES entry,     \* the object pointer of each entry, with its lock bit
          head,      \* HandleTable->HandleContentionEvent
          blk,       \* the wait block on each thread's stack
          pc,        \* where each thread is
          ent,       \* the entry its call is about
          ov,        \* OldValue: of the entry's lock, or of the list
          cur,       \* the block an unblocking thread is about to wake
          own,       \* whether it passed its own block (CurrentWaitBlock)
          hold       \* the entry each thread has locked: a history

vars == <<entry, head, blk, pc, ent, ov, cur, own, hold>>

Ptrs == Threads \cup {Null}

(* The values of an object pointer: is it null, is the lock bit set? *)
Values == [object : BOOLEAN, lockBit : BOOLEAN]
FreeEntry     == [object |-> FALSE, lockBit |-> FALSE]
LockedEntry   == [object |-> TRUE, lockBit |-> FALSE]
UnlockedEntry == [object |-> TRUE, lockBit |-> TRUE]

NoWaitBlock == [next |-> Null, wait |-> FALSE, event |-> FALSE]

(* A table in which nothing is open. *)
Init == /\ entry = [e \in Entries |-> FreeEntry]
        /\ head = Null
        /\ blk = [t \in Threads |-> NoWaitBlock]
        /\ pc = [t \in Threads |-> "idle"]
        /\ ent = [t \in Threads |-> Null]
        /\ ov = [t \in Threads |-> Null]
        /\ cur = [t \in Threads |-> Null]
        /\ own = [t \in Threads |-> FALSE]
        /\ hold = [t \in Threads |-> Null]

Goto(t, l) == pc' = [pc EXCEPT ![t] = l]

Return(t) == Goto(t, "idle") /\ ent' = [ent EXCEPT ![t] = Null]

(* The thread has looked at the entry and starts ExfUnblockPushLock.       *)
GotoUnblock(t, withBlock) == /\ Goto(t, "unblock")
                             /\ own' = [own EXCEPT ![t] = withBlock]

-----------------------------------------------------------------------------
(* Locking an entry.                                                       *)

(* A thread in ExDestroyHandle puts the entry it has cleared on the free   *)
(* list only after it has woken the threads that wait.                     *)
BeingFreed(e) == \E t \in Threads : /\ pc[t] \in {"unblock", "wake", "signal"}
                                    /\ ~own[t] /\ ent[t] = e

(* ExCreateHandle: an entry from the free list is written with the lock    *)
(* bit clear, so that its creator owns it.                                 *)
Create(t) ==
    /\ pc[t] = "idle" /\ hold[t] = Null
    /\ \E e \in Entries :
          /\ entry[e] = FreeEntry /\ ~BeingFreed(e)
          /\ entry' = [entry EXCEPT ![e] = LockedEntry]
          /\ hold' = [hold EXCEPT ![t] = e]
    /\ UNCHANGED <<head, blk, pc, ent, ov, cur, own>>

(* ExMapHandleToPointer and the other callers of ExpLockHandleTableEntry. *)
Lock(t) ==
    /\ pc[t] = "idle" /\ hold[t] = Null
    /\ \E e \in Entries : ent' = [ent EXCEPT ![t] = e]
    /\ Goto(t, "read")
    /\ UNCHANGED <<entry, head, blk, ov, cur, own, hold>>

(* The top of its loop: a freed entry ends it. *)
LockRead(t) ==
    /\ pc[t] = "read"
    /\ LET v == entry[ent[t]]
       IN \/ v.lockBit /\ Goto(t, "cas") /\ UNCHANGED ent
          \/ v = FreeEntry /\ Return(t)
          \/ v = LockedEntry /\ Goto(t, "block") /\ UNCHANGED ent
    /\ UNCHANGED <<entry, head, blk, ov, cur, own, hold>>

(* The value with which the compare-exchange succeeds. *)
MayLock(v) == v = UnlockedEntry

(* The compare-exchange.  When it fails the thread blocks, too. *)
LockCas(t) ==
    /\ pc[t] = "cas"
    /\ IF MayLock(entry[ent[t]])
       THEN /\ entry' = [entry EXCEPT ![ent[t]].lockBit = FALSE]
            /\ hold' = [hold EXCEPT ![t] = ent[t]]
            /\ Return(t)
       ELSE Goto(t, "block") /\ UNCHANGED <<entry, ent, hold>>
    /\ UNCHANGED <<head, blk, ov, cur, own>>

-----------------------------------------------------------------------------
(* Blocking: ExpBlockOnLockedHandleEntry.                                  *)

(* ExBlockPushLock reads the list ... *)
Block(t) ==
    /\ pc[t] = "block"
    /\ ov' = [ov EXCEPT ![t] = head]
    /\ Goto(t, "push")
    /\ UNCHANGED <<entry, head, blk, ent, cur, own, hold>>

NextBlock(oldValue) == oldValue

(* ... and pushes the block. *)
Push(t) ==
    /\ pc[t] = "push"
    /\ IF head = ov[t]
       THEN /\ head' = t
            /\ blk' = [blk EXCEPT ![t] = [next |-> NextBlock(ov[t]), wait |-> TRUE,
                                          event |-> FALSE]]
            /\ ov' = [ov EXCEPT ![t] = Null]
            /\ Goto(t, "recheck")
       ELSE /\ ov' = [ov EXCEPT ![t] = head]
            /\ UNCHANGED <<head, blk, pc>>
    /\ UNCHANGED <<entry, ent, cur, own, hold>>

(* Mutant: the thread goes to sleep without a second look. *)
MustSleepAlways(v) == TRUE

(* It is worth sleeping only while the entry is locked. *)
MustSleep(v) == v = LockedEntry

(* The second look at the entry, with the block on the list. *)
Recheck(t) ==
    /\ pc[t] = "recheck"
    /\ IF MustSleep(entry[ent[t]])
       THEN Goto(t, "prepare") /\ UNCHANGED own
       ELSE GotoUnblock(t, TRUE)
    /\ UNCHANGED <<entry, head, blk, ent, ov, cur, hold>>

(* ExTimedWaitForUnblockPushLock, without a timeout: the event is          *)
(* initialized, and the thread takes back the wait bit of its block unless *)
(* it has been woken already.                                              *)
PrepareWait(t) ==
    /\ pc[t] = "prepare"
    /\ IF blk[t].wait
       THEN /\ blk' = [blk EXCEPT ![t].event = FALSE, ![t].wait = FALSE]
            /\ Goto(t, "sleep")
       ELSE /\ blk' = [blk EXCEPT ![t] = NoWaitBlock]
            /\ Goto(t, "read")
    /\ UNCHANGED <<entry, head, ent, ov, cur, own, hold>>

(* KeWaitForSingleObject; then once more round the loop of the lock. *)
Wait(t) ==
    /\ pc[t] = "sleep"
    /\ blk[t].event
    /\ blk' = [blk EXCEPT ![t] = NoWaitBlock]
    /\ Goto(t, "read")
    /\ UNCHANGED <<entry, head, ent, ov, cur, own, hold>>

-----------------------------------------------------------------------------
(* Unlocking and unblocking.                                               *)

(* ExUnlockHandleTableEntry sets the lock bit. *)
Unlock(t) ==
    /\ pc[t] = "idle" /\ hold[t] # Null
    /\ entry' = [entry EXCEPT ![hold[t]].lockBit = TRUE]
    /\ hold' = [hold EXCEPT ![t] = Null]
    /\ GotoUnblock(t, FALSE)
    /\ UNCHANGED <<head, blk, ent, ov, cur>>

(* ExDestroyHandle clears the pointer of an entry it has locked.  ent      *)
(* keeps the entry: it goes to the free list after the threads are woken.  *)
Destroy(t) ==
    /\ pc[t] = "idle" /\ hold[t] # Null
    /\ entry' = [entry EXCEPT ![hold[t]] = FreeEntry]
    /\ hold' = [hold EXCEPT ![t] = Null]
    /\ ent' = [ent EXCEPT ![t] = hold[t]]
    /\ GotoUnblock(t, FALSE)
    /\ UNCHANGED <<head, blk, ov, cur>>

(* Mutant: the list is read but not taken. *)
ListAfterTake(l) == l

TakeList(l) == Null

(* The exchange of the list with null. *)
Unblock(t) ==
    /\ pc[t] = "unblock"
    /\ head' = TakeList(head)
    /\ cur' = [cur EXCEPT ![t] = head]
    /\ Goto(t, "wake")
    /\ UNCHANGED <<entry, blk, ent, ov, own, hold>>

(* One turn of its loop: take the wait bit of the block.  A block whose    *)
(* bit is already clear belongs to a thread that sleeps.                   *)
Wake(t) ==
    /\ pc[t] = "wake"
    /\ cur[t] # Null
    /\ blk' = [blk EXCEPT ![cur[t]].wait = FALSE]
    /\ IF blk[cur[t]].wait
       THEN cur' = [cur EXCEPT ![t] = blk[cur[t]].next] /\ UNCHANGED pc
       ELSE Goto(t, "signal") /\ UNCHANGED cur
    /\ UNCHANGED <<entry, head, ent, ov, own, hold>>

(* KeSetEventBoostPriority; the next block was read before. *)
Signal(t) ==
    /\ pc[t] = "signal"
    /\ blk' = [blk EXCEPT ![cur[t]].event = TRUE]
    /\ cur' = [cur EXCEPT ![t] = blk[cur[t]].next]
    /\ Goto(t, "wake")
    /\ UNCHANGED <<entry, head, ent, ov, own, hold>>

(* The list is done.  A thread that passed its own block waits for it if   *)
(* somebody else has taken it off the list and not yet cleared its bit.    *)
WakeDone(t) ==
    /\ pc[t] = "wake"
    /\ cur[t] = Null
    /\ \/ ~own[t] /\ Return(t) /\ UNCHANGED blk
       \/ own[t] /\ blk[t].wait /\ Goto(t, "prepare") /\ UNCHANGED <<blk, ent>>
       \/ /\ own[t] /\ ~blk[t].wait /\ Goto(t, "read") /\ UNCHANGED ent
          /\ blk' = [blk EXCEPT ![t] = NoWaitBlock]
    /\ own' = [own EXCEPT ![t] = FALSE]
    /\ UNCHANGED <<entry, head, ov, cur, hold>>

-----------------------------------------------------------------------------
Begin(t) == Create(t) \/ Lock(t)

BeginRelease(t) == Unlock(t) \/ Destroy(t)

Continue(t) == \/ LockRead(t) \/ LockCas(t)
               \/ Block(t) \/ Push(t) \/ Recheck(t) \/ PrepareWait(t) \/ Wait(t)
               \/ Unblock(t) \/ Wake(t) \/ Signal(t) \/ WakeDone(t)

Next == \E t \in Threads : Begin(t) \/ BeginRelease(t) \/ Continue(t)

Spec == Init /\ [][Next]_vars

-----------------------------------------------------------------------------
(* Properties.                                                             *)

PCs == {"idle", "read", "cas", "block", "push", "recheck", "prepare", "sleep",
        "unblock", "wake", "signal"}

(* Types of the variables; a null pointer never has the lock bit. *)
TypeOK == /\ entry \in [Entries -> {FreeEntry, LockedEntry, UnlockedEntry}]
          /\ head \in Ptrs
          /\ blk \in [Threads -> [next : Ptrs, wait : BOOLEAN, event : BOOLEAN]]
          /\ pc \in [Threads -> PCs]
          /\ ent \in [Threads -> Entries \cup {Null}]
          /\ ov \in [Threads -> Ptrs]
          /\ cur \in [Threads -> Ptrs]
          /\ own \in [Threads -> BOOLEAN]
          /\ hold \in [Threads -> Entries \cup {Null}]

(* A locked entry has one owner, and any other entry none: the assertions  *)
(* of ExUnlockHandleTableEntry and ExDestroyHandle rest on it.             *)
OneOwner ==
    \A e \in Entries : Cardinality({t \in Threads : hold[t] = e}) =
                          IF entry[e] = LockedEntry THEN 1 ELSE 0

(* The blocks from b to the end of its list. *)
ChainFrom(b) ==
    LET chain[x \in Threads] ==
          IF blk[x].next = Null THEN {x} ELSE {x} \cup chain[blk[x].next]
    IN  IF b = Null THEN {} ELSE chain[b]

(* The blocks that a thread has taken off the list and has still to wake. *)
Taken == UNION {ChainFrom(cur[t]) : t \in Threads}

Blocked(t) == \/ pc[t] \in {"recheck", "prepare", "sleep"}
              \/ pc[t] \in {"unblock", "wake", "signal"} /\ own[t]

(* The wait block of a thread lives on its stack: no list leads to the     *)
(* block of a thread that has left ExpBlockOnLockedHandleEntry.            *)
NoDeadBlock == ChainFrom(head) \cup Taken \subseteq {t \in Threads : Blocked(t)}

(* A thread that sleeps, or is about to, and has not been woken.           *)
Unsignaled(t) == \/ pc[t] = "sleep" /\ ~blk[t].event
                 \/ pc[t] = "prepare" /\ blk[t].wait

(* No wake-up is lost.  A thread that waits is on the list or about to be  *)
(* woken; and while it is on the list, its entry is locked by a thread     *)
(* that has still to unlock it, or a thread is about to take the list.     *)
WakeUpIsDue ==
    \A t \in Threads : Unsignaled(t) =>
       \/ t \in Taken
       \/ /\ t \in ChainFrom(head)
          /\ \/ entry[ent[t]] = LockedEntry
             \/ \E u \in Threads : pc[u] = "unblock"
=============================================================================
