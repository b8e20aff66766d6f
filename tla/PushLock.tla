------------------------------ MODULE PushLock ------------------------------
(***************************************************************************)
(* Push locks: ntoskrnl/ex/pushlock.c and the inline fast paths of         *)
(* ntoskrnl/include/internal/ex.h.                                         *)
(*                                                                         *)
(* The lock is one word.  While nobody waits it holds the Locked bit and a *)
(* share count; with waiters it holds the address of the newest wait       *)
(* block, on the stack of the thread that waits.  Wait blocks are chained  *)
(* by Next from the newest to the oldest; Last is a short cut to the       *)
(* oldest, Previous the way back.  The thread that sets the Waking bit     *)
(* owns the chain: it alone links and unlinks blocks.                      *)
(*                                                                         *)
(* Every interlocked operation is a step of its own.  What a thread does   *)
(* to data no other thread uses at that time (its own block before it is   *)
(* published, the chain while it owns the Waking bit) is part of the       *)
(* interlocked step that follows it.                                       *)
(***************************************************************************)
EXTENDS Naturals, FiniteSets

CONSTANTS Threads,   \* the threads that use the lock
          Null,      \* the null pointer
          Calls      \* which of the routines below the threads call

ASSUME NullAssumption == Null \notin Threads

VARIABLES word,      \* *PushLock
          blk,       \* the wait block on each thread's stack
          pc,        \* where each thread is
          ov,        \* the local variable OldValue of its call
          wv,        \* OldValue in ExfWakePushLock and ExpOptimizePushLockList
          cur,       \* the block a waking thread is about to signal
          want,      \* what the call in progress is for
          hold       \* what each thread holds: a history of the calls

vars == <<word, blk, pc, ov, wv, cur, want, hold>>

Ptrs == Threads \cup {Null}

Words == [locked : BOOLEAN, waiting : BOOLEAN, waking : BOOLEAN,
          multiple : BOOLEAN, shared : 0..Cardinality(Threads), head : Ptrs]

Free == [locked |-> FALSE, waiting |-> FALSE, waking |-> FALSE,
         multiple |-> FALSE, shared |-> 0, head |-> Null]
Exclusive == [Free EXCEPT !.locked = TRUE]
SharedBy(n) == [Free EXCEPT !.locked = TRUE, !.shared = n]

Blocks == [next : Ptrs, last : Ptrs, previous : Ptrs,
           shareCount : 0..Cardinality(Threads), exclusive : BOOLEAN,
           wait : BOOLEAN, signaled : BOOLEAN, gate : BOOLEAN]

NoWaitBlock == [next |-> Null, last |-> Null, previous |-> Null,
                shareCount |-> 0, exclusive |-> FALSE, wait |-> FALSE,
                signaled |-> FALSE, gate |-> FALSE]

Init == /\ word = Free
        /\ blk = [t \in Threads |-> NoWaitBlock]
        /\ pc = [t \in Threads |-> "idle"]
        /\ ov = [t \in Threads |-> Free]
        /\ wv = [t \in Threads |-> Free]
        /\ cur = [t \in Threads |-> Null]
        /\ want = [t \in Threads |-> "none"]
        /\ hold = [t \in Threads |-> "none"]

-----------------------------------------------------------------------------
(* The chain of wait blocks.                                               *)

(* The oldest block, found as the code does: follow Next up to a block     *)
(* that has a Last pointer.                                                *)
LastFrom(h) ==
    LET find[b \in Threads] ==
          IF blk[b].last # Null THEN blk[b].last ELSE find[blk[b].next]
    IN  find[h]

(* The blocks that walk steps over. *)
WalkFrom(h) ==
    LET walk[b \in Threads] ==
          IF blk[b].last # Null THEN {} ELSE {b} \cup walk[blk[b].next]
    IN  walk[h]

(* Mutant: the walk leaves the Previous pointers as they are. *)
Unlinked(h) == blk

(* The chain after the walk has filled in the Previous pointers. *)
Linked(h) ==
    LET back(b) == {p \in WalkFrom(h) : blk[p].next = b}
    IN  [b \in Threads |->
            IF back(b) = {} THEN blk[b]
            ELSE [blk[b] EXCEPT !.previous = CHOOSE p \in back(b) : TRUE]]

-----------------------------------------------------------------------------
(* Where a call goes, and how it ends.                                     *)

Goto(t, l, v) == /\ pc' = [pc EXCEPT ![t] = l]
                 /\ ov' = [ov EXCEPT ![t] = v]

GotoWake(t, l, v) == /\ pc' = [pc EXCEPT ![t] = l]
                     /\ wv' = [wv EXCEPT ![t] = v]

Return(t) == /\ Goto(t, "idle", Free)
             /\ want' = [want EXCEPT ![t] = "none"]

(* The thread has what it wanted; ExWaitOnPushLock goes on to release it. *)
Granted(t) ==
    /\ hold' = [hold EXCEPT ![t] = IF want[t] = "shared" THEN "shared"
                                                         ELSE "excl"]
    /\ IF want[t] = "waiton"
       THEN /\ Goto(t, "unlockread", Free)
            /\ want' = [want EXCEPT ![t] = "release"]
       ELSE Return(t)

Released(t) == hold' = [hold EXCEPT ![t] = "none"]

-----------------------------------------------------------------------------
(* Acquiring.                                                              *)

(* ExAcquirePushLockExclusive: the bit test and set. *)
AcquireExclusive(t) ==
    /\ "exclusive" \in Calls
    /\ pc[t] = "idle" /\ hold[t] = "none"
    /\ IF word.locked
       THEN /\ Goto(t, "read", Free)
            /\ want' = [want EXCEPT ![t] = "excl"]
            /\ UNCHANGED <<word, hold>>
       ELSE /\ word' = [word EXCEPT !.locked = TRUE]
            /\ hold' = [hold EXCEPT ![t] = "excl"]
            /\ UNCHANGED <<pc, ov, want>>
    /\ UNCHANGED <<blk, wv, cur>>

(* ExTryToAcquirePushLockExclusive gives up when the bit is set. *)
TryAcquireExclusive(t) ==
    /\ "try" \in Calls
    /\ pc[t] = "idle" /\ hold[t] = "none"
    /\ ~word.locked
    /\ word' = [word EXCEPT !.locked = TRUE]
    /\ hold' = [hold EXCEPT ![t] = "excl"]
    /\ UNCHANGED <<blk, pc, ov, wv, cur, want>>

(* ExAcquirePushLockShared: the compare-exchange from 0. *)
AcquireShared(t) ==
    /\ "shared" \in Calls
    /\ pc[t] = "idle" /\ hold[t] = "none"
    /\ IF word = Free
       THEN /\ word' = SharedBy(1)
            /\ hold' = [hold EXCEPT ![t] = "shared"]
            /\ UNCHANGED <<pc, ov, want>>
       ELSE /\ Goto(t, "read", Free)
            /\ want' = [want EXCEPT ![t] = "shared"]
            /\ UNCHANGED <<word, hold>>
    /\ UNCHANGED <<blk, wv, cur>>

(* ExConvertPushLockSharedToExclusive. *)
Convert(t) ==
    /\ "convert" \in Calls
    /\ pc[t] = "idle" /\ hold[t] = "shared"
    /\ word = SharedBy(1)
    /\ word' = Exclusive
    /\ hold' = [hold EXCEPT ![t] = "excl"]
    /\ UNCHANGED <<blk, pc, ov, wv, cur, want>>

(* ExWaitOnPushLock acquires and releases a lock that it finds locked. *)
WaitOn(t) ==
    /\ "waiton" \in Calls
    /\ pc[t] = "idle" /\ hold[t] = "none"
    /\ word.locked
    /\ Goto(t, "read", Free)
    /\ want' = [want EXCEPT ![t] = "waiton"]
    /\ UNCHANGED <<word, blk, wv, cur, hold>>

(* ExfAcquirePushLockExclusive and ExfAcquirePushLockShared read the lock. *)
AcquireRead(t) ==
    /\ pc[t] = "read"
    /\ Goto(t, "loop", word)
    /\ UNCHANGED <<word, blk, wv, cur, want, hold>>

(* Mutant: a shared acquire that does not look at the share count. *)
MayAcquireUncounted(t, v) == ~v.locked \/ (want[t] = "shared" /\ ~v.waiting)

(* A shared acquire succeeds beside other sharers unless someone waits. *)
MayAcquire(t, v) == \/ ~v.locked
                    \/ want[t] = "shared" /\ ~v.waiting /\ v.shared > 0

(* The word after the acquire: a sharer counts itself only in a word that  *)
(* has room for the count.                                                 *)
Acquired(t, v) ==
    IF want[t] = "shared" /\ ~v.waiting
    THEN [v EXCEPT !.locked = TRUE, !.shared = @ + 1]
    ELSE [v EXCEPT !.locked = TRUE]

(* Their main loop, when OldValue lets the thread have the lock. *)
AcquireCas(t) ==
    /\ pc[t] = "loop"
    /\ MayAcquire(t, ov[t])
    /\ IF word = ov[t]
       THEN word' = Acquired(t, ov[t]) /\ Granted(t)
       ELSE Goto(t, "read", Free) /\ UNCHANGED <<word, want, hold>>
    /\ UNCHANGED <<blk, wv, cur>>

(* The word and the wait block of a thread that has to wait, from the      *)
(* value v it has seen.  The first exclusive waiter moves the share count  *)
(* into its block when there are several sharers.                          *)
WaitWord(t, v) ==
    IF v.waiting
    THEN [v EXCEPT !.waking = TRUE, !.head = t]
    ELSE [v EXCEPT !.waiting = TRUE, !.head = t, !.shared = 0,
                   !.multiple = want[t] # "shared" /\ v.shared > 1]

(* Mutant: the sharers in the block are one too few. *)
SavedCountOneLess(t, v) ==
    IF WaitWord(t, v).multiple /\ ~v.waiting THEN v.shared - 1 ELSE 0

SavedCount(t, v) == IF WaitWord(t, v).multiple /\ ~v.waiting THEN v.shared ELSE 0

WaitBlock(t, v) ==
    [NoWaitBlock EXCEPT
        !.next = IF v.waiting THEN v.head ELSE Null,
        !.last = IF v.waiting THEN Null ELSE t,
        !.shareCount = SavedCount(t, v),
        !.exclusive = want[t] # "shared",
        !.wait = TRUE]

(* Their main loop, when the thread has to wait: it publishes its block,   *)
(* and optimizes the list when it is the one that set the Waking bit.  The *)
(* exclusive routine hands over the word it has written, the shared one    *)
(* the word it has replaced.                                               *)
Enqueue(t) ==
    /\ pc[t] = "loop"
    /\ ~MayAcquire(t, ov[t])
    /\ IF word = ov[t]
       THEN /\ word' = WaitWord(t, ov[t])
            /\ blk' = [blk EXCEPT ![t] = WaitBlock(t, ov[t])]
            /\ IF ov[t].waiting /\ ~ov[t].waking
               THEN GotoWake(t, "optimize",
                             IF want[t] = "shared" THEN ov[t] ELSE word')
               ELSE GotoWake(t, "gate", Free)
            /\ UNCHANGED ov
       ELSE /\ Goto(t, "read", Free)
            /\ UNCHANGED <<word, blk, wv>>
    /\ UNCHANGED <<cur, want, hold>>

(* KeInitializeGate, then the thread takes back the wait bit of its block  *)
(* unless someone has done so, which means that it has been woken already. *)
PrepareWait(t) ==
    /\ pc[t] = "gate"
    /\ IF blk[t].wait
       THEN /\ blk' = [blk EXCEPT ![t].gate = FALSE, ![t].wait = FALSE]
            /\ pc' = [pc EXCEPT ![t] = "sleep"]
       ELSE /\ blk' = [blk EXCEPT ![t] = NoWaitBlock]
            /\ pc' = [pc EXCEPT ![t] = "loop"]
    /\ UNCHANGED <<word, ov, wv, cur, want, hold>>

(* KeWaitForGate; then back to the top of the main loop, with OldValue as  *)
(* it was before the wait.                                                 *)
Wait(t) ==
    /\ pc[t] = "sleep"
    /\ blk[t].gate
    /\ blk' = [blk EXCEPT ![t] = NoWaitBlock]
    /\ pc' = [pc EXCEPT ![t] = "loop"]
    /\ UNCHANGED <<word, ov, wv, cur, want, hold>>

-----------------------------------------------------------------------------
(* Waking.                                                                 *)

(* A waking routine returns: to its own wait when a waiting thread called  *)
(* it to optimize the list, and from the release otherwise.                *)
WakeDone(t) ==
    /\ GotoWake(t, IF want[t] = "release" THEN "idle" ELSE "gate", Free)
    /\ want' = [want EXCEPT ![t] = IF @ = "release" THEN "none" ELSE @]

(* ExpOptimizePushLockList: link the blocks and give the Waking bit back,  *)
(* or wake the waiters if the lock has been released meanwhile.            *)
Optimize(t) ==
    /\ pc[t] = "optimize"
    /\ LET v == wv[t]
       IN IF ~v.locked
          THEN GotoWake(t, "wake", v) /\ UNCHANGED <<word, blk, want>>
          ELSE /\ blk' = [Linked(v.head) EXCEPT
                             ![v.head].last = LastFrom(v.head)]
               /\ IF word = v
                  THEN word' = [v EXCEPT !.waking = FALSE] /\ WakeDone(t)
                  ELSE /\ GotoWake(t, "optimize", word)
                       /\ UNCHANGED <<word, want>>
    /\ UNCHANGED <<ov, cur, hold>>

(* ExfWakePushLock finds the lock taken again: it gives the Waking bit     *)
(* back and leaves the waiters to the new owner.                           *)
WakeLocked(t) ==
    /\ pc[t] = "wake"
    /\ wv[t].locked
    /\ IF word = wv[t]
       THEN word' = [word EXCEPT !.waking = FALSE] /\ WakeDone(t)
       ELSE GotoWake(t, "wake", word) /\ UNCHANGED <<word, want>>
    /\ UNCHANGED <<blk, ov, cur, hold>>

(* Mutant: the newest block goes on to point to the one taken off. *)
WithoutLastKept(links, head, last) == [links EXCEPT ![last].previous = Null]

(* The chain without its oldest block. *)
WithoutLast(links, head, last) ==
    [links EXCEPT ![head].last = links[last].previous, ![last].previous = Null]

(* ExfWakePushLock on a free lock.  When the oldest waiter is exclusive    *)
(* and not alone, only that one is taken off the chain; otherwise the      *)
(* chain is taken whole, if no block has been added to it since.           *)
WakeUnlocked(t) ==
    /\ pc[t] = "wake"
    /\ ~wv[t].locked
    /\ LET v == wv[t]
           links == Linked(v.head)
           last == LastFrom(v.head)
       IN IF ~links[last].exclusive \/ links[last].previous = Null
          THEN /\ blk' = links
               /\ IF word = v
                  THEN /\ word' = Free
                       /\ cur' = [cur EXCEPT ![t] = last]
                       /\ GotoWake(t, "signal", Free)
                  ELSE /\ GotoWake(t, "wake", word)
                       /\ UNCHANGED <<word, cur>>
          ELSE /\ blk' = WithoutLast(links, v.head, last)
               /\ word' = [word EXCEPT !.waking = FALSE]
               /\ cur' = [cur EXCEPT ![t] = last]
               /\ GotoWake(t, "signal", Free)
    /\ UNCHANGED <<ov, want, hold>>

(* The next turn of the signaling loop, or its end. *)
SignalNext(t, previous) ==
    /\ cur' = [cur EXCEPT ![t] = previous]
    /\ IF previous = Null THEN WakeDone(t)
       ELSE GotoWake(t, "signal", Free) /\ UNCHANGED want

(* One turn of the signaling loop: take the wait bit of the block.  A      *)
(* block whose bit is already clear belongs to a thread at its gate.       *)
Signal(t) ==
    /\ pc[t] = "signal"
    /\ blk' = [blk EXCEPT ![cur[t]].signaled = TRUE, ![cur[t]].wait = FALSE]
    /\ IF blk[cur[t]].wait
       THEN SignalNext(t, blk[cur[t]].previous)
       ELSE GotoWake(t, "gatesignal", Free) /\ UNCHANGED <<cur, want>>
    /\ UNCHANGED <<word, ov, hold>>

(* KeSignalGateBoostPriority. *)
SignalGate(t) ==
    /\ pc[t] = "gatesignal"
    /\ blk' = [blk EXCEPT ![cur[t]].gate = TRUE]
    /\ SignalNext(t, blk[cur[t]].previous)
    /\ UNCHANGED <<word, ov, hold>>

-----------------------------------------------------------------------------
(* Releasing.                                                              *)

(* The lock is released and Waking: on to ExfWakePushLock. *)
ReleaseAndWake(t, v) == /\ word' = v
                        /\ GotoWake(t, "wake", v)
                        /\ ov' = [ov EXCEPT ![t] = Free]
                        /\ UNCHANGED want

(* Mutant: waiters are woken only by a thread that finds them being woken. *)
NeedsWakeLate(v) == v.waiting /\ v.waking

(* An owner that releases wakes the waiters unless someone else does. *)
NeedsWake(v) == v.waiting /\ ~v.waking

(* ExReleasePushLockExclusive: the exchange-add. *)
ReleaseExclusive(t) ==
    /\ pc[t] = "idle" /\ hold[t] = "excl"
    /\ word' = [word EXCEPT !.locked = FALSE]
    /\ Released(t)
    /\ IF NeedsWake(word)
       THEN /\ Goto(t, "tryread", Free)
            /\ want' = [want EXCEPT ![t] = "release"]
       ELSE UNCHANGED <<pc, ov, want>>
    /\ UNCHANGED <<blk, wv, cur>>

MayWake(v) == ~v.waking /\ ~v.locked /\ v.waiting

(* ExfTryToWakePushLock reads the lock ... *)
TryToWakeRead(t) ==
    /\ pc[t] = "tryread"
    /\ IF MayWake(word)
       THEN Goto(t, "trycas", word) /\ UNCHANGED want
       ELSE Return(t)
    /\ UNCHANGED <<word, blk, wv, cur, hold>>

(* ... and tries once to become the one that wakes. *)
TryToWakeCas(t) ==
    /\ pc[t] = "trycas"
    /\ IF word = ov[t]
       THEN ReleaseAndWake(t, [word EXCEPT !.waking = TRUE])
       ELSE Return(t) /\ UNCHANGED <<word, wv>>
    /\ UNCHANGED <<blk, cur, hold>>

(* ExfReleasePushLockExclusive, which ExWaitOnPushLock calls. *)
UnlockRead(t) ==
    /\ pc[t] = "unlockread"
    /\ Goto(t, "unlock", word)
    /\ UNCHANGED <<word, blk, wv, cur, want, hold>>

UnlockCas(t) ==
    /\ pc[t] = "unlock"
    /\ \/ /\ word = ov[t] /\ NeedsWake(word)
          /\ ReleaseAndWake(t, [word EXCEPT !.locked = FALSE, !.waking = TRUE])
          /\ Released(t)
       \/ /\ word = ov[t] /\ ~NeedsWake(word)
          /\ word' = [word EXCEPT !.locked = FALSE]
          /\ Released(t)
          /\ Return(t)
          /\ UNCHANGED wv
       \/ /\ word # ov[t]
          /\ Goto(t, "unlock", word)
          /\ UNCHANGED <<word, wv, want, hold>>
    /\ UNCHANGED <<blk, cur>>

(* ExReleasePushLockShared: the compare-exchange to 0. *)
ReleaseShared(t) ==
    /\ pc[t] = "idle" /\ hold[t] = "shared"
    /\ IF word = SharedBy(1)
       THEN word' = Free /\ Released(t) /\ UNCHANGED <<pc, ov, want>>
       ELSE /\ Goto(t, "relread", Free)
            /\ want' = [want EXCEPT ![t] = "release"]
            /\ UNCHANGED <<word, hold>>
    /\ UNCHANGED <<blk, wv, cur>>

(* ExReleasePushLock, for either kind of owner, reads the lock ... *)
ReleaseAny(t) ==
    /\ "any" \in Calls
    /\ pc[t] = "idle" /\ hold[t] # "none"
    /\ Goto(t, IF word.waiting THEN "relread" ELSE "relany", word)
    /\ want' = [want EXCEPT ![t] = "release"]
    /\ UNCHANGED <<word, blk, wv, cur, hold>>

(* The word after one of the sharers, or the owner, has left it. *)
OneLess(v) == IF v.shared > 1 THEN [v EXCEPT !.shared = @ - 1] ELSE Free

(* ... and tries one compare-exchange. *)
ReleaseAnyCas(t) ==
    /\ pc[t] = "relany"
    /\ IF word = ov[t]
       THEN word' = OneLess(ov[t]) /\ Released(t) /\ Return(t)
       ELSE Goto(t, "relread", Free) /\ UNCHANGED <<word, want, hold>>
    /\ UNCHANGED <<blk, wv, cur>>

(* ExfReleasePushLock and ExfReleasePushLockShared read the lock. *)
ReleaseRead(t) ==
    /\ pc[t] = "relread"
    /\ Goto(t, "rel", word)
    /\ UNCHANGED <<word, blk, wv, cur, want, hold>>

(* Their loop while nobody waits. *)
ReleaseCas(t) ==
    /\ pc[t] = "rel"
    /\ ~ov[t].waiting
    /\ IF word = ov[t]
       THEN word' = OneLess(ov[t]) /\ Released(t) /\ Return(t)
       ELSE Goto(t, "rel", word) /\ UNCHANGED <<word, want, hold>>
    /\ UNCHANGED <<blk, wv, cur>>

(* Someone waits: the count of several sharers is in the oldest block, and *)
(* only the last of them goes on to unlock.                                *)
ReleaseCounted(t) ==
    /\ pc[t] = "rel"
    /\ ov[t].waiting
    /\ LET b == LastFrom(ov[t].head)
           counted == ov[t].multiple /\ blk[b].shareCount > 0
       IN /\ IF counted
             THEN blk' = [blk EXCEPT ![b].shareCount = @ - 1]
             ELSE UNCHANGED blk
          /\ IF counted /\ blk[b].shareCount > 1
             THEN Released(t) /\ Return(t)
             ELSE Goto(t, "relwait", ov[t]) /\ UNCHANGED <<want, hold>>
    /\ UNCHANGED <<word, wv, cur>>

Unlocked(v) == [v EXCEPT !.locked = FALSE, !.multiple = FALSE]

(* The inner loop of both routines.  When the compare-exchange fails the   *)
(* code goes round again with the OldValue it had.                         *)
ReleaseWait(t) ==
    /\ pc[t] = "relwait"
    /\ \/ /\ word = ov[t] /\ ov[t].waking
          /\ word' = Unlocked(ov[t])
          /\ Released(t)
          /\ Return(t)
          /\ UNCHANGED wv
       \/ /\ word = ov[t] /\ ~ov[t].waking
          /\ ReleaseAndWake(t, [Unlocked(ov[t]) EXCEPT !.waking = TRUE])
          /\ Released(t)
       \/ /\ word # ov[t]
          /\ UNCHANGED <<word, pc, ov, wv, want, hold>>
    /\ UNCHANGED <<blk, cur>>

-----------------------------------------------------------------------------
Begin(t) == \/ AcquireExclusive(t) \/ TryAcquireExclusive(t)
            \/ AcquireShared(t) \/ Convert(t) \/ WaitOn(t)

BeginRelease(t) == ReleaseExclusive(t) \/ ReleaseShared(t) \/ ReleaseAny(t)

Continue(t) == \/ AcquireRead(t) \/ AcquireCas(t) \/ Enqueue(t)
               \/ PrepareWait(t) \/ Wait(t)
               \/ Optimize(t) \/ WakeLocked(t) \/ WakeUnlocked(t)
               \/ Signal(t) \/ SignalGate(t)
               \/ TryToWakeRead(t) \/ TryToWakeCas(t)
               \/ UnlockRead(t) \/ UnlockCas(t)
               \/ ReleaseAnyCas(t) \/ ReleaseRead(t) \/ ReleaseCas(t)
               \/ ReleaseCounted(t) \/ ReleaseWait(t)

Next == \E t \in Threads : Begin(t) \/ BeginRelease(t) \/ Continue(t)

Spec == Init /\ [][Next]_vars

-----------------------------------------------------------------------------
(* Properties.                                                             *)

PCs == {"idle", "read", "loop", "gate", "sleep", "optimize", "wake", "signal",
        "gatesignal", "tryread", "trycas", "unlockread", "unlock", "relany",
        "relread", "rel", "relwait"}

(* Types of the variables. *)
TypeOK == /\ word \in Words
          /\ blk \in [Threads -> Blocks]
          /\ pc \in [Threads -> PCs]
          /\ ov \in [Threads -> Words]
          /\ wv \in [Threads -> Words]
          /\ cur \in [Threads -> Ptrs]
          /\ want \in [Threads -> {"none", "shared", "excl", "waiton",
                                   "release"}]
          /\ hold \in [Threads -> {"none", "shared", "excl"}]

(* The blocks of the chain, from the newest to the oldest: those the walk  *)
(* steps over, and then back along Previous from the oldest.               *)
InChain ==
    IF ~word.waiting THEN {}
    ELSE LET last == LastFrom(word.head)
             down[b \in Threads] ==
                IF b = last THEN {b} ELSE {b} \cup down[blk[b].next]
         IN  down[word.head]

(* A shared/exclusive lock: every behaviour of the push lock is one of     *)
(* RWLock, so an exclusive owner is alone.                                 *)
RW == INSTANCE RWLock
MutualExclusion == RW!Spec

(* Every thread that sleeps, or is about to, is either in the chain or     *)
(* among the blocks a waking thread has taken off it: it is not forgotten. *)
Detached(t) ==
    LET up[b \in Threads] ==
          IF blk[b].previous = Null THEN {b} ELSE {b} \cup up[blk[b].previous]
    IN  IF cur[t] = Null THEN {} ELSE up[cur[t]]

Unsignaled(t) ==
    \/ pc[t] = "sleep" /\ ~blk[t].gate
    \/ pc[t] = "gate" /\ blk[t].wait

NobodyForgotten ==
    \A t \in Threads : Unsignaled(t) =>
       t \in InChain \cup UNION {Detached(u) : u \in Threads}

(* The Waking bit is set exactly while one thread owns the chain.          *)
OneWaker ==
    /\ word.waking <=> \E t \in Threads : pc[t] \in {"optimize", "wake"}
    /\ \A t, u \in Threads :
          pc[t] \in {"optimize", "wake"} /\ pc[u] \in {"optimize", "wake"}
             => t = u

(* No wake-up is lost: when the lock is free and threads wait, the one     *)
(* that owns the chain is on its way to wake them, or one that waits no    *)
(* more is on its way to take the lock and wakes them when it releases it. *)
WakeUpIsDue ==
    /\ OneWaker
    /\ word.waiting /\ ~word.locked =>
          \/ word.waking
          \/ \E t \in Threads : \/ pc[t] = "tryread"
                                \/ pc[t] = "trycas" /\ ov[t] = word
                                \/ /\ want[t] \in {"shared", "excl", "waiton"}
                                   /\ t \notin InChain

(* The wait block of a thread lives on its stack: it is not in the chain,  *)
(* and no waking thread is about to use it, once the thread has left its   *)
(* wait.                                                                   *)
InWait(t) == pc[t] \in {"gate", "sleep", "optimize", "wake", "signal",
                        "gatesignal"} /\ want[t] # "release"

NoDeadBlock ==
    \A t \in Threads : ~InWait(t) =>
       t \notin InChain \cup UNION {Detached(u) : u \in Threads}

(* The assertions of the code, except the one of the simple unlock. *)
Assertions ==
    /\ \A t \in Threads :
         /\ pc[t] = "wake" => ~wv[t].multiple
         /\ pc[t] = "wake" /\ wv[t].locked => wv[t].waiting
         /\ pc[t] = "signal" => ~blk[cur[t]].signaled
         /\ pc[t] = "sleep" /\ blk[t].gate => blk[t].signaled
         /\ (pc[t] = "sleep" /\ blk[t].gate) \/ (pc[t] = "gate" /\ ~blk[t].wait)
               => blk[t].shareCount = 0
         /\ pc[t] = "rel" /\ ov[t].waiting /\ ov[t].multiple
               => /\ blk[LastFrom(ov[t].head)].shareCount > 0
                  /\ blk[LastFrom(ov[t].head)].exclusive
         /\ pc[t] = "unlock" => ov[t].locked
         /\ pc[t] = "unlock" => ov[t].waiting \/ ov[t].shared = 0
         /\ hold[t] = "shared" /\ pc[t] = "idle"
               => word.locked /\ (word.waiting \/ word.shared > 0)
         /\ hold[t] = "excl" /\ pc[t] = "idle"
               => word.locked /\ (word.waiting \/ word.shared = 0)

(* With several sharers the oldest block counts those that have still to   *)
(* leave; and what the code asserts of the words and the blocks it reads   *)
(* holds.                                                                  *)
ShareCountExact ==
    /\ TypeOK /\ Assertions
    /\ word.multiple =>
          blk[LastFrom(word.head)].shareCount =
             Cardinality({t \in Threads : hold[t] = "shared" /\ pc[t] # "relwait"})
=============================================================================
