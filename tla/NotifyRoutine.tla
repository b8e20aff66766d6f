--------------------------- MODULE NotifyRoutine ---------------------------
(***************************************************************************)
(* The routines that drivers register to be told of processes, threads and *)
(* images: ps/psnotify.c and ps_x.h, over the callback blocks of           *)
(* ex/callback.c and the fast references of ex.h.                          *)
(*                                                                         *)
(* A slot holds a pointer to a block and, in the same word, MaxFastRefs or *)
(* fewer references to it that have been taken in advance.  A loop around  *)
(* a compare-exchange of that word is one step, its last.  Each block has  *)
(* rundown protection, used as RundownSpec promises it: references are     *)
(* refused once the block is being run down, which ends with the last one. *)
(* Nobody takes ExpCallBackFlush, so that there is never a wait for it.    *)
(***************************************************************************)
EXTENDS Integers, FiniteSets, Totals

CONSTANTS Threads, Routines, Blocks, NoBlock, NoRoutine,
          MaxNotify,    \* PSP_MAX_CREATE_THREAD_NOTIFY, ...
          MaxFastRefs,
          Families      \* which of "process", "thread" and "image"

ASSUME ConstantsAssumption ==
    /\ IsFiniteSet(Threads)
    /\ MaxNotify \in Nat \ {0} /\ MaxFastRefs \in Nat \ {0}
    /\ NoBlock \notin Blocks /\ NoRoutine \notin Routines
    /\ Families \subseteq {"process", "thread", "image"}

VARIABLES family,
          slot,         \* EX_CALLBACK: a block and the references left
          mem,          \* the memory of blocks
          RoutineCount,
          pc, op,       \* what a thread is doing
          i, CallBack,  \* its slot, and the block it has found there
          routine,      \* the routine to add or to remove
          Count         \* the references it has to give back, or has to give

vars == <<family, slot, mem, RoutineCount, pc, op, i, CallBack, routine, Count>>

EmptySlot == [block |-> NoBlock, refs |-> 0]

Free == [function |-> NoRoutine, refs |-> 0, down |-> FALSE]

Init == /\ family \in Families
        /\ slot = [k \in 1 .. MaxNotify |-> EmptySlot]
        /\ mem = [b \in Blocks |-> Free]
        /\ RoutineCount = 0
        /\ pc = [t \in Threads |-> "idle"]
        /\ op = [t \in Threads |-> "none"]
        /\ i = [t \in Threads |-> 1]
        /\ CallBack = [t \in Threads |-> NoBlock]
        /\ routine = [t \in Threads |-> NoRoutine]
        /\ Count = [t \in Threads |-> 0]

Goto(t, l) == pc' = [pc EXCEPT ![t] = l]

Begin(t, o, f, b, l) ==
    /\ pc[t] = "idle"
    /\ op' = [op EXCEPT ![t] = o]
    /\ routine' = [routine EXCEPT ![t] = f]
    /\ CallBack' = [CallBack EXCEPT ![t] = b]
    /\ Goto(t, l)

Return(t) ==
    /\ Goto(t, "idle")
    /\ op' = [op EXCEPT ![t] = "none"]
    /\ i' = [i EXCEPT ![t] = 1]
    /\ CallBack' = [CallBack EXCEPT ![t] = NoBlock]
    /\ routine' = [routine EXCEPT ![t] = NoRoutine]

(* The next round of the loop over the slots, at l; TRUE after the last. *)
NextSlot(t, l) ==
    IF i[t] < MaxNotify
    THEN /\ i' = [i EXCEPT ![t] = @ + 1]
         /\ CallBack' = [CallBack EXCEPT ![t] = IF op[t] = "add" THEN @ ELSE NoBlock]
         /\ Goto(t, l)
         /\ UNCHANGED <<op, routine>>
    ELSE Return(t)

-----------------------------------------------------------------------------
(* PsSetCreateProcessNotifyRoutine, PsSetCreateThreadNotifyRoutine,        *)
(* PsSetLoadImageNotifyRoutine: an allocation that fails changes nothing.  *)

Add(t, f) ==
    \E b \in Blocks :
       /\ mem[b] = Free
       /\ mem' = [mem EXCEPT ![b].function = f]
       /\ Begin(t, "add", f, b, "fill")
       /\ UNCHANGED <<family, slot, RoutineCount, i, Count>>

(* The references to a block that is in a slot. *)
TakenInAdvance == MaxFastRefs + 1

(* ExCompareExchangeCallBack: nobody else knows the block, and if the slot *)
(* is not empty, the references to it are given back.                      *)
Fill(t) ==
    /\ pc[t] = "fill"
    /\ slot[i[t]].block = NoBlock
    /\ slot' = [slot EXCEPT ![i[t]] = [block |-> CallBack[t], refs |-> MaxFastRefs]]
    /\ mem' = [mem EXCEPT ![CallBack[t]].refs = @ + TakenInAdvance]
    /\ Goto(t, "countup")
    /\ UNCHANGED <<family, RoutineCount, op, i, CallBack, routine, Count>>

SlotTaken(t) ==
    /\ pc[t] = "fill"
    /\ slot[i[t]].block # NoBlock
    /\ mem' = [mem EXCEPT ![CallBack[t]] = IF i[t] = MaxNotify THEN Free ELSE @]
    /\ NextSlot(t, "fill")
    /\ UNCHANGED <<family, slot, RoutineCount, Count>>

CountUp(t) ==
    /\ pc[t] = "countup"
    /\ RoutineCount' = RoutineCount + 1
    /\ Return(t)
    /\ UNCHANGED <<family, slot, mem, Count>>

-----------------------------------------------------------------------------
(* PspRunCreateProcessNotifyRoutines and so on; and the removals. *)

Run(t) ==
    /\ family = "image" \/ RoutineCount # 0
    /\ Begin(t, "run", NoRoutine, NoBlock, "reference")
    /\ UNCHANGED <<family, slot, mem, RoutineCount, i, Count>>

Remove(t, f) ==
    /\ Begin(t, "remove", f, NoBlock, "reference")
    /\ UNCHANGED <<family, slot, mem, RoutineCount, i, Count>>

(* ExReferenceCallBackBlock: an empty slot is passed over, and so is one   *)
(* whose references are used up ("Unhandled callback race condition").     *)
Skip(t) ==
    /\ pc[t] = "reference"
    /\ slot[i[t]].block = NoBlock \/ slot[i[t]].refs = 0
    /\ NextSlot(t, "reference")
    /\ UNCHANGED <<family, slot, mem, RoutineCount, Count>>

Reference(t) ==
    LET s == slot[i[t]]
    IN  /\ pc[t] = "reference"
        /\ s.block # NoBlock /\ s.refs > 0
        /\ slot' = [slot EXCEPT ![i[t]].refs = @ - 1]
        /\ CallBack' = [CallBack EXCEPT ![t] = s.block]
        /\ Goto(t, IF s.refs = 1 THEN "refill" ELSE "use")
        /\ UNCHANGED <<family, mem, RoutineCount, op, i, routine, Count>>

(* It was the last one in the word: get new ones... *)
Refill(t) ==
    LET b == CallBack[t]
    IN  /\ pc[t] = "refill"
        /\ IF mem[b].down
           THEN Goto(t, "use") /\ UNCHANGED <<mem, Count>>
           ELSE /\ mem' = [mem EXCEPT ![b].refs = @ + MaxFastRefs]
                /\ Count' = [Count EXCEPT ![t] = MaxFastRefs]
                /\ Goto(t, "insert")
        /\ UNCHANGED <<family, slot, RoutineCount, op, i, CallBack, routine>>

Inserts(s, b) == s.block = b /\ s.refs = 0

(* ... and put them there: ExInsertFastReference, or give them back. *)
Insert(t) ==
    /\ pc[t] = "insert"
    /\ IF Inserts(slot[i[t]], CallBack[t])
       THEN /\ slot' = [slot EXCEPT ![i[t]].refs = MaxFastRefs]
            /\ Count' = [Count EXCEPT ![t] = 0]
            /\ Goto(t, "use")
       ELSE Goto(t, "backdown") /\ UNCHANGED <<slot, Count>>
    /\ UNCHANGED <<family, mem, RoutineCount, op, i, CallBack, routine>>

GiveBack(t, l) ==
    /\ mem' = [mem EXCEPT ![CallBack[t]].refs = @ - Count[t]]
    /\ Count' = [Count EXCEPT ![t] = 0]
    /\ Goto(t, l)
    /\ UNCHANGED <<family, slot, RoutineCount, op, i, CallBack, routine>>

Backdown(t) == pc[t] = "backdown" /\ GiveBack(t, "use")

(* ExDoCallBack: the function is called, and returns. *)
Use(t) ==
    /\ pc[t] = "use"
    /\ op[t] = "run"
    /\ Goto(t, "dereference")
    /\ UNCHANGED <<family, slot, mem, RoutineCount, op, i, CallBack, routine, Count>>

(* The removals look for their routine.  PsSetCreateProcessNotifyRoutine   *)
(* keeps the reference to a block that is not the one.                     *)
Compare(t) ==
    /\ pc[t] = "use"
    /\ op[t] = "remove"
    /\ IF mem[CallBack[t]].function = routine[t]
       THEN Goto(t, "swap") /\ UNCHANGED <<op, i, CallBack, routine>>
       ELSE IF family = "process" THEN NextSlot(t, "reference")
            ELSE Goto(t, "dereference") /\ UNCHANGED <<op, i, CallBack, routine>>
    /\ UNCHANGED <<family, slot, mem, RoutineCount, Count>>

(* What is to be given back when a block has left its slot. *)
ToGiveBack(s) == s.refs + 1

(* ExCompareExchangeCallBack, with no new block. *)
Swap(t) ==
    /\ pc[t] = "swap"
    /\ IF slot[i[t]].block = CallBack[t]
       THEN /\ slot' = [slot EXCEPT ![i[t]] = EmptySlot]
            /\ Count' = [Count EXCEPT ![t] = ToGiveBack(slot[i[t]])]
            /\ Goto(t, "giveback")
       ELSE Goto(t, "dereference") /\ UNCHANGED <<slot, Count>>
    /\ UNCHANGED <<family, mem, RoutineCount, op, i, CallBack, routine>>

AfterSwap(t) == pc[t] = "giveback" /\ GiveBack(t, "countdown")

CountDown(t) ==
    /\ pc[t] = "countdown"
    /\ RoutineCount' = RoutineCount - 1
    /\ op' = [op EXCEPT ![t] = "removed"]
    /\ Goto(t, "dereference")
    /\ UNCHANGED <<family, slot, mem, i, CallBack, routine, Count>>

(* Where a routine goes on when it has dereferenced its block. *)
Dereferenced(t) ==
    IF op[t] = "removed" THEN Goto(t, "wait") /\ UNCHANGED <<op, i, CallBack, routine>>
    ELSE NextSlot(t, "reference")

(* Mutant: the word is not compared with the block. *)
TakesBackAny(s, b) == s.block # NoBlock /\ s.refs < MaxFastRefs

TakesBack(s, b) == s.block = b /\ s.refs < MaxFastRefs

(* ExDereferenceCallBackBlock: back into the word, if it is the same block *)
(* and there is room (ExReleaseFastReference), or else to the block.       *)
Dereference(t) ==
    /\ pc[t] = "dereference"
    /\ IF TakesBack(slot[i[t]], CallBack[t])
       THEN slot' = [slot EXCEPT ![i[t]].refs = @ + 1] /\ Dereferenced(t)
       ELSE Goto(t, "release") /\ UNCHANGED <<slot, op, i, CallBack, routine>>
    /\ UNCHANGED <<family, mem, RoutineCount, Count>>

ReleaseRundown(t) ==
    /\ pc[t] = "release"
    /\ mem' = [mem EXCEPT ![CallBack[t]].refs = @ - 1]
    /\ Dereferenced(t)
    /\ UNCHANGED <<family, slot, RoutineCount, Count>>

(* ExWaitForCallBacks *)
RunDown(t) ==
    /\ pc[t] = "wait"
    /\ mem' = [mem EXCEPT ![CallBack[t]].down = TRUE]
    /\ Goto(t, "waiting")
    /\ UNCHANGED <<family, slot, RoutineCount, op, i, CallBack, routine, Count>>

(* ExFreeCallBack, when the wait is over. *)
FreeCallBack(t) ==
    /\ pc[t] = "waiting"
    /\ mem[CallBack[t]].refs = 0
    /\ mem' = [mem EXCEPT ![CallBack[t]] = Free]
    /\ Return(t)
    /\ UNCHANGED <<family, slot, RoutineCount, Count>>

-----------------------------------------------------------------------------
Call(t) == Run(t) \/ \E f \in Routines : Add(t, f) \/ Remove(t, f)

Inside(t) == \/ Fill(t) \/ SlotTaken(t) \/ CountUp(t)
             \/ Skip(t) \/ Reference(t) \/ Refill(t) \/ Insert(t) \/ Backdown(t)
             \/ Use(t) \/ Compare(t) \/ Swap(t) \/ AfterSwap(t) \/ CountDown(t)
             \/ Dereference(t) \/ ReleaseRundown(t) \/ RunDown(t) \/ FreeCallBack(t)

Next == \E t \in Threads : Call(t) \/ Inside(t)

Spec == Init /\ [][Next]_vars

-----------------------------------------------------------------------------
(* Properties.                                                             *)

(* The threads that have a reference to block b. *)
Holders(b) ==
    {t \in Threads : /\ CallBack[t] = b
                     /\ pc[t] \in {"refill", "insert", "backdown", "use", "swap", "giveback",
                                   "countdown", "dereference", "release"}}

(* The references to a block are those in the word beside its pointer, the *)
(* one for the pointer, and those of threads, which may have more than one *)
(* that they are to put into a word or to give back.                       *)
InWord(k, b) == IF slot[k].block = b THEN slot[k].refs + 1 ELSE 0

InHands(t, b) == IF t \in Holders(b) THEN 1 + Count[t] ELSE 0

References(b) == Total([k \in 1 .. MaxNotify |-> InWord(k, b)])
                 + Total([t \in Threads |-> InHands(t, b)])

(* They are counted; only what PsSetCreateProcessNotifyRoutine leaves      *)
(* behind is counted and nobody's.                                         *)
RefsExact == \A b \in Blocks : /\ mem[b].refs >= References(b)
                               /\ family # "process" => mem[b].refs = References(b)

(* No routine runs, or is looked at, in a block that has been freed or     *)
(* that the removal of the routine has waited for, and none is in a slot:  *)
(* when a removal returns, the driver can be unloaded.                     *)
NoUseAfterFree ==
    \A b \in Blocks :
       Holders(b) # {} \/ (\E k \in 1 .. MaxNotify : slot[k].block = b) =>
          mem[b].function # NoRoutine

(* The number of routines, which lets a notification pass over the slots,  *)
(* is the number of slots that are used, but for the threads that have     *)
(* changed one and have still to count it.                                 *)
CountExact ==
    RoutineCount = Cardinality({k \in 1 .. MaxNotify : slot[k].block # NoBlock})
                   - Cardinality({t \in Threads : pc[t] = "countup"})
                   + Cardinality({t \in Threads : pc[t] \in {"giveback", "countdown"}})

(* ASSERT(FALSE) in ExReferenceCallBackBlock is not reached: a slot that   *)
(* has a block has a reference to give.                                    *)
NeverUsedUp ==
    \A t \in Threads : pc[t] = "reference" /\ slot[i[t]].block # NoBlock => slot[i[t]].refs > 0
=============================================================================
