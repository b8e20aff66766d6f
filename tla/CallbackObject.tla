--------------------------- MODULE CallbackObject ---------------------------
(***************************************************************************)
(* Callback objects, ntoskrnl/ex/callback.c: functions are registered with *)
(* an object, called when it is notified, and unregistered.  A section     *)
(* under the spin lock of the object is one step.  All objects share one   *)
(* notification event, which ends the waits of ExUnregisterCallback.       *)
(*                                                                         *)
(* The callers keep to their part: an object is used by those who have a   *)
(* reference, a handle is given to ExUnregisterCallback once, and not by   *)
(* the function that it stands for.                                        *)
(***************************************************************************)
EXTENDS Naturals, FiniteSets, FiniteSetsExt, Sequences

CONSTANTS Threads, Objects, Registrations, NoObject, NoRegistration,
          AllowMultipleCallbacks    \* the objects that do

VARIABLES RegisteredCallbacks,  \* the list of each object
          PointerCount,         \* the references to each object
          open,                 \* the objects whose creator has a reference
          reg,                  \* the memory of registrations
          ExpCallbackEvent,
          pc, cur               \* the registration a thread is busy with

vars == <<RegisteredCallbacks, PointerCount, open, reg, ExpCallbackEvent, pc, cur>>

Free == [CallbackObject |-> NoObject, Busy |-> 0, UnregisterWaiting |-> FALSE, handle |-> FALSE]

(* ExCreateCallback leaves its caller with a reference. *)
Init == /\ RegisteredCallbacks = [o \in Objects |-> <<>>]
        /\ PointerCount = [o \in Objects |-> 1]
        /\ open = Objects
        /\ reg = [r \in Registrations |-> Free]
        /\ ExpCallbackEvent = FALSE
        /\ pc = [t \in Threads |-> "idle"]
        /\ cur = [t \in Threads |-> NoRegistration]

Goto(t, l) == pc' = [pc EXCEPT ![t] = l]

Return(t) == Goto(t, "idle") /\ cur' = [cur EXCEPT ![t] = NoRegistration]

ObjectOf(t) == reg[cur[t]].CallbackObject

(* ObDereferenceObject *)
Dereferenced(o) == [PointerCount EXCEPT ![o] = @ - 1]

-----------------------------------------------------------------------------
(* ExRegisterCallback: an allocation that fails changes nothing.           *)

Allocate(t, o, r) ==
    /\ pc[t] = "idle"
    /\ o \in open
    /\ reg[r] = Free
    /\ PointerCount' = [PointerCount EXCEPT ![o] = @ + 1]
    /\ reg' = [reg EXCEPT ![r].CallbackObject = o]
    /\ cur' = [cur EXCEPT ![t] = r]
    /\ Goto(t, "insert")
    /\ UNCHANGED <<RegisteredCallbacks, open, ExpCallbackEvent>>

Insert(t) ==
    LET o == ObjectOf(t)
    IN  /\ pc[t] = "insert"
        /\ o \in AllowMultipleCallbacks \/ RegisteredCallbacks[o] = <<>>
        /\ RegisteredCallbacks' = [RegisteredCallbacks EXCEPT ![o] = Append(@, cur[t])]
        /\ reg' = [reg EXCEPT ![cur[t]].handle = TRUE]
        /\ Return(t)
        /\ UNCHANGED <<PointerCount, open, ExpCallbackEvent>>

Refuse(t) ==
    LET o == ObjectOf(t)
    IN  /\ pc[t] = "insert"
        /\ o \notin AllowMultipleCallbacks /\ RegisteredCallbacks[o] # <<>>
        /\ reg' = [reg EXCEPT ![cur[t]] = Free]
        /\ PointerCount' = Dereferenced(o)
        /\ Return(t)
        /\ UNCHANGED <<RegisteredCallbacks, open, ExpCallbackEvent>>

-----------------------------------------------------------------------------
(* ExNotifyCallback *)

(* The place of r in a list, *)
Place(list, r) == CHOOSE k \in 1 .. Len(list) : list[k] = r

(* and those behind it in the list of o (all, if there is no r) of the     *)
(* registrations that are not about to go, with g the memory of them.      *)
Behind(o, r, g) ==
    LET all  == RegisteredCallbacks[o]
        from == IF r = NoRegistration THEN 1 ELSE Place(all, r) + 1
    IN  {k \in from .. Len(all) : ~g[all[k]].UnregisterWaiting}

(* Mutant: a registration is not marked when it is called. *)
Unmarked(g, r) == g

MarkBusy(g, r) == [g EXCEPT ![r].Busy = @ + 1]

(* Go on behind r: call the next function, or return. *)
Proceed(t, o, r, g) ==
    LET places == Behind(o, r, g)
        next   == RegisteredCallbacks[o][Min(places)]
    IN  IF places = {}
        THEN reg' = g /\ cur' = [cur EXCEPT ![t] = NoRegistration]
        ELSE reg' = MarkBusy(g, next) /\ cur' = [cur EXCEPT ![t] = next]

(* The look at the list without the lock only saves the way. *)
Notify(t, o) ==
    /\ pc[t] = "idle"
    /\ o \in open
    /\ RegisteredCallbacks[o] # <<>>
    /\ Proceed(t, o, NoRegistration, reg)
    /\ Goto(t, IF Behind(o, NoRegistration, reg) = {} THEN "idle" ELSE "call")
    /\ UNCHANGED <<RegisteredCallbacks, PointerCount, open, ExpCallbackEvent>>

(* KeSetEvent ends the waits of all who wait. *)
Awakened == [t \in Threads |-> IF pc[t] = "asleep" THEN "lock" ELSE pc[t]]

(* The function has returned. *)
Called(t) ==
    LET r    == cur[t]
        o    == ObjectOf(t)
        g    == [reg EXCEPT ![r].Busy = @ - 1]
        set  == g[r].UnregisterWaiting /\ g[r].Busy = 0
    IN  /\ pc[t] = "call"
        /\ ExpCallbackEvent' = (set \/ ExpCallbackEvent)
        /\ Proceed(t, o, r, g)
        /\ pc' = [IF set THEN Awakened ELSE pc EXCEPT
                    ![t] = IF Behind(o, r, g) = {} THEN "idle" ELSE "call"]
        /\ UNCHANGED <<RegisteredCallbacks, PointerCount, open>>

-----------------------------------------------------------------------------
(* ExUnregisterCallback *)

Unregister(t, r) ==
    /\ pc[t] = "idle"
    /\ reg[r].handle
    /\ reg' = [reg EXCEPT ![r].handle = FALSE]
    /\ cur' = [cur EXCEPT ![t] = r]
    /\ Goto(t, "lock")
    /\ UNCHANGED <<RegisteredCallbacks, PointerCount, open, ExpCallbackEvent>>

(* Mutant: one call is not waited for. *)
InUseTwice(g) == g.Busy > 1

InUse(g) == g.Busy > 0

(* RemoveEntryList *)
Without(list, k) == SubSeq(list, 1, k - 1) \o SubSeq(list, k + 1, Len(list))

Remove(t) ==
    LET o == ObjectOf(t)
    IN  /\ pc[t] = "lock"
        /\ IF InUse(reg[cur[t]])
           THEN /\ reg' = [reg EXCEPT ![cur[t]].UnregisterWaiting = TRUE]
                /\ Goto(t, "clear")
                /\ UNCHANGED RegisteredCallbacks
           ELSE /\ RegisteredCallbacks' = [RegisteredCallbacks EXCEPT
                                             ![o] = Without(@, Place(@, cur[t]))]
                /\ Goto(t, "free")
                /\ UNCHANGED reg
        /\ UNCHANGED <<PointerCount, open, ExpCallbackEvent, cur>>

ClearEvent(t) ==
    /\ pc[t] = "clear"
    /\ ExpCallbackEvent' = FALSE
    /\ Goto(t, "wait")
    /\ UNCHANGED <<RegisteredCallbacks, PointerCount, open, reg, cur>>

Wait(t) ==
    /\ pc[t] = "wait"
    /\ Goto(t, IF ExpCallbackEvent THEN "lock" ELSE "asleep")
    /\ UNCHANGED <<RegisteredCallbacks, PointerCount, open, reg, ExpCallbackEvent, cur>>

Delete(t) ==
    /\ pc[t] = "free"
    /\ reg' = [reg EXCEPT ![cur[t]] = Free]
    /\ PointerCount' = Dereferenced(ObjectOf(t))
    /\ Return(t)
    /\ UNCHANGED <<RegisteredCallbacks, open, ExpCallbackEvent>>

(* Whoever created the object has no more use for it, and nor do those who *)
(* notify it.                                                              *)
Close(o) ==
    /\ o \in open
    /\ \A t \in Threads : pc[t] = "call" => ObjectOf(t) # o
    /\ open' = open \ {o}
    /\ PointerCount' = Dereferenced(o)
    /\ UNCHANGED <<RegisteredCallbacks, reg, ExpCallbackEvent, pc, cur>>

-----------------------------------------------------------------------------
Call(t) == \/ \E o \in Objects : Notify(t, o) \/ \E r \in Registrations : Allocate(t, o, r)
           \/ \E r \in Registrations : Unregister(t, r)

Inside(t) == \/ Insert(t) \/ Refuse(t) \/ Called(t)
             \/ Remove(t) \/ ClearEvent(t) \/ Wait(t) \/ Delete(t)

Next == \/ \E t \in Threads : Call(t) \/ Inside(t)
        \/ \E o \in Objects : Close(o)

Spec == Init /\ [][Next]_vars

(* The functions that are called return, and so do the spin locks. *)
FairSpec == Spec /\ \A t \in Threads : WF_vars(Inside(t))

-----------------------------------------------------------------------------
(* Properties.                                                             *)

CallersOf(r) == {t \in Threads : pc[t] = "call" /\ cur[t] = r}

Listed(r) == \E o \in Objects : \E i \in DOMAIN RegisteredCallbacks[o] :
                RegisteredCallbacks[o][i] = r

(* Busy counts the calls of a function, however many notify the object at  *)
(* once, and whatever is registered and unregistered meanwhile.            *)
BusyExact == \A r \in Registrations : reg[r].Busy = Cardinality(CallersOf(r))

(* A function runs only while it is in the list: when ExUnregisterCallback *)
(* removes and frees it, no call of it is left, and no walk through the    *)
(* list goes on from it.                                                   *)
CalledWhileListed == \A r \in Registrations : CallersOf(r) # {} => Listed(r)

(* An object has a reference for its creator and one for each registration *)
(* until its memory is gone, so that it is not deleted before the last     *)
(* function is unregistered (the ASSERT of ExpDeleteCallback).             *)
ReferencesExact ==
    \A o \in Objects :
       /\ PointerCount[o] = Cardinality({r \in Registrations : reg[r].CallbackObject = o})
                             + (IF o \in open THEN 1 ELSE 0)
       /\ PointerCount[o] = 0 => RegisteredCallbacks[o] = <<>>

(* What is counted for a registration and for its object, together. *)
CallbackCounts == BusyExact /\ ReferencesExact

(* ExUnregisterCallback "Deregisters a CallBack": once the calls that are  *)
(* under way have returned, it does, too.                                  *)
UnregisterReturns ==
    \A t \in Threads : pc[t] = "lock" ~> pc[t] = "idle"
=============================================================================
