----------------------------- MODULE ObjectLife -----------------------------
(***************************************************************************)
(* The life of a named object: ob/oblife.c, obref.c, obhandle.c, obname.c  *)
(* and obdir.c of ntoskrnl.  An object has a pointer count, a handle count *)
(* and a count of those that use its name; it is in its directory while it *)
(* has a handle or is permanent, and is deleted when nothing points to it, *)
(* at once, or by the reaper if APCs are disabled.                         *)
(*                                                                         *)
(* todo is what a thread has left to do of the routine it is in, the       *)
(* dereferences its callers make included.  The lock of an object and the  *)
(* shared lock of the directory are held for one step; the exclusive one   *)
(* of the directory from the insertion of an object to its first handle.   *)
(* There is one directory, which is not deleted.                           *)
(***************************************************************************)
EXTENDS Integers, Sequences, FiniteSets

CONSTANTS Threads, Objects, Name, NoObject, NoThread

ASSUME ConstantsAssumption ==
    /\ IsFiniteSet(Threads) /\ IsFiniteSet(Objects)
    /\ DOMAIN Name = Objects
    /\ NoObject \notin Objects /\ NoThread \notin Threads

VARIABLES header,       \* the header of each object, with its name information
          directory,    \* the objects in the directory
          Lock,         \* who has the directory locked exclusively
          handles,      \* how many handles to each object are in handle tables
          todo, seen,   \* what a thread is to do, and the count it has read
          leaked,       \* references that were not given back
          ReaperList,   \* the objects to delete, and how the list ends: 0 or 1
          queued,       \* how often the reaper's work item is queued
          reaper, reaping   \* what the reaper is doing, and with which objects

threadVars == <<todo, seen>>
reaperVars == <<ReaperList, queued, reaper, reaping>>
vars == <<header, directory, Lock, handles, threadVars, leaked, reaperVars>>

None == [live |-> FALSE, PointerCount |-> 0, HandleCount |-> 0,
         QueryReferences |-> 0, Directory |-> FALSE, Permanent |-> FALSE]

Init == /\ header = [o \in Objects |-> None]
        /\ directory = {}
        /\ Lock = NoThread
        /\ handles = [o \in Objects |-> 0]
        /\ todo = [t \in Threads |-> <<>>]
        /\ seen = [t \in Threads |-> <<>>]
        /\ leaked = [o \in Objects |-> 0]
        /\ ReaperList = [items |-> <<>>, end |-> 0]
        /\ queued = 0
        /\ reaper = "idle"
        /\ reaping = <<>>

-----------------------------------------------------------------------------
Op(op, o) == [op |-> op, o |-> o]

(* The steps of ObpCreateHandle: with the object that was looked up, if    *)
(* any, and the one that ObInsertObject is to insert, if it is the caller. *)
HandleOp(op, o, context, new) == [op |-> op, o |-> o, context |-> context, new |-> new]

At(t, op) == todo[t] # <<>> /\ Head(todo[t]).op = op

Object(t) == Head(todo[t]).o

(* What is to be done in place of the step that is done. *)
Then(t, ops) == todo' = [todo EXCEPT ![t] = ops \o Tail(@)]

Begin(t, ops) == todo[t] = <<>> /\ todo' = [todo EXCEPT ![t] = ops]

Drop(o) == <<Op("name", o), Op("object", o)>>

(* ObpReleaseLookupContextObject *)
ReleaseContext(b) == IF b = NoObject THEN <<>> ELSE Drop(b)

(* ObpLookupEntryDirectory: the objects of that name, at most one, and the *)
(* references that the context then holds.                                 *)
Found(o) == {b \in directory : Name[b] = Name[o]}

(* Mutant: only the name is referenced. *)
LookedUpName(b, n) == [header EXCEPT ![b].QueryReferences = @ + 1]

LookedUp(b, n) == [header EXCEPT ![b].QueryReferences = @ + 1, ![b].PointerCount = @ + n]

-----------------------------------------------------------------------------
(* ObCreateObject, and ObInsertObject which refers to the name.            *)
Create(t, o, permanent) ==
    /\ header[o] = None
    /\ header' = [header EXCEPT ![o] = [None EXCEPT !.live = TRUE, !.PointerCount = 1,
                                          !.QueryReferences = 2, !.Permanent = permanent]]
    /\ Begin(t, <<Op("insert", o)>>)
    /\ UNCHANGED <<directory, Lock, handles, seen, leaked, reaperVars>>

(* The lookup under the exclusive lock: there is none of that name... *)
Insert(t) ==
    LET o == Object(t)
    IN  /\ At(t, "insert")
        /\ Lock = NoThread
        /\ Found(o) = {}
        /\ header' = [header EXCEPT ![o].PointerCount = @ + 1, ![o].Directory = TRUE]
        /\ directory' = directory \cup {o}
        /\ Lock' = t
        /\ Then(t, <<HandleOp("count", o, NoObject, o)>>)
        /\ UNCHANGED <<handles, seen, leaked, reaperVars>>

(* ... (but no memory or no access), or there is one, which is opened with *)
(* OBJ_OPENIF...                                                           *)
InsertFails(t) ==
    /\ At(t, "insert")
    /\ Lock = NoThread
    /\ Found(Object(t)) = {}
    /\ Then(t, Drop(Object(t)))
    /\ UNCHANGED <<header, directory, Lock, handles, seen, leaked, reaperVars>>

OpenIf(t) ==
    /\ At(t, "insert")
    /\ Lock = NoThread
    /\ \E b \in Found(Object(t)) :
          /\ header' = LookedUp(b, 1)
          /\ Then(t, <<HandleOp("count", b, b, Object(t))>>)
    /\ Lock' = t
    /\ UNCHANGED <<directory, handles, seen, leaked, reaperVars>>

(* ... or is in the way. *)
Collision(t) ==
    /\ At(t, "insert")
    /\ Lock = NoThread
    /\ \E b \in Found(Object(t)) :
          header' = LookedUp(b, 1) /\ Then(t, Drop(b) \o Drop(Object(t)))
    /\ UNCHANGED <<directory, Lock, handles, seen, leaked, reaperVars>>

(* ObOpenObjectByName: the context and the handle to be get a reference... *)
OpenByName(t, o) ==
    /\ Lock = NoThread
    /\ \E b \in Found(o) :
          header' = LookedUp(b, 2) /\ Begin(t, <<HandleOp("count", b, b, NoObject)>>)
    /\ UNCHANGED <<directory, Lock, handles, seen, leaked, reaperVars>>

(* ... or it is of another type. *)
OpenFails(t, o) ==
    /\ Lock = NoThread
    /\ \E b \in Found(o) : header' = LookedUp(b, 1) /\ Begin(t, Drop(b))
    /\ UNCHANGED <<directory, Lock, handles, seen, leaked, reaperVars>>

(* ObReferenceObjectByHandle, to use the object, to change its Permanent   *)
(* flag or to open it again.                                               *)
Reference(t, o, ops) ==
    /\ handles[o] > 0
    /\ header' = [header EXCEPT ![o].PointerCount = @ + 1]
    /\ Begin(t, ops \o <<Op("object", o)>>)
    /\ UNCHANGED <<directory, Lock, handles, seen, leaked, reaperVars>>

(* ObpSetPermanentObject *)
MakePermanent(t) ==
    /\ At(t, "permanent")
    /\ header' = [header EXCEPT ![Object(t)].Permanent = TRUE]
    /\ Then(t, <<>>)
    /\ UNCHANGED <<directory, Lock, handles, seen, leaked, reaperVars>>

(* Mutant: the name of an object that nobody has open is left. *)
TemporaryOnly(o) == <<>>

TemporaryThen(o) == <<Op("check", o)>>

MakeTemporary(t) ==
    /\ At(t, "temporary")
    /\ header' = [header EXCEPT ![Object(t)].Permanent = FALSE]
    /\ Then(t, TemporaryThen(Object(t)))
    /\ UNCHANGED <<directory, Lock, handles, seen, leaked, reaperVars>>

OpenByPointer(t) ==
    /\ At(t, "open")
    /\ header' = [header EXCEPT ![Object(t)].PointerCount = @ + 1]
    /\ Then(t, <<HandleOp("count", Object(t), NoObject, NoObject)>>)
    /\ UNCHANGED <<directory, Lock, handles, seen, leaked, reaperVars>>

-----------------------------------------------------------------------------
(* ObpCreateHandle *)

(* What the caller does when there is a handle, and when there is none.    *)
Inserted(new) == IF new = NoObject THEN <<>> ELSE Drop(new)

NotInserted(h) ==
    IF h.new = NoObject THEN <<Op("object", h.o)>> ELSE <<Op("check", h.new)>> \o Drop(h.new)

Unlock(t) == Lock' = IF Lock = t THEN NoThread ELSE Lock

(* ObpIncrementHandleCount *)
Count(t) ==
    LET h == Head(todo[t])
    IN  /\ At(t, "count")
        /\ header' = [header EXCEPT ![h.o].HandleCount = @ + 1]
        /\ Then(t, <<[h EXCEPT !.op = "release"]>>)
        /\ UNCHANGED <<directory, Lock, handles, seen, leaked, reaperVars>>

CountFails(t) ==
    LET h == Head(todo[t])
    IN  /\ At(t, "count")
        /\ Unlock(t)
        /\ Then(t, ReleaseContext(h.context) \o NotInserted(h))
        /\ UNCHANGED <<header, directory, handles, seen, leaked, reaperVars>>

(* Mutant: the handle is to have the reference of the context. *)
NoReferences(h) == 0

AdditionalReferences(h) == IF h.new = NoObject THEN 0 ELSE 1

Release(t) ==
    LET h == Head(todo[t])
    IN  /\ At(t, "release")
        /\ header' = [header EXCEPT ![h.o].PointerCount = @ + AdditionalReferences(h)]
        /\ Unlock(t)
        /\ Then(t, ReleaseContext(h.context)
                   \o <<[h EXCEPT !.op = "create", !.context = NoObject]>>)
        /\ UNCHANGED <<directory, handles, seen, leaked, reaperVars>>

(* ExCreateHandle *)
CreateHandle(t) ==
    LET h == Head(todo[t])
    IN  /\ At(t, "create")
        /\ handles' = [handles EXCEPT ![h.o] = @ + 1]
        /\ Then(t, Inserted(h.new))
        /\ UNCHANGED <<header, directory, Lock, seen, leaked, reaperVars>>

DropAdditional(h) == IF h.new = NoObject THEN <<>> ELSE <<Op("object", h.o)>>

BackOut(h) == <<Op("uncount", h.o)>> \o DropAdditional(h)

CreateFails(t) ==
    LET h == Head(todo[t])
    IN  /\ At(t, "create")
        /\ Then(t, BackOut(h) \o NotInserted(h))
        /\ UNCHANGED <<header, directory, Lock, handles, seen, leaked, reaperVars>>

-----------------------------------------------------------------------------
(* ObpCloseHandleTableEntry *)

Close(t, o) ==
    /\ handles[o] > 0
    /\ handles' = [handles EXCEPT ![o] = @ - 1]
    /\ Begin(t, <<Op("uncount", o), Op("object", o)>>)
    /\ UNCHANGED <<header, directory, Lock, seen, leaked, reaperVars>>

(* ObpDecrementHandleCount *)
Uncount(t) ==
    /\ At(t, "uncount")
    /\ header' = [header EXCEPT ![Object(t)].HandleCount = @ - 1]
    /\ Then(t, <<Op("check", Object(t))>>)
    /\ UNCHANGED <<directory, Lock, handles, seen, leaked, reaperVars>>

(* ObpDeleteNameCheck: a look without a lock, with a reference to the name *)
Check(t) ==
    LET o == Object(t)
    IN  /\ At(t, "check")
        /\ IF header[o].QueryReferences = 0
           THEN Then(t, <<>>) /\ UNCHANGED header
           ELSE /\ header' = [header EXCEPT ![o].QueryReferences = @ + 1]
                /\ Then(t, IF /\ header[o].HandleCount = 0
                              /\ header[o].Directory
                              /\ ~ header[o].Permanent
                           THEN <<Op("lookup", o)>>
                           ELSE <<Op("name", o)>>)
        /\ UNCHANGED <<directory, Lock, handles, seen, leaked, reaperVars>>

(* Mutant: the first look is trusted. *)
CanBeDeletedStill(o) == TRUE

CanBeDeleted(o) == header[o].HandleCount = 0 /\ ~ header[o].Permanent

(* What has the name is not compared with the object: it may be another.   *)
(* If it goes, so does the reference of the directory to it.               *)
LookupAndDelete(t) ==
    LET o == Object(t)
    IN  /\ At(t, "lookup")
        /\ Lock = NoThread
        /\ \E b \in Found(o) :
              /\ header' = LookedUp(b, 1)
              /\ IF CanBeDeleted(o)
                 THEN /\ directory' = directory \ {b}
                      /\ Then(t, Drop(b) \o <<Op("name", o), Op("name", o), Op("object", b)>>)
                 ELSE Then(t, Drop(b) \o <<Op("name", o)>>) /\ UNCHANGED directory
        /\ UNCHANGED <<Lock, handles, seen, leaked, reaperVars>>

LookupNothing(t) ==
    /\ At(t, "lookup")
    /\ Lock = NoThread
    /\ Found(Object(t)) = {}
    /\ Then(t, <<Op("name", Object(t))>>)
    /\ UNCHANGED <<header, directory, Lock, handles, seen, leaked, reaperVars>>

(* ObpDereferenceNameInfo: the last one drops the directory. *)
DereferenceName(t) ==
    LET o == Object(t)
    IN  /\ At(t, "name")
        /\ header' = [header EXCEPT ![o].QueryReferences = @ - 1,
                                    ![o].Directory = @ /\ header[o].QueryReferences # 1]
        /\ Then(t, <<>>)
        /\ UNCHANGED <<directory, Lock, handles, seen, leaked, reaperVars>>

-----------------------------------------------------------------------------
(* ObfDereferenceObject: the two counts are compared first, and read one   *)
(* after the other, in either order; if they look wrong, nothing is done.  *)

Counts == {"PointerCount", "HandleCount"}

Look(t, count) ==
    /\ At(t, "object")
    /\ seen[t] = <<>>
    /\ seen' = [seen EXCEPT ![t] = <<count, header[Object(t)][count]>>]
    /\ UNCHANGED <<header, directory, Lock, handles, todo, leaked, reaperVars>>

Misbehaving(t) ==
    IF seen[t][1] = "PointerCount" THEN seen[t][2] < header[Object(t)].HandleCount
                                   ELSE header[Object(t)].PointerCount < seen[t][2]

(* KeAreAllApcsDisabled *)
Deletion == {"delete", "defer"}

Dereference(t) ==
    LET o == Object(t)
    IN  /\ At(t, "object")
        /\ seen[t] # <<>>
        /\ seen' = [seen EXCEPT ![t] = <<>>]
        /\ IF Misbehaving(t)
           THEN leaked' = [leaked EXCEPT ![o] = @ + 1] /\ Then(t, <<>>) /\ UNCHANGED header
           ELSE /\ header' = [header EXCEPT ![o].PointerCount = @ - 1]
                /\ IF header[o].PointerCount = 1
                   THEN \E d \in Deletion : Then(t, <<Op(d, o)>>)
                   ELSE Then(t, <<>>)
                /\ UNCHANGED leaked
        /\ UNCHANGED <<directory, Lock, handles, reaperVars>>

(* ObpDeleteObject *)
Deleted(o) == header' = [header EXCEPT ![o] = None] /\ leaked' = [leaked EXCEPT ![o] = 0]

Delete(t) ==
    /\ At(t, "delete")
    /\ Deleted(Object(t))
    /\ Then(t, <<>>)
    /\ UNCHANGED <<directory, Lock, handles, seen, reaperVars>>

(* Mutant: the work item is queued for every object. *)
QueuesAlways == TRUE

(* The list ends with 1 while the reaper is at work. *)
Queues == ReaperList = [items |-> <<>>, end |-> 0]

(* ObpDeferObjectDeletion *)
Defer(t) ==
    /\ At(t, "defer")
    /\ ReaperList' = [ReaperList EXCEPT !.items = <<Object(t)>> \o @]
    /\ Then(t, IF Queues THEN <<Op("queue", Object(t))>> ELSE <<>>)
    /\ UNCHANGED <<header, directory, Lock, handles, seen, leaked, queued, reaper, reaping>>

QueueWorkItem(t) ==
    /\ At(t, "queue")
    /\ queued' = queued + 1
    /\ Then(t, <<>>)
    /\ UNCHANGED <<header, directory, Lock, handles, seen, leaked, ReaperList, reaper, reaping>>

-----------------------------------------------------------------------------
(* ObpReapObject, in a worker thread *)

ReapObject ==
    /\ reaper = "idle"
    /\ queued > 0
    /\ queued' = queued - 1
    /\ reaper' = "take"
    /\ UNCHANGED <<header, directory, Lock, handles, threadVars, leaked, ReaperList, reaping>>

TakeList ==
    /\ reaper = "take"
    /\ reaping' = ReaperList.items
    /\ ReaperList' = [items |-> <<>>, end |-> 1]
    /\ reaper' = "delete"
    /\ UNCHANGED <<header, directory, Lock, handles, threadVars, leaked, queued>>

Reap ==
    /\ reaper = "delete"
    /\ Deleted(Head(reaping))
    /\ reaping' = Tail(reaping)
    /\ reaper' = IF Len(reaping) = 1 THEN "check" ELSE "delete"
    /\ UNCHANGED <<directory, Lock, handles, threadVars, ReaperList, queued>>

NothingNew == ReaperList.items = <<>>

ReaperReturns ==
    /\ reaper = "check"
    /\ NothingNew
    /\ ReaperList' = [ReaperList EXCEPT !.end = 0]
    /\ reaper' = "idle"
    /\ UNCHANGED <<header, directory, Lock, handles, threadVars, leaked, queued, reaping>>

ReapMore ==
    /\ reaper = "check"
    /\ ~ NothingNew
    /\ reaper' = "take"
    /\ UNCHANGED <<header, directory, Lock, handles, threadVars, leaked, ReaperList, queued, reaping>>

-----------------------------------------------------------------------------
Uses(o) == {<<>>, <<Op("permanent", o)>>, <<Op("temporary", o)>>, <<Op("open", o)>>}

Call(t) == \E o \in Objects :
              \/ \E permanent \in BOOLEAN : Create(t, o, permanent)
              \/ OpenByName(t, o) \/ OpenFails(t, o) \/ Close(t, o)
              \/ \E ops \in Uses(o) : Reference(t, o, ops)

Inside(t) ==
    \/ Insert(t) \/ InsertFails(t) \/ OpenIf(t) \/ Collision(t)
    \/ MakePermanent(t) \/ MakeTemporary(t) \/ OpenByPointer(t)
    \/ Count(t) \/ CountFails(t) \/ Release(t) \/ CreateHandle(t) \/ CreateFails(t)
    \/ Uncount(t) \/ Check(t) \/ LookupAndDelete(t) \/ LookupNothing(t) \/ DereferenceName(t)
    \/ (\E count \in Counts : Look(t, count)) \/ Dereference(t)
    \/ Delete(t) \/ Defer(t) \/ QueueWorkItem(t)

Reaper == ReapObject \/ TakeList \/ Reap \/ ReaperReturns \/ ReapMore

Next == Reaper \/ \E t \in Threads : Call(t) \/ Inside(t)

Fairness == WF_vars(Reaper) /\ \A t \in Threads : WF_vars(Inside(t))

Spec == Init /\ [][Next]_vars

FairSpec == Spec /\ Fairness

-----------------------------------------------------------------------------
(* Properties.                                                             *)

Times(b) == IF b THEN 1 ELSE 0

(* How many steps that pass the test P the threads have to do. *)
AllSteps(P(_)) ==
    Cardinality(UNION {{t} \X {k \in DOMAIN todo[t] : P(todo[t][k])} : t \in Threads})

HandleOps == {"count", "release", "create"}

(* The pointer count is what points to the object: its handles, its        *)
(* directory, each context, keep-alive and handle in the making, through   *)
(* every failure on the way, and the references not given back.            *)
RefsExact ==
    \A o \in Objects :
       header[o].PointerCount =
          handles[o] + Times(o \in directory) + leaked[o]
          + AllSteps(LAMBDA s : s.op \in {"object", "insert"} /\ s.o = o)
          + AllSteps(LAMBDA s : s.op \in HandleOps /\ s.context = o)
          + AllSteps(LAMBDA s : s.op \in HandleOps /\ s.new = o)
          + AllSteps(LAMBDA s : s.op \in HandleOps /\ s.o = o
                                /\ (s.new = NoObject \/ s.op = "create"))

(* The handle count is the handles and those being made or closed. *)
HandlesExact ==
    \A o \in Objects :
       header[o].HandleCount =
          handles[o] + AllSteps(LAMBDA s : s.op \in {"release", "create", "uncount"} /\ s.o = o)

Occurrences(o, s) == Cardinality({k \in DOMAIN s : s[k] = o})

(* An object that nothing points to is deleted by exactly one: a thread,   *)
(* the reaper's list or the reaper itself has it; and nobody has any other *)
(* object or uses one that is gone.                                        *)
DeletedOnce ==
    /\ \A o \in Objects :
          Times(header[o].live /\ header[o].PointerCount = 0) =
             AllSteps(LAMBDA s : s.op \in Deletion /\ s.o = o)
             + Occurrences(o, ReaperList.items) + Occurrences(o, reaping)
    /\ \A t \in Threads : \A k \in DOMAIN todo[t] :
          todo[t][k].op # "queue" => header[todo[t][k].o].live

(* The work item is queued only when the reaper is done, and whenever      *)
(* there is something to delete it is queued, about to be, or running; it  *)
(* never finds its list empty.                                             *)
ReaperAlone ==
    /\ queued + Times(reaper # "idle") + AllSteps(LAMBDA s : s.op = "queue")
          = Times(ReaperList # [items |-> <<>>, end |-> 0])
    /\ reaper = "take" => ReaperList.items # <<>>

(* The count of those that use the name is exact, so that the name and the *)
(* directory outlive every lookup and are dropped before the object goes.  *)
NamesExact ==
    \A o \in Objects :
       /\ header[o].QueryReferences =
             Times(o \in directory \/ (header[o].QueryReferences > 0 /\ ~ header[o].Directory))
             + AllSteps(LAMBDA s : s.op \in {"name", "insert", "lookup"} /\ s.o = o)
             + AllSteps(LAMBDA s : s.op \in HandleOps /\ s.context = o)
             + AllSteps(LAMBDA s : s.op \in HandleOps /\ s.new = o)
       /\ header[o].PointerCount = 0 => ~ header[o].Directory

(* An object that has a handle, or is permanent, is not taken from its     *)
(* directory.                                                              *)
KeepsOpen == \A o \in directory \ directory' :
                header[o].HandleCount = 0 /\ ~ header[o].Permanent

(* No sound reference count is taken for a wrong one. *)
NoneLeaked == \A o \in Objects : leaked[o] = 0

(* A temporary object without handles leaves its directory, whoever opens, *)
(* closes or makes it permanent or temporary meanwhile.                    *)
NamesGo ==
    \A o \in Objects :
       (o \in directory /\ header[o].HandleCount = 0 /\ ~ header[o].Permanent)
       ~> ~ (o \in directory /\ header[o].HandleCount = 0 /\ ~ header[o].Permanent)

(* An object that nothing points to is deleted, by the reaper if need be. *)
ObjectsGo ==
    \A o \in Objects :
       (header[o].live /\ header[o].PointerCount = 0) ~> ~ header[o].live
=============================================================================
