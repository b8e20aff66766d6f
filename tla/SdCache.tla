------------------------------ MODULE SdCache ------------------------------
(***************************************************************************)
(* The security descriptors of objects: the cache that objects with equal  *)
(* descriptors share, ntoskrnl/ob/obsdcach.c, and the routines that query, *)
(* set, assign and deassign them, ob/obsecure.c.                           *)
(*                                                                         *)
(* An object refers to the header of its descriptor with a fast reference: *)
(* up to MaxFastRefs references are counted in advance, in the word of the *)
(* pointer, and one for the pointer.  A loop around a compare-exchange is  *)
(* one step, its last.  The cache is one list, under a push lock, and the  *)
(* objects have a resource, both used as RWLock promises; a section in     *)
(* which only one step can be told apart by others is one step.            *)
(***************************************************************************)
EXTENDS Integers, Sequences, FiniteSets, Totals

CONSTANTS Threads, Objects,
          Descriptors, Hash,    \* what is cached, and its hash
          Headers,              \* the memory for headers
          NoHeader, NoDescriptor, NoObject,
          MaxFastRefs

VARIABLES Cache,        \* the list of headers
          header,       \* the memory of headers
          FastRef,      \* the security descriptor of each object
          state,        \* whether an object is there
          pc, obj,      \* what a thread is doing, and with which object
          Old, New,     \* OldDescriptor and CachedDescriptor or NewHeader
          sd,           \* the descriptor to be cached
          ask,          \* the one its caller asked it to set and, on a new try,
                        \* the header that SecurityDescriptor points to then
          todo,         \* the references it is to drop one after the other,
          next          \* and where it goes then

vars == <<Cache, header, FastRef, state, pc, obj, Old, New, sd, ask, todo, next>>

Free == [sd |-> NoDescriptor, RefCount |-> 0]

NoSecurity == [header |-> NoHeader, refs |-> 0]

Init == /\ Cache = <<>>
        /\ header = [h \in Headers |-> Free]
        /\ FastRef = [o \in Objects |-> NoSecurity]
        /\ state = [o \in Objects |-> "none"]
        /\ pc = [t \in Threads |-> "idle"]
        /\ obj = [t \in Threads |-> NoObject]
        /\ Old = [t \in Threads |-> NoHeader]
        /\ New = [t \in Threads |-> NoHeader]
        /\ sd = [t \in Threads |-> NoDescriptor]
        /\ ask = [t \in Threads |-> <<>>]
        /\ todo = [t \in Threads |-> <<>>]
        /\ next = [t \in Threads |-> "idle"]

Goto(t, l) == pc' = [pc EXCEPT ![t] = l]

Begin(t, o, l) == pc[t] = "idle" /\ obj' = [obj EXCEPT ![t] = o] /\ Goto(t, l)

(* Drop the references in list, and go on at l. *)
Drop(t, list, l) ==
    /\ todo' = [todo EXCEPT ![t] = list]
    /\ next' = [next EXCEPT ![t] = l]
    /\ Goto(t, "drop")

References(h, n) == [header |-> h, n |-> n]

Users(o) == {t \in Threads : obj[t] = o}

-----------------------------------------------------------------------------
(* ObpReferenceSecurityDescriptor: a reference to the descriptor of an     *)
(* object that has one, for ObQuerySecurityDescriptorInfo and              *)
(* ObGetObjectSecurity, or for ObSetSecurityDescriptorInfo.                *)

Access(t, o) ==
    /\ state[o] = "live"
    /\ Begin(t, o, "reference")
    /\ UNCHANGED <<Cache, header, FastRef, state, Old, New, sd, todo, next, ask>>

Reference(t) ==
    LET f == FastRef[obj[t]]
    IN  /\ pc[t] = "reference"
        /\ IF f.refs = 0
           THEN Goto(t, "lock") /\ UNCHANGED <<FastRef, Old>>
           ELSE /\ FastRef' = [FastRef EXCEPT ![obj[t]].refs = @ - 1]
                /\ Old' = [Old EXCEPT ![t] = f.header]
                /\ Goto(t, IF f.refs = 1 THEN "refill" ELSE "use")
        /\ UNCHANGED <<Cache, header, state, obj, New, sd, todo, next, ask>>

(* The last one of the word is gone: MaxFastRefs new ones... *)
Refill(t) ==
    /\ pc[t] = "refill"
    /\ header' = [header EXCEPT ![Old[t]].RefCount = @ + MaxFastRefs]
    /\ Goto(t, "insert")
    /\ UNCHANGED <<Cache, FastRef, state, obj, Old, New, sd, todo, next, ask>>

Inserts(f, h) == f.header = h /\ f.refs = 0

(* ... for the word, or to be taken back. *)
Insert(t) ==
    /\ pc[t] = "insert"
    /\ IF Inserts(FastRef[obj[t]], Old[t])
       THEN FastRef' = [FastRef EXCEPT ![obj[t]].refs = MaxFastRefs] /\ Goto(t, "use")
       ELSE Goto(t, "undo") /\ UNCHANGED FastRef
    /\ UNCHANGED <<Cache, header, state, obj, Old, New, sd, todo, next, ask>>

Undo(t) ==
    /\ pc[t] = "undo"
    /\ header' = [header EXCEPT ![Old[t]].RefCount = @ - MaxFastRefs]
    /\ Goto(t, "use")
    /\ UNCHANGED <<Cache, FastRef, state, obj, Old, New, sd, todo, next, ask>>

(* No reference is left in the word: take one from the header, under the   *)
(* lock of the object, shared.                                             *)
Lock(t) ==
    /\ pc[t] = "lock"
    /\ Old' = [Old EXCEPT ![t] = FastRef[obj[t]].header]
    /\ Goto(t, "locked")
    /\ UNCHANGED <<Cache, header, FastRef, state, obj, New, sd, todo, next, ask>>

LockedReference(t) ==
    /\ pc[t] = "locked"
    /\ header' = [header EXCEPT ![Old[t]].RefCount = @ + 1]
    /\ Goto(t, "use")
    /\ UNCHANGED <<Cache, FastRef, state, obj, Old, New, sd, todo, next, ask>>

(* The descriptor has been looked at (or cannot be changed as asked). *)
Used(t) ==
    /\ pc[t] = "use"
    /\ Drop(t, <<References(Old[t], 1)>>, "idle")
    /\ Old' = [Old EXCEPT ![t] = NoHeader]
    /\ ask' = [ask EXCEPT ![t] = <<>>]
    /\ UNCHANGED <<Cache, header, FastRef, state, obj, New, sd>>

-----------------------------------------------------------------------------
(* ObDereferenceSecurityDescriptor *)

(* The next drop, or what comes after the last one. *)
Dropped(t) ==
    LET l == IF Len(todo[t]) > 1 THEN "drop" ELSE next[t]
    IN  /\ todo' = [todo EXCEPT ![t] = Tail(@)]
        /\ Goto(t, l)
        /\ obj' = [obj EXCEPT ![t] = IF l = "idle" THEN NoObject ELSE @]

(* All but the last references are dropped without the lock. *)
DropReferences(t) ==
    LET d == Head(todo[t])
    IN  /\ pc[t] = "drop"
        /\ IF header[d.header].RefCount # d.n
           THEN header' = [header EXCEPT ![d.header].RefCount = @ - d.n] /\ Dropped(t)
           ELSE Goto(t, "destroy") /\ UNCHANGED <<header, todo, obj>>
        /\ UNCHANGED <<Cache, FastRef, state, Old, New, sd, next, ask>>

(* Where header h is in the cache, and a list without its k-th entry. *)
PlaceOf(h) == CHOOSE k \in 1 .. Len(Cache) : Cache[k] = h

Without(list, k) == SubSeq(list, 1, k - 1) \o SubSeq(list, k + 1, Len(list))

(* The lock of the cache keeps others from finding the header, but one may *)
(* have found it just before.                                              *)
Destroy(t) ==
    LET d == Head(todo[t])
    IN  /\ pc[t] = "destroy"
        /\ IF header[d.header].RefCount = d.n
           THEN /\ Cache' = Without(Cache, PlaceOf(d.header))
                /\ header' = [header EXCEPT ![d.header] = Free]
           ELSE /\ header' = [header EXCEPT ![d.header].RefCount = @ - d.n]
                /\ UNCHANGED Cache
        /\ Dropped(t)
        /\ UNCHANGED <<FastRef, state, Old, New, sd, next, ask>>

-----------------------------------------------------------------------------
(* ObLogSecurityDescriptor: RefBias is MaxFastRefs + 1 for all its callers *)

RefBias == MaxFastRefs + 1

(* The place at which the search for descriptor d ends: the first header   *)
(* that has it or that has a greater hash.                                 *)
Place(d) ==
    LET first(S) == CHOOSE k \in S : \A j \in S : k <= j
        stop == {k \in 1 .. Len(Cache) : \/ header[Cache[k]].sd = d
                                        \/ Hash[header[Cache[k]].sd] > Hash[d]}
    IN  first(stop \cup {Len(Cache) + 1})

(* A list with h as its k-th entry. *)
With(list, k, h) == SubSeq(list, 1, k - 1) \o <<h>> \o SubSeq(list, k, Len(list))

Cached(d) == Place(d) <= Len(Cache) /\ header[Cache[Place(d)]].sd = d

(* Where a thread goes that has found or inserted its descriptor. *)
Logged(t) == Goto(t, IF Old[t] = NoHeader THEN "assign" ELSE "swap")

(* Under the shared lock. *)
Search(t) ==
    LET h == Cache[Place(sd[t])]
    IN  /\ pc[t] = "search"
        /\ IF Cached(sd[t])
           THEN /\ header' = [header EXCEPT ![h].RefCount = @ + RefBias]
                /\ New' = [New EXCEPT ![t] = h]
                /\ Logged(t)
           ELSE Goto(t, "create") /\ UNCHANGED <<header, New>>
        /\ UNCHANGED <<Cache, FastRef, state, obj, Old, sd, todo, next, ask>>

(* ObpCreateCacheEntry *)
Create(t, h) ==
    /\ pc[t] = "create"
    /\ header[h] = Free
    /\ header' = [header EXCEPT ![h] = [sd |-> sd[t], RefCount |-> RefBias]]
    /\ New' = [New EXCEPT ![t] = h]
    /\ Goto(t, "again")
    /\ UNCHANGED <<Cache, FastRef, state, obj, Old, sd, todo, next, ask>>

(* There is no memory for it. *)
CreateFails(t) ==
    /\ pc[t] = "create"
    /\ sd' = [sd EXCEPT ![t] = NoDescriptor]
    /\ IF Old[t] = NoHeader
       THEN /\ state' = [state EXCEPT ![obj[t]] = "none"]
            /\ obj' = [obj EXCEPT ![t] = NoObject]
            /\ Goto(t, "idle")
            /\ UNCHANGED <<todo, next>>
       ELSE Drop(t, <<References(Old[t], 1)>>, "idle") /\ UNCHANGED <<state, obj>>
    /\ Old' = [Old EXCEPT ![t] = NoHeader]
    /\ ask' = [ask EXCEPT ![t] = <<>>]
    /\ UNCHANGED <<Cache, header, FastRef, New>>

(* Mutant: what was not there before is taken not to be there now. *)
CachedBefore(d) == FALSE

CachedNow(d) == Cached(d)

(* Under the exclusive lock: somebody may have inserted the descriptor. *)
SearchAgain(t) ==
    LET h == Cache[Place(sd[t])]
    IN  /\ pc[t] = "again"
        /\ IF CachedNow(sd[t])
           THEN /\ header' = [header EXCEPT ![h].RefCount = @ + RefBias, ![New[t]] = Free]
                /\ New' = [New EXCEPT ![t] = h]
                /\ UNCHANGED Cache
           ELSE /\ Cache' = With(Cache, Place(sd[t]), New[t])
                /\ UNCHANGED <<header, New>>
        /\ Logged(t)
        /\ UNCHANGED <<FastRef, state, obj, Old, sd, todo, next, ask>>

-----------------------------------------------------------------------------
(* ObSetSecurityDescriptorInfo *)

(* On a new try SecurityDescriptor is in a header, and not the caller's.   *)
Retries(t) == Len(ask[t]) = 2

(* What is read in header h: anything, if it has been freed. *)
Reads(h, d) == header[h] # Free => d = header[h].sd

(* The descriptor asked for, or what SecurityDescriptor points to on a new *)
(* try, becomes the one to be cached (by SeSetSecurityDescriptorInfo).     *)
Set(t, d) ==
    /\ pc[t] = "use"
    /\ Retries(t) => Reads(ask[t][2], d)
    /\ sd' = [sd EXCEPT ![t] = d]
    /\ ask' = [ask EXCEPT ![t] = IF @ = <<>> THEN <<d>> ELSE @]
    /\ Goto(t, "search")
    /\ UNCHANGED <<Cache, header, FastRef, state, obj, Old, New, todo, next>>

Forget(t) ==
    /\ Old' = [Old EXCEPT ![t] = NoHeader]
    /\ New' = [New EXCEPT ![t] = NoHeader]
    /\ sd' = [sd EXCEPT ![t] = NoDescriptor]

(* If somebody has changed the descriptor, drop both and try again;        *)
(* SecurityDescriptor then points to the one found, without a reference.   *)
Swap(t) ==
    LET f == FastRef[obj[t]]
    IN  /\ pc[t] = "swap"
        /\ IF f.header = Old[t]
           THEN /\ FastRef' = [FastRef EXCEPT ![obj[t]] = [header |-> New[t], refs |-> MaxFastRefs]]
                /\ todo' = [todo EXCEPT ![t] = <<References(Old[t], f.refs + 2)>>]
                /\ next' = [next EXCEPT ![t] = "idle"]
                /\ ask' = [ask EXCEPT ![t] = <<>>]
                /\ Goto(t, "flush")
           ELSE /\ ask' = [ask EXCEPT ![t] = <<@[1], f.header>>]
                /\ Drop(t, <<References(Old[t], 1), References(New[t], RefBias)>>, "reference")
                /\ UNCHANGED FastRef
        /\ Forget(t)
        /\ UNCHANGED <<Cache, header, state, obj>>

(* Mutant: nobody is waited for. *)
FlushedAlways(o) == TRUE

(* The lock of the object is free. *)
Flushed(o) == \A u \in Users(o) : pc[u] # "locked"

Flush(t) ==
    /\ pc[t] = "flush"
    /\ Flushed(obj[t])
    /\ Goto(t, "drop")
    /\ UNCHANGED <<Cache, header, FastRef, state, obj, Old, New, sd, todo, next, ask>>

-----------------------------------------------------------------------------
(* ObAssignObjectSecurityDescriptor, for an object that is being made, and *)
(* ObDeassignSecurity, for one that nobody uses any more.                  *)

Make(t, o, d) ==
    /\ state[o] = "none"
    /\ state' = [state EXCEPT ![o] = "made"]
    /\ sd' = [sd EXCEPT ![t] = d]
    /\ Begin(t, o, "search")
    /\ UNCHANGED <<Cache, header, FastRef, Old, New, todo, next, ask>>

Assign(t) ==
    /\ pc[t] = "assign"
    /\ FastRef' = [FastRef EXCEPT ![obj[t]] = [header |-> New[t], refs |-> MaxFastRefs]]
    /\ state' = [state EXCEPT ![obj[t]] = "live"]
    /\ Forget(t)
    /\ obj' = [obj EXCEPT ![t] = NoObject]
    /\ Goto(t, "idle")
    /\ UNCHANGED <<Cache, header, todo, next, ask>>

Deassign(t, o) ==
    /\ pc[t] = "idle"
    /\ state[o] = "live"
    /\ Users(o) = {}
    /\ FastRef' = [FastRef EXCEPT ![o] = NoSecurity]
    /\ state' = [state EXCEPT ![o] = "none"]
    /\ Drop(t, <<References(FastRef[o].header, FastRef[o].refs + 1)>>, "idle")
    /\ UNCHANGED <<Cache, header, obj, Old, New, sd, ask>>

-----------------------------------------------------------------------------
Call(t) == \E o \in Objects : \/ Access(t, o) \/ Deassign(t, o)
                             \/ \E d \in Descriptors : Make(t, o, d)

Inside(t) == \/ Reference(t) \/ Refill(t) \/ Insert(t) \/ Undo(t) \/ Lock(t) \/ LockedReference(t)
             \/ Used(t) \/ (\E d \in Descriptors : Set(t, d))
             \/ DropReferences(t) \/ Destroy(t)
             \/ Search(t) \/ (\E h \in Headers : Create(t, h)) \/ CreateFails(t) \/ SearchAgain(t)
             \/ Swap(t) \/ Flush(t) \/ Assign(t)

Next == \E t \in Threads : Call(t) \/ Inside(t)

Spec == Init /\ [][Next]_vars

-----------------------------------------------------------------------------
(* Properties.                                                             *)

Times(n, b) == IF b THEN n ELSE 0

(* What t has to drop in its k-th call of ObDereferenceSecurityDescriptor. *)
ToDrop(t, k, h) == IF k <= Len(todo[t]) /\ todo[t][k].header = h THEN todo[t][k].n ELSE 0

(* The references of thread t to header h: it drops two at most. *)
Held(t, h) ==
    Times(1, Old[t] = h /\ pc[t] # "locked")
    + Times(MaxFastRefs, Old[t] = h /\ pc[t] \in {"insert", "undo"})
    + Times(RefBias, New[t] = h)
    + ToDrop(t, 1, h) + ToDrop(t, 2, h)

(* Those that the word of object o has. *)
InWord(o, h) == Times(FastRef[o].refs + 1, FastRef[o].header = h)

(* The count of a header is the references in the words of the objects     *)
(* that have it, one for each of them, and those of threads, through       *)
(* refills, exchanges that fail, and headers found as they were to go.     *)
RefsExact ==
    \A h \in Headers :
       header[h].RefCount = Total([o \in Objects |-> InWord(o, h)])
                            + Total([t \in Threads |-> Held(t, h)])

(* The headers that t has counted references to, or, under the lock of the *)
(* object, is only about to count.                                         *)
Refers(t) == {Old[t], New[t]} \cup {todo[t][k].header : k \in 1 .. Len(todo[t])}

(* A header that an object or a thread refers to is there; also the one    *)
(* that a thread has read under the lock of the object and is only about   *)
(* to count, when another thread has just replaced it.                     *)
ReferencesLive ==
    \A h \in Headers :
       (\E o \in Objects : FastRef[o].header = h) \/ (\E t \in Threads : h \in Refers(t))
       => header[h].RefCount > 0

(* What a new try is about to read through SecurityDescriptor is there. *)
RetryReadsLive ==
    \A t \in Threads : pc[t] = "use" /\ Retries(t) => header[ask[t][2]].RefCount > 0

(* The cache holds each descriptor once, in the order of hashes on which   *)
(* the search relies, and no header that nobody uses; and every header in  *)
(* use is in it, but for those that are being made.                        *)
CacheExact ==
    /\ \A j, k \in 1 .. Len(Cache) :
          j < k => /\ header[Cache[j]].sd # header[Cache[k]].sd
                   /\ Hash[header[Cache[j]].sd] <= Hash[header[Cache[k]].sd]
    /\ {Cache[k] : k \in 1 .. Len(Cache)}
          = {h \in Headers : header[h].RefCount > 0}
            \ {New[t] : t \in {u \in Threads : pc[u] = "again"}}

(* What is set, at the first try or later, is what the caller asked for. *)
SetAsAsked == \A t \in Threads : pc[t] = "swap" => sd[t] = ask[t][1]
=============================================================================
