------------------------------ MODULE Rundown ------------------------------
(***************************************************************************)
(* Rundown protection: ntoskrnl/ex/rundown.c and the inline fast paths of  *)
(* ntoskrnl/include/internal/ex.h.                                         *)
(*                                                                         *)
(* The descriptor is one machine word: twice the number of references, or, *)
(* once bit 0 (EX_RUNDOWN_ACTIVE) is set, the address of a wait block on   *)
(* the stack of the thread that runs the structure down, or 0.  It is only *)
(* changed by interlocked operations, and every one of them is a step of   *)
(* its own here, so the steps of all the threads interleave as they can on *)
(* a multiprocessor.                                                       *)
(*                                                                         *)
(* A reference is modelled as a token <<u, i>> of the set Refs; which      *)
(* tokens are outstanding (held) is a history of what the threads have     *)
(* been granted, and no guard of the code reads it.                        *)
(***************************************************************************)
EXTENDS Naturals, FiniteSets

CONSTANTS Users,     \* threads that acquire and release protection
          Slots,     \* how many references one of them can have, by name
          Waiters,   \* threads that can run the structure down
          NoBlock    \* the null wait block pointer

ASSUME SlotsAssumption == IsFiniteSet(Slots) /\ IsFiniteSet(Users)
ASSUME BlockAssumption == NoBlock \notin Waiters

VARIABLES word,      \* *RunRef: the active bit, the pointer, the count
          block,     \* the EX_RUNDOWN_WAIT_BLOCK on each waiter's stack
          upc,       \* where each user thread is in its call
          val,       \* the local variable Value of each user's call
          req,       \* the references the call is about
          wpc,       \* where each waiter is
          wval,      \* the local variable Value of each waiter's call
          held       \* history: the references outstanding

vars == <<word, block, upc, val, req, wpc, wval, held>>

Refs == Users \X Slots

Words == [active : BOOLEAN, ptr : Waiters \cup {NoBlock}, count : Nat]

Counted(n)  == [active |-> FALSE, ptr |-> NoBlock, count |-> n]
Active      == [active |-> TRUE, ptr |-> NoBlock, count |-> 0]
Pointing(w) == [active |-> TRUE, ptr |-> w, count |-> 0]

(* Value & ~EX_RUNDOWN_ACTIVE, as the inline fast paths compute it. *)
Masked(v) == [v EXCEPT !.active = FALSE]

-----------------------------------------------------------------------------
UserIdle    == {"idle"}
Acquiring   == {"afast", "aread", "acas"}
Releasing   == {"rfast", "rread", "rcas"}
UserPCs     == UserIdle \cup Acquiring \cup Releasing \cup {"rsignal"}
WaiterPCs   == {"idle", "wslow", "wcas", "wait", "down"}

Init == /\ word = Counted(0)
        /\ block = [w \in Waiters |-> [count |-> 0, signaled |-> FALSE]]
        /\ upc = [u \in Users |-> "idle"]
        /\ val = [u \in Users |-> Counted(0)]
        /\ req = [u \in Users |-> {}]
        /\ wpc = [w \in Waiters |-> "idle"]
        /\ wval = [w \in Waiters |-> Counted(0)]
        /\ held = {}

(* A user's call returns, and its locals are gone. *)
Return(u) == /\ upc' = [upc EXCEPT ![u] = "idle"]
             /\ val' = [val EXCEPT ![u] = Counted(0)]
             /\ req' = [req EXCEPT ![u] = {}]

-----------------------------------------------------------------------------
(* Acquiring protection.                                                   *)

(* _ExAcquireRundownProtection reads the word and masks the active bit. *)
AcquireFast(u) ==
    /\ upc[u] = "idle"
    /\ \E r \in ({u} \X Slots) \ held : req' = [req EXCEPT ![u] = {r}]
    /\ upc' = [upc EXCEPT ![u] = "afast"]
    /\ val' = [val EXCEPT ![u] = Masked(word)]
    /\ UNCHANGED <<word, block, wpc, wval, held>>

(* Its one compare-exchange: on failure it calls the exported routine. *)
AcquireFastCas(u) ==
    /\ upc[u] = "afast"
    /\ IF word = val[u]
       THEN /\ word' = Counted(val[u].count + 1)
            /\ held' = held \cup req[u]
            /\ Return(u)
       ELSE /\ upc' = [upc EXCEPT ![u] = "aread"]
            /\ val' = [val EXCEPT ![u] = Counted(0)]
            /\ UNCHANGED <<word, held, req>>
    /\ UNCHANGED <<block, wpc, wval>>

(* ExfAcquireRundownProtectionEx is called directly, for several           *)
(* references at once.                                                     *)
AcquireEx(u) ==
    /\ upc[u] = "idle"
    /\ \E S \in SUBSET (({u} \X Slots) \ held) :
          S # {} /\ req' = [req EXCEPT ![u] = S]
    /\ upc' = [upc EXCEPT ![u] = "aread"]
    /\ UNCHANGED <<word, block, val, wpc, wval, held>>

(* ExfAcquireRundownProtection(Ex): the first read of the word. *)
AcquireRead(u) ==
    /\ upc[u] = "aread"
    /\ val' = [val EXCEPT ![u] = word]
    /\ upc' = [upc EXCEPT ![u] = "acas"]
    /\ UNCHANGED <<word, block, req, wpc, wval, held>>

(* Mutant: only the value EX_RUNDOWN_ACTIVE itself is looked for. *)
RefusedIfEqual(v) == v = Active

(* The test of the active bit. *)
Refused(v) == v.active

(* One turn of its loop: refused when a rundown is active, granted when    *)
(* the compare-exchange succeeds, and once more with the word it found     *)
(* otherwise.                                                              *)
AcquireCas(u) ==
    /\ upc[u] = "acas"
    /\ \/ /\ Refused(val[u])
          /\ Return(u)
          /\ UNCHANGED <<word, held>>
       \/ /\ ~Refused(val[u])
          /\ word = val[u]
          /\ word' = Counted(val[u].count + Cardinality(req[u]))
          /\ held' = held \cup req[u]
          /\ Return(u)
       \/ /\ ~Refused(val[u])
          /\ word # val[u]
          /\ val' = [val EXCEPT ![u] = word]
          /\ UNCHANGED <<word, upc, req, held>>
    /\ UNCHANGED <<block, wpc, wval>>

-----------------------------------------------------------------------------
(* Releasing protection.                                                   *)

(* _ExReleaseRundownProtection reads the word and masks the active bit. *)
ReleaseFast(u) ==
    /\ upc[u] = "idle"
    /\ \E r \in ({u} \X Slots) \cap held : req' = [req EXCEPT ![u] = {r}]
    /\ upc' = [upc EXCEPT ![u] = "rfast"]
    /\ val' = [val EXCEPT ![u] = Masked(word)]
    /\ UNCHANGED <<word, block, wpc, wval, held>>

ReleaseFastCas(u) ==
    /\ upc[u] = "rfast"
    /\ IF word = val[u]
       THEN /\ word' = Counted(val[u].count - 1)
            /\ held' = held \ req[u]
            /\ Return(u)
       ELSE /\ upc' = [upc EXCEPT ![u] = "rread"]
            /\ val' = [val EXCEPT ![u] = Counted(0)]
            /\ UNCHANGED <<word, held, req>>
    /\ UNCHANGED <<block, wpc, wval>>

(* ExfReleaseRundownProtectionEx is called directly. *)
ReleaseEx(u) ==
    /\ upc[u] = "idle"
    /\ \E S \in SUBSET (({u} \X Slots) \cap held) :
          S # {} /\ req' = [req EXCEPT ![u] = S]
    /\ upc' = [upc EXCEPT ![u] = "rread"]
    /\ UNCHANGED <<word, block, val, wpc, wval, held>>

ReleaseRead(u) ==
    /\ upc[u] = "rread"
    /\ val' = [val EXCEPT ![u] = word]
    /\ upc' = [upc EXCEPT ![u] = "rcas"]
    /\ UNCHANGED <<word, block, req, wpc, wval, held>>

(* The loop of ExfReleaseRundownProtection(Ex) while no rundown is active. *)
ReleaseCas(u) ==
    /\ upc[u] = "rcas"
    /\ ~val[u].active
    /\ IF word = val[u]
       THEN /\ word' = Counted(val[u].count - Cardinality(req[u]))
            /\ held' = held \ req[u]
            /\ Return(u)
       ELSE /\ val' = [val EXCEPT ![u] = word]
            /\ UNCHANGED <<word, upc, req, held>>
    /\ UNCHANGED <<block, wpc, wval>>

(* Mutant: the event is set only by a release that finds a single          *)
(* reference left.                                                         *)
LastReferenceSingle(count, n) == count = 1

(* A release of n references that finds count of them is the last one. *)
LastReference(count, n) == count = n

(* The rundown is active: the references are taken off the wait block's    *)
(* count, and the thread that brings it to zero goes on to set the event.  *)
ReleaseToBlock(u) ==
    /\ upc[u] = "rcas"
    /\ val[u].active
    /\ val[u].ptr \in Waiters
    /\ LET w == val[u].ptr
           n == Cardinality(req[u])
       IN  /\ block' = [block EXCEPT ![w].count = @ - n]
           /\ IF LastReference(block[w].count, n)
              THEN /\ upc' = [upc EXCEPT ![u] = "rsignal"]
                   /\ req' = [req EXCEPT ![u] = {}]
                   /\ UNCHANGED val
              ELSE Return(u)
    /\ held' = held \ req[u]
    /\ UNCHANGED <<word, wpc, wval>>

(* KeSetEvent on the event inside the wait block. *)
ReleaseSignal(u) ==
    /\ upc[u] = "rsignal"
    /\ block' = [block EXCEPT ![val[u].ptr].signaled = TRUE]
    /\ Return(u)
    /\ UNCHANGED <<word, wpc, wval, held>>

-----------------------------------------------------------------------------
(* Running the structure down.                                             *)

(* The callers in the repository run a structure down from one thread, and *)
(* again only once ExRundownCompleted or ExReInitializeRundownProtection   *)
(* was called.  The code relies on it: a second waiter would take the      *)
(* address of the first one's wait block for a count.                      *)
MayRunDown(w) == /\ wpc[w] = "idle"
                 /\ (\A x \in Waiters : wpc[x] = "idle") \/ word = Active

(* The compare-exchange of _ExWaitForRundownProtectionRelease, from 0 to   *)
(* EX_RUNDOWN_ACTIVE.                                                      *)
WaitFast(w) ==
    /\ MayRunDown(w)
    /\ \/ /\ word = Counted(0)
          /\ word' = Active
          /\ wpc' = [wpc EXCEPT ![w] = "down"]
       \/ /\ word = Active
          /\ UNCHANGED <<word, wpc>>
       \/ /\ word \notin {Counted(0), Active}
          /\ wpc' = [wpc EXCEPT ![w] = "wslow"]
          /\ UNCHANGED word
    /\ UNCHANGED <<block, upc, val, req, wval, held>>

(* ExfWaitForRundownProtectionRelease tries the same exchange again. *)
WaitSlow(w) ==
    /\ wpc[w] = "wslow"
    /\ IF word = Counted(0)
       THEN word' = Active /\ wpc' = [wpc EXCEPT ![w] = "down"]
                           /\ UNCHANGED wval
       ELSE /\ wval' = [wval EXCEPT ![w] = word]
            /\ wpc' = [wpc EXCEPT ![w] = "wcas"]
            /\ UNCHANGED word
    /\ UNCHANGED <<block, upc, val, req, held>>

(* Mutant: a wait for one reference is skipped. *)
MustWaitForMore(v) == v.count > 1

(* The wait is skipped when no reference is left. *)
MustWait(v) == v.count # 0

(* One turn of its loop: the count goes into the wait block and the wait   *)
(* block into the word, and the thread waits unless the count was zero.    *)
WaitInstall(w) ==
    /\ wpc[w] = "wcas"
    /\ IF word = wval[w]
       THEN /\ word' = Pointing(w)
            /\ block' = [block EXCEPT ![w] =
                            [count |-> wval[w].count, signaled |-> FALSE]]
            /\ wpc' = [wpc EXCEPT ![w] =
                          IF MustWait(wval[w]) THEN "wait" ELSE "down"]
            /\ wval' = [wval EXCEPT ![w] = Counted(0)]
       ELSE /\ wval' = [wval EXCEPT ![w] = word]
            /\ UNCHANGED <<word, block, wpc>>
    /\ UNCHANGED <<upc, val, req, held>>

(* Mutant: the waiter looks at the count of its block, not at the event. *)
WaitSatisfiedByCount(w) == block[w].count = 0

WaitSatisfied(w) == block[w].signaled

(* KeWaitForSingleObject on a synchronization event: the wait consumes the *)
(* signal.  The wait block is dead from here on.                           *)
WaitWake(w) ==
    /\ wpc[w] = "wait"
    /\ WaitSatisfied(w)
    /\ block' = [block EXCEPT ![w].signaled = FALSE]
    /\ wpc' = [wpc EXCEPT ![w] = "down"]
    /\ UNCHANGED <<word, upc, val, req, wval, held>>

(* ExRundownCompleted: the word no longer holds the wait block's address. *)
RundownCompleted(w) ==
    /\ wpc[w] = "down"
    /\ word' = Active
    /\ UNCHANGED <<block, upc, val, req, wpc, wval, held>>

(* ExReInitializeRundownProtection opens the descriptor again. *)
ReInitialize(w) ==
    /\ wpc[w] = "down"
    /\ word' = Counted(0)
    /\ wpc' = [wpc EXCEPT ![w] = "idle"]
    /\ UNCHANGED <<block, upc, val, req, wval, held>>

-----------------------------------------------------------------------------
AcquireStep(u) == \/ AcquireFast(u) \/ AcquireFastCas(u) \/ AcquireEx(u)
                  \/ AcquireRead(u) \/ AcquireCas(u)

ReleaseBegin(u) == ReleaseFast(u) \/ ReleaseEx(u)

ReleaseStep(u) == \/ ReleaseFastCas(u) \/ ReleaseRead(u) \/ ReleaseCas(u)
                  \/ ReleaseToBlock(u) \/ ReleaseSignal(u)

UserNext(u) == AcquireStep(u) \/ ReleaseBegin(u) \/ ReleaseStep(u)

WaiterNext(w) == \/ WaitFast(w) \/ WaitSlow(w) \/ WaitInstall(w)
                 \/ WaitWake(w) \/ RundownCompleted(w) \/ ReInitialize(w)

Next == (\E u \in Users : UserNext(u)) \/ (\E w \in Waiters : WaiterNext(w))

Spec == Init /\ [][Next]_vars

(* A thread that is inside a routine of rundown.c keeps running, and a     *)
(* user that holds references does not put off releasing them for ever.    *)
Fairness ==
    /\ \A u \in Users :
          /\ SF_vars(ReleaseBegin(u))
          /\ WF_vars(ReleaseStep(u) \/ AcquireFastCas(u)
                       \/ AcquireRead(u) \/ AcquireCas(u))
    /\ \A w \in Waiters :
          WF_vars(WaitSlow(w) \/ WaitInstall(w) \/ WaitWake(w))

FairSpec == Spec /\ Fairness

-----------------------------------------------------------------------------
(* Properties.                                                             *)

(* Types of the variables. *)
TypeOK == /\ word \in Words
          /\ block \in [Waiters -> [count : Nat, signaled : BOOLEAN]]
          /\ upc \in [Users -> UserPCs]
          /\ val \in [Users -> Words]
          /\ req \in [Users -> SUBSET Refs]
          /\ wpc \in [Waiters -> WaiterPCs]
          /\ wval \in [Waiters -> Words]
          /\ held \in SUBSET Refs

(* ExWaitForRundownProtectionRelease "waits until the specified rundown    *)
(* descriptor has been released": once it has returned, and until the      *)
(* descriptor is opened again, nobody has a reference to the structure.    *)
DownMeansUnreferenced ==
    \A w \in Waiters : wpc[w] = "down" => held = {}

(* No protection is granted while a rundown is active: the set of          *)
(* outstanding references grows only in steps that find the bit clear and  *)
(* leave it clear.                                                         *)
NoGrantWhileActive ==
    [][~(held' \subseteq held) => ~word.active /\ ~word'.active]_vars

(* The wait block lives on the stack of the waiter.  A thread that has     *)
(* loaded its address to release a reference, or that is about to set its  *)
(* event, does so before the waiter returns.                               *)
BlockOutlivesReleasers ==
    \A u \in Users :
       (upc[u] = "rcas" /\ val[u].active) \/ upc[u] = "rsignal"
          => val[u].ptr \in Waiters /\ wpc[val[u].ptr] = "wait"

(* The sanity checks of the code: a release never takes more references    *)
(* off the word or the wait block than there are, the waiter's loop never  *)
(* finds another rundown active, and the count is zero when it wakes up.   *)
Assertions ==
    /\ \A u \in Users :
         /\ (upc[u] = "rfast" /\ word = val[u]) => val[u].count >= 1
         /\ (upc[u] = "rcas" /\ ~val[u].active /\ word = val[u])
               => val[u].count >= Cardinality(req[u])
         /\ (upc[u] = "rcas" /\ val[u].active)
               => block[val[u].ptr].count >= Cardinality(req[u])
    /\ \A w \in Waiters :
         /\ wpc[w] = "wcas" => ~word.active
         /\ (wpc[w] = "wait" /\ block[w].signaled) => block[w].count = 0

(* Once the wait block is in the word, the waiter is woken: no release is  *)
(* lost between the count in the word and the count in the block.          *)
WaiterReturns == \A w \in Waiters : wpc[w] = "wait" ~> wpc[w] = "down"

-----------------------------------------------------------------------------
(* Why the properties hold: the inductive invariant.                       *)

(* The word counts the outstanding references until a rundown sets the     *)
(* active bit, and afterwards it is cleared of them.                       *)
WordCounts ==
    /\ ~word.active => word = Counted(Cardinality(held))
    /\ word.active => word.count = 0
    /\ (word.active /\ word.ptr = NoBlock) => held = {}
    /\ word.active <=> \E w \in Waiters : wpc[w] \in {"wait", "down"}

(* One thread at a time runs the structure down. *)
OneRundown ==
    \A v, w \in Waiters : wpc[v] # "idle" /\ wpc[w] # "idle" => v = w

(* The wait block of a waiting thread is the one the word points to, it    *)
(* has taken over the count, and it is signaled only when that is zero.    *)
BlockCounts ==
    \A w \in Waiters :
       /\ wpc[w] = "wait" => /\ word = Pointing(w)
                             /\ block[w].count = Cardinality(held)
                             /\ block[w].signaled => held = {}
       /\ wpc[w] = "down" => held = {}
       /\ wpc[w] = "wcas" => ~wval[w].active

(* A call that acquires is about references nobody has yet, one that       *)
(* releases about references that are outstanding, and an address of a     *)
(* wait block that a call has loaded is that of a waiting thread.          *)
CallsAreValid ==
    \A u \in Users :
       /\ upc[u] \in Acquiring \cup Releasing =>
             req[u] # {} /\ req[u] \subseteq {u} \X Slots
       /\ upc[u] \in Acquiring => req[u] \cap held = {}
       /\ upc[u] \in Releasing => req[u] \subseteq held
       /\ upc[u] \in {"afast", "rfast"} =>
             ~val[u].active /\ Cardinality(req[u]) = 1
       /\ (upc[u] = "rcas" /\ val[u].active) => word = val[u]
       /\ upc[u] = "rsignal" => word = val[u] /\ held = {}

(* A thread about to set an event is the only one to do so, and sets the   *)
(* event of a thread that waits for it.                                    *)
SignalIsDue ==
    \A u \in Users : upc[u] = "rsignal" =>
       /\ \A v \in Users : upc[v] = "rsignal" => v = u
       /\ val[u].ptr \in Waiters
       /\ wpc[val[u].ptr] = "wait"
       /\ ~block[val[u].ptr].signaled

(* No wake-up is lost: when the last reference is gone the waiter's event  *)
(* is set, or the thread that took the count to zero is about to set it.   *)
WakeUpIsDue ==
    \A w \in Waiters : wpc[w] = "wait" /\ held = {} =>
       block[w].signaled \/ \E u \in Users : upc[u] = "rsignal"

IInv == /\ TypeOK /\ WordCounts /\ OneRundown /\ BlockCounts
        /\ CallsAreValid /\ SignalIsDue /\ WakeUpIsDue

-----------------------------------------------------------------------------
(* The abstract specification this module implements. *)
Phase == IF ~word.active THEN "open"
         ELSE IF \E w \in Waiters : wpc[w] = "wait" THEN "closing" ELSE "down"

Abstract == INSTANCE RundownSpec WITH phase <- Phase

(* Every behaviour of the code is one the abstract gate allows. *)
Refinement == Abstract!Spec
=============================================================================
