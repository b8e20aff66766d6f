------------------------------ MODULE MCLocks ------------------------------
(***************************************************************************)
(* TLC instance of the locks that put their waiters to sleep one by one: a *)
(* guarded mutex, a fast mutex, the entry locks of a handle table and a    *)
(* push lock that is only taken exclusively (see MCPushLock for the rest,  *)
(* and MCPushLockLive for sharers).  There is one of each, and the threads *)
(* use one kind, with a number of calls between them.  None of these locks *)
(* is fair (who is woken competes with those who arrive), so it is with    *)
(* finitely many calls that every one of them must return.                 *)
(***************************************************************************)
EXTENDS Naturals, FiniteSets

CONSTANTS Threads, NoThread,
          Users,         \* those of the threads who lock an entry
          Entries, Null,
          GuardedCalls, FastCalls, EntryCalls, PushCalls

ASSUME ThreadsAssumption == IsFiniteSet(Threads)

ASSUME EntryAssumption == /\ Users \subseteq Threads
                          /\ Null \notin Users /\ Null \notin Entries

VARIABLES kind,          \* what the threads use,
          calls,         \* and how many calls are left
          gCount, gOwner, gGate, gpc, gwoken, gOldValue,
          fCount, fOwner, fEvent, fpc,
          entry, head, blk, epc, ent, ov, cur, own, hold,
          word, pblk, ppc, pov, wv, pcur, want, phold

G == INSTANCE GuardedMutex WITH Count <- gCount, Owner <- gOwner, Gate <- gGate,
                                pc <- gpc, woken <- gwoken, OldValue <- gOldValue
F == INSTANCE FastMutex WITH Count <- fCount, Owner <- fOwner, Event <- fEvent, pc <- fpc
E == INSTANCE HandleLock WITH Threads <- Users, pc <- epc
P == INSTANCE PushLock WITH Calls <- {"exclusive"}, blk <- pblk, pc <- ppc, ov <- pov,
                            cur <- pcur, hold <- phold

gvars == <<gCount, gOwner, gGate, gpc, gwoken, gOldValue>>
fvars == <<fCount, fOwner, fEvent, fpc>>
evars == <<entry, head, blk, epc, ent, ov, cur, own, hold>>
pvars == <<word, pblk, ppc, pov, wv, pcur, want, phold>>

avars == <<kind, calls, gvars, fvars, evars, pvars>>

AInit == /\ G!Init /\ F!Init /\ E!Init /\ P!Init
         /\ \/ kind = "guarded"  /\ calls = GuardedCalls
            \/ kind = "fast"     /\ calls = FastCalls
            \/ kind = "entry"    /\ calls = EntryCalls
            \/ kind = "push"     /\ calls = PushCalls

(* A call, while there are some left. *)
Begins == \/ /\ kind = "guarded"
             /\ \E t \in Threads : G!Acquire(t) \/ G!TryToAcquire(t)
             /\ UNCHANGED <<fvars, evars, pvars>>
          \/ /\ kind = "fast"
             /\ \E t \in Threads : F!Acquire(t) \/ F!TryToAcquire(t)
             /\ UNCHANGED <<gvars, evars, pvars>>
          \/ /\ kind = "entry"
             /\ \E t \in Users : E!Begin(t)
             /\ UNCHANGED <<gvars, fvars, pvars>>
          \/ /\ kind = "push"
             /\ \E t \in Threads : P!Begin(t)
             /\ UNCHANGED <<gvars, fvars, evars>>

(* An owner releases. *)
Releases(t) ==
    \/ kind = "guarded" /\ G!ClearOwner(t) /\ UNCHANGED <<fvars, evars, pvars>>
    \/ kind = "fast" /\ F!ClearOwner(t) /\ UNCHANGED <<gvars, evars, pvars>>
    \/ kind = "entry" /\ t \in Users /\ E!BeginRelease(t) /\ UNCHANGED <<gvars, fvars, pvars>>
    \/ kind = "push" /\ P!BeginRelease(t) /\ UNCHANGED <<gvars, fvars, evars>>

(* A thread goes on inside a routine. *)
Continues(t) ==
    \/ kind = "guarded" /\ G!Inside(t) /\ UNCHANGED <<fvars, evars, pvars>>
    \/ kind = "fast" /\ F!Inside(t) /\ UNCHANGED <<gvars, evars, pvars>>
    \/ kind = "entry" /\ t \in Users /\ E!Continue(t) /\ UNCHANGED <<gvars, fvars, pvars>>
    \/ kind = "push" /\ P!Continue(t) /\ UNCHANGED <<gvars, fvars, evars>>

ACall == calls > 0 /\ calls' = calls - 1 /\ UNCHANGED kind /\ Begins

AGo(t) == (Releases(t) \/ Continues(t)) /\ UNCHANGED <<kind, calls>>

ANext == ACall \/ \E t \in Threads : AGo(t)

(* Threads inside the routines go on, and owners release. *)
AFairSpec == AInit /\ [][ANext]_avars /\ \A t \in Threads : WF_avars(AGo(t))

(* Both mutexes implement RWLock: whatever routine grants or takes them,   *)
(* an owner is alone until it lets go.                                     *)
LocksExclude == G!MutualExclusion /\ F!MutualExclusion

(* The counts of the mutexes, the woken bit, the gate and the event agree  *)
(* with the threads that have them, wait, or are about to be woken.        *)
MutexesExact == /\ kind = "guarded" => G!WaitersExact
                /\ kind = "fast" => F!HoldersExact

(* A locked entry has one owner, no list of waiters leads to the stack of  *)
(* a thread that has left, and who sleeps will be woken.                   *)
EntryLocksExact ==
    kind = "entry" => E!TypeOK /\ E!OneOwner /\ E!NoDeadBlock /\ E!WakeUpIsDue

Busy(t) == \/ gpc[t] # "idle" \/ fpc[t] # "idle" \/ ppc[t] # "idle"
           \/ t \in Users /\ epc[t] # "idle"

(* Every call returns: whoever waits for a lock gets it, whoever overtakes *)
(* the thread that is woken, and whichever of waiter and signal is first.  *)
CallsReturn == \A t \in Threads : Busy(t) ~> ~Busy(t)
=============================================================================
