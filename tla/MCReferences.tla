---------------------------- MODULE MCReferences ----------------------------
(***************************************************************************)
(* TLC instance of three structures that live as long as they are counted: *)
(* the notify routines and the security descriptors, both behind fast      *)
(* references, and callback objects with their registrations.  The threads *)
(* use one of the three (Kinds).  Where the calls would never come to an   *)
(* end they are bounded.                                                   *)
(***************************************************************************)
EXTENDS NotifyRoutine, Sequences, TLC

CONSTANTS Kinds,
          NotifyCalls, SdCalls, \* how many calls of each kind
          Objects, NoObject, Headers, NoHeader, SdFastRefs,
          Descriptors, NoDescriptor, Hashes, \* the hashes are those below Hashes
          CallbackObjects, MultipleObjects, Registrations, NoRegistration

ASSUME SdAssumption == /\ IsFiniteSet(Objects) /\ NoObject \notin Objects
                       /\ NoHeader \notin Headers
                       /\ Descriptors \subseteq Nat /\ NoDescriptor \notin Descriptors
                       /\ Hashes \in Nat \ {0} /\ SdFastRefs \in Nat \ {0}

ASSUME CallbackAssumption == /\ IsFiniteSet(Registrations)
                             /\ NoRegistration \notin Registrations
                             /\ NoObject \notin CallbackObjects

VARIABLES kind, calls,
          Cache, header, FastRef, state, spc, obj, Old, New, sd, ask, todo, next,
          RegisteredCallbacks, PointerCount, open, reg, ExpCallbackEvent, cpc, cur

(* Descriptors are numbers; those that differ by a multiple of Hashes have *)
(* the same hash.                                                          *)
HashOf == [d \in Descriptors |-> d % Hashes]

S == INSTANCE SdCache WITH Hash <- HashOf, MaxFastRefs <- SdFastRefs, pc <- spc
C == INSTANCE CallbackObject WITH Objects <- CallbackObjects, pc <- cpc,
                                  AllowMultipleCallbacks <- MultipleObjects

svars == <<Cache, header, FastRef, state, spc, obj, Old, New, sd, ask, todo, next>>
cvars == <<RegisteredCallbacks, PointerCount, open, reg, ExpCallbackEvent, cpc, cur>>

avars == <<kind, calls, vars, svars, cvars>>

AInit == /\ Init /\ S!Init /\ C!Init
         /\ kind \in Kinds
         /\ calls = IF kind = "notify" THEN NotifyCalls ELSE SdCalls

(* Notify routines and security descriptors are used through calls. *)
Calls(t) == /\ calls > 0 /\ calls' = calls - 1
            /\ \/ kind = "notify" /\ Call(t) /\ UNCHANGED <<svars, cvars>>
               \/ kind = "sd" /\ S!Call(t) /\ UNCHANGED <<vars, cvars>>

Continues(t) == /\ UNCHANGED calls
                /\ \/ kind = "notify" /\ Inside(t) /\ UNCHANGED <<svars, cvars>>
                   \/ kind = "sd" /\ S!Inside(t) /\ UNCHANGED <<vars, cvars>>

(* Callback objects are used without end. *)
Callbacks == /\ kind = "callback"
             /\ C!Next
             /\ UNCHANGED <<calls, vars, svars>>

ANext == /\ Callbacks \/ \E t \in Threads : Calls(t) \/ Continues(t)
         /\ UNCHANGED kind

ASpec == AInit /\ [][ANext]_avars

Symmetry == Permutations(Threads) \cup Permutations(Routines) \cup Permutations(Blocks)

(* The references to a callback block, and those to the header of a        *)
(* security descriptor, are those in the words that point to it, one for   *)
(* each such word, and those of threads: through refills of a word that    *)
(* others take from, exchanges that fail, and removals.                    *)
FastRefsExact == /\ kind = "notify" => RefsExact /\ CountExact
                 /\ kind = "sd" => S!RefsExact

(* No block or header is freed while somebody refers to it: a word, a      *)
(* thread that has counted its reference, one that has read the pointer    *)
(* under the lock of the object and is only about to count it, or a        *)
(* routine whose removal another thread waits for.  The pointer to which   *)
(* ObSetSecurityDescriptorInfo has no reference is none of these, and may  *)
(* dangle: TLC refutes RetryReadsLive.                                     *)
NoReferenceDangles == /\ kind = "notify" => NoUseAfterFree
                      /\ kind = "sd" => S!ReferencesLive

(* The descriptor cache has every descriptor in use once, and in order. *)
CacheExact == kind = "sd" => S!CacheExact

(* The calls of a callback and the references to its object are counted    *)
(* through notifications, registrations and refusals that overlap.         *)
CallbackCounts == kind = "callback" => C!CallbackCounts

(* A callback is called, and a list walked on from it, only while it is    *)
(* registered.                                                             *)
CalledWhileListed == kind = "callback" => C!CalledWhileListed

(* What ObSetSecurityDescriptorInfo is about to set, at the first try or   *)
(* ("Someone changed it behind our back -- try again") at a later one, is  *)
(* what its caller asked for.                                              *)
SetAsAsked == S!SetAsAsked

(* A header that is destroyed ("We're down to zero -- destroy the header", *)
(* ObDereferenceSecurityDescriptor) is read by nobody afterwards: not by a *)
(* new try of ObSetSecurityDescriptorInfo either.                          *)
RetryReadsLive == S!RetryReadsLive
=============================================================================
