---------------------------- MODULE SharedService ----------------------------
(***************************************************************************)
(* Two OpenMetadataService resources of one name in two namespaces.        *)
(*                                                                         *)
(* The handler looks services up by the bare name of the resource, and in  *)
(* OpenMetadata a service has no namespace: both resources stand for the   *)
(* same service.  A and B are two instances of Service with an object, a   *)
(* cache entry, a queue entry and a timer each, on one OpenMetadata.  The  *)
(* controller has one worker, so while it reconciles one of them the other *)
(* waits; everything else of the two interleaves.  What other users of     *)
(* OpenMetadata do is a subject of Service; here each of the two is the    *)
(* other's other user.                                                     *)
(***************************************************************************)
EXTENDS Naturals

CONSTANTS
  None,
  Foreign,
  Specs,               \* what either resource may specify,
  SpecsA, SpecsB,      \* and what the users of each give it
  db,                  \* where: the same place
  MaxUidA, MaxUidB,    \* bounds: how often each is created
  MaxGen,              \* bound: generations of one incarnation
  MaxFaults,           \* bound: failures of calls, crashes, lost secrets
  MaxEvents,           \* bound: creations and failures together
  MaxVersion           \* bound: versions two live resources drive it to

VARIABLES
  crA, cachedA, queuedA, timerA, pcA, objA, stA, resA, lastUidA, wantA, lostA,
  crB, cachedB, queuedB, timerB, pcB, objB, stB, resB, lastUidB, wantB, lostB,
  prereqs, faults, remote, lastId, secret

ofA == <<crA, cachedA, queuedA, timerA, pcA, objA, stA, resA, lastUidA, wantA,
         lostA>>
ofB == <<crB, cachedB, queuedB, timerB, pcB, objB, stB, resB, lastUidB, wantB,
         lostB>>

(* What a step of one that is not a step of its handler leaves alone.      *)
othersA == <<wantA, lostA, remote, lastId, secret, ofB>>
othersB == <<wantB, lostB, remote, lastId, secret, ofA>>

vars == <<ofA, ofB, prereqs, faults, remote, lastId, secret>>

A == INSTANCE Service WITH
  Locations <- {db}, LocationOf <- [s \in Specs |-> db], BadOwners <- {},
  MaxUid <- MaxUidA,
  ExternalOps <- {}, MaxExternal <- 0, external <- 0,
  cr <- crA, cached <- cachedA, queued <- queuedA, timer <- timerA, pc <- pcA,
  obj <- objA, st <- stA, res <- resA, lastUid <- lastUidA, want <- wantA,
  lost <- lostA

B == INSTANCE Service WITH
  Locations <- {db}, LocationOf <- [s \in Specs |-> db], BadOwners <- {},
  MaxUid <- MaxUidB,
  ExternalOps <- {}, MaxExternal <- 0, external <- 0,
  cr <- crB, cached <- cachedB, queued <- queuedB, timer <- timerB, pc <- pcB,
  obj <- objB, st <- stB, res <- resB, lastUid <- lastUidB, want <- wantB,
  lost <- lostB

ASSUME SharedAssumption ==
  /\ A!BoundsAssumption /\ B!BoundsAssumption
  /\ A!NoneAssumption /\ B!NoneAssumption

Init == A!Init /\ B!Init

-----------------------------------------------------------------------------
(* Two live resources of different specs overwrite each other for ever,    *)
(* version by version; the bound ends that until one of them is deleted.   *)
Live(o) == o # None /\ ~o.deleting

Contended ==
  /\ Live(cachedA) /\ Live(cachedB)
  /\ remote[db] # None /\ remote[db].ver >= MaxVersion

(* Creations and failures, so often together.                              *)
Bounded == lastUidA' + lastUidB' + faults' <= MaxEvents

StartA == /\ pcB = "idle"
          /\ ~Contended
          /\ A!Dequeue
          /\ UNCHANGED othersA

StartB == /\ pcA = "idle"
          /\ ~Contended
          /\ B!Dequeue
          /\ UNCHANGED othersB

WorkA == pcA # "idle" /\ A!Worker /\ UNCHANGED ofB /\ Bounded

WorkB == pcB # "idle" /\ B!Worker /\ UNCHANGED ofA /\ Bounded

(* Users of either namespace; informer and timer of either resource.       *)
UsersA == /\ A!Users
          /\ crA' # None => crA'.spec \in SpecsA
          /\ UNCHANGED othersA
          /\ Bounded

UsersB == /\ B!Users
          /\ crB' # None => crB'.spec \in SpecsB
          /\ UNCHANGED othersB
          /\ Bounded

SyncA == A!CacheSync /\ UNCHANGED othersA
SyncB == B!CacheSync /\ UNCHANGED othersB
TimerA == A!TimerFires /\ UNCHANGED othersA
TimerB == B!TimerFires /\ UNCHANGED othersB

(* What concerns both: the connection and the token, the one process.      *)
Restored == A!PrereqsRestored /\ UNCHANGED othersA
Restart == A!CrashAndRestart /\ B!CrashAndRestart /\ Bounded

Next ==
  \/ StartA \/ WorkA \/ UsersA \/ SyncA \/ TimerA
  \/ StartB \/ WorkB \/ UsersB \/ SyncB \/ TimerB
  \/ Restored \/ Restart

Spec == Init /\ [][Next]_vars

(* The work queue is first in, first out: a queued name is not passed over *)
(* for ever, hence strong fairness of the two starts.                      *)
Fairness ==
  /\ SF_vars(StartA) /\ SF_vars(StartB)
  /\ WF_vars(WorkA \/ WorkB)
  /\ WF_vars(SyncA) /\ WF_vars(SyncB)
  /\ WF_vars(TimerA) /\ WF_vars(TimerB)
  /\ WF_vars(Restored)

FairSpec == Spec /\ Fairness

-----------------------------------------------------------------------------
(* Properties.                                                             *)

(* Between the two, every service the operator created is accounted for:   *)
(* one of them records it, is about to, or failed to.  A deletion of one   *)
(* resource, which takes the other's service away under its feet, never    *)
(* leaves a service that neither knows of.                                 *)
EveryServiceAccountedFor ==
  LET e == remote[db]
  IN  e # None /\ e.by = "operator" =>
        \/ e.id \in lostA \cup lostB
        \/ crA # None /\ crA.status.id = e.id
        \/ crB # None /\ crB.status.id = e.id
        \/ pcA = "persist" /\ stA.id = e.id
        \/ pcB = "persist" /\ stB.id = e.id

(* No copy of either resource takes the other's content for its own: the   *)
(* version of the service they share tells whose PUT was the last, as long *)
(* as it is the service recorded and not a later one of equal version.     *)
NoneTakesTheOthersForItsOwn ==
  LET e == remote[db]
      Known(o) == e # None /\ e.id = o.status.id
  IN  /\ \A o \in {crA, cachedA, objA} \ {None} :
           Known(o) /\ A!InSync(o, e) => A!HasContentOf(e, o.spec)
      /\ \A o \in {crB, cachedB, objB} \ {None} :
           Known(o) /\ B!InSync(o, e) => B!HasContentOf(e, o.spec)

(* A resource that takes a service it did not record for its own.          *)
Mistaken(o) ==
  /\ o # None
  /\ remote[db] # None
  /\ remote[db].id # o.status.id
  /\ remote[db].ver = o.status.remoteVersion

(* Once one of the two is gone, the other gets its spec into OpenMetadata, *)
(* although the deletion of the first removed the service of both, and     *)
(* although nothing but the timer tells it so.  The exception is a service *)
(* that is not the one recorded but has its version: the first resource,   *)
(* created again, made it, and could not record it before it was deleted.  *)
SurvivorConverges ==
  <>[](/\ crB = None => A!Settled \/ Mistaken(crA)
       /\ crA = None => B!Settled \/ Mistaken(crB))

=============================================================================
