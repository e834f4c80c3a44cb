------------------------------- MODULE Service -------------------------------
(***************************************************************************)
(* The OpenMetadataService controller: one custom resource, its            *)
(* reconciliation by ServiceHandler, and the services of that name in      *)
(* OpenMetadata.                                                           *)
(*                                                                         *)
(* A service lives at a location: an OpenMetadata instance (named by       *)
(* spec.openMetadataConnectionRef) and, in it, the endpoint of a service   *)
(* category (derived from spec.forOpenMetadata.serviceType).  An edit of   *)
(* the spec may change either.                                             *)
(***************************************************************************)
EXTENDS ManagedResource

CONSTANTS
  Locations,    \* the locations the specs name
  LocationOf,   \* the location of each spec
  BadOwners,    \* specs with an owner that is neither a user nor a team
  Foreign,      \* content that somebody else gave a service
  ExternalOps,  \* what others do: subset of {"edit","delete","create","rotate"}
  MaxExternal   \* bound: how often they do it

ASSUME SpecsAssumption ==
  /\ LocationOf \in [Specs -> Locations]
  /\ BadOwners \subseteq Specs
  /\ MaxExternal \in Nat

VARIABLES
  remote,    \* the service of this name at each location, or None
  lastId,    \* entity IDs handed out so far, over all locations
  secret,    \* which value the secret the spec refers to now holds
  want,      \* the content resolved for this reconciliation
  external,  \* what others did so far, counted
  lost       \* history: IDs of services whose recording in status failed

serviceVars == <<remote, lastId, secret, want, external, lost>>
vars == <<lifecycleVars, serviceVars>>

(* The content PUT: the spec with the secret references resolved.          *)
Content(spec, value) == <<spec, value>>
Contents == (Specs \X Nat) \cup {Foreign}

Ids == Nat \ {0}

Statuses ==
  [id : Ids \cup {None}, observed : 0..MaxGen, remoteVersion : Nat,
   ready : {"Unknown", "True", "False"}]

EmptyStatus ==
  [id |-> None, observed |-> 0, remoteVersion |-> 0, ready |-> "Unknown"]

Entities ==
  [id : Ids, ver : Ids, content : Contents, by : {"operator", "others"}]

ASSUME NoneAssumption ==
  None \notin Objects(Statuses) \cup Statuses \cup Entities \cup Ids

Steps == {"idle", "addFinalizer", "observe", "query", "upsert", "persist",
          "delete", "release"}

TypeOK ==
  /\ LifecycleTypeOK(Statuses, Steps)
  /\ remote \in [Locations -> Entities \cup {None}]
  /\ lastId \in Nat
  /\ secret \in Nat
  /\ want \in Contents \cup {None}
  /\ external \in 0..MaxExternal
  /\ lost \subseteq Ids

Init ==
  /\ LifecycleInit
  /\ remote = [l \in Locations |-> None]
  /\ lastId = 0
  /\ secret = 0
  /\ want = None
  /\ external = 0
  /\ lost = {}

-----------------------------------------------------------------------------
(* OpenMetadata.  A new entity has a fresh ID and the first version; a     *)
(* change of its content is a new version, a PUT of what is there is not.  *)

NewEntity(content, by) ==
  [id |-> lastId + 1, ver |-> 1, content |-> content, by |-> by]

Changed(entity, content) ==
  IF entity.content = content
  THEN entity
  ELSE [entity EXCEPT !.content = content, !.ver = @ + 1]

AfterPut(entity, content) ==
  IF entity = None THEN NewEntity(content, "operator")
                   ELSE Changed(entity, content)

IdsAfterPut(entity) == IF entity = None THEN lastId + 1 ELSE lastId

(* Mutant of AfterDelete: what is there is deleted, whatever its ID.       *)
AfterDeleteByName(entity, id) == None

(* DELETE by ID: 404, a success to the client, if the ID is not there.     *)
AfterDelete(entity, id) ==
  IF entity # None /\ entity.id = id THEN None ELSE entity

-----------------------------------------------------------------------------
(* Others: the OpenMetadata UI, ingestion, owners of secrets.              *)

External(op) ==
  /\ op \in ExternalOps
  /\ external < MaxExternal
  /\ external' = external + 1
  /\ UNCHANGED <<lifecycleVars, want, lost>>

ExternalEdit(l) ==
  /\ External("edit")
  /\ remote[l] # None
  /\ remote' = [remote EXCEPT ![l].content = Foreign, ![l].ver = @ + 1]
  /\ UNCHANGED <<lastId, secret>>

ExternalDelete(l) ==
  /\ External("delete")
  /\ remote[l] # None
  /\ remote' = [remote EXCEPT ![l] = None]
  /\ UNCHANGED <<lastId, secret>>

ExternalCreate(l) ==
  /\ External("create")
  /\ remote[l] = None
  /\ remote' = [remote EXCEPT ![l] = NewEntity(Foreign, "others")]
  /\ lastId' = lastId + 1
  /\ UNCHANGED secret

RotateSecret ==
  /\ External("rotate")
  /\ secret' = secret + 1
  /\ UNCHANGED <<remote, lastId>>

-----------------------------------------------------------------------------
(* ServiceHandler.Reconcile.                                               *)

(* Mutant of NotReady: a failed reconciliation counts as observed.         *)
NotReadyButObserved == [st EXCEPT !.ready = "False", !.observed = obj.gen]

NotReady == [st EXCEPT !.ready = "False"]

(* Resolve the connection, the auth token and the secrets of the config.   *)
Observe ==
  /\ pc = "observe"
  /\ \/ /\ prereqs
        /\ want' = Content(obj.spec, secret)
        /\ Goto("query")
     \/ /\ ~prereqs
        /\ UNCHANGED want
        /\ GotoPersist(NotReady, "error")
  /\ UNCHANGED <<cr, cached, prereqs, lastUid, faults, remote, lastId, secret,
                 external, lost>>

(* Mutant of InSync: whoever has changed the service, only the spec counts *)
InSyncByGeneration(o, entity) ==
  /\ entity # None
  /\ o.gen = o.status.observed

(* What the code takes for "desired state matches actual state".           *)
InSync(o, entity) ==
  /\ entity # None
  /\ o.gen = o.status.observed
  /\ entity.ver = o.status.remoteVersion

(* Look the service up by name and compare; resolve the owners if there is *)
(* something to converge.                                                  *)
Query ==
  /\ pc = "query"
  /\ LET inSync == InSync(obj, remote[LocationOf[obj.spec]])
     IN  \/ /\ Fault
            /\ GotoPersist(NotReady, "error")
         \/ /\ inSync
            /\ GotoPersist([st EXCEPT !.ready = "True"], "requeue")
            /\ UNCHANGED faults
         \/ /\ ~inSync
            /\ obj.spec \in BadOwners
            /\ GotoPersist(NotReady, "done")
            /\ UNCHANGED faults
         \/ /\ ~inSync
            /\ obj.spec \notin BadOwners
            /\ Goto("upsert")
            /\ UNCHANGED faults
  /\ UNCHANGED <<cr, cached, prereqs, lastUid, serviceVars>>

(* Mutants of Registered: the ID is not recorded; off-by-one generation.   *)
RegisteredWithoutId(entity) ==
  [id |-> st.id, observed |-> obj.gen, remoteVersion |-> entity.ver,
   ready |-> "True"]

RegisteredAhead(entity) ==
  [id |-> entity.id, observed |-> obj.gen + 1, remoteVersion |-> entity.ver,
   ready |-> "True"]

(* The status an upsert that OpenMetadata answered with entity leads to.   *)
Registered(entity) ==
  [id |-> entity.id, observed |-> obj.gen, remoteVersion |-> entity.ver,
   ready |-> "True"]

(* PUT the service: it succeeds, fails, or is applied and its answer lost. *)
Upsert ==
  /\ pc = "upsert"
  /\ LET l   == LocationOf[obj.spec]
         new == AfterPut(remote[l], want)
     IN  \/ /\ remote' = [remote EXCEPT ![l] = new]
            /\ lastId' = IdsAfterPut(remote[l])
            /\ GotoPersist(Registered(new), "requeue")
            /\ UNCHANGED <<faults, lost>>
         \/ /\ Fault
            /\ GotoPersist(NotReady, "error")
            /\ UNCHANGED <<remote, lastId, lost>>
         \/ /\ Fault
            /\ remote' = [remote EXCEPT ![l] = new]
            /\ lastId' = IdsAfterPut(remote[l])
            /\ GotoPersist(NotReady, "error")
            /\ lost' = IF remote[l] = None THEN lost \cup {new.id} ELSE lost
  /\ UNCHANGED <<cr, cached, prereqs, lastUid, secret, want, external>>

(* The ID a status write in flight would record for the first time.        *)
Unrecorded ==
  IF pc = "persist" /\ st.id \notin {None, obj.status.id} THEN {st.id} ELSE {}

Persist ==
  /\ SetConditionAndPersist
  /\ lost' = (lost \cup Unrecorded)
             \ (IF cr' = None THEN {} ELSE {cr'.status.id})
  /\ want' = None
  /\ UNCHANGED <<remote, lastId, secret, external>>

-----------------------------------------------------------------------------
(* ServiceHandler.HandleDeletion.                                          *)

(* Delete the recorded service, if one is recorded.  A missing connection  *)
(* or token is retried without a status write (missing secrets of the spec *)
(* do not matter here); a DELETE may fail with and without effect.         *)
Delete ==
  /\ pc = "delete"
  /\ LET l    == LocationOf[obj.spec]
         gone == [remote EXCEPT ![l] = AfterDelete(@, st.id)]
     IN  \/ /\ st.id = None
            /\ Goto("release")
            /\ UNCHANGED <<remote, faults>>
         \/ /\ st.id # None
            /\ ~prereqs
            /\ Return("error")
            /\ UNCHANGED <<remote, faults>>
         \/ /\ st.id # None
            /\ remote' = gone
            /\ Goto("release")
            /\ UNCHANGED faults
         \/ /\ st.id # None
            /\ Fault
            /\ remote' \in {remote, gone}
            /\ GotoPersist(NotReady, "error")
  /\ UNCHANGED <<cr, cached, prereqs, lastUid, lastId, secret, want, external,
                 lost>>

-----------------------------------------------------------------------------
(* What Custody sees of all this.                                          *)

CustodyObject == ObjectPhase(cr)
CustodyRecord == IF cr = None THEN None ELSE cr.status.id
CustodyEntities ==
  {remote[l].id : l \in {k \in Locations : remote[k] # None}}

-----------------------------------------------------------------------------
(* The whole system.                                                       *)

Users ==
  \/ \E s \in Specs : UserCreate(s, EmptyStatus) \/ UserEdit(s)
  \/ UserDelete
  \/ PrereqsLost

Others ==
  \/ \E l \in Locations : ExternalEdit(l) \/ ExternalDelete(l)
                                          \/ ExternalCreate(l)
  \/ RotateSecret

CrashAndRestart ==
  /\ Crash
  /\ lost' = lost \cup Unrecorded
  /\ want' = None
  /\ UNCHANGED <<remote, lastId, secret, external>>

Worker ==
  \/ Dequeue /\ UNCHANGED serviceVars
  \/ EnsurePresent /\ UNCHANGED serviceVars
  \/ Observe
  \/ Query
  \/ Upsert
  \/ Persist
  \/ Delete
  \/ EnsureAbsent /\ UNCHANGED serviceVars

Next ==
  \/ Users /\ UNCHANGED serviceVars
  \/ Others
  \/ PrereqsRestored /\ UNCHANGED serviceVars
  \/ CacheSync /\ UNCHANGED serviceVars
  \/ TimerFires /\ UNCHANGED serviceVars
  \/ CrashAndRestart
  \/ Worker

Spec == Init /\ [][Next]_vars

(* Watch events arrive, timers fire, the worker takes what is queued and   *)
(* finishes what it started, and a missing prerequisite comes back.        *)
Fairness ==
  /\ WF_vars(CacheSync /\ UNCHANGED serviceVars)
  /\ WF_vars(TimerFires /\ UNCHANGED serviceVars)
  /\ WF_vars(PrereqsRestored /\ UNCHANGED serviceVars)
  /\ WF_vars(Worker)

FairSpec == Spec /\ Fairness

-----------------------------------------------------------------------------
(* Properties.                                                             *)

(* From the moment the handler starts until its status write, the very     *)
(* incarnation it read still exists in Kubernetes and carries the          *)
(* finalizer, however stale the cache it was read from and whatever users  *)
(* do meanwhile: nothing is ever registered in OpenMetadata for an object  *)
(* whose deletion the operator would not be asked about (EnsurePresent     *)
(* before Handler.Reconcile, EnsureAbsent only at the end of               *)
(* HandleDeletion).                                                        *)
FinalizerGuardsUpsert == FinalizerGuards({"observe", "query", "upsert"})

(* The content of a spec, with the secrets as they were at some time: the  *)
(* comparison ignores them, so a rotated value waits for the next upsert.  *)
HasContentOf(entity, spec) ==
  \E value \in 0..secret : entity.content = Content(spec, value)

(* In every copy of the object the operator may act on (stored, cached, or *)
(* read by the reconciliation in flight), generation and version identify  *)
(* content: when they say "in sync" with what OpenMetadata has now, then   *)
(* OpenMetadata has the content of that copy's spec, whatever others did   *)
(* to the service.  For the service recorded: an equal version of another  *)
(* one means nothing, and the code does not compare the ID.                *)
DriftDetectionSound ==
  \A o \in {cr, cached, obj} \ {None} :
    LET e == remote[LocationOf[o.spec]]
    IN  InSync(o, e) /\ o.status.id = e.id => HasContentOf(e, o.spec)

(* No lost wake-up: as long as the resource exists and its spec can be     *)
(* converged, an idle controller has the name queued, a requeue pending,   *)
(* or a watch event on its way - although EnsurePresent returns without a  *)
(* requeue and failed status writes are not retried.                       *)
NeverForgotten == Awake(BadOwners)

(* The object never goes from Kubernetes while the service its status      *)
(* records is still at the location its spec names: the finalizer is only  *)
(* released after HandleDeletion removed that service.                     *)
ReleaseAfterCleanup ==
  [][cr # None /\ cr' # cr /\ (cr' = None \/ cr'.uid # cr.uid) =>
       LET e == remote[LocationOf[cr.spec]]
       IN  e = None \/ e.id # cr.status.id]_vars

(* Every service the operator created is recorded in the status, about to  *)
(* be recorded by the reconciliation in flight, or one whose recording     *)
(* failed: only a lost status write makes an orphan (for specs that agree  *)
(* on the location).                                                       *)
EveryServiceAccountedFor ==
  \A l \in Locations :
    LET e == remote[l]
    IN  e # None /\ e.by = "operator" =>
          \/ e.id \in lost
          \/ cr # None /\ cr.status.id = e.id
          \/ pc = "persist" /\ st.id = e.id

(* The controller implements the custody of the services at the locations, *)
(* step by step: whichever calls fail and whichever copy was stale, a      *)
(* service is made for a guarded object only, removed only if recorded and *)
(* only for an object that is to be deleted, and the object outlives what  *)
(* it records (EnsurePresent before Reconcile, HandleDeletion before       *)
(* EnsureAbsent).  For specs that agree on the location: a DELETE is sent  *)
(* to the location of the current spec (service_handler.go:226).           *)
Guarded == INSTANCE Custody WITH
  object   <- CustodyObject,
  record   <- CustodyRecord,
  entities <- CustodyEntities,
  meddling <- external

ImplementsCustody == Guarded!Spec

(* What the finalizer is for (finalizer.go:17-19): once the resource is    *)
(* gone from Kubernetes, nothing the operator created for it remains in    *)
(* OpenMetadata.                                                           *)
NoOrphan ==
  cr = None /\ pc = "idle" =>
    \A l \in Locations : remote[l] # None => remote[l].by = "others"

(* Once users and others leave the resource alone, OpenMetadata ends up    *)
(* with the content of its spec and the status says so: the retries, the   *)
(* watch events and the periodic requeue never leave it behind.            *)
Settled ==
  cr # None /\ ~cr.deleting /\ cr.spec \notin BadOwners =>
    LET e == remote[LocationOf[cr.spec]]
    IN  /\ e # None
        /\ HasContentOf(e, cr.spec)
        /\ InSync(cr, e)
        /\ cr.status.ready = "True"

Converges == <>[]Settled

(* A deleted resource goes: the finalizer does not block for ever once     *)
(* prerequisites are back and calls succeed.                               *)
DeletionCompletes ==
  []<>(cr = None \/ ~cr.deleting)

-----------------------------------------------------------------------------
(* The inductive invariant behind the safety properties.                   *)

(* Until the status write the working status is the one that was read;     *)
(* only a permanent error returns without a requeue; what is PUT was       *)
(* resolved before.                                                        *)
WorkingStatus ==
  /\ pc \in {"query", "upsert"} => want \in Contents
  /\ pc \notin {"idle", "persist"} => st = obj.status
  /\ pc = "persist" /\ res = "done" => ~obj.deleting /\ obj.spec \in BadOwners

IdsUpToLast ==
  /\ \A l \in Locations : remote[l] # None => remote[l].id <= lastId
  /\ \A o \in {cr, cached, obj} \ {None} :
       o.status.id # None => o.status.id <= lastId
  /\ st # None /\ st.id # None => st.id <= lastId

(* Nothing is recorded before the finalizer is stored, and the finalizer   *)
(* is up for release only after the recorded service is gone.              *)
RecordedIsGuarded ==
  /\ cr # None /\ ~cr.finalizer => cr.status.id = None
  /\ pc = "release" =>
       LET e == remote[LocationOf[obj.spec]]
       IN  e = None \/ e.id # obj.status.id

IInv ==
  /\ TypeOK
  /\ LifecycleInv
  /\ NeverForgotten
  /\ WorkingStatus
  /\ IdsUpToLast
  /\ RecordedIsGuarded

=============================================================================
