------------------------------- MODULE Pipeline -------------------------------
(***************************************************************************)
(* The IngestionPipeline controller: one custom resource, its              *)
(* reconciliation by PipelineHandler, the ingestion pipelines of that name *)
(* in OpenMetadata, and what of them is deployed to Airflow.               *)
(*                                                                         *)
(* A pipeline is found under its fully qualified name: the one of the      *)
(* service it belongs to (spec.forOpenMetadata.service) and its own.  It   *)
(* is deployed and deleted by its ID.  All specs name one connection; what *)
(* an edit of the connection does is Service's matter.                     *)
(***************************************************************************)
EXTENDS ManagedResource

CONSTANTS
  Fqns,         \* the fully qualified names the specs lead to
  FqnOf,        \* the fully qualified name each spec leads to
  BadServices,  \* specs whose service is of a type without an API path
  BadOwners,    \* specs with an owner that is neither a user nor a team
  Foreign,      \* content that somebody else gave a pipeline
  ExternalOps,  \* what others do: subset of {"edit", "delete", "create"}
  MaxExternal   \* bound: how often they do it

ASSUME SpecsAssumption ==
  /\ FqnOf \in [Specs -> Fqns]
  /\ BadServices \subseteq Specs
  /\ BadOwners \subseteq Specs
  /\ MaxExternal \in Nat

VARIABLES
  remote,    \* the pipeline under each fully qualified name, or None
  lastId,    \* entity IDs handed out so far
  external,  \* what others did so far, counted
  lost,      \* history: IDs of pipelines whose recording in status failed,
             \* or was overwritten when the spec moved to another service
  touched    \* history: did others replace a pipeline, or edit one between
             \* comparison or upsert and the re-read after the deployment?

pipelineVars == <<remote, lastId, external, lost, touched>>
vars == <<lifecycleVars, pipelineVars>>

Ids == Nat \ {0}
Contents == Specs \cup {Foreign}

Statuses ==
  [id : Ids \cup {None}, observed : 0..MaxGen, remoteVersion : Nat,
   deployed : BOOLEAN, ready : {"Unknown", "True", "False"}]

EmptyStatus ==
  [id |-> None, observed |-> 0, remoteVersion |-> 0, deployed |-> FALSE,
   ready |-> "Unknown"]

(* dag is what Airflow runs: the content at the last deployment.           *)
Entities ==
  [id : Ids, ver : Ids, content : Contents, deployed : BOOLEAN,
   dag : Contents \cup {None}, by : {"operator", "others"}]

ASSUME NoneAssumption ==
  None \notin Objects(Statuses) \cup Statuses \cup Entities \cup Ids \cup Contents

Steps == {"idle", "addFinalizer", "observe", "query", "upsert", "deploy",
          "refetch", "persist", "delete", "release"}

TypeOK ==
  /\ LifecycleTypeOK(Statuses, Steps)
  /\ remote \in [Fqns -> Entities \cup {None}]
  /\ lastId \in Nat
  /\ external \in 0..MaxExternal
  /\ lost \subseteq Ids
  /\ touched \in BOOLEAN

Init ==
  /\ LifecycleInit
  /\ remote = [f \in Fqns |-> None]
  /\ lastId = 0
  /\ external = 0
  /\ lost = {}
  /\ touched = FALSE

-----------------------------------------------------------------------------
(* OpenMetadata.  A PUT that changes a pipeline makes a new version of it  *)
(* that is not deployed (Airflow keeps what it has); a deployment is a new *)
(* version, too.                                                           *)

NewEntity(content, by) ==
  [id |-> lastId + 1, ver |-> 1, content |-> content, deployed |-> FALSE,
   dag |-> None, by |-> by]

AfterPut(entity, content) ==
  IF entity = None THEN NewEntity(content, "operator")
  ELSE IF entity.content = content /\ ~entity.deployed THEN entity
  ELSE [entity EXCEPT !.content = content, !.ver = @ + 1, !.deployed = FALSE]

IdsAfterPut(entity) == IF entity = None THEN lastId + 1 ELSE lastId

Has(entity, id) == entity # None /\ entity.id = id

AfterDeploy(entity, id) ==
  IF Has(entity, id)
  THEN [entity EXCEPT !.deployed = TRUE, !.ver = @ + 1, !.dag = entity.content]
  ELSE entity

(* Mutant of AfterDelete: what is there is deleted, whatever its ID.       *)
AfterDeleteByName(entity, id) == None

AfterDelete(entity, id) == IF Has(entity, id) THEN None ELSE entity

-----------------------------------------------------------------------------
(* Others.                                                                 *)

External(op) ==
  /\ op \in ExternalOps
  /\ external < MaxExternal
  /\ external' = external + 1
  /\ UNCHANGED <<lifecycleVars, lost>>

ExternalEdit(f) ==
  /\ External("edit")
  /\ remote[f] # None
  /\ remote' = [remote EXCEPT ![f].content = Foreign, ![f].ver = @ + 1]
  /\ touched' = (touched \/ pc \in {"deploy", "refetch"})
  /\ UNCHANGED lastId

ExternalDelete(f) ==
  /\ External("delete")
  /\ remote[f] # None
  /\ remote' = [remote EXCEPT ![f] = None]
  /\ touched' = TRUE
  /\ UNCHANGED lastId

ExternalCreate(f) ==
  /\ External("create")
  /\ remote[f] = None
  /\ remote' = [remote EXCEPT ![f] = NewEntity(Foreign, "others")]
  /\ lastId' = lastId + 1
  /\ touched' = TRUE

-----------------------------------------------------------------------------
(* PipelineHandler.Reconcile.                                              *)

NotReady == [st EXCEPT !.ready = "False"]

(* Resolve the connection, the auth token and the service entity, which    *)
(* here belongs to the prerequisites.  A type without an API path is a     *)
(* permanent error, found before the lookup of the service.                *)
Observe ==
  /\ pc = "observe"
  /\ \/ /\ prereqs
        /\ obj.spec \notin BadServices
        /\ Goto("query")
     \/ /\ ~prereqs
        /\ GotoPersist(NotReady, "error")
     \/ /\ obj.spec \in BadServices
        /\ GotoPersist(NotReady, "done")
  /\ UNCHANGED <<cr, cached, prereqs, lastUid, faults, pipelineVars>>

(* Mutants of DecidePipelineAction: the deployed flag is not looked at; a  *)
(* changed version is not.                                                 *)
DecideWithoutRedeploy(o, entity) ==
  IF entity = None THEN "create"
  ELSE IF o.gen # o.status.observed THEN "update"
  ELSE IF entity.ver # o.status.remoteVersion THEN "correctDrift"
  ELSE "inSync"

DecideWithoutDrift(o, entity) ==
  IF entity = None THEN "create"
  ELSE IF o.gen # o.status.observed THEN "update"
  ELSE IF ~entity.deployed THEN "redeploy"
  ELSE "inSync"

DecidePipelineAction(o, entity) ==
  IF entity = None THEN "create"
  ELSE IF o.gen # o.status.observed THEN "update"
  ELSE IF entity.ver # o.status.remoteVersion THEN "correctDrift"
  ELSE IF ~entity.deployed THEN "redeploy"
  ELSE "inSync"

NeedsUpsert(action) == action \in {"create", "update", "correctDrift"}

(* Look the pipeline up and decide; resolve the owners before an upsert.   *)
Query ==
  /\ pc = "query"
  /\ LET action == DecidePipelineAction(obj, remote[FqnOf[obj.spec]])
     IN  \/ /\ Fault
            /\ GotoPersist(NotReady, "error")
         \/ /\ action = "inSync"
            /\ GotoPersist([st EXCEPT !.ready = "True", !.deployed = TRUE],
                           "requeue")
            /\ UNCHANGED faults
         \/ /\ action = "redeploy"
            /\ Goto("deploy")
            /\ UNCHANGED faults
         \/ /\ NeedsUpsert(action)
            /\ obj.spec \in BadOwners
            /\ GotoPersist(NotReady, "done")
            /\ UNCHANGED faults
         \/ /\ NeedsUpsert(action)
            /\ obj.spec \notin BadOwners
            /\ Goto("upsert")
            /\ UNCHANGED faults
  /\ UNCHANGED <<cr, cached, prereqs, lastUid, pipelineVars>>

(* Mutants of Registered: the ID is not recorded; off-by-one generation.   *)
RegisteredWithoutId(entity) ==
  [st EXCEPT !.observed = obj.gen, !.remoteVersion = entity.ver]

RegisteredAhead(entity) ==
  [st EXCEPT !.id = entity.id, !.observed = obj.gen + 1,
             !.remoteVersion = entity.ver]

(* What an upsert that OpenMetadata answered with entity leaves in status. *)
Registered(entity) ==
  [st EXCEPT !.id = entity.id, !.observed = obj.gen,
             !.remoteVersion = entity.ver]

(* PUT the pipeline: it succeeds, fails, or is applied and its answer      *)
(* lost.  Nothing is written to the CR yet.                                *)
Upsert ==
  /\ pc = "upsert"
  /\ LET f   == FqnOf[obj.spec]
         new == AfterPut(remote[f], obj.spec)
     IN  \/ /\ remote' = [remote EXCEPT ![f] = new]
            /\ lastId' = IdsAfterPut(remote[f])
            /\ pc' = "deploy"
            /\ st' = Registered(new)
            /\ UNCHANGED <<queued, timer, obj, res, faults, lost>>
         \/ /\ Fault
            /\ GotoPersist(NotReady, "error")
            /\ UNCHANGED <<remote, lastId, lost>>
         \/ /\ Fault
            /\ remote' = [remote EXCEPT ![f] = new]
            /\ lastId' = IdsAfterPut(remote[f])
            /\ GotoPersist(NotReady, "error")
            /\ lost' = IF remote[f] = None THEN lost \cup {new.id} ELSE lost
  /\ UNCHANGED <<cr, cached, prereqs, lastUid, external, touched>>

DeployFailed == GotoPersist([NotReady EXCEPT !.deployed = FALSE], "error")

(* POST the deployment of the ID in the working status, which after an     *)
(* upsert is the one it answered and else the recorded one.  It fails if   *)
(* no pipeline has that ID, and may fail with and without its effect.      *)
DeployPipeline ==
  /\ pc = "deploy"
  /\ LET after == [f \in Fqns |-> AfterDeploy(remote[f], st.id)]
         found == \E f \in Fqns : Has(remote[f], st.id)
     IN  \/ /\ found
            /\ remote' = after
            /\ pc' = "refetch"
            /\ st' = [st EXCEPT !.deployed = TRUE]
            /\ UNCHANGED <<queued, timer, obj, res, faults>>
         \/ /\ ~found
            /\ DeployFailed
            /\ UNCHANGED <<remote, faults>>
         \/ /\ Fault
            /\ remote' \in {remote, after}
            /\ DeployFailed
  /\ UNCHANGED <<cr, cached, prereqs, lastUid, lastId, external, lost, touched>>

(* The ID that the reconciliation in flight would record for the first     *)
(* time.                                                                   *)
Unrecorded ==
  IF pc \in {"deploy", "refetch", "persist"} /\ st.id \notin {None, obj.status.id}
  THEN {st.id}
  ELSE {}

(* GET the pipeline again for the version that the deployment gave it.  If *)
(* that fails, Reconcile returns the error WITHOUT a status write: the ID  *)
(* and the generation of the upsert are forgotten.                         *)
Refetch ==
  /\ pc = "refetch"
  /\ LET entity == remote[FqnOf[obj.spec]]
     IN  \/ /\ entity # None
            /\ GotoPersist([st EXCEPT !.remoteVersion = entity.ver,
                                      !.ready = "True"], "requeue")
            /\ UNCHANGED <<faults, lost>>
         \/ /\ \/ entity = None /\ UNCHANGED faults
               \/ Fault
            /\ Return("error")
            /\ lost' = lost \cup Unrecorded
  /\ UNCHANGED <<cr, cached, prereqs, lastUid, remote, lastId, external, touched>>

Recorded == IF cr = None THEN {} ELSE {cr.status.id} \ {None}

Persist ==
  /\ SetConditionAndPersist
  /\ lost' = (lost \cup Unrecorded \cup Recorded) \ Recorded'
  /\ UNCHANGED <<remote, lastId, external, touched>>

-----------------------------------------------------------------------------
(* PipelineHandler.HandleDeletion: DELETE by ID, wherever the pipeline is. *)
(* A missing connection or token is retried without a status write (a      *)
(* missing service does not matter here).                                  *)
Delete ==
  /\ pc = "delete"
  /\ LET gone == [f \in Fqns |-> AfterDelete(remote[f], st.id)]
     IN  \/ /\ st.id = None
            /\ Goto("release")
            /\ UNCHANGED <<remote, faults>>
         \/ /\ st.id # None
            /\ ~prereqs
            /\ Return("error")
            /\ UNCHANGED <<remote, faults>>
         \/ /\ st.id # None
            /\ remote' = gone
            /\ Goto("release")
            /\ UNCHANGED faults
         \/ /\ st.id # None
            /\ Fault
            /\ remote' \in {remote, gone}
            /\ GotoPersist(NotReady, "error")
  /\ UNCHANGED <<cr, cached, prereqs, lastUid, lastId, external, lost, touched>>

-----------------------------------------------------------------------------
(* What Custody sees of all this.                                          *)

CustodyObject == ObjectPhase(cr)
CustodyRecord == IF cr = None THEN None ELSE cr.status.id
CustodyEntities == {remote[f].id : f \in {g \in Fqns : remote[g] # None}}

-----------------------------------------------------------------------------
(* The whole system.                                                       *)

Users ==
  \/ \E s \in Specs : UserCreate(s, EmptyStatus) \/ UserEdit(s)
  \/ UserDelete
  \/ PrereqsLost

Others ==
  \E f \in Fqns : ExternalEdit(f) \/ ExternalDelete(f) \/ ExternalCreate(f)

CrashAndRestart ==
  /\ Crash
  /\ lost' = lost \cup Unrecorded
  /\ UNCHANGED <<remote, lastId, external, touched>>

(* A bound: within the five minutes of a requeue the reconciliation ends   *)
(* and the watch events arrive.  One that starts from a stale cache        *)
(* deploys again, which is a new version; if timers kept starting such     *)
(* ones, versions would have no limit.                                     *)
RequeueFires ==
  /\ pc = "idle"
  /\ cached = cr
  /\ TimerFires
  /\ UNCHANGED pipelineVars

Worker ==
  \/ Dequeue /\ UNCHANGED pipelineVars
  \/ EnsurePresent /\ UNCHANGED pipelineVars
  \/ Observe
  \/ Query
  \/ Upsert
  \/ DeployPipeline
  \/ Refetch
  \/ Persist
  \/ Delete
  \/ EnsureAbsent /\ UNCHANGED pipelineVars

Next ==
  \/ Users /\ UNCHANGED pipelineVars
  \/ Others
  \/ PrereqsRestored /\ UNCHANGED pipelineVars
  \/ CacheSync /\ UNCHANGED pipelineVars
  \/ RequeueFires
  \/ CrashAndRestart
  \/ Worker

Spec == Init /\ [][Next]_vars

Fairness ==
  /\ WF_vars(CacheSync /\ UNCHANGED pipelineVars)
  /\ WF_vars(RequeueFires)
  /\ WF_vars(PrereqsRestored /\ UNCHANGED pipelineVars)
  /\ WF_vars(Worker)

FairSpec == Spec /\ Fairness

-----------------------------------------------------------------------------
(* Properties.                                                             *)

InSync(o, entity) == DecidePipelineAction(o, entity) = "inSync"

(* What "in sync" must mean: OpenMetadata has the content of the spec, and *)
(* Airflow runs it.                                                        *)
AsSpecified(entity, spec) == entity.content = spec /\ entity.dag = spec

(* In every copy of the object the operator may act on, "in sync" means    *)
(* that the pipeline is as specified and deployed as specified - through   *)
(* failed upserts, deployments and re-reads, lost answers, crashes and     *)
(* edits by others - unless others edited in the window that the re-read   *)
(* after the deployment cannot see (pipeline_handler.go:244-251), or put   *)
(* another pipeline, with whatever version, in its place.                  *)
DriftDetectionSound ==
  ~touched =>
    \A o \in {cr, cached, obj} \ {None} :
      LET e == remote[FqnOf[o.spec]]
      IN  InSync(o, e) => AsSpecified(e, o.spec)

(* Every pipeline the operator created is recorded in the status, about to *)
(* be recorded, or one whose recording failed or was overwritten - also in *)
(* the reconciliations that return without a status write                  *)
(* (pipeline_handler.go:248-250), and when the spec moves to another       *)
(* service, which leaves the pipeline of the old one where it is           *)
(* (pipeline_handler.go:171, 230).  Only these survive the resource.       *)
EveryPipelineAccountedFor ==
  \A f \in Fqns :
    LET e == remote[f]
    IN  e # None /\ e.by = "operator" =>
          \/ e.id \in lost \cup Recorded
          \/ pc \in {"deploy", "refetch", "persist"} /\ st.id = e.id

(* The controller implements the custody of its pipelines, wherever they   *)
(* are: made for a guarded object only, removed only if recorded, and      *)
(* outlived by the object that records them - also when the pipeline under *)
(* the name is not the recorded one any more, since a DELETE goes by ID    *)
(* (pipeline_handler.go:292).                                              *)
Guarded == INSTANCE Custody WITH
  object   <- CustodyObject,
  record   <- CustodyRecord,
  entities <- CustodyEntities,
  meddling <- external

ImplementsCustody == Guarded!Spec

(* No lost wake-up: an idle controller hears of every pipeline it can      *)
(* converge or has to delete, although a failed re-read ends the           *)
(* reconciliation without a status write (pipeline_handler.go:249) and a   *)
(* failed status write is not retried.                                     *)
NeverForgotten == Awake(BadServices \cup BadOwners)

(* Once users and others leave it alone, the pipeline is as specified and  *)
(* deployed, and the status says so.                                       *)
Settled ==
  cr # None /\ ~cr.deleting /\ cr.spec \notin BadServices \cup BadOwners =>
    LET e == remote[FqnOf[cr.spec]]
    IN  /\ InSync(cr, e)
        /\ AsSpecified(e, cr.spec)
        /\ cr.status.ready = "True"
        /\ cr.status.deployed

Converges == <>[]Settled

(* A deleted resource goes once prerequisites are back and calls succeed.  *)
DeletionCompletes ==
  []<>(cr = None \/ ~cr.deleting)

=============================================================================
