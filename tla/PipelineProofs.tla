---------------------------- MODULE PipelineProofs ----------------------------
(***************************************************************************)
(* Proofs about Pipeline, for every value of its constants: the invariant  *)
(* IInv is inductive; the accounting of pipelines, the refinement of       *)
(* Custody and the soundness of the drift detection follow from it and     *)
(* from what each of them needs in addition.                               *)
(***************************************************************************)
EXTENDS Pipeline, ManagedResourceProofs

(* Until the upsert the working status is the one that was read.           *)
WorkingStatus ==
  pc \notin {"idle", "deploy", "refetch", "persist"} => st = obj.status

IdsUpToLast ==
  /\ \A f \in Fqns : remote[f] # None => remote[f].id <= lastId
  /\ CopiesUpTo(lastId)

(* The finalizer is up for release when the recorded pipeline is gone.     *)
ReleasedIsGone == pc = "release" => obj.status.id \notin CustodyEntities

IInv ==
  /\ TypeOK
  /\ LifecycleInv
  /\ WorkingStatus
  /\ IdsUpToLast
  /\ BareRecordsNothing
  /\ ReleasedIsGone

(* Each pipeline of the operator has its ID in one of three places.        *)
Accounted ==
  \A f \in Fqns :
    remote[f] # None /\ remote[f].by = "operator" =>
      remote[f].id \in lost \cup Recorded \cup Unrecorded

(* From the upsert to the status write an ID that the object does not have *)
(* is that of a pipeline that is there unless others interfered, made for  *)
(* an object read as not deleted.                                          *)
WritesWhatIsThere ==
  pc \in {"deploy", "refetch", "persist"} /\ st.id # obj.status.id =>
    /\ ~obj.deleting
    /\ st.id # None
    /\ external > 0 \/ st.id \in CustodyEntities

CustodyInv ==
  /\ IInv
  /\ WritesWhatIsThere
  /\ DoomedRecordIsFrozen
  /\ GoneIsCleanedUp(CustodyEntities)

-----------------------------------------------------------------------------
(* What a status means, as long as nothing was touched.                    *)

(* The cleanup of the stored object may have begun: no copy of it shows it *)
(* as it was before its deletion.                                          *)
Doomed ==
  /\ cr.deleting
  /\ \A c \in {cached, obj} \ {None} : c.uid = cr.uid => c.deleting

Current(o) == cr # None /\ cr.uid = o.uid

(* The pipeline is the one that status records, and either has a version   *)
(* that status has not seen, or the content of the spec, in Airflow, too,  *)
(* if it is deployed.                                                      *)
Agrees(entity, spec, status) ==
  /\ entity # None
  /\ entity.id = status.id
  /\ \/ status.remoteVersion < entity.ver
     \/ /\ status.remoteVersion = entity.ver
        /\ entity.content = spec
        /\ entity.deployed => entity.dag = spec

(* What a status that covers the generation of o says of the pipeline:     *)
(* that of the stored object agrees with it, or was cleaned up; that of an *)
(* object that has gone is not there any more.                             *)
Right(there, o, status) ==
  status.observed = o.gen =>
    IF Current(o)
    THEN Agrees(there[FqnOf[o.spec]], o.spec, status)
           \/ (there[FqnOf[o.spec]] = None /\ Doomed)
    ELSE there[FqnOf[o.spec]] = None

StatusesAreRight ==
  \A o \in {cr, cached, obj} \ {None} :
    /\ Right(remote, o, o.status)
    /\ o = obj => Right(remote, o, st)

(* Between the upsert, or the comparison that asks for a deployment, and   *)
(* the status write the pipeline is what the reconciliation made of it.    *)
InTheWindow ==
  LET e == remote[FqnOf[obj.spec]]
  IN  pc \in {"deploy", "refetch"} =>
        /\ st.observed = obj.gen
        /\ e # None /\ e.id = st.id /\ e.content = obj.spec
        /\ pc = "deploy" => st.remoteVersion = e.ver /\ ~e.deployed
        /\ pc = "refetch" => st.remoteVersion < e.ver /\ e.dag = obj.spec

(* No status covers a generation that the object did not have.             *)
ObservedUpToGen ==
  /\ \A o \in {cr, cached, obj} \ {None} :
       /\ o.status.observed <= o.gen
       /\ ~o.finalizer => o.status.observed = 0
  /\ st # None => st.observed <= obj.gen

(* The cache never falls behind the object that was read from it.          *)
CacheKeepsUp == obj # None /\ cached # None => obj.uid <= cached.uid

DriftInv ==
  /\ CustodyInv
  /\ ObservedUpToGen
  /\ CacheKeepsUp
  /\ ~touched => StatusesAreRight /\ InTheWindow

-----------------------------------------------------------------------------
(* What steps do to Kubernetes.                                            *)

(* None is not mistaken for a value, and pipelines fit the lemmas about    *)
(* every kind.                                                             *)
LEMMA KindFacts ==
  /\ Kind(Statuses, Steps)
  /\ None \notin Entities /\ None \notin Ids
  /\ EmptyStatus \in Statuses
  /\ EmptyStatus.id = None /\ EmptyStatus.observed = 0
  /\ \A s \in Statuses : s.id # None => s.id \in Ids
  <1>1. /\ EmptyStatus \in Statuses
        /\ EmptyStatus.id = None /\ EmptyStatus.observed = 0
    BY BoundsAssumption DEF EmptyStatus, Statuses
  <1>2. \A s \in Statuses : s.id # None => s.id \in Ids
    BY DEF Statuses
  <1>3. /\ None \notin Objects(Statuses) \cup Statuses
        /\ None \notin Entities \cup Ids
    BY NoneAssumption
  <1> QED
    BY <1>1, <1>2, <1>3 DEF Kind, Steps

(* A status that claims of the pipeline what the working status does.      *)
ClaimsTheSame(status) ==
  /\ status \in Statuses
  /\ status.id = st.id /\ status.observed = st.observed
  /\ status.remoteVersion = st.remoteVersion

(* So does that of a failed reconciliation, and those that only differ in  *)
(* what they say of Ready and of the deployment.                           *)
LEMMA SameClaims ==
  ASSUME st \in Statuses
  PROVE  /\ ClaimsTheSame(st) /\ ClaimsTheSame(NotReady)
         /\ ClaimsTheSame([NotReady EXCEPT !.deployed = FALSE])
         /\ ClaimsTheSame([st EXCEPT !.deployed = TRUE])
         /\ ClaimsTheSame([st EXCEPT !.ready = "True", !.deployed = TRUE])
  <1>1. ClaimsTheSame(st) /\ ClaimsTheSame(NotReady)
    BY DEF ClaimsTheSame, NotReady, Statuses
  <1>2. ASSUME NEW s \in Statuses, NEW d \in BOOLEAN
        PROVE  LET t == [s EXCEPT !.deployed = d]
               IN  /\ t \in Statuses /\ t.id = s.id
                   /\ t.observed = s.observed
                   /\ t.remoteVersion = s.remoteVersion
    BY DEF Statuses
  <1>3. LET t == [st EXCEPT !.ready = "True"]
        IN  ClaimsTheSame(t)
    BY DEF ClaimsTheSame, Statuses
  <1> QED
    BY <1>1, <1>2, <1>3 DEF ClaimsTheSame

(* What a PUT leaves: a new pipeline with a fresh ID, the old one, or a    *)
(* new version of it.  Its content is what was PUT, not deployed yet.      *)
LEMMA PutResult ==
  ASSUME TypeOK, NEW c \in Contents, NEW e \in Entities \cup {None}
  PROVE  /\ AfterPut(e, c) \in Entities
         /\ AfterPut(e, c).content = c /\ ~AfterPut(e, c).deployed
         /\ IdsAfterPut(e) \in Nat /\ lastId <= IdsAfterPut(e)
         /\ e = None => /\ AfterPut(e, c).id = lastId + 1
                        /\ IdsAfterPut(e) = lastId + 1
         /\ e # None => /\ AfterPut(e, c).id = e.id
                        /\ AfterPut(e, c).by = e.by
                        /\ AfterPut(e, c) = e \/ e.ver < AfterPut(e, c).ver
                        /\ IdsAfterPut(e) = lastId
  <1>1. lastId \in Nat /\ lastId + 1 \in Ids /\ 1 \in Ids
    BY DEF TypeOK, Ids
  <1>2. /\ NewEntity(c, "operator") \in Entities
        /\ NewEntity(c, "operator").content = c
        /\ ~NewEntity(c, "operator").deployed
        /\ NewEntity(c, "operator").id = lastId + 1
    BY <1>1 DEF NewEntity, Entities
  <1>3. ASSUME e \in Entities
        PROVE  LET new == [e EXCEPT !.content = c, !.ver = e.ver + 1,
                                    !.deployed = FALSE]
               IN  /\ new \in Entities /\ new.id = e.id /\ new.by = e.by
                   /\ new.content = c /\ e.ver < new.ver /\ ~new.deployed
    <2>1. e.ver \in Ids /\ e.ver + 1 \in Ids /\ e.ver < e.ver + 1
      BY <1>3 DEF Entities, Ids
    <2> QED
      BY <1>3, <2>1 DEF Entities
  <1>4. CASE e = None
    BY <1>1, <1>2, <1>4 DEF AfterPut, IdsAfterPut
  <1>5. CASE e # None /\ e.content = c /\ ~e.deployed
    BY <1>1, <1>5 DEF AfterPut, IdsAfterPut
  <1>6. CASE e # None /\ ~(e.content = c /\ ~e.deployed)
    <2>1. AfterPut(e, c) = [e EXCEPT !.content = c, !.ver = e.ver + 1,
                                     !.deployed = FALSE]
      BY <1>6 DEF AfterPut
    <2> QED
      BY <1>1, <1>3, <1>6, <2>1 DEF IdsAfterPut
  <1> QED
    BY <1>4, <1>5, <1>6

(* What a deployment leaves: a new version, with the content in Airflow,   *)
(* of the pipeline with the ID, and any other as it was.                   *)
LEMMA DeployResult ==
  ASSUME NEW e \in Entities \cup {None}, NEW id
  PROVE  LET new == AfterDeploy(e, id)
         IN  /\ ~Has(e, id) => new = e
             /\ Has(e, id) =>
                  /\ new \in Entities /\ new.id = e.id /\ new.by = e.by
                  /\ new.content = e.content /\ e.ver < new.ver
                  /\ new.dag = e.content
  <1>1. CASE ~Has(e, id)
    BY <1>1 DEF AfterDeploy
  <1>2. CASE Has(e, id)
    <2>1. e \in Entities
      BY <1>2 DEF Has
    <2>2. e.ver \in Ids /\ e.ver + 1 \in Ids /\ e.ver < e.ver + 1
      BY <2>1 DEF Entities, Ids
    <2>3. AfterDeploy(e, id) = [e EXCEPT !.deployed = TRUE, !.ver = e.ver + 1,
                                         !.dag = e.content]
      BY <1>2 DEF AfterDeploy
    <2> QED
      BY <1>2, <2>1, <2>2, <2>3 DEF Entities
  <1> QED
    BY <1>1, <1>2

(* The status after an upsert records the pipeline and the generation that *)
(* was applied.                                                            *)
LEMMA RegisteredStatus ==
  ASSUME NEW e \in Entities, obj \in Objects(Statuses), st \in Statuses
  PROVE  /\ Registered(e) \in Statuses
         /\ Registered(e).id = e.id /\ Registered(e).observed = obj.gen
         /\ Registered(e).remoteVersion = e.ver
  <1>1. obj.gen \in 0..MaxGen /\ e.id \in Ids /\ e.ver \in Nat
    BY ObjectFields, BoundsAssumption DEF Entities, Ids
  <1> QED
    BY <1>1 DEF Registered, Statuses

(* The status after the re-read has the version that was read.             *)
RereadStatus(e) == [st EXCEPT !.remoteVersion = e.ver, !.ready = "True"]

LEMMA RereadResult ==
  ASSUME NEW e \in Entities, st \in Statuses
  PROVE  /\ RereadStatus(e) \in Statuses
         /\ RereadStatus(e).id = st.id /\ RereadStatus(e).observed = st.observed
         /\ RereadStatus(e).remoteVersion = e.ver
  <1>1. e.ver \in Nat
    BY DEF Entities, Ids
  <1> QED
    BY <1>1 DEF RereadStatus, Statuses

(* What a reconciliation in flight works on.                               *)
LEMMA InFlight ==
  ASSUME TypeOK, LifecycleInv, pc # "idle"
  PROVE  /\ obj \in Objects(Statuses) /\ obj # None
         /\ st \in Statuses /\ st # None
         /\ obj.spec \in Specs /\ obj.spec \in Contents
         /\ obj.status \in Statuses /\ obj.gen \in 1..MaxGen
         /\ FqnOf[obj.spec] \in Fqns
         /\ remote[FqnOf[obj.spec]] \in Entities \cup {None}
         /\ pc # "addFinalizer" => obj.finalizer
         /\ pc \in {"delete", "release"} => obj.deleting
         /\ pc \notin {"persist", "delete", "release"} => ~obj.deleting
  <1>1. /\ LifecycleTypeOK(Statuses, Steps)
        /\ remote \in [Fqns -> Entities \cup {None}]
    BY DEF TypeOK
  <1>2. /\ obj \in Objects(Statuses) /\ obj # None
        /\ st \in Statuses /\ st # None
        /\ obj.spec \in Specs /\ obj.status \in Statuses
        /\ obj.gen \in 1..MaxGen
        /\ pc # "addFinalizer" => obj.finalizer
        /\ pc \in {"delete", "release"} => obj.deleting
        /\ pc \notin {"persist", "delete", "release"} => ~obj.deleting
    BY <1>1, InReconciliation
  <1> QED
    BY <1>1, <1>2, SpecsAssumption DEF Contents

-----------------------------------------------------------------------------
(* What the steps of the handler do.                                       *)

HandlerSteps ==
  Observe \/ Query \/ Upsert \/ DeployPipeline \/ Refetch \/ Delete

(* An upsert is applied and answered, fails, or is applied and its answer  *)
(* lost.                                                                   *)
LEMMA UpsertOutcomes ==
  ASSUME TypeOK, LifecycleInv, Upsert
  PROVE  LET f   == FqnOf[obj.spec]
             new == AfterPut(remote[f], obj.spec)
         IN  /\ pc = "upsert" /\ f \in Fqns /\ new \in Entities
             /\ UNCHANGED <<cr, cached, prereqs, lastUid, external, touched>>
             /\ Fault \/ UNCHANGED faults
             /\ \/ UNCHANGED <<remote, lastId>>
                \/ /\ remote' = [remote EXCEPT ![f] = new]
                   /\ lastId' = IdsAfterPut(remote[f])
             /\ \/ /\ remote' = [remote EXCEPT ![f] = new]
                   /\ pc' = "deploy" /\ st' = Registered(new)
                   /\ UNCHANGED <<queued, timer, obj, res, lost>>
                \/ /\ UNCHANGED remote
                   /\ GotoPersist(NotReady, "error")
                   /\ UNCHANGED lost
                \/ /\ remote' = [remote EXCEPT ![f] = new]
                   /\ GotoPersist(NotReady, "error")
                   /\ lost' = IF remote[f] = None THEN lost \cup {new.id} ELSE lost
  <1>1. pc = "upsert"
    BY DEF Upsert
  <1>2. /\ FqnOf[obj.spec] \in Fqns
        /\ AfterPut(remote[FqnOf[obj.spec]], obj.spec) \in Entities
    BY <1>1, InFlight, PutResult
  <1> QED
    BY <1>1, <1>2 DEF Upsert

(* A re-read has an answer, which goes into the status, or the             *)
(* reconciliation ends here.                                               *)
LEMMA RefetchOutcomes ==
  ASSUME TypeOK, LifecycleInv, Refetch
  PROVE  LET e == remote[FqnOf[obj.spec]]
         IN  /\ pc = "refetch"
             /\ UNCHANGED <<cr, cached, prereqs, lastUid, remote, lastId,
                            external, touched>>
             /\ Fault \/ UNCHANGED faults
             /\ \/ /\ e \in Entities
                   /\ GotoPersist(RereadStatus(e), "requeue")
                   /\ RereadStatus(e) \in Statuses
                   /\ UNCHANGED lost
                \/ /\ Return("error")
                   /\ lost' = lost \cup Unrecorded
  <1>1. pc = "refetch"
    BY DEF Refetch
  <1>2. remote[FqnOf[obj.spec]] \in Entities \cup {None} /\ st \in Statuses
    BY <1>1, InFlight
  <1> QED
    BY <1>1, <1>2, RereadResult DEF Refetch, RereadStatus

(* How the steps of a handler leave the reconciliation: it has returned,   *)
(* or goes on, with the same claims or those of an upsert or a re-read.    *)
LEMMA HandlerByStep ==
  ASSUME TypeOK, LifecycleInv, HandlerSteps
  PROVE  /\ pc \in {"observe", "query", "upsert", "deploy", "refetch", "delete"}
         /\ UNCHANGED <<cr, cached, prereqs, lastUid, external, touched>>
         /\ Fault \/ UNCHANGED faults
         /\ \/ Return("error")
            \/ /\ \/ pc # "delete" /\ (Goto("query") \/ Goto("upsert"))
                  \/ Query /\ Goto("deploy")
                  \/ Delete /\ Goto("release")
               /\ UNCHANGED lost
            \/ /\ DeployPipeline /\ pc' = "refetch"
               /\ ClaimsTheSame(st')
               /\ UNCHANGED <<queued, timer, obj, res, lost>>
            \/ /\ \E status \in Statuses, result \in Results :
                    ClaimsTheSame(status) /\ GotoPersist(status, result)
            \/ /\ Refetch /\ remote[FqnOf[obj.spec]] \in Entities
               /\ GotoPersist(RereadStatus(remote[FqnOf[obj.spec]]), "requeue")
               /\ UNCHANGED lost
            \/ /\ Upsert /\ pc' = "deploy"
               /\ st' = Registered(AfterPut(remote[FqnOf[obj.spec]], obj.spec))
               /\ remote' = [remote EXCEPT ![FqnOf[obj.spec]] =
                               AfterPut(remote[FqnOf[obj.spec]], obj.spec)]
               /\ UNCHANGED <<queued, timer, obj, res, lost>>
  <1>1. pc \in {"observe", "query", "upsert", "deploy", "refetch", "delete"}
    BY DEF HandlerSteps, Observe, Query, Upsert, DeployPipeline, Refetch,
       Delete
  <1>2. /\ ClaimsTheSame(NotReady) /\ NotReady \in Statuses
        /\ ClaimsTheSame([NotReady EXCEPT !.deployed = FALSE])
        /\ ClaimsTheSame([st EXCEPT !.deployed = TRUE])
        /\ ClaimsTheSame([st EXCEPT !.ready = "True", !.deployed = TRUE])
    BY <1>1, InFlight, SameClaims DEF ClaimsTheSame
  <1>3. CASE Observe
    <2>1. Goto("query") \/ GotoPersist(NotReady, "error")
            \/ GotoPersist(NotReady, "done")
      BY <1>3 DEF Observe
    <2>2. /\ UNCHANGED <<cr, cached, prereqs, lastUid, external, touched, faults,
                         lost>>
          /\ pc # "delete"
      BY <1>3 DEF Observe, pipelineVars
    <2> QED
      BY <1>1, <1>2, <2>1, <2>2 DEF Results
  <1>4. CASE Query
    <2>1. \/ Goto("upsert") \/ Goto("deploy")
          \/ GotoPersist(NotReady, "error") \/ GotoPersist(NotReady, "done")
          \/ GotoPersist([st EXCEPT !.ready = "True", !.deployed = TRUE], "requeue")
      BY <1>4 DEF Query
    <2>2. /\ UNCHANGED <<cr, cached, prereqs, lastUid, external, touched, lost>>
          /\ Fault \/ UNCHANGED faults
          /\ pc # "delete"
      BY <1>4 DEF Query, pipelineVars
    <2> QED
      BY <1>1, <1>2, <1>4, <2>1, <2>2 DEF Results, ClaimsTheSame
  <1>5. CASE Upsert
    BY <1>1, <1>2, <1>5, UpsertOutcomes DEF Results
  <1>6. CASE DeployPipeline
    <2>1. \/ DeployFailed
          \/ /\ pc' = "refetch" /\ st' = [st EXCEPT !.deployed = TRUE]
             /\ UNCHANGED <<queued, timer, obj, res>>
      BY <1>6 DEF DeployPipeline
    <2>2. /\ UNCHANGED <<cr, cached, prereqs, lastUid, external, touched, lost>>
          /\ Fault \/ UNCHANGED faults
      BY <1>6 DEF DeployPipeline
    <2> QED
      BY <1>1, <1>2, <1>6, <2>1, <2>2 DEF DeployFailed, Results, ClaimsTheSame
  <1>7. CASE Refetch
    BY <1>1, <1>7, RefetchOutcomes
  <1>8. CASE Delete
    <2>1. Goto("release") \/ Return("error") \/ GotoPersist(NotReady, "error")
      BY <1>8 DEF Delete
    <2>2. /\ UNCHANGED <<cr, cached, prereqs, lastUid, external, touched, lost>>
          /\ Fault \/ UNCHANGED faults
      BY <1>8 DEF Delete
    <2> QED
      BY <1>1, <1>2, <1>8, <2>1, <2>2 DEF Results
  <1> QED
    BY <1>3, <1>4, <1>5, <1>6, <1>7, <1>8 DEF HandlerSteps

(* A step of the system is a shared one that leaves OpenMetadata alone, a  *)
(* step of the handler, or a step of others.                               *)
LEMMA StepKinds ==
  ASSUME [Next]_vars
  PROVE  \/ /\ SharedStep(EmptyStatus)
            /\ UNCHANGED <<remote, lastId, external, touched>>
         \/ HandlerSteps
         \/ Others
         \/ UNCHANGED vars
  BY DEF Next, Worker, Users, RequeueFires, Persist, CrashAndRestart,
         SharedStep, HandlerSteps, pipelineVars

(* What others do leaves Kubernetes and the operator alone.                *)
LEMMA OthersElsewhere ==
  ASSUME Others
  PROVE  /\ UNCHANGED <<lifecycleVars, lost>>
         /\ external' = external + 1 /\ external < MaxExternal
  BY DEF Others, ExternalEdit, ExternalDelete, ExternalCreate, External

(* Every step is one that the lemmas about all kinds cover.                *)
LEMMA NextIsLifecycleStep ==
  ASSUME TypeOK, LifecycleInv, [Next]_vars
  PROVE  LifecycleStep(Statuses, Steps, EmptyStatus)
  <1>1. CASE HandlerSteps
    <2> DEFINE Onward == /\ pc' \in Steps \ {"idle", "addFinalizer", "persist"}
                         /\ pc' \in {"delete", "release"} <=> obj.deleting
                         /\ st' \in Statuses
                         /\ UNCHANGED <<queued, timer, obj, res>>
    <2>1. /\ pc \in {"observe", "query", "upsert", "deploy", "refetch", "delete"}
          /\ UNCHANGED <<cr, cached, prereqs, lastUid>>
          /\ Fault \/ UNCHANGED faults
      BY <1>1, HandlerByStep
    <2>2. /\ st \in Statuses /\ obj \in Objects(Statuses)
          /\ pc \in {"delete", "release"} <=> obj.deleting
      BY <2>1, InFlight
    <2>3. CASE \/ pc # "delete" /\ (Goto("query") \/ Goto("upsert"))
               \/ Query /\ Goto("deploy")
               \/ Delete /\ Goto("release")
      <3>1. (Query => pc = "query") /\ (Delete => pc = "delete")
        BY DEF Query, Delete
      <3>2. Onward
        BY <2>1, <2>2, <2>3, <3>1 DEF Goto, Steps
      <3> QED
        BY <2>1, <3>2 DEF LifecycleStep, HandlerStep, Steps
    <2>4. CASE /\ DeployPipeline /\ pc' = "refetch"
               /\ ClaimsTheSame(st')
               /\ UNCHANGED <<queued, timer, obj, res, lost>>
      <3>1. pc = "deploy"
        BY <2>4 DEF DeployPipeline
      <3>2. Onward
        BY <2>2, <2>4, <3>1 DEF ClaimsTheSame, Steps
      <3> QED
        BY <2>1, <3>2 DEF LifecycleStep, HandlerStep, Steps
    <2>5. CASE /\ Upsert /\ pc' = "deploy"
               /\ st' = Registered(AfterPut(remote[FqnOf[obj.spec]], obj.spec))
               /\ UNCHANGED <<queued, timer, obj, res, lost>>
      <3>1. /\ pc = "upsert"
            /\ AfterPut(remote[FqnOf[obj.spec]], obj.spec) \in Entities
        BY <2>5, UpsertOutcomes
      <3>2. st' \in Statuses
        BY <2>2, <2>5, <3>1, RegisteredStatus
      <3>3. Onward
        BY <2>2, <2>5, <3>1, <3>2 DEF Steps
      <3> QED
        BY <2>1, <3>3 DEF LifecycleStep, HandlerStep, Steps
    <2>6. CASE \E status \in Statuses, result \in Results :
                 ClaimsTheSame(status) /\ GotoPersist(status, result)
      BY <2>1, <2>6 DEF LifecycleStep, HandlerStep, Steps
    <2>7. CASE Refetch /\ GotoPersist(RereadStatus(remote[FqnOf[obj.spec]]), "requeue")
                 /\ remote[FqnOf[obj.spec]] \in Entities
      <3>1. RereadStatus(remote[FqnOf[obj.spec]]) \in Statuses
        BY <2>2, <2>7, RereadResult
      <3> QED
        BY <2>1, <2>7, <3>1 DEF LifecycleStep, HandlerStep, Steps, Results
    <2>8. CASE Return("error")
      BY <2>1, <2>8 DEF LifecycleStep, HandlerStep, Steps, Results
    <2> QED
      BY <1>1, <2>3, <2>4, <2>5, <2>6, <2>7, <2>8, HandlerByStep
  <1>2. CASE Others \/ UNCHANGED vars
    BY <1>2, OthersElsewhere DEF vars, LifecycleStep
  <1> QED
    BY <1>1, <1>2, StepKinds DEF LifecycleStep

-----------------------------------------------------------------------------
(* What steps do to OpenMetadata.                                          *)

(* A pipeline under f was there before, perhaps in an older version, or is *)
(* new.                                                                    *)
Evolved(f) ==
  remote'[f] # None =>
    \/ /\ remote[f] # None
       /\ remote'[f].id = remote[f].id
       /\ remote'[f].by = remote[f].by
       /\ remote'[f] = remote[f] \/ remote[f].ver < remote'[f].ver
    \/ /\ remote[f] = None
       /\ remote'[f].id = lastId + 1
       /\ lastId' = lastId + 1

RemoteEvolves ==
  /\ remote' \in [Fqns -> Entities \cup {None}]
  /\ lastId' \in Nat /\ lastId <= lastId'
  /\ \A f \in Fqns : Evolved(f)

(* One pipeline that evolves, the others staying as they are.              *)
LEMMA OneEvolves ==
  ASSUME TypeOK, NEW f \in Fqns, NEW new \in Entities \cup {None},
         remote' = [remote EXCEPT ![f] = new],
         \/ new = None /\ lastId' = lastId
         \/ /\ remote[f] # None /\ lastId' = lastId
            /\ new.id = remote[f].id /\ new.by = remote[f].by
            /\ new = remote[f] \/ remote[f].ver < new.ver
         \/ /\ remote[f] = None
            /\ new.id = lastId + 1 /\ lastId' = lastId + 1
  PROVE  RemoteEvolves
  <1>1. remote \in [Fqns -> Entities \cup {None}] /\ lastId \in Nat
    BY DEF TypeOK
  <1>2. \A g \in Fqns : remote'[g] = IF g = f THEN new ELSE remote[g]
    BY <1>1
  <1>3. \A g \in Fqns : Evolved(g)
    BY <1>2 DEF Evolved
  <1> QED
    BY <1>1, <1>3 DEF RemoteEvolves

(* Nothing evolves in a step that leaves OpenMetadata alone.               *)
LEMMA NothingEvolves ==
  ASSUME TypeOK, UNCHANGED <<remote, lastId>>
  PROVE  RemoteEvolves
  BY DEF TypeOK, RemoteEvolves, Evolved

(* An edit by others makes a new version.                                  *)
LEMMA EditResult ==
  ASSUME TypeOK, NEW f \in Fqns, ExternalEdit(f)
  PROVE  LET new == [remote[f] EXCEPT !.content = Foreign,
                                      !.ver = remote[f].ver + 1]
         IN  /\ remote[f] \in Entities /\ remote[f] # None
             /\ new \in Entities /\ new.id = remote[f].id
             /\ new.by = remote[f].by /\ remote[f].ver < new.ver
             /\ remote' = [remote EXCEPT ![f] = new] /\ lastId' = lastId
  <1> DEFINE new == [remote[f] EXCEPT !.content = Foreign,
                                      !.ver = remote[f].ver + 1]
  <1>1. remote[f] \in Entities \cup {None} /\ Foreign \in Contents
    BY DEF TypeOK, Contents
  <1>2. /\ remote[f] \in Entities /\ remote[f] # None /\ lastId' = lastId
        /\ remote' = [remote EXCEPT ![f] = new]
    BY <1>1 DEF ExternalEdit
  <1>3. remote[f].ver \in Ids /\ remote[f].ver + 1 \in Ids
    BY <1>2 DEF Entities, Ids
  <1>4. /\ new \in Entities /\ new.id = remote[f].id /\ new.by = remote[f].by
        /\ new.ver = remote[f].ver + 1
    BY <1>1, <1>2, <1>3 DEF Entities
  <1>5. remote[f].ver < new.ver
    BY <1>3, <1>4 DEF Ids
  <1> QED
    BY <1>2, <1>4, <1>5

(* What others do to pipelines.                                            *)
LEMMA OthersEvolve ==
  ASSUME TypeOK, Others
  PROVE  RemoteEvolves
  <1>1. PICK f \in Fqns :
               ExternalEdit(f) \/ ExternalDelete(f) \/ ExternalCreate(f)
    BY DEF Others
  <1>2. Foreign \in Contents /\ lastId \in Nat
    BY DEF TypeOK, Contents
  <1>3. CASE ExternalEdit(f)
    BY <1>3, EditResult, OneEvolves
  <1>4. CASE ExternalDelete(f)
    BY <1>4, OneEvolves DEF ExternalDelete
  <1>5. CASE ExternalCreate(f)
    <2>1. /\ remote[f] = None /\ lastId' = lastId + 1
          /\ remote' = [remote EXCEPT ![f] = NewEntity(Foreign, "others")]
      BY <1>5 DEF ExternalCreate
    <2>2. lastId + 1 \in Ids /\ 1 \in Ids
      BY <1>2 DEF Ids
    <2>3. /\ NewEntity(Foreign, "others") \in Entities
          /\ NewEntity(Foreign, "others").id = lastId + 1
      BY <1>2, <2>2 DEF NewEntity, Entities
    <2> QED
      BY <2>1, <2>3, OneEvolves
  <1> QED
    BY <1>1, <1>3, <1>4, <1>5

(* An upsert creates the pipeline, makes a new version of it, or nothing.  *)
LEMMA UpsertEvolves ==
  ASSUME TypeOK, LifecycleInv, Upsert
  PROVE  RemoteEvolves
  <1> DEFINE f   == FqnOf[obj.spec]
             new == AfterPut(remote[f], obj.spec)
  <1>1. /\ f \in Fqns /\ new \in Entities
        /\ \/ UNCHANGED <<remote, lastId>>
           \/ /\ remote' = [remote EXCEPT ![f] = new]
              /\ lastId' = IdsAfterPut(remote[f])
    BY UpsertOutcomes
  <1>2. /\ remote[f] = None => /\ new.id = lastId + 1
                               /\ IdsAfterPut(remote[f]) = lastId + 1
        /\ remote[f] # None => /\ new.id = remote[f].id /\ new.by = remote[f].by
                               /\ new = remote[f] \/ remote[f].ver < new.ver
                               /\ IdsAfterPut(remote[f]) = lastId
    <2>1. pc = "upsert"
      BY DEF Upsert
    <2> QED
      BY <2>1, InFlight, PutResult
  <1> HIDE DEF new, f
  <1> QED
    BY <1>1, <1>2, OneEvolves, NothingEvolves

(* A deployment leaves a pipeline, or makes a new version of it; it        *)
(* neither makes nor removes any.                                          *)
LEMMA DeployEvolves ==
  ASSUME TypeOK, DeployPipeline
  PROVE  /\ RemoteEvolves
         /\ \A f \in Fqns : remote'[f] = None <=> remote[f] = None
  <1> DEFINE after == [f \in Fqns |-> AfterDeploy(remote[f], st.id)]
  <1>1. lastId' = lastId /\ lastId \in Nat /\ remote' \in {remote, after}
    BY DEF DeployPipeline, TypeOK
  <1>2. CASE remote' = remote
    BY <1>1, <1>2, NothingEvolves
  <1>3. CASE remote' = after
    <2>1. ASSUME NEW f \in Fqns
          PROVE  /\ remote'[f] \in Entities \cup {None}
                 /\ remote'[f] = None <=> remote[f] = None
                 /\ Evolved(f)
      <3>1. remote'[f] = AfterDeploy(remote[f], st.id)
        BY <1>3
      <3>2. remote[f] \in Entities \cup {None}
        BY DEF TypeOK
      <3>3. CASE ~Has(remote[f], st.id)
        BY <3>1, <3>2, <3>3, DeployResult DEF Evolved
      <3>4. CASE Has(remote[f], st.id)
        BY <3>1, <3>2, <3>4, DeployResult, KindFacts DEF Evolved, Has
      <3> QED
        BY <3>3, <3>4
    <2>2. remote' \in [Fqns -> Entities \cup {None}]
      BY <1>3, <2>1
    <2> QED
      BY <1>1, <2>1, <2>2 DEF RemoteEvolves
  <1> QED
    BY <1>1, <1>2, <1>3

(* A DELETE leaves every pipeline, or takes those with the recorded ID.    *)
LEMMA DeleteEvolves ==
  ASSUME TypeOK, Delete
  PROVE  /\ RemoteEvolves
         /\ \A f \in Fqns : remote'[f] # None => remote'[f] = remote[f]
         /\ \A f \in Fqns : remote'[f] # remote[f] => Has(remote[f], st.id)
  <1> DEFINE gone == [f \in Fqns |-> AfterDelete(remote[f], st.id)]
  <1>1. lastId' = lastId /\ remote' \in {remote, gone}
    BY DEF Delete
  <1>2. /\ gone \in [Fqns -> Entities \cup {None}]
        /\ \A f \in Fqns : gone[f] # None => gone[f] = remote[f]
        /\ \A f \in Fqns : gone[f] # remote[f] => Has(remote[f], st.id)
    BY DEF AfterDelete, TypeOK
  <1>3. /\ remote' \in [Fqns -> Entities \cup {None}]
        /\ \A f \in Fqns : remote'[f] # None => remote'[f] = remote[f]
        /\ \A f \in Fqns : remote'[f] # remote[f] => Has(remote[f], st.id)
    BY <1>1, <1>2 DEF TypeOK
  <1> QED
    BY <1>1, <1>3 DEF RemoteEvolves, Evolved, TypeOK

(* Every step lets the pipelines evolve.                                   *)
LEMMA NextEvolves ==
  ASSUME TypeOK, LifecycleInv, [Next]_vars
  PROVE  RemoteEvolves
  <1>1. \/ Others \/ Upsert \/ DeployPipeline \/ Delete
        \/ UNCHANGED <<remote, lastId>>
    BY StepKinds DEF HandlerSteps, Observe, Query, Refetch, pipelineVars, vars
  <1> QED
    BY <1>1, OthersEvolve, UpsertEvolves, DeployEvolves, DeleteEvolves,
       NothingEvolves

-----------------------------------------------------------------------------
(* The invariant IInv.                                                     *)

(* IInv holds in every initial state.                                      *)
LEMMA InitInv == Init => IInv
  <1> SUFFICES ASSUME Init PROVE IInv
    OBVIOUS
  <1>1. LifecycleTypeOK(Statuses, Steps)
    <2>1. lastUid \in 0..MaxUid /\ faults \in 0..MaxFaults
      BY BoundsAssumption DEF Init, LifecycleInit
    <2>2. queued \in BOOLEAN /\ timer \in BOOLEAN /\ prereqs \in BOOLEAN
      BY Zenon DEF Init, LifecycleInit
    <2> QED
      BY <2>1, <2>2 DEF Init, LifecycleInit, LifecycleTypeOK, Steps, Results
  <1>2. external \in 0..MaxExternal
    BY SpecsAssumption DEF Init
  <1>3. TypeOK
    <2>1. touched \in BOOLEAN
      BY Zenon DEF Init
    <2> QED
      BY <1>1, <1>2, <2>1 DEF Init, TypeOK
  <1>4. LifecycleInv /\ WorkingStatus /\ BareRecordsNothing /\ ReleasedIsGone
    BY DEF Init, LifecycleInit, LifecycleInv, StepFitsObject, WorkingStatus,
           BareRecordsNothing, ReleasedIsGone
  <1>5. IdsUpToLast
    BY DEF Init, LifecycleInit, IdsUpToLast, CopiesUpTo
  <1> QED
    BY <1>3, <1>4, <1>5 DEF IInv

(* A handler step that goes on keeps the ID in the working status, or puts *)
(* that of the pipeline it has upserted there.                             *)
LEMMA WorkingIdByStep ==
  ASSUME TypeOK, LifecycleInv, HandlerSteps
  PROVE  \/ pc' = "idle" /\ obj' = None /\ st' = None
         \/ /\ pc' # "idle" /\ UNCHANGED <<obj, lost>>
            /\ Goto("query") \/ Goto("upsert") \/ Goto("release")
         \/ /\ pc' \in {"deploy", "refetch", "persist"}
            /\ st' \in Statuses /\ UNCHANGED obj
            /\ st'.id = st.id /\ st'.observed = st.observed
         \/ /\ Upsert /\ pc' = "deploy" /\ st' \in Statuses
            /\ UNCHANGED <<obj, lost>>
            /\ remote'[FqnOf[obj.spec]] \in Entities
            /\ remote'[FqnOf[obj.spec]] =
                 AfterPut(remote[FqnOf[obj.spec]], obj.spec)
            /\ st' = Registered(remote'[FqnOf[obj.spec]])
            /\ st'.id = remote'[FqnOf[obj.spec]].id
  <1>1. /\ st \in Statuses /\ obj \in Objects(Statuses)
        /\ FqnOf[obj.spec] \in Fqns
      BY HandlerByStep, InFlight
  <1>2. CASE Return("error")
    BY <1>2 DEF Return
  <1>3. CASE /\ \/ pc # "delete" /\ (Goto("query") \/ Goto("upsert"))
                \/ Query /\ Goto("deploy")
                \/ Delete /\ Goto("release")
             /\ UNCHANGED lost
    BY <1>1, <1>3 DEF Goto
  <1>4. CASE /\ DeployPipeline /\ pc' = "refetch"
             /\ ClaimsTheSame(st')
             /\ UNCHANGED <<queued, timer, obj, res, lost>>
    BY <1>4 DEF ClaimsTheSame
  <1>5. CASE \E status \in Statuses, result \in Results :
               ClaimsTheSame(status) /\ GotoPersist(status, result)
    BY <1>5 DEF ClaimsTheSame, GotoPersist
  <1>6. CASE /\ Refetch /\ remote[FqnOf[obj.spec]] \in Entities
             /\ GotoPersist(RereadStatus(remote[FqnOf[obj.spec]]), "requeue")
    BY <1>1, <1>6, RereadResult DEF GotoPersist
  <1>7. CASE /\ Upsert /\ pc' = "deploy"
             /\ st' = Registered(AfterPut(remote[FqnOf[obj.spec]], obj.spec))
             /\ remote' = [remote EXCEPT ![FqnOf[obj.spec]] =
                             AfterPut(remote[FqnOf[obj.spec]], obj.spec)]
             /\ UNCHANGED <<queued, timer, obj, res, lost>>
    <2> DEFINE f   == FqnOf[obj.spec]
               new == AfterPut(remote[f], obj.spec)
    <2>1. new \in Entities
      BY <1>7, UpsertOutcomes
    <2>2. remote'[f] = new
      BY <1>1, <1>7 DEF TypeOK
    <2>3. Registered(new) \in Statuses /\ Registered(new).id = new.id
      BY <1>1, <2>1, RegisteredStatus
    <2> QED
      BY <1>7, <2>1, <2>2, <2>3
  <1> QED
    BY <1>2, <1>3, <1>4, <1>5, <1>6, <1>7, HandlerByStep

(* The history of lost recordings has IDs only.                            *)
LEMMA UnrecordedType ==
  ASSUME TypeOK, LifecycleInv
  PROVE  Unrecorded \subseteq Ids
  BY InFlight, KindFacts DEF Unrecorded

(* Every step keeps the types and LifecycleInv.                            *)
LEMMA NextTypes ==
  ASSUME TypeOK, LifecycleInv, [Next]_vars
  PROVE  TypeOK' /\ LifecycleInv'
  <1>1. LifecycleTypeOK(Statuses, Steps)' /\ LifecycleInv'
    BY NextIsLifecycleStep, LifecycleKept, KindFacts DEF TypeOK
  <1>2. remote' \in [Fqns -> Entities \cup {None}] /\ lastId' \in Nat
    BY NextEvolves DEF RemoteEvolves
  <1>3. /\ touched' \in BOOLEAN
        /\ \/ external' = external
           \/ external < MaxExternal /\ external' = external + 1
    <2>1. CASE Others
      <3>1. touched' \in BOOLEAN
        BY <2>1, Zenon DEF Others, ExternalEdit, ExternalDelete,
           ExternalCreate,
                           External, TypeOK
      <3> QED
        BY <2>1, <3>1, OthersElsewhere
    <2>2. CASE UNCHANGED <<touched, external>>
      BY <2>2 DEF TypeOK
    <2> QED
      BY <2>1, <2>2, StepKinds, HandlerByStep DEF vars, pipelineVars
  <1>4. external' \in 0..MaxExternal
    BY <1>3, SpecsAssumption DEF TypeOK
  <1>5. lost' \subseteq Ids
    <2>1. CASE UNCHANGED lost
      BY <2>1 DEF TypeOK
    <2>2. CASE Persist \/ CrashAndRestart
      <3>1. Recorded \subseteq Ids
        BY KindFacts, ObjectFields DEF Recorded, TypeOK, LifecycleTypeOK
      <3> QED
        BY <2>2, <3>1, UnrecordedType DEF Persist, CrashAndRestart, TypeOK
    <2>3. CASE Upsert
      <3> DEFINE new == AfterPut(remote[FqnOf[obj.spec]], obj.spec)
      <3>1. new \in Entities /\ (lost' = lost \/ lost' = lost \cup {new.id})
        BY <2>3, UpsertOutcomes
      <3>2. new.id \in Ids
        BY <3>1 DEF Entities
      <3> QED
        BY <3>1, <3>2 DEF TypeOK
    <2>4. CASE Refetch
      BY <2>4, RefetchOutcomes, UnrecordedType DEF TypeOK
    <2>5. CASE Others
      BY <2>1, <2>5, OthersElsewhere
    <2> QED
      BY <2>1, <2>2, <2>3, <2>4, <2>5
         DEF Next, Worker, RequeueFires, Observe, Query, DeployPipeline,
            Delete,
             pipelineVars, vars
  <1> QED
    BY <1>1, <1>2, <1>3, <1>4, <1>5 DEF TypeOK

(* Every step keeps WorkingStatus.                                         *)
LEMMA NextWorkingStatus ==
  ASSUME TypeOK, LifecycleInv, WorkingStatus, [Next]_vars
  PROVE  WorkingStatus'
  <1>1. CASE HandlerSteps
    <2>1. pc \in {"observe", "query", "upsert", "deploy", "refetch", "delete"}
      BY <1>1, HandlerByStep
    <2>2. pc \in {"deploy", "refetch"} => pc' \in {"idle", "refetch", "persist"}
      BY <1>1 DEF HandlerSteps, Observe, Query, Upsert, DeployPipeline,
         Refetch,
                  Delete, DeployFailed, GotoPersist, Return
    <2> QED
      BY <1>1, <2>1, <2>2, WorkingIdByStep DEF WorkingStatus, Goto
  <1>2. CASE SharedStep(EmptyStatus)
    <2>1. CASE Dequeue
      BY <2>1 DEF Dequeue, WorkingStatus
    <2> QED
      BY <1>2, <2>1
         DEF SharedStep, UserCreate, UserEdit, UserDelete, PrereqsLost,
             PrereqsRestored, CacheSync, TimerFires, Crash, EnsurePresent,
             SetConditionAndPersist, EnsureAbsent, Return, WorkingStatus
  <1>3. CASE Others \/ UNCHANGED vars
    BY <1>3, OthersElsewhere DEF WorkingStatus, vars, lifecycleVars
  <1> QED
    BY <1>1, <1>2, <1>3, StepKinds

(* Every step keeps IdsUpToLast: no ID is known before it is handed out.   *)
LEMMA NextIdsUpToLast ==
  ASSUME TypeOK, LifecycleInv, IdsUpToLast, [Next]_vars
  PROVE  IdsUpToLast'
  <1>1. RemoteEvolves /\ lastId \in Nat
    BY NextEvolves DEF TypeOK
  <1>2. \A f \in Fqns : remote[f] # None => remote[f].id \in Nat
    BY DEF TypeOK, Entities, Ids
  <1>3. \A f \in Fqns : remote'[f] # None => remote'[f].id <= lastId'
    BY <1>1, <1>2 DEF RemoteEvolves, Evolved, IdsUpToLast
  <1>4. pc # "idle" /\ st' \notin {st, None} /\ st'.id # None => st'.id <= lastId'
    <2> SUFFICES ASSUME pc # "idle", st' \notin {st, None}, st'.id # None
                 PROVE  st'.id <= lastId'
      OBVIOUS
    <2>1. HandlerSteps
      BY StepKinds, OthersElsewhere
         DEF SharedStep, UserCreate, UserEdit, UserDelete, PrereqsLost,
             PrereqsRestored, CacheSync, TimerFires, Crash, Dequeue,
             EnsurePresent, SetConditionAndPersist, EnsureAbsent, Return, vars,
             lifecycleVars
    <2>2. CASE st'.id = st.id
      <3>1. st.id \in Ids /\ st # None
        BY <2>2, InFlight, KindFacts
      <3>2. st.id <= lastId
        BY <2>2, <3>1 DEF IdsUpToLast, CopiesUpTo
      <3> QED
        BY <1>1, <2>2, <3>1, <3>2 DEF RemoteEvolves, Ids
    <2>3. CASE /\ remote'[FqnOf[obj.spec]] \in Entities
               /\ st'.id = remote'[FqnOf[obj.spec]].id
      BY <1>3, <2>3, InFlight, KindFacts
    <2> QED
      BY <2>1, <2>2, <2>3, WorkingIdByStep DEF Goto
  <1>5. CopiesUpTo(lastId)'
    BY <1>1, <1>4, NextIsLifecycleStep, KindFacts, CopiesUpToKept
       DEF RemoteEvolves, IdsUpToLast, TypeOK, Ids, CopiesUpTo
  <1> QED
    BY <1>3, <1>5 DEF IdsUpToLast

(* The IDs of the pipelines that are there.                                *)
LEMMA IdsThere ==
  ASSUME TypeOK, NEW id
  PROVE  /\ id \in CustodyEntities <=>
              \E f \in Fqns : remote[f] # None /\ remote[f].id = id
         /\ id \in CustodyEntities => id \in Ids
  BY DEF CustodyEntities, TypeOK, Entities

(* The same after a step.                                                  *)
LEMMA IdsThereNext ==
  ASSUME NEW id
  PROVE  id \in CustodyEntities' <=>
           \E f \in Fqns : remote'[f] # None /\ remote'[f].id = id
  BY DEF CustodyEntities

(* The IDs there after a step were there before, or one is fresh.          *)
LEMMA IdsByStep ==
  ASSUME TypeOK, LifecycleInv, [Next]_vars, NEW id \in CustodyEntities'
  PROVE  id \in CustodyEntities \/ id = lastId + 1
  <1>1. PICK f \in Fqns : remote'[f] # None /\ remote'[f].id = id
    BY IdsThereNext
  <1>2. Evolved(f)
    BY NextEvolves DEF RemoteEvolves
  <1> QED
    BY <1>1, <1>2, IdsThere DEF Evolved

(* No copy records a fresh ID.                                             *)
LEMMA CopiesAreNotFresh ==
  ASSUME TypeOK, IdsUpToLast, NEW o \in {cr, cached, obj} \ {None}
  PROVE  o.status.id # lastId + 1
  <1>1. o.status \in Statuses /\ lastId \in Nat /\ lastId + 1 \in Ids
    BY ObjectFields DEF TypeOK, LifecycleTypeOK, Ids
  <1> QED
    BY <1>1, KindFacts DEF IdsUpToLast, CopiesUpTo, Ids

(* Every step keeps ReleasedIsGone.                                        *)
LEMMA NextReleasedIsGone ==
  ASSUME TypeOK, LifecycleInv, WorkingStatus, IdsUpToLast, ReleasedIsGone,
         [Next]_vars
  PROVE  ReleasedIsGone'
  <1> SUFFICES ASSUME pc' = "release", obj'.status.id \in CustodyEntities'
               PROVE  FALSE
    BY DEF ReleasedIsGone
  <1>1. CASE Delete
    <2>1. /\ pc = "delete" /\ UNCHANGED obj
          /\ \/ st.id = None
             \/ remote' = [f \in Fqns |-> AfterDelete(remote[f], st.id)]
      BY <1>1 DEF Delete, Goto, GotoPersist, Return
    <2>2. st = obj.status
      BY <2>1 DEF WorkingStatus
    <2>3. PICK f \in Fqns : remote'[f] # None /\ remote'[f].id = st.id
      BY <2>1, <2>2, IdsThereNext
    <2>4. remote[f] # None /\ remote[f].id = st.id /\ st.id # None
      <3>1. remote'[f] = remote[f]
        BY <1>1, <2>3, DeleteEvolves
      <3>2. remote[f] \in Entities
        BY <2>3, <3>1 DEF TypeOK
      <3> QED
        BY <2>3, <3>1, <3>2, KindFacts DEF Entities
    <2>5. remote'[f] = AfterDelete(remote[f], st.id)
      BY <2>1, <2>4
    <2> QED
      BY <2>3, <2>4, <2>5 DEF AfterDelete, Has
  <1>2. CASE ~Delete
    <2>1. pc = "release" /\ UNCHANGED obj
      <3>1. ~HandlerSteps
        BY <1>2 DEF HandlerSteps, Observe, Query, Upsert, DeployPipeline,
                    Refetch, Goto, GotoPersist, DeployFailed, Return
      <3>2. CASE Others \/ UNCHANGED vars
        BY <3>2, OthersElsewhere DEF vars, lifecycleVars
      <3>3. CASE SharedStep(EmptyStatus)
        BY <3>3 DEF SharedStep, UserCreate, UserEdit, UserDelete, PrereqsLost,
                    PrereqsRestored, CacheSync, TimerFires, Crash, Dequeue,
                    FirstStep, EnsurePresent, SetConditionAndPersist,
                    EnsureAbsent, Return
      <3> QED
        BY <3>1, <3>2, <3>3, StepKinds
    <2>2. obj # None /\ obj.status.id # lastId + 1
      BY <2>1, InFlight, CopiesAreNotFresh
    <2> QED
      BY <2>1, <2>2, IdsByStep DEF ReleasedIsGone
  <1> QED
    BY <1>1, <1>2

-----------------------------------------------------------------------------
(* The theorems about IInv.                                                *)

(* IInv is an inductive invariant of the IngestionPipeline controller and  *)
(* of what surrounds it.                                                   *)
THEOREM InductiveInvariant == Spec => []IInv
  <1>1. Init => IInv
    BY InitInv
  <1>2. IInv /\ [Next]_vars => IInv'
    <2> SUFFICES ASSUME IInv, [Next]_vars PROVE IInv'
      OBVIOUS
    <2>1. BareRecordsNothing'
      BY NextIsLifecycleStep, BareRecordsNothingKept, KindFacts DEF IInv,
         TypeOK
    <2> QED
      BY <2>1, NextTypes, NextWorkingStatus, NextIdsUpToLast,
         NextReleasedIsGone DEF IInv
  <1> QED
    BY <1>1, <1>2, PTL DEF Spec

(* Every variable keeps its type.                                          *)
THEOREM TypeCorrect == Spec => []TypeOK
  <1>1. IInv => TypeOK
    BY DEF IInv
  <1> QED
    BY <1>1, InductiveInvariant, PTL

-----------------------------------------------------------------------------
(* What follows from IInv and the lifecycle.                               *)

(* From the start of the handler to its status write the object it read    *)
(* exists and carries the finalizer, however stale the cache: no pipeline  *)
(* is pushed or deployed for an object whose deletion the operator would   *)
(* not hear of.                                                            *)
THEOREM FinalizerGuardsHandler ==
  Spec => []FinalizerGuards(
              {"observe", "query", "upsert", "deploy", "refetch"})
  <1>1. IInv => FinalizerGuards(
                  {"observe", "query", "upsert", "deploy", "refetch"})
    BY GuardsHold DEF IInv
  <1> QED
    BY <1>1, InductiveInvariant, PTL

(* An idle controller hears of every pipeline it can converge or has to    *)
(* delete, also after a reconciliation that ended without a status write.  *)
THEOREM NoLostWakeUp == Spec => []NeverForgotten
  <1> DEFINE hopeless == BadServices \cup BadOwners
             Wakes == Awake(hopeless) /\ GivesUpOn(hopeless)
  <1>1. Init => Wakes
    BY DEF Init, LifecycleInit, Awake, GivesUpOn
  <1>2. IInv /\ Wakes /\ [Next]_vars => Wakes'
    <2> SUFFICES ASSUME IInv, Wakes, [Next]_vars PROVE Wakes'
      OBVIOUS
    <2>1. /\ LifecycleTypeOK(Statuses, Steps) /\ LifecycleInv
          /\ Kind(Statuses, Steps)
      BY KindFacts DEF IInv, TypeOK
    <2>2. \/ SharedStep(EmptyStatus)
          \/ UNCHANGED lifecycleVars
          \/ /\ GivesUpOn(BadServices \cup BadOwners)'
             /\ pc' = "idle" => queued' \/ timer'
      <3>1. CASE Observe \/ Query
        <4>1. /\ pc \in {"observe", "query"}
              /\ \/ Goto("query") \/ Goto("upsert") \/ Goto("deploy")
                 \/ \E s : GotoPersist(s, "error") \/ GotoPersist(s, "requeue")
                 \/ /\ \E s : GotoPersist(s, "done")
                    /\ obj.spec \in BadServices \cup BadOwners
          BY <3>1 DEF Observe, Query
        <4> QED
          BY <2>1, <4>1, InReconciliation DEF Goto, GotoPersist, GivesUpOn
      <3>2. CASE Upsert \/ DeployPipeline
        BY <3>2 DEF Upsert, DeployPipeline, DeployFailed, GotoPersist, GivesUpOn
      <3>3. CASE Refetch \/ Delete
        BY <3>3 DEF Refetch, Delete, Goto, GotoPersist, Return, GivesUpOn
      <3>4. CASE Others \/ UNCHANGED vars
        BY <3>4, OthersElsewhere DEF vars
      <3> QED
        BY <3>1, <3>2, <3>3, <3>4, StepKinds DEF HandlerSteps
    <2> QED
      BY <2>1, <2>2, AwakeKept
  <1>3. Wakes => NeverForgotten
    BY DEF NeverForgotten
  <1> QED
    BY <1>1, <1>2, <1>3, InductiveInvariant, PTL DEF Spec

(* No step lets the object go from Kubernetes while the pipeline its       *)
(* status records is in OpenMetadata, under whatever name.                 *)
THEOREM CleanupBeforeRelease ==
  Spec => [][cr # None /\ cr' # cr /\ (cr' = None \/ cr'.uid # cr.uid) =>
               cr.status.id \notin CustodyEntities]_vars
  <1> DEFINE Step == cr # None /\ cr' # cr /\ (cr' = None \/ cr'.uid # cr.uid) =>
                       cr.status.id \notin CustodyEntities
  <1>1. IInv /\ [Next]_vars => [Step]_vars
    <2> SUFFICES ASSUME IInv, Next, cr # None, cr' # cr,
                        cr' = None \/ cr'.uid # cr.uid
                 PROVE  cr.status.id \notin CustodyEntities
      OBVIOUS
    <2>1. /\ LifecycleStep(Statuses, Steps, EmptyStatus)
          /\ LifecycleTypeOK(Statuses, Steps) /\ LifecycleInv
          /\ EmptyStatus \in Statuses /\ Kind(Statuses, Steps)
      BY NextIsLifecycleStep, KindFacts DEF IInv, TypeOK
    <2>2. cr' = None
      BY <2>1, StoredByStep
    <2>3. ~cr.finalizer \/ (pc = "release" /\ cr = obj)
      BY <2>1, <2>2, GoneByStep
    <2>4. None \notin CustodyEntities
      <3>1. \A f \in Fqns : remote[f] # None => remote[f].id # None
        BY KindFacts DEF IInv, TypeOK, Entities
      <3> QED
        BY <3>1 DEF CustodyEntities
    <2> QED
      BY <2>3, <2>4 DEF IInv, BareRecordsNothing, ReleasedIsGone
  <1> QED
    BY <1>1, InductiveInvariant, PTL DEF Spec

-----------------------------------------------------------------------------
(* The accounting.                                                         *)

(* Pipelines that others bring are theirs.                                 *)
LEMMA OthersBringTheirs ==
  ASSUME TypeOK, Others, NEW f \in Fqns, remote[f] = None, remote'[f] # None
  PROVE  remote'[f].by = "others"
  <1>1. PICK g \in Fqns :
               ExternalEdit(g) \/ ExternalDelete(g) \/ ExternalCreate(g)
    BY DEF Others
  <1>2. remote \in [Fqns -> Entities \cup {None}]
    BY DEF TypeOK
  <1> QED
    BY <1>1, <1>2 DEF ExternalEdit, ExternalDelete, ExternalCreate, NewEntity

(* No shared step but the status write and the release of the object makes *)
(* it forget the ID it records.                                            *)
LEMMA RecordedStays ==
  ASSUME IInv, SharedStep(EmptyStatus), pc \notin {"persist", "release"}
  PROVE  Recorded \subseteq Recorded'
  <1>1. /\ LifecycleStep(Statuses, Steps, EmptyStatus)
        /\ LifecycleTypeOK(Statuses, Steps)
    BY DEF LifecycleStep, IInv, TypeOK
  <1>2. CASE cr = None \/ cr' = cr
    BY <1>2 DEF Recorded
  <1>3. CASE cr # None /\ cr' = None
    <2>1. ~cr.finalizer
      BY <1>1, <1>3, GoneByStep, KindFacts DEF IInv
    <2> QED
      BY <1>3, <2>1 DEF IInv, BareRecordsNothing, Recorded
  <1>4. CASE cr # None /\ cr' # None /\ cr' # cr
    <2>1. cr'.status = cr.status
      BY <1>1, <1>4, StoredByStep, KindFacts DEF IInv
    <2> QED
      BY <1>4, <2>1 DEF Recorded
  <1> QED
    BY <1>2, <1>3, <1>4

(* A user does not make the object forget the ID it records, whatever the  *)
(* reconciliation in flight is about.                                      *)
LEMMA RecordedStaysWithUsers ==
  ASSUME IInv, Users
  PROVE  Recorded \subseteq Recorded' /\ UNCHANGED <<pc, obj, st>>
  <1>1. UNCHANGED <<pc, obj, st>>
    BY DEF Users, UserCreate, UserEdit, UserDelete, PrereqsLost
  <1>2. /\ LifecycleStep(Statuses, Steps, EmptyStatus)
        /\ LifecycleTypeOK(Statuses, Steps)
    BY DEF Users, SharedStep, LifecycleStep, IInv, TypeOK
  <1>3. CASE cr = None \/ cr' = cr
    BY <1>1, <1>3 DEF Recorded
  <1>4. ASSUME cr # None, cr' = None
        PROVE  ~cr.finalizer
    <2>1. ~cr.finalizer \/ (pc = "release" /\ EnsureAbsent)
      BY <1>2, <1>4, GoneByStep, KindFacts DEF IInv
    <2> QED
      BY <1>1, <2>1 DEF EnsureAbsent, Return
  <1>5. ASSUME cr # None, cr' # None, cr' # cr
        PROVE  cr'.status = cr.status
    <2>1. cr \in Objects(Statuses)
      BY <1>5 DEF IInv, TypeOK, LifecycleTypeOK
    <2> QED
      BY <1>5, <2>1 DEF Users, UserCreate, UserEdit, UserDelete, PrereqsLost,
                        Objects
  <1> QED
    BY <1>1, <1>3, <1>4, <1>5 DEF IInv, BareRecordsNothing, Recorded

(* A pipeline that was there before a step stays accounted for, as long as *)
(* it is there.                                                            *)
LEMMA OldOnesAccounted ==
  ASSUME IInv, [Next]_vars, NEW id \in lost \cup Recorded \cup Unrecorded,
         id \in CustodyEntities
  PROVE  id \in lost' \cup Recorded' \cup Unrecorded'
  <1>1. CASE Persist
    BY <1>1 DEF Persist
  <1>2. CASE CrashAndRestart
    BY <1>2 DEF CrashAndRestart, Crash, Recorded
  <1>3. CASE EnsureAbsent /\ UNCHANGED pipelineVars
    <2>1. Unrecorded = {} /\ lost' = lost /\ pc = "release"
      BY <1>3 DEF EnsureAbsent, Unrecorded, pipelineVars
    <2>2. CASE cr' = cr
      BY <2>1, <2>2 DEF Recorded
    <2>3. CASE cr' # cr
      <3>1. cr = obj /\ cr # None
        BY <1>3, <2>3 DEF EnsureAbsent, Accepted, Refused, IInv, LifecycleInv,
                          StepFitsObject
      <3>2. id \notin Recorded
        BY <2>1, <3>1 DEF IInv, ReleasedIsGone, Recorded
      <3> QED
        BY <2>1, <3>2
    <2> QED
      BY <2>2, <2>3
  <1>4. CASE HandlerSteps
    <2>1. TypeOK /\ LifecycleInv
      BY DEF IInv
    <2>2. UNCHANGED Recorded
      BY <1>4, <2>1, HandlerByStep DEF Recorded
    <2>3. lost \subseteq lost'
      BY <1>4 DEF HandlerSteps, Observe, Query, Upsert, DeployPipeline,
         Refetch,
                  Delete, pipelineVars
    <2>4. Unrecorded \subseteq lost' \cup Unrecorded'
      <3>1. CASE pc' = "idle"
        <4>1. pc = "refetch" \/ pc \notin {"deploy", "refetch", "persist"}
          BY <1>4, <3>1 DEF HandlerSteps, Observe, Query, Upsert,
             DeployPipeline,
                            DeployFailed, GotoPersist, Refetch, Delete
        <4>2. CASE pc = "refetch"
          BY <1>4, <2>1, <3>1, <4>2, RefetchOutcomes
             DEF HandlerSteps, Observe, Query, Upsert, DeployPipeline, Delete,
                 GotoPersist
        <4> QED
          BY <4>1, <4>2 DEF Unrecorded
      <3>2. CASE Goto("query") \/ Goto("upsert") \/ Goto("release")
        <4>1. pc \notin {"deploy", "refetch", "persist"}
          BY <1>4, <3>2 DEF HandlerSteps, Observe, Query, Upsert,
             DeployPipeline,
                            Refetch, Delete, Goto, GotoPersist, DeployFailed,
                            Return
        <4> QED
          BY <4>1 DEF Unrecorded
      <3>3. CASE pc' \in {"deploy", "refetch", "persist"} /\ UNCHANGED obj
                   /\ st'.id = st.id
        BY <3>3 DEF Unrecorded
      <3>4. CASE Upsert
        BY <3>4 DEF Upsert, Unrecorded
      <3> QED
        BY <1>4, <2>1, <3>1, <3>2, <3>3, <3>4, WorkingIdByStep
    <2> QED
      BY <2>2, <2>3, <2>4
  <1>5. CASE Others \/ UNCHANGED vars
    BY <1>5, OthersElsewhere DEF vars, lifecycleVars, pipelineVars, Recorded,
                                 Unrecorded
  <1>6. CASE (Dequeue \/ EnsurePresent) /\ UNCHANGED pipelineVars
    <2>1. pc \in {"idle", "addFinalizer"} /\ SharedStep(EmptyStatus)
      BY <1>6 DEF Dequeue, EnsurePresent, SharedStep
    <2>2. Unrecorded = {} /\ lost' = lost
      BY <1>6, <2>1 DEF Unrecorded, pipelineVars
    <2> QED
      BY <2>1, <2>2, RecordedStays
  <1>7. CASE \/ PrereqsRestored /\ UNCHANGED pipelineVars
             \/ CacheSync /\ UNCHANGED pipelineVars
             \/ RequeueFires
    BY <1>7 DEF PrereqsRestored, CacheSync, RequeueFires, TimerFires,
                pipelineVars, Recorded, Unrecorded
  <1>8. CASE Users /\ UNCHANGED pipelineVars
    BY <1>8, RecordedStaysWithUsers DEF Unrecorded, pipelineVars
  <1> QED
    BY <1>1, <1>2, <1>3, <1>4, <1>5, <1>6, <1>7, <1>8
       DEF Next, Worker, HandlerSteps

(* Accounted is inductive.                                                 *)
LEMMA NextAccounted ==
  ASSUME IInv, Accounted, [Next]_vars
  PROVE  Accounted'
  <1> SUFFICES ASSUME NEW f \in Fqns, remote'[f] # None,
                      remote'[f].by = "operator"
               PROVE  remote'[f].id \in lost' \cup Recorded' \cup Unrecorded'
    BY DEF Accounted
  <1>1. Evolved(f) /\ TypeOK /\ LifecycleInv
    BY NextEvolves DEF RemoteEvolves, IInv
  <1>2. CASE remote[f] # None
    <2>1. remote'[f].id = remote[f].id /\ remote[f].by = "operator"
      BY <1>1, <1>2 DEF Evolved
    <2>2. remote[f].id \in CustodyEntities
      BY <1>1, <1>2, IdsThere
    <2> QED
      BY <1>2, <2>1, <2>2, OldOnesAccounted DEF Accounted
  <1>3. CASE remote[f] = None
    <2>1. Upsert
      <3>1. ~Others
        BY <1>1, <1>3, OthersBringTheirs
      <3>2. ~Delete /\ ~DeployPipeline
        BY <1>1, <1>3, DeleteEvolves, DeployEvolves
      <3> QED
        BY <1>3, <3>1, <3>2, StepKinds
           DEF HandlerSteps, Observe, Query, Refetch, pipelineVars, vars
    <2> DEFINE g   == FqnOf[obj.spec]
               new == AfterPut(remote[g], obj.spec)
    <2>2. /\ pc = "upsert" /\ new \in Entities
          /\ remote' = [remote EXCEPT ![g] = new] \/ UNCHANGED remote
      BY <1>1, <2>1, UpsertOutcomes
    <2>3. remote \in [Fqns -> Entities \cup {None}]
      BY <1>1 DEF TypeOK
    <2>4. /\ f = g /\ remote'[f] = new
          /\ remote' = [remote EXCEPT ![g] = new]
      BY <1>3, <2>2, <2>3
    <2>5. CASE lost' = lost \cup {new.id}
      BY <2>4, <2>5
    <2>6. CASE pc' = "deploy" /\ st' = Registered(new) /\ obj' = obj
      <3>1. st'.id = new.id
        BY <1>1, <2>2, <2>6, InFlight, RegisteredStatus
      <3>2. new.id = lastId + 1
        BY <1>1, <1>3, <2>4 DEF Evolved
      <3>3. obj.status.id # lastId + 1
        BY <1>1, <2>2, InFlight, CopiesAreNotFresh DEF IInv
      <3>4. new.id # None
        BY <2>2, KindFacts DEF Entities
      <3> QED
        BY <2>4, <2>6, <3>1, <3>2, <3>3, <3>4 DEF Unrecorded
    <2> QED
      BY <1>1, <1>3, <2>1, <2>4, <2>5, <2>6, UpsertOutcomes
  <1> QED
    BY <1>2, <1>3

(* Whatever fails, crashes or is refused, and when a reconciliation ends   *)
(* without a status write: every pipeline of the operator is recorded,     *)
(* about to be, or known as one whose recording was lost.                  *)
THEOREM AllAccountedFor == Spec => []EveryPipelineAccountedFor
  <1>1. Init => Accounted
    BY DEF Init, Accounted
  <1>2. IInv /\ Accounted /\ [Next]_vars => Accounted'
    BY NextAccounted
  <1>3. Accounted => EveryPipelineAccountedFor
    BY DEF Accounted, EveryPipelineAccountedFor, Unrecorded
  <1> QED
    BY <1>1, <1>2, <1>3, InductiveInvariant, PTL DEF Spec

-----------------------------------------------------------------------------
(* The refinement: what it takes beyond IInv.                              *)

(* WritesWhatIsThere is inductive.                                         *)
LEMMA NextWrites ==
  ASSUME IInv, WritesWhatIsThere, [Next]_vars
  PROVE  WritesWhatIsThere'
  <1>1. TypeOK /\ LifecycleInv
    BY DEF IInv
  <1>2. CASE UNCHANGED <<pc, obj, st, remote, external>>
    BY <1>2 DEF WritesWhatIsThere, CustodyEntities
  <1>3. CASE pc' \notin {"deploy", "refetch", "persist"}
    BY <1>3 DEF WritesWhatIsThere
  <1>4. CASE Others
    <2>1. external \in Nat /\ external' = external + 1
      BY <1>1, <1>4, OthersElsewhere, SpecsAssumption DEF TypeOK
    <2>2. UNCHANGED <<pc, obj, st>>
      BY <1>4, OthersElsewhere DEF lifecycleVars
    <2> QED
      BY <2>1, <2>2 DEF WritesWhatIsThere
  <1>5. CASE SharedStep(EmptyStatus) /\ UNCHANGED <<remote, external>>
    BY <1>2, <1>3, <1>5
       DEF SharedStep, UserCreate, UserEdit, UserDelete, PrereqsLost,
           PrereqsRestored, CacheSync, TimerFires, Crash, Dequeue, FirstStep,
           EnsurePresent, SetConditionAndPersist, EnsureAbsent, Return
  <1>6. CASE HandlerSteps
    <2>1. /\ pc \in {"observe", "query", "upsert", "deploy", "refetch", "delete"}
          /\ UNCHANGED external
      BY <1>1, <1>6, HandlerByStep
    <2>2. CASE pc \in {"deploy", "refetch"} /\ UNCHANGED obj /\ st'.id = st.id
      <3>1. st.id \in CustodyEntities => st.id \in CustodyEntities'
        <4>1. DeployPipeline \/ UNCHANGED remote
          BY <1>6, <2>2 DEF HandlerSteps, Observe, Query, Upsert, Refetch,
             Delete
        <4>2. DeployPipeline \/ CustodyEntities' = CustodyEntities
          BY <4>1 DEF CustodyEntities
        <4>3. ASSUME DeployPipeline, st.id \in CustodyEntities
              PROVE  st.id \in CustodyEntities'
          <5>1. PICK f \in Fqns : remote[f] # None /\ remote[f].id = st.id
            BY <1>1, <4>3, IdsThere
          <5>2. remote'[f] # None /\ Evolved(f)
            BY <1>1, <4>3, <5>1, DeployEvolves DEF RemoteEvolves
          <5>3. remote'[f].id = st.id
            BY <5>1, <5>2 DEF Evolved
          <5> QED
            BY <5>2, <5>3, IdsThereNext
        <4> QED
          BY <4>2, <4>3
      <3> QED
        BY <2>1, <2>2, <3>1 DEF WritesWhatIsThere
    <2>3. CASE /\ pc \notin {"deploy", "refetch"}
               /\ UNCHANGED obj /\ st'.id = st.id
      <3>1. st = obj.status
        BY <2>1, <2>3 DEF IInv, WorkingStatus
      <3> QED
        BY <2>3, <3>1 DEF WritesWhatIsThere
    <2>4. CASE /\ Upsert /\ UNCHANGED obj
               /\ remote'[FqnOf[obj.spec]] \in Entities
               /\ st'.id = remote'[FqnOf[obj.spec]].id
      <3>1. FqnOf[obj.spec] \in Fqns /\ ~obj.deleting
        BY <1>1, <2>4, InFlight DEF Upsert
      <3>2. st'.id # None /\ st'.id \in CustodyEntities'
        BY <2>4, <3>1, IdsThereNext, KindFacts DEF Entities
      <3> QED
        BY <2>4, <3>1, <3>2 DEF WritesWhatIsThere
    <2> QED
      BY <1>1, <1>3, <1>6, <2>2, <2>3, <2>4, WorkingIdByStep DEF Goto
  <1> QED
    BY <1>2, <1>4, <1>5, <1>6, StepKinds DEF vars, lifecycleVars, pipelineVars

(* CustodyInv is inductive.                                                *)
LEMMA NextCustody ==
  ASSUME CustodyInv, [Next]_vars, IInv'
  PROVE  CustodyInv'
  <1>1. /\ LifecycleStep(Statuses, Steps, EmptyStatus)
        /\ LifecycleTypeOK(Statuses, Steps) /\ LifecycleInv
        /\ Kind(Statuses, Steps) /\ EmptyStatus \in Statuses
    BY NextIsLifecycleStep, KindFacts DEF CustodyInv, IInv, TypeOK
  <1>2. DoomedKeepsRecord
    BY DEF CustodyInv, WritesWhatIsThere, DoomedKeepsRecord
  <1>3. DoomedRecordIsFrozen'
    BY <1>1, <1>2, DoomedRecordIsFrozenKept DEF CustodyInv
  <1>4. GoneIsCleanedUp(CustodyEntities)'
    <2>1. ASSUME NEW o \in {cached, obj} \ {None},
                 o.status.id \in CustodyEntities'
          PROVE  o.status.id \in CustodyEntities
      <3>1. o.status.id # lastId + 1
        BY CopiesAreNotFresh DEF CustodyInv, IInv
      <3> QED
        BY <2>1, <3>1, IdsByStep DEF CustodyInv, IInv
    <2>2. pc = "release" => obj.status.id \notin CustodyEntities
      BY DEF CustodyInv, IInv, ReleasedIsGone
    <2>3. DoomedRecordIsFrozen /\ GoneIsCleanedUp(CustodyEntities)
      BY DEF CustodyInv
    <2> QED
      BY <1>1, <2>1, <2>2, <2>3, GoneIsCleanedUpKept DEF GoneIsCleanedUp
  <1> QED
    BY <1>3, <1>4, NextWrites DEF CustodyInv

-----------------------------------------------------------------------------
(* The refinement, step by step.                                           *)

CustodyView == <<CustodyObject, CustodyRecord, CustodyEntities, external>>

(* A shared step is one of Custody's that leaves the pipelines alone.      *)
LEMMA SharedStepSimulated ==
  ASSUME CustodyInv, SharedStep(EmptyStatus), UNCHANGED <<remote, external>>
  PROVE  [Guarded!Next]_CustodyView
  <1>1. UNCHANGED <<CustodyEntities, external>>
    BY DEF CustodyEntities
  <1>2. /\ CustodyObject = ObjectPhase(cr) /\ CustodyObject' = ObjectPhase(cr)'
        /\ CustodyRecord = RecordedId(cr) /\ CustodyRecord' = RecordedId(cr)'
    BY DEF CustodyObject, CustodyRecord, RecordedId
  <1>3. CASE UNCHANGED <<ObjectPhase(cr), RecordedId(cr)>>
    BY <1>1, <1>2, <1>3 DEF CustodyView
  <1>4. CASE /\ \/ ObjectPhase(cr) = "none" /\ ObjectPhase(cr)' = "bare"
                \/ /\ ObjectPhase(cr) = "bare"
                   /\ ObjectPhase(cr)' \in {"none", "kept"}
                \/ ObjectPhase(cr) = "kept" /\ ObjectPhase(cr)' = "doomed"
             /\ UNCHANGED RecordedId(cr)
    <2>1. Guarded!Want \/ Guarded!Withdraw \/ Guarded!Keep
      BY <1>1, <1>2, <1>4 DEF Guarded!Want, Guarded!Withdraw, Guarded!Keep
    <2> QED
      BY <2>1 DEF Guarded!Next
  <1>5. CASE /\ pc = "persist" /\ cr = obj /\ st.id # obj.status.id
             /\ ObjectPhase(cr) = "kept" /\ ObjectPhase(cr)' = "kept"
             /\ RecordedId(cr)' = st.id
    <2>1. st.id # None /\ (external > 0 \/ st.id \in CustodyEntities)
      BY <1>5 DEF CustodyInv, WritesWhatIsThere
    <2>2. Guarded!Record
      BY <1>1, <1>2, <1>5, <2>1 DEF Guarded!Record
    <2> QED
      BY <2>2 DEF Guarded!Next
  <1>6. CASE /\ pc = "release" /\ cr = obj
             /\ ObjectPhase(cr) = "doomed" /\ ObjectPhase(cr)' = "none"
             /\ RecordedId(cr)' = None
    <2>1. CustodyRecord \notin CustodyEntities
      <3>1. obj # None
        BY <1>6 DEF CustodyInv, IInv, LifecycleInv, StepFitsObject
      <3> QED
        BY <1>6, <3>1 DEF CustodyInv, IInv, ReleasedIsGone, CustodyRecord
    <2>2. Guarded!Release
      BY <1>1, <1>2, <1>6, <2>1 DEF Guarded!Release
    <2> QED
      BY <2>2 DEF Guarded!Next
  <1>7. DoomedKeepsRecord
    BY DEF CustodyInv, WritesWhatIsThere, DoomedKeepsRecord
  <1> QED
    BY <1>3, <1>4, <1>5, <1>6, <1>7, PhaseByStep, KindFacts
       DEF CustodyInv, IInv, TypeOK

(* Steps that leave the stored object alone.                               *)
LEMMA ViewOfObject ==
  ASSUME UNCHANGED cr
  PROVE  UNCHANGED <<CustodyObject, CustodyRecord>>
  BY DEF CustodyObject, CustodyRecord, ObjectPhase

(* Others meddle.                                                          *)
LEMMA OthersSimulated ==
  ASSUME CustodyInv, Others
  PROVE  Guarded!Meddle
  <1>1. UNCHANGED <<CustodyObject, CustodyRecord>> /\ external' = external + 1
    BY OthersElsewhere, ViewOfObject DEF lifecycleVars
  <1>2. PICK f \in Fqns : ExternalEdit(f) \/ ExternalDelete(f) \/ ExternalCreate(f)
    BY DEF Others
  <1>3. remote \in [Fqns -> Entities \cup {None}] /\ TypeOK /\ RemoteEvolves
    BY OthersEvolve DEF CustodyInv, IInv, TypeOK
  <1>4. \A g \in Fqns \ {f} : remote'[g] = remote[g]
    BY <1>2, <1>3 DEF ExternalEdit, ExternalDelete, ExternalCreate
  <1>5. CASE ExternalEdit(f)
    <2>1. /\ remote[f] # None /\ remote'[f] # None
          /\ remote'[f].id = remote[f].id
      BY <1>3, <1>5, EditResult, KindFacts
    <2>2. ASSUME NEW id
          PROVE  id \in CustodyEntities' <=> id \in CustodyEntities
      BY <1>3, <1>4, <2>1, IdsThere, IdsThereNext
    <2>3. UNCHANGED CustodyEntities
      BY <2>2
    <2> QED
      BY <1>1, <2>3 DEF Guarded!Meddle
  <1>6. CASE ExternalDelete(f)
    <2>1. remote[f] # None /\ remote'[f] = None
      BY <1>3, <1>6 DEF ExternalDelete
    <2> DEFINE gone == remote[f].id
    <2>2. ASSUME NEW id
          PROVE  id \in CustodyEntities' <=>
                   \E g \in Fqns \ {f} : remote[g] # None /\ remote[g].id = id
      BY <1>4, <2>1, IdsThereNext
    <2>3. CASE gone \in CustodyEntities'
      <3>1. ASSUME NEW id
            PROVE  id \in CustodyEntities' <=> id \in CustodyEntities
        BY <1>3, <2>2, <2>3, IdsThere
      <3>2. UNCHANGED CustodyEntities
        BY <3>1
      <3> QED
        BY <1>1, <3>2 DEF Guarded!Meddle
    <2>4. CASE gone \notin CustodyEntities'
      <3>1. ASSUME NEW id
            PROVE  id \in CustodyEntities' <=> id \in CustodyEntities \ {gone}
        BY <1>3, <2>2, <2>4, IdsThere
      <3>2. gone \in CustodyEntities
        BY <1>3, <2>1, IdsThere
      <3>3. CustodyEntities' = CustodyEntities \ {gone}
        BY <3>1
      <3> QED
        BY <1>1, <3>2, <3>3 DEF Guarded!Meddle
    <2> QED
      BY <2>3, <2>4
  <1>7. CASE ExternalCreate(f)
    <2> DEFINE new == NewEntity(Foreign, "others")
    <2>1. remote[f] = None /\ remote'[f] = new
      BY <1>3, <1>7 DEF ExternalCreate
    <2>2. new # None
      <3>1. lastId + 1 \in Ids /\ 1 \in Ids /\ Foreign \in Contents
        BY <1>3 DEF TypeOK, Ids, Contents
      <3>2. new \in Entities
        BY <3>1 DEF NewEntity, Entities
      <3> QED
        BY <3>2, KindFacts
    <2>3. ASSUME NEW id
          PROVE  id \in CustodyEntities' <=> id \in CustodyEntities \cup {new.id}
      <3> HIDE DEF new
      <3> QED
        BY <1>3, <1>4, <2>1, <2>2, IdsThere, IdsThereNext
    <2>4. /\ new.id \in CustodyEntities'
          /\ CustodyEntities' = CustodyEntities \cup {new.id}
      BY <2>3
    <2> QED
      BY <1>1, <2>4 DEF Guarded!Meddle
  <1> QED
    BY <1>2, <1>5, <1>6, <1>7

(* A PUT makes a pipeline, if there was none, for an object that is kept   *)
(* or at least not gone.                                                   *)
LEMMA UpsertSimulated ==
  ASSUME CustodyInv, Upsert
  PROVE  Guarded!Make \/ UNCHANGED CustodyView
  <1> DEFINE f   == FqnOf[obj.spec]
             new == AfterPut(remote[f], obj.spec)
  <1>1. TypeOK /\ LifecycleInv /\ IdsUpToLast
    BY DEF CustodyInv, IInv
  <1>2. /\ pc = "upsert" /\ f \in Fqns /\ new \in Entities
        /\ UNCHANGED <<cr, external>>
        /\ UNCHANGED remote \/ remote' = [remote EXCEPT ![f] = new]
    BY <1>1, UpsertOutcomes
  <1>3. UNCHANGED <<CustodyObject, CustodyRecord, external>>
    BY <1>2, ViewOfObject
  <1>4. CASE UNCHANGED remote
    BY <1>3, <1>4 DEF CustodyView, CustodyEntities
  <1>5. CASE remote' = [remote EXCEPT ![f] = new]
    <2>1. /\ remote'[f] = new /\ new # None
          /\ \A g \in Fqns \ {f} : remote'[g] = remote[g]
      BY <1>1, <1>2, <1>5, KindFacts DEF TypeOK
    <2>2. CASE remote[f] # None
      <3>1. new.id = remote[f].id
        BY <1>1, <1>2, <2>2, InFlight, PutResult
      <3>2. ASSUME NEW id
            PROVE  id \in CustodyEntities' <=> id \in CustodyEntities
        <4> HIDE DEF new, f
        <4> QED
          BY <1>1, <1>2, <2>1, <2>2, <3>1, IdsThere, IdsThereNext
      <3>3. UNCHANGED CustodyEntities
        BY <3>2
      <3> QED
        BY <1>3, <3>3 DEF CustodyView
    <2>3. CASE remote[f] = None
      <3>1. new.id = lastId + 1 /\ lastId \in Nat
        BY <1>1, <1>2, <2>3, InFlight, PutResult DEF TypeOK
      <3>2. new.id \notin CustodyEntities
        <4>1. \A g \in Fqns : remote[g] # None => remote[g].id \in Nat
          BY <1>1 DEF TypeOK, Entities, Ids
        <4> QED
          BY <1>1, <3>1, <4>1, IdsThere DEF IdsUpToLast
      <3>3. ASSUME NEW id
            PROVE  id \in CustodyEntities' <=> id \in CustodyEntities \cup {new.id}
        <4> HIDE DEF new, f
        <4> QED
          BY <1>1, <1>2, <2>1, <2>3, IdsThere, IdsThereNext
      <3>4. /\ new.id \in CustodyEntities' \ CustodyEntities
            /\ CustodyEntities' = CustodyEntities \cup {new.id}
        BY <3>2, <3>3
      <3>5. CustodyObject \in {"kept", "doomed"}
        BY <1>1, <1>2, InFlight DEF LifecycleInv, Follows, CustodyObject,
                                    ObjectPhase
      <3> QED
        BY <1>3, <3>4, <3>5 DEF Guarded!Make
    <2> QED
      BY <2>2, <2>3
  <1> QED
    BY <1>2, <1>4, <1>5

(* A DELETE removes the recorded pipeline of a doomed object, or nothing.  *)
LEMMA DeleteSimulated ==
  ASSUME CustodyInv, Delete
  PROVE  Guarded!Remove \/ UNCHANGED CustodyView
  <1>1. /\ UNCHANGED <<CustodyObject, CustodyRecord, external>>
        /\ pc = "delete" /\ TypeOK /\ LifecycleInv
        /\ st = obj.status /\ obj # None /\ obj.deleting
    BY ViewOfObject, InFlight DEF Delete, CustodyInv, IInv, WorkingStatus
  <1>2. CASE UNCHANGED remote
    BY <1>1, <1>2 DEF CustodyView, CustodyEntities
  <1>3. CASE remote' = [f \in Fqns |-> AfterDelete(remote[f], st.id)]
    <2>1. ASSUME NEW id
          PROVE  id \in CustodyEntities' <=> id \in CustodyEntities \ {st.id}
      <3>1. \A f \in Fqns : remote'[f] = AfterDelete(remote[f], st.id)
        BY <1>3
      <3> QED
        BY <1>1, <3>1, IdsThere, IdsThereNext DEF AfterDelete, Has
    <2>2. CustodyEntities' = CustodyEntities \ {st.id}
      BY <2>1
    <2>3. CASE st.id \notin CustodyEntities
      <3>1. UNCHANGED CustodyEntities
        BY <2>2, <2>3
      <3> QED
        BY <1>1, <3>1 DEF CustodyView
    <2>4. CASE st.id \in CustodyEntities
      <3>1. cr # None /\ cr.uid = obj.uid
        BY <1>1, <2>4 DEF CustodyInv, GoneIsCleanedUp
      <3>2. cr.deleting /\ cr.finalizer
        BY <1>1, <3>1 DEF LifecycleInv, Follows
      <3>3. cr.status.id = st.id
        BY <1>1, <3>1 DEF CustodyInv, DoomedRecordIsFrozen
      <3>4. CustodyObject = "doomed" /\ CustodyRecord = st.id
        BY <3>1, <3>2, <3>3 DEF CustodyObject, CustodyRecord, ObjectPhase
      <3> QED
        BY <1>1, <2>2, <2>4, <3>4 DEF Guarded!Remove
    <2> QED
      BY <2>3, <2>4
  <1> QED
    BY <1>2, <1>3 DEF Delete

(* A deployment neither makes nor removes a pipeline.                      *)
LEMMA DeploymentsAreUnseen ==
  ASSUME CustodyInv, DeployPipeline
  PROVE  UNCHANGED CustodyView
  <1>1. TypeOK
    BY DEF CustodyInv, IInv
  <1>2. UNCHANGED <<CustodyObject, CustodyRecord, external>>
    BY ViewOfObject DEF DeployPipeline
  <1>3. ASSUME NEW f \in Fqns
        PROVE  /\ remote'[f] = None <=> remote[f] = None
               /\ remote[f] # None => remote'[f].id = remote[f].id
    BY <1>1, DeployEvolves DEF RemoteEvolves, Evolved
  <1>4. ASSUME NEW id
        PROVE  id \in CustodyEntities' <=> id \in CustodyEntities
    BY <1>1, <1>3, IdsThere, IdsThereNext
  <1>5. UNCHANGED CustodyEntities
    BY <1>4
  <1> QED
    BY <1>2, <1>5 DEF CustodyView

(* Every step is one of Custody's, or shows nothing to it.                 *)
LEMMA StepSimulated ==
  ASSUME CustodyInv, [Next]_vars
  PROVE  [Guarded!Next]_CustodyView
  <1>1. CASE SharedStep(EmptyStatus) /\ UNCHANGED <<remote, lastId, external>>
    BY <1>1, SharedStepSimulated
  <1>2. CASE Observe \/ Query \/ Refetch \/ UNCHANGED vars
    <2>1. UNCHANGED <<cr, remote, external>>
      BY <1>2 DEF Observe, Query, Refetch, vars, lifecycleVars, pipelineVars
    <2> QED
      BY <2>1, ViewOfObject DEF CustodyView, CustodyEntities
  <1>3. CASE Upsert
    BY <1>3, UpsertSimulated DEF Guarded!Next
  <1>4. CASE Delete
    BY <1>4, DeleteSimulated DEF Guarded!Next
  <1>5. CASE DeployPipeline
    BY <1>5, DeploymentsAreUnseen
  <1>6. CASE Others
    BY <1>6, OthersSimulated DEF Guarded!Next
  <1> QED
    BY <1>1, <1>2, <1>3, <1>4, <1>5, <1>6, StepKinds DEF HandlerSteps

(* The IngestionPipeline controller implements Custody, whatever services  *)
(* the specs name over time: a pipeline is made for an object that has the *)
(* finalizer only, none is removed but the recorded one of an object that  *)
(* is to be deleted, and that object does not go before what it records.   *)
THEOREM PipelineIsCustody == Spec => ImplementsCustody
  <1>1. Init => Guarded!Init
    BY DEF Init, LifecycleInit, Guarded!Init, CustodyObject, CustodyRecord,
           CustodyEntities, ObjectPhase
  <1>2. CustodyInv /\ [Next]_vars => [Guarded!Next]_(Guarded!custodyVars)
    BY StepSimulated DEF CustodyView, Guarded!custodyVars
  <1>3. Init => CustodyInv
    BY InitInv DEF CustodyInv, WritesWhatIsThere, DoomedRecordIsFrozen,
                   GoneIsCleanedUp, Init, LifecycleInit
  <1>4. CustodyInv /\ IInv' /\ [Next]_vars => CustodyInv'
    BY NextCustody
  <1> QED
    BY <1>1, <1>2, <1>3, <1>4, InductiveInvariant, PTL
       DEF Spec, ImplementsCustody, Guarded!Spec

Consequences == INSTANCE CustodyProofs WITH
  object   <- CustodyObject,
  record   <- CustodyRecord,
  entities <- CustodyEntities,
  meddling <- external

(* The pipeline that a live resource records is in OpenMetadata as long as *)
(* others keep their hands off: no edit of its name or service, no failed  *)
(* deployment or re-read, no crash or stale cache makes the operator itself*)
(* take it away or record one that is not there.                           *)
THEOREM RecordedPipelineIsThere ==
  Spec => [](external = 0 /\ cr # None /\ ~cr.deleting /\ cr.status.id # None
               => cr.status.id \in CustodyEntities)
  <1> DEFINE There ==
        external = 0 /\ cr # None /\ ~cr.deleting /\ cr.status.id # None
          => cr.status.id \in CustodyEntities
  <1>1. Spec => Consequences!Spec
    <2>1. Guarded!Init => Consequences!Init
      BY DEF Guarded!Init, Consequences!Init
    <2>2. [Guarded!Next]_(Guarded!custodyVars)
            => [Consequences!Next]_(Consequences!custodyVars)
      BY Zenon
         DEF Guarded!Next, Guarded!Want, Guarded!Withdraw, Guarded!Meddle,
             Guarded!Keep, Guarded!Make, Guarded!Record, Guarded!Remove,
             Guarded!Release, Guarded!custodyVars, Consequences!Next,
             Consequences!Want, Consequences!Withdraw, Consequences!Meddle,
             Consequences!Keep, Consequences!Make, Consequences!Record,
             Consequences!Remove, Consequences!Release,
             Consequences!custodyVars
    <2> QED
      BY <2>1, <2>2, PipelineIsCustody, PTL
         DEF ImplementsCustody, Guarded!Spec, Consequences!Spec
  <1>2. Consequences!Spec => []Consequences!RecordIsThere
    BY Consequences!RecordIsAlwaysThere, PTL
  <1>3. Consequences!RecordIsThere => There
    BY DEF Consequences!RecordIsThere, CustodyObject, CustodyRecord,
           ObjectPhase
  <1> QED
    BY <1>1, <1>2, <1>3, PTL

-----------------------------------------------------------------------------
(* The drift detection: generations and copies.                            *)

(* The facts about every kind that the proofs below start from.            *)
LEMMA LifecycleFacts ==
  ASSUME DriftInv, [Next]_vars
  PROVE  /\ TypeOK /\ LifecycleInv /\ WorkingStatus /\ ReleasedIsGone
         /\ LifecycleTypeOK(Statuses, Steps)
         /\ LifecycleStep(Statuses, Steps, EmptyStatus)
         /\ Kind(Statuses, Steps) /\ EmptyStatus \in Statuses
  BY NextIsLifecycleStep, KindFacts DEF DriftInv, CustodyInv, IInv, TypeOK

(* A step that is not the handler's leaves the working status, or takes    *)
(* the one of the object it reads.                                         *)
LEMMA WorkingStatusElsewhere ==
  ASSUME [Next]_vars, ~HandlerSteps
  PROVE  \/ UNCHANGED <<pc, obj, st>>
         \/ pc' = "idle" /\ obj' = None /\ st' = None
         \/ /\ pc' \in {"addFinalizer", "observe", "delete"}
            /\ obj' = cached /\ cached # None /\ st' = cached.status
  BY StepKinds, OthersElsewhere
     DEF SharedStep, UserCreate, UserEdit, UserDelete, PrereqsLost,
         PrereqsRestored, CacheSync, TimerFires, Crash, Dequeue, FirstStep,
         EnsurePresent, SetConditionAndPersist, EnsureAbsent, Return, vars,
         lifecycleVars

(* Every step keeps ObservedUpToGen.                                       *)
LEMMA NextObservedUpToGen ==
  ASSUME DriftInv, [Next]_vars
  PROVE  ObservedUpToGen'
  <1>1. /\ TypeOK /\ LifecycleInv /\ LifecycleTypeOK(Statuses, Steps)
        /\ LifecycleStep(Statuses, Steps, EmptyStatus)
        /\ Kind(Statuses, Steps) /\ EmptyStatus \in Statuses
        /\ ObservedUpToGen
    BY LifecycleFacts DEF DriftInv
  <1>2. ASSUME cr' # None
        PROVE  /\ cr'.status.observed <= cr'.gen
               /\ ~cr'.finalizer => cr'.status.observed = 0
    <2>1. CASE cr' = cr
      BY <1>1, <1>2, <2>1 DEF ObservedUpToGen
    <2>2. CASE cr' # cr /\ cr = None
      <3>1. cr'.gen = 1 /\ cr'.status = EmptyStatus
        BY <1>1, <1>2, <2>2, StoredByStep
      <3> QED
        BY <3>1, KindFacts
    <2>3. CASE cr' # cr /\ cr # None
      <3>1. /\ cr.gen \in Nat /\ cr.status.observed \in Nat
            /\ cr.status.observed <= cr.gen
            /\ ~cr.finalizer => cr.status.observed = 0
        BY <1>1, <2>3, ObjectFields, BoundsAssumption
           DEF LifecycleTypeOK, Statuses, Objects, ObservedUpToGen
      <3>2. pc = "persist" => st # None /\ obj.finalizer
        BY <1>1 DEF LifecycleInv, StepFitsObject
      <3>3. /\ cr.finalizer => cr'.finalizer
            /\ \/ /\ cr'.gen \in {cr.gen, cr.gen + 1}
                  /\ cr'.status = cr.status
               \/ pc = "persist" /\ cr = obj /\ cr'.status = st /\ cr'.gen = cr.gen
        BY <1>1, <1>2, <2>3, StoredByStep
      <3> QED
        BY <1>1, <3>1, <3>2, <3>3 DEF ObservedUpToGen
    <2> QED
      BY <2>1, <2>2, <2>3
  <1>3. ASSUME NEW o \in {cached', obj'} \ {None}
        PROVE  /\ o.status.observed <= o.gen
               /\ ~o.finalizer => o.status.observed = 0
    BY <1>1, <1>3, CopiesByStep DEF ObservedUpToGen
  <1>4. ASSUME st' # None
        PROVE  st'.observed <= obj'.gen
    <2>1. CASE HandlerSteps
      <3>1. /\ st # None /\ obj \in Objects(Statuses) /\ obj.gen \in Nat
            /\ st \in Statuses /\ st.observed <= obj.gen
        BY <1>1, <2>1, HandlerByStep, InFlight, BoundsAssumption
           DEF ObservedUpToGen
      <3>2. CASE obj' = obj /\ st'.observed = st.observed
        BY <3>1, <3>2
      <3>3. CASE /\ obj' = obj /\ remote'[FqnOf[obj.spec]] \in Entities
                 /\ st' = Registered(remote'[FqnOf[obj.spec]])
        <4>1. st'.observed = obj.gen
          BY <3>1, <3>3, RegisteredStatus
        <4> QED
          BY <3>1, <3>3, <4>1
      <3> QED
        BY <1>1, <1>4, <2>1, <3>2, <3>3, WorkingIdByStep DEF Goto
    <2>2. CASE ~HandlerSteps
      BY <1>1, <1>4, <2>2, WorkingStatusElsewhere DEF ObservedUpToGen
    <2> QED
      BY <2>1, <2>2
  <1> QED
    BY <1>2, <1>3, <1>4 DEF ObservedUpToGen

(* Every step keeps CacheKeepsUp.                                          *)
LEMMA NextCacheKeepsUp ==
  ASSUME DriftInv, [Next]_vars
  PROVE  CacheKeepsUp'
  <1>1. /\ LifecycleInv /\ LifecycleTypeOK(Statuses, Steps) /\ CacheKeepsUp
        /\ LifecycleStep(Statuses, Steps, EmptyStatus)
    BY LifecycleFacts DEF DriftInv
  <1>2. /\ \A o \in {cached, obj} \ {None} : o.uid \in Int /\ o.uid <= lastUid
        /\ cr # None => cr.uid = lastUid
    BY <1>1, ObjectFields DEF LifecycleInv, Follows, LifecycleTypeOK
  <1> QED
    BY <1>1, <1>2, CopiesByStep DEF CacheKeepsUp

(* Copies of the stored object stay just that, until it goes.              *)
LEMMA CurrentByStep ==
  ASSUME DriftInv, [Next]_vars
  PROVE  \A o \in {cr, cached, obj} \ {None} : Current(o)' => Current(o)
  <1> SUFFICES ASSUME NEW o \in {cr, cached, obj} \ {None}, Current(o)'
               PROVE  Current(o)
    OBVIOUS
  <1>1. /\ LifecycleInv /\ LifecycleTypeOK(Statuses, Steps)
        /\ LifecycleStep(Statuses, Steps, EmptyStatus)
        /\ Kind(Statuses, Steps) /\ EmptyStatus \in Statuses
    BY LifecycleFacts
  <1>2. o.uid \in Int /\ o.uid <= lastUid /\ lastUid \in Int
    BY <1>1, ObjectFields, BoundsAssumption
       DEF LifecycleInv, Follows, LifecycleTypeOK
  <1>3. cr' # None /\ cr'.uid = o.uid
    BY DEF Current
  <1>4. CASE cr' = cr
    BY <1>3, <1>4 DEF Current
  <1>5. CASE cr' # cr
    <2>1. cr # None /\ cr'.uid = cr.uid
      BY <1>1, <1>2, <1>3, <1>5, StoredByStep
    <2> QED
      BY <1>3, <2>1 DEF Current
  <1> QED
    BY <1>4, <1>5

(* Once the cleanup may have begun, no copy from before the deletion comes *)
(* back.                                                                   *)
LEMMA DoomedStays ==
  ASSUME DriftInv, [Next]_vars, cr # None, Doomed, cr' # None, cr'.uid = cr.uid
  PROVE  Doomed'
  <1>1. /\ LifecycleInv /\ LifecycleTypeOK(Statuses, Steps)
        /\ LifecycleStep(Statuses, Steps, EmptyStatus)
        /\ Kind(Statuses, Steps) /\ EmptyStatus \in Statuses
    BY LifecycleFacts
  <1>2. cr'.deleting
    BY <1>1, StoredByStep DEF Doomed
  <1>3. ASSUME NEW c \in {cached', obj'} \ {None}, c.uid = cr'.uid
        PROVE  c.deleting
    BY <1>1, <1>3, CopiesByStep DEF Doomed
  <1> QED
    BY <1>2, <1>3 DEF Doomed

(* While a reconciliation is at work for an object that it read as live,   *)
(* all copies are of the stored object, and the cleanup has not begun.     *)
LEMMA AllCurrent ==
  ASSUME DriftInv, pc \notin {"idle", "addFinalizer", "persist"}, ~obj.deleting
  PROVE  /\ cr # None /\ obj # None /\ ~Doomed
         /\ \A o \in {cr, cached, obj} \ {None} : Current(o)
  <1>1. TypeOK /\ LifecycleInv /\ CacheKeepsUp
    BY DEF DriftInv, CustodyInv, IInv
  <1>2. obj # None /\ obj.finalizer /\ Follows(obj)
    BY <1>1, InFlight DEF LifecycleInv
  <1>3. cr # None /\ cr.uid = obj.uid /\ cr.uid = lastUid
    BY <1>1, <1>2 DEF Follows, LifecycleInv
  <1>4. ASSUME cached # None
        PROVE  cached.uid = cr.uid
    <2>1. cached.uid <= lastUid /\ obj.uid <= cached.uid
      BY <1>1, <1>2, <1>4 DEF LifecycleInv, Follows, CacheKeepsUp
    <2>2. cached.uid \in Int /\ obj.uid \in Int
      BY <1>1, <1>2, <1>4, ObjectFields DEF TypeOK, LifecycleTypeOK
    <2> QED
      BY <1>3, <2>1, <2>2
  <1> QED
    BY <1>2, <1>3, <1>4 DEF Current, Doomed

-----------------------------------------------------------------------------
(* The drift detection: what statuses say.                                 *)

(* o is a copy of the object, and status what it or the reconciliation in  *)
(* flight says of it.                                                      *)
Held(o, status) ==
  /\ o \in {cr, cached, obj} \ {None}
  /\ status = o.status \/ (o = obj /\ status = st)

(* What is known of the statuses held.                                     *)
LEMMA HeldFacts ==
  ASSUME DriftInv
  PROVE  \A o, status : Held(o, status) =>
           /\ o \in Objects(Statuses) /\ status \in Statuses
           /\ o.gen \in Nat \ {0} /\ o.uid \in Int
           /\ FqnOf[o.spec] \in Fqns
           /\ status.observed \in Nat /\ status.observed <= o.gen
           /\ Follows(o)
  <1> SUFFICES ASSUME NEW o, NEW status, Held(o, status)
               PROVE  /\ o \in Objects(Statuses) /\ status \in Statuses
                      /\ o.gen \in Nat \ {0} /\ o.uid \in Int
                      /\ FqnOf[o.spec] \in Fqns
                      /\ status.observed \in Nat /\ status.observed <= o.gen
                      /\ Follows(o)
    OBVIOUS
  <1>1. /\ LifecycleTypeOK(Statuses, Steps) /\ LifecycleInv
        /\ ObservedUpToGen
    BY DEF DriftInv, CustodyInv, IInv, TypeOK
  <1>2. o \in Objects(Statuses)
    BY <1>1 DEF Held, LifecycleTypeOK
  <1>3. o = obj => st # None
    BY <1>1 DEF Held, LifecycleInv, StepFitsObject
  <1>4. status \in Statuses /\ status.observed <= o.gen
    <2>1. CASE status = o.status
      BY <1>1, <1>2, <2>1, ObjectFields DEF Held, ObservedUpToGen
    <2>2. CASE o = obj /\ status = st
      BY <1>1, <1>3, <2>2 DEF ObservedUpToGen, LifecycleTypeOK
    <2> QED
      BY <2>1, <2>2 DEF Held
  <1>5. /\ o.gen \in Nat \ {0} /\ o.uid \in Int
        /\ FqnOf[o.spec] \in Fqns
    BY <1>2, ObjectFields, BoundsAssumption, SpecsAssumption DEF Objects
  <1>6. status.observed \in Nat
    BY <1>4, BoundsAssumption DEF Statuses
  <1>7. Follows(o)
    <2>1. CASE o = cr
      <3>1. cr # None /\ cr.uid = lastUid /\ cr.gen \in Nat /\ cr.uid \in Int
        BY <1>1, <1>5, <2>1 DEF LifecycleInv, Held
      <3> QED
        BY <2>1, <3>1 DEF Follows
    <2>2. CASE o \in {cached, obj} \ {None}
      BY <1>1, <2>2 DEF LifecycleInv
    <2> QED
      BY <2>1, <2>2 DEF Held
  <1> QED
    BY <1>2, <1>4, <1>5, <1>6, <1>7

(* They are right as long as nothing was touched.                          *)
LEMMA HeldIsRight ==
  ASSUME DriftInv, ~touched
  PROVE  /\ InTheWindow
         /\ \A o, status : Held(o, status) => Right(remote, o, status)
  <1>1. StatusesAreRight /\ InTheWindow
    BY Zenon DEF DriftInv
  <1>2. ASSUME NEW o, NEW status, Held(o, status)
        PROVE  Right(remote, o, status)
    <2>1. CASE status = o.status
      BY <1>1, <1>2, <2>1, Zenon DEF Held, StatusesAreRight
    <2>2. CASE o = obj /\ status = st
      <3>1. Right(remote, obj, st)
        BY <1>1, <1>2, <2>2, Zenon DEF Held, StatusesAreRight
      <3> QED
        BY <2>2, <3>1, Zenon
    <2> QED
      BY <1>2, <2>1, <2>2 DEF Held
  <1> QED
    BY <1>1, <1>2

(* What was touched stays touched.                                         *)
LEMMA TouchedStays ==
  ASSUME DriftInv, [Next]_vars, ~touched'
  PROVE  ~touched
  <1>1. CASE Others
    BY <1>1, Zenon DEF Others, ExternalEdit, ExternalDelete, ExternalCreate
  <1>2. CASE HandlerSteps
    BY <1>2, LifecycleFacts, HandlerByStep
  <1> QED
    BY <1>1, <1>2, StepKinds DEF vars, pipelineVars

(* Only steps that leave OpenMetadata alone change the stored object.      *)
LEMMA StoredOrRemote ==
  ASSUME DriftInv, [Next]_vars, cr' # cr
  PROVE  UNCHANGED remote /\ SharedStep(EmptyStatus)
  <1>1. ~HandlerSteps
    BY LifecycleFacts, HandlerByStep
  <1> QED
    BY <1>1, StepKinds, OthersElsewhere DEF vars, lifecycleVars

(* The object goes when the pipeline of every status that covers its       *)
(* generation is not there any more.                                       *)
LEMMA LeavingIsClean ==
  ASSUME DriftInv, [Next]_vars, ~touched
  PROVE  \A o, status :
           /\ Held(o, status) /\ status.observed = o.gen
           /\ Current(o) /\ ~Current(o)'
           => remote[FqnOf[o.spec]] = None /\ UNCHANGED remote
  <1> SUFFICES ASSUME NEW o, NEW status, Held(o, status),
                      status.observed = o.gen, Current(o), ~Current(o)'
               PROVE  remote[FqnOf[o.spec]] = None /\ UNCHANGED remote
    OBVIOUS
  <1>1. /\ LifecycleInv /\ LifecycleTypeOK(Statuses, Steps) /\ WorkingStatus
        /\ LifecycleStep(Statuses, Steps, EmptyStatus) /\ TypeOK
        /\ Kind(Statuses, Steps) /\ EmptyStatus \in Statuses /\ ReleasedIsGone
    BY LifecycleFacts
  <1>2. /\ o \in Objects(Statuses) /\ o.gen \in Nat \ {0} /\ Follows(o)
        /\ FqnOf[o.spec] \in Fqns /\ Right(remote, o, status)
    BY HeldFacts, HeldIsRight
  <1>3. cr # None /\ cr.uid = o.uid /\ cr' # cr
    BY DEF Current
  <1>4. cr' = None
    <2>1. cr' # None => cr'.uid = cr.uid
      BY <1>1, <1>3, StoredByStep
    <2> QED
      BY <1>3, <2>1 DEF Current
  <1>5. UNCHANGED remote
    BY <1>3, StoredOrRemote
  <1>6. CASE ~cr.finalizer
    <2>1. ~o.finalizer
      BY <1>2, <1>3, <1>6 DEF Follows
    <2>2. o.status.observed = 0
      BY <2>1 DEF DriftInv, ObservedUpToGen, Held
    <2>3. o = obj => st = obj.status
      <3>1. o = obj => pc = "addFinalizer"
        BY <1>1, <2>1 DEF Held, LifecycleInv, StepFitsObject
      <3> QED
        BY <1>1, <3>1 DEF WorkingStatus
    <2> QED
      BY <1>2, <2>2, <2>3 DEF Held
  <1>7. CASE pc = "release" /\ cr = obj
    <2>1. /\ st = obj.status /\ obj.deleting /\ obj # None
          /\ obj.status.id \notin CustodyEntities
      BY <1>1, <1>3, <1>7 DEF WorkingStatus, ReleasedIsGone, LifecycleInv,
                              StepFitsObject
    <2>2. status = o.status
      BY <2>1 DEF Held
    <2>3. o.status.id = obj.status.id
      <3>1. CASE o = cached
        <4>1. cached.deleting /\ cached # None
          BY <1>1, <1>3, <1>7, <2>1, <3>1 DEF LifecycleInv, Held
        <4> QED
          BY <1>3, <1>7, <3>1, <4>1 DEF DriftInv, CustodyInv,
             DoomedRecordIsFrozen
      <3> QED
        BY <1>7, <3>1 DEF Held
    <2>4. ~Agrees(remote[FqnOf[o.spec]], o.spec, status)
      BY <1>1, <1>2, <2>1, <2>2, <2>3, IdsThere DEF Agrees
    <2> QED
      BY <1>2, <1>5, <2>4 DEF Right
  <1> QED
    BY <1>1, <1>3, <1>4, <1>6, <1>7, GoneByStep

(* A new version agrees with what agreed with the old one.                 *)
LEMMA AgreesKept ==
  ASSUME DriftInv, [Next]_vars
  PROVE  \A f \in Fqns, spec \in Specs, status \in Statuses :
           Agrees(remote[f], spec, status) /\ remote'[f] # None =>
             Agrees(remote'[f], spec, status)
  <1> SUFFICES ASSUME NEW f \in Fqns, NEW spec \in Specs,
                      NEW status \in Statuses,
                      Agrees(remote[f], spec, status), remote'[f] # None
               PROVE  Agrees(remote'[f], spec, status)
    OBVIOUS
  <1>1. RemoteEvolves /\ remote \in [Fqns -> Entities \cup {None}]
    BY LifecycleFacts, NextEvolves DEF TypeOK
  <1>2. /\ remote[f].ver \in Nat /\ remote'[f].ver \in Nat
        /\ status.remoteVersion \in Nat
    BY <1>1 DEF RemoteEvolves, Agrees, Entities, Ids, Statuses
  <1>3. /\ remote'[f].id = remote[f].id
        /\ remote'[f] = remote[f] \/ remote[f].ver < remote'[f].ver
    BY <1>1 DEF RemoteEvolves, Evolved, Agrees
  <1>4. CASE remote'[f] = remote[f]
    BY <1>4
  <1>5. CASE remote[f].ver < remote'[f].ver
    <2>1. status.remoteVersion < remote'[f].ver
      BY <1>2, <1>5 DEF Agrees
    <2> QED
      BY <1>3, <2>1 DEF Agrees
  <1> QED
    BY <1>3, <1>4, <1>5

(* While others only edit, pipelines come by an upsert, for the stored     *)
(* object, before its cleanup;                                             *)
LEMMA OnlyUpsertBrings ==
  ASSUME DriftInv, [Next]_vars, ~touched',
         NEW f \in Fqns, remote[f] = None, remote'[f] # None
  PROVE  /\ ~Doomed
         /\ \A o \in {cr, cached, obj} \ {None} : Current(o)
  <1>1. TypeOK /\ LifecycleInv
    BY LifecycleFacts
  <1>2. ~Others
    <2>1. ASSUME NEW g \in Fqns, ExternalEdit(g) PROVE FALSE
      BY <1>1, <2>1, EditResult DEF TypeOK
    <2>2. ~(\E g \in Fqns : ExternalDelete(g) \/ ExternalCreate(g))
      BY Zenon DEF ExternalDelete, ExternalCreate
    <2> QED
      BY <2>1, <2>2 DEF Others
  <1>3. ~Delete /\ ~DeployPipeline
    BY <1>1, DeleteEvolves, DeployEvolves
  <1>4. Upsert
    BY <1>2, <1>3, StepKinds
       DEF HandlerSteps, Observe, Query, Refetch, pipelineVars, vars
  <1>5. pc = "upsert" /\ ~obj.deleting
    BY <1>1, <1>4, InFlight DEF Upsert
  <1> QED
    BY <1>5, AllCurrent

(* and they go by the cleanup.                                             *)
LEMMA OnlyCleanupRemoves ==
  ASSUME DriftInv, [Next]_vars, ~touched',
         NEW f \in Fqns, remote[f] # None, remote'[f] = None
  PROVE  cr # None /\ UNCHANGED cr /\ Doomed
  <1>1. TypeOK /\ LifecycleInv /\ WorkingStatus
    BY LifecycleFacts
  <1>2. ~Others
    <2>1. ASSUME NEW g \in Fqns, ExternalEdit(g) PROVE FALSE
      BY <1>1, <2>1, EditResult, KindFacts DEF TypeOK
    <2>2. ~(\E g \in Fqns : ExternalDelete(g) \/ ExternalCreate(g))
      BY Zenon DEF ExternalDelete, ExternalCreate
    <2> QED
      BY <2>1, <2>2 DEF Others
  <1>3. ~DeployPipeline
    BY <1>1, DeployEvolves
  <1>4. ~Upsert
    <2>1. ASSUME Upsert PROVE FALSE
      <3>1. /\ AfterPut(remote[FqnOf[obj.spec]], obj.spec) # None
            /\ \/ UNCHANGED remote
               \/ remote' = [remote EXCEPT ![FqnOf[obj.spec]] =
                               AfterPut(remote[FqnOf[obj.spec]], obj.spec)]
        BY <1>1, <2>1, UpsertOutcomes, KindFacts
      <3> QED
        BY <1>1, <3>1 DEF TypeOK
    <2> QED
      BY <2>1
  <1>5. Delete
    BY <1>2, <1>3, <1>4, StepKinds
       DEF HandlerSteps, Observe, Query, Refetch, pipelineVars, vars
  <1>6. /\ pc = "delete" /\ UNCHANGED cr /\ st = obj.status
        /\ obj # None /\ obj.deleting
    BY <1>1, <1>5, InFlight DEF Delete, WorkingStatus
  <1>7. obj.status.id \in CustodyEntities
    BY <1>1, <1>5, <1>6, DeleteEvolves, IdsThere DEF Has
  <1>8. cr # None /\ cr.uid = obj.uid
    BY <1>6, <1>7 DEF DriftInv, CustodyInv, GoneIsCleanedUp
  <1>9. /\ cr.deleting
        /\ cached # None /\ cached.uid = cr.uid => cached.deleting
    BY <1>1, <1>6, <1>8 DEF LifecycleInv, Follows
  <1> QED
    BY <1>6, <1>8, <1>9 DEF Doomed

(* What a status says of the pipeline stays right, as long as nothing was  *)
(* touched.                                                                *)
LEMMA RightKept ==
  ASSUME DriftInv, [Next]_vars, ~touched'
  PROVE  \A o, status : Held(o, status) => Right(remote, o, status)'
  <1> SUFFICES ASSUME NEW o, NEW status, Held(o, status),
                      status.observed = o.gen
               PROVE  IF Current(o)'
                      THEN \/ Agrees(remote'[FqnOf[o.spec]], o.spec, status)
                           \/ remote'[FqnOf[o.spec]] = None /\ Doomed'
                      ELSE remote'[FqnOf[o.spec]] = None
    BY DEF Right
  <1> DEFINE f == FqnOf[o.spec]
  <1>1. ~touched
    BY TouchedStays
  <1>2. /\ f \in Fqns /\ o.spec \in Specs /\ status \in Statuses
        /\ Right(remote, o, status)
    BY <1>1, HeldFacts, HeldIsRight, ObjectFields
  <1>3. o \in {cr, cached, obj} \ {None}
    BY DEF Held
  <1>4. CASE ~Current(o)
    <2>1. ~Current(o)' /\ remote[f] = None
      BY <1>2, <1>3, <1>4, CurrentByStep DEF Right
    <2>2. remote'[f] = None
      BY <1>2, <1>3, <1>4, <2>1, OnlyUpsertBrings
    <2> QED
      BY <2>1, <2>2
  <1>5. CASE Current(o) /\ ~Current(o)'
    <2>1. remote[f] = None /\ UNCHANGED remote
      BY <1>1, <1>5, LeavingIsClean
    <2> QED
      BY <1>5, <2>1
  <1>6. CASE Current(o) /\ Current(o)'
    <2>1. cr # None /\ cr' # None /\ cr'.uid = cr.uid
      BY <1>6 DEF Current
    <2>2. CASE remote[f] = None
      <3>1. Doomed
        BY <1>2, <1>6, <2>2 DEF Right, Agrees
      <3>2. remote'[f] = None
        BY <1>2, <2>2, <3>1, OnlyUpsertBrings
      <3>3. Doomed'
        BY <2>1, <3>1, DoomedStays
      <3> QED
        BY <1>6, <3>2, <3>3
    <2>3. CASE remote[f] # None /\ remote'[f] = None
      <3>1. Doomed
        BY <1>2, <2>3, OnlyCleanupRemoves
      <3>2. Doomed'
        BY <2>1, <3>1, DoomedStays
      <3> QED
        BY <1>6, <2>3, <3>2
    <2>4. CASE remote[f] # None /\ remote'[f] # None
      <3>1. Agrees(remote[f], o.spec, status)
        BY <1>2, <1>6, <2>4 DEF Right
      <3>2. Agrees(remote'[f], o.spec, status)
        BY <1>2, <2>4, <3>1, AgreesKept
      <3> QED
        BY <1>6, <3>2
    <2> QED
      BY <2>2, <2>3, <2>4
  <1> QED
    BY <1>4, <1>5, <1>6

(* status and p say the same of the pipeline of what o and q are copies of.*)
SameClaim(o, status, p, other) ==
  /\ p.uid = o.uid /\ p.gen = o.gen /\ p.spec = o.spec
  /\ other.id = status.id /\ other.observed = status.observed
  /\ other.remoteVersion = status.remoteVersion

(* The status of an object that a step leaves does not cover its           *)
(* generation, or says what one did before the step.                       *)
LEMMA ClaimsOfStored ==
  ASSUME DriftInv, [Next]_vars, cr' # None, cr'.status.observed = cr'.gen
  PROVE  \E p, other : Held(p, other) /\ SameClaim(cr', cr'.status, p, other)
  <1>1. /\ LifecycleInv /\ LifecycleTypeOK(Statuses, Steps)
        /\ LifecycleStep(Statuses, Steps, EmptyStatus)
        /\ Kind(Statuses, Steps) /\ EmptyStatus \in Statuses
    BY LifecycleFacts
  <1>2. CASE cr' = cr
    <2>1. Held(cr, cr.status)
      BY <1>2 DEF Held
    <2>2. SameClaim(cr', cr'.status, cr, cr.status)
      BY <1>2 DEF SameClaim
    <2> QED
      BY <2>1, <2>2
  <1>3. CASE cr' # cr
    <2>1. cr # None
      BY <1>1, <1>3, StoredByStep, KindFacts
    <2>2. Held(cr, cr.status)
      BY <2>1 DEF Held
    <2>3. /\ cr.status.observed \in Nat /\ cr.status.observed <= cr.gen
          /\ cr.gen \in Nat
      BY <2>2, HeldFacts
    <2>4. CASE /\ cr'.uid = cr.uid /\ cr'.spec = cr.spec /\ cr'.gen = cr.gen
               /\ cr'.status = cr.status
      <3>1. SameClaim(cr', cr'.status, cr, cr.status)
        BY <2>4 DEF SameClaim
      <3> QED
        BY <2>2, <3>1
    <2>5. CASE cr'.gen = cr.gen + 1 /\ cr'.status = cr.status
      BY <2>3, <2>5
    <2>6. CASE /\ cr = obj /\ cr'.status = st
               /\ cr'.uid = cr.uid /\ cr'.spec = cr.spec /\ cr'.gen = cr.gen
      <3>1. Held(obj, st)
        BY <2>1, <2>6 DEF Held
      <3>2. SameClaim(cr', cr'.status, obj, st)
        BY <2>6 DEF SameClaim
      <3> QED
        BY <3>1, <3>2
    <2> QED
      BY <1>1, <1>3, <2>1, <2>4, <2>5, <2>6, StoredByStep
  <1> QED
    BY <1>2, <1>3

(* So does the working status, but after an upsert and a re-read.          *)
LEMMA ClaimsOfWorking ==
  ASSUME DriftInv, [Next]_vars, obj' # None
  PROVE  \/ \E p, other : Held(p, other) /\ SameClaim(obj', st', p, other)
         \/ /\ Refetch /\ obj' = obj
            /\ remote[FqnOf[obj.spec]] \in Entities
            /\ st' = RereadStatus(remote[FqnOf[obj.spec]])
         \/ /\ Upsert /\ obj' = obj /\ pc' = "deploy"
            /\ remote'[FqnOf[obj.spec]] \in Entities
            /\ remote'[FqnOf[obj.spec]] =
                 AfterPut(remote[FqnOf[obj.spec]], obj.spec)
            /\ st' = Registered(remote'[FqnOf[obj.spec]])
  <1>1. /\ TypeOK /\ LifecycleInv /\ LifecycleTypeOK(Statuses, Steps)
        /\ LifecycleStep(Statuses, Steps, EmptyStatus)
    BY LifecycleFacts
  <1>2. ASSUME obj' = obj, st'.id = st.id, st'.observed = st.observed,
               st'.remoteVersion = st.remoteVersion
        PROVE  Held(obj, st) /\ SameClaim(obj', st', obj, st)
    BY <1>2 DEF Held, SameClaim
  <1>3. CASE ~HandlerSteps
    <2>1. CASE obj' = obj /\ st' = st
      BY <1>2, <2>1
    <2>2. CASE obj' = cached /\ cached # None /\ st' = cached.status
      <3>1. Held(cached, cached.status)
        BY <2>2 DEF Held
      <3>2. SameClaim(obj', st', cached, cached.status)
        BY <2>2 DEF SameClaim
      <3> QED
        BY <3>1, <3>2
    <2> QED
      BY <1>3, <2>1, <2>2, WorkingStatusElsewhere
  <1>4. CASE HandlerSteps
    <2>1. CASE /\ obj' = obj
               /\ st' = st \/ ClaimsTheSame(st')
      BY <1>2, <2>1 DEF ClaimsTheSame
    <2>2. CASE /\ Refetch /\ remote[FqnOf[obj.spec]] \in Entities
               /\ GotoPersist(RereadStatus(remote[FqnOf[obj.spec]]), "requeue")
      BY <2>2 DEF GotoPersist
    <2>3. CASE /\ Upsert /\ pc' = "deploy" /\ obj' = obj
               /\ st' = Registered(AfterPut(remote[FqnOf[obj.spec]], obj.spec))
               /\ remote' = [remote EXCEPT ![FqnOf[obj.spec]] =
                               AfterPut(remote[FqnOf[obj.spec]], obj.spec)]
      <3>1. /\ FqnOf[obj.spec] \in Fqns
            /\ AfterPut(remote[FqnOf[obj.spec]], obj.spec) \in Entities
        BY <1>1, <2>3, UpsertOutcomes
      <3>2. remote'[FqnOf[obj.spec]] = AfterPut(remote[FqnOf[obj.spec]], obj.spec)
        BY <1>1, <2>3, <3>1 DEF TypeOK
      <3> QED
        BY <2>3, <3>1, <3>2
    <2>4. CASE Return("error")
      BY <2>4 DEF Return
    <2>5. CASE Goto("query") \/ Goto("upsert") \/ Goto("deploy") \/ Goto("release")
      BY <2>1, <2>5 DEF Goto
    <2>6. CASE \E status \in Statuses, result \in Results :
                 ClaimsTheSame(status) /\ GotoPersist(status, result)
      BY <2>1, <2>6 DEF GotoPersist
    <2> QED
      BY <1>1, <1>4, <2>1, <2>2, <2>3, <2>4, <2>5, <2>6, HandlerByStep
  <1> QED
    BY <1>3, <1>4

(* An upsert that was answered leaves the pipeline with the content of the *)
(* spec, not deployed, and a working status of just that.                  *)
LEMMA UpsertAgrees ==
  ASSUME DriftInv, [Next]_vars, Upsert, obj' = obj,
         remote'[FqnOf[obj.spec]] = AfterPut(remote[FqnOf[obj.spec]], obj.spec),
         st' = Registered(remote'[FqnOf[obj.spec]])
  PROVE  LET e == remote'[FqnOf[obj.spec]]
         IN  /\ e \in Entities /\ e # None /\ e.content = obj.spec /\ ~e.deployed
             /\ st'.id = e.id /\ st'.observed = obj.gen
             /\ st'.remoteVersion = e.ver
             /\ Agrees(e, obj.spec, st')
             /\ cr' = cr /\ Current(obj) /\ Current(obj)'
  <1> DEFINE e == remote'[FqnOf[obj.spec]]
  <1>1. TypeOK /\ LifecycleInv
    BY LifecycleFacts
  <1>2. pc = "upsert" /\ cr' = cr
    BY DEF Upsert
  <1>3. e \in Entities /\ e.content = obj.spec /\ ~e.deployed
    BY <1>1, <1>2, InFlight, PutResult
  <1>4. e # None
    BY <1>3, KindFacts
  <1>5. /\ st'.id = e.id /\ st'.observed = obj.gen
        /\ st'.remoteVersion = e.ver
    BY <1>1, <1>2, <1>3, InFlight, RegisteredStatus
  <1>6. Agrees(e, obj.spec, st')
    BY <1>3, <1>4, <1>5 DEF Agrees
  <1>7. Current(obj)
    BY <1>1, <1>2, InFlight, AllCurrent
  <1>8. Current(obj)'
    BY <1>2, <1>7 DEF Current
  <1> QED
    BY <1>2, <1>3, <1>4, <1>5, <1>6, <1>7, <1>8

(* Every step keeps StatusesAreRight, as long as nothing is touched.       *)
LEMMA NextStatusesAreRight ==
  ASSUME DriftInv, [Next]_vars, ~touched'
  PROVE  StatusesAreRight'
  <1>1. /\ TypeOK /\ LifecycleInv /\ LifecycleTypeOK(Statuses, Steps)
        /\ LifecycleStep(Statuses, Steps, EmptyStatus)
    BY LifecycleFacts
  <1>2. ~touched /\ InTheWindow
    BY TouchedStays, HeldIsRight
  <1>3. ASSUME NEW o, NEW status,
               \E p, other : Held(p, other) /\ SameClaim(o, status, p, other)
        PROVE  Right(remote, o, status)'
    <2>1. PICK p, other : Held(p, other) /\ SameClaim(o, status, p, other)
      BY <1>3
    <2>2. Right(remote, p, other)'
      BY <2>1, RightKept
    <2>3. Current(o)' <=> Current(p)'
      BY <2>1 DEF Current, SameClaim
    <2>4. \A e : Agrees(e, o.spec, status) <=> Agrees(e, p.spec, other)
      BY <2>1 DEF Agrees, SameClaim
    <2> QED
      BY <2>1, <2>2, <2>3, <2>4 DEF Right, SameClaim
  <1>4. ASSUME NEW o \in {cr, cached, obj} \ {None}
        PROVE  Right(remote, o, o.status)'
    BY RightKept DEF Held
  <1>5. ASSUME NEW o \in {cr', cached', obj'} \ {None}
        PROVE  Right(remote, o, o.status)'
    <2>1. CASE o \in {cr, cached, obj}
      BY <1>4, <1>5, <2>1
    <2>2. CASE o = cr'
      <3>1. CASE o.status.observed = o.gen
        BY <1>3, <1>5, <2>2, <3>1, ClaimsOfStored
      <3>2. CASE o.status.observed # o.gen
        BY <3>2 DEF Right
      <3> QED
        BY <3>1, <3>2
    <2> QED
      BY <1>1, <1>5, <2>1, <2>2, CopiesByStep
  <1>6. ASSUME NEW o, NEW status, o = obj', o # None, status = st'
        PROVE  Right(remote, o, status)'
    <2>1. CASE \E p, other : Held(p, other) /\ SameClaim(obj', st', p, other)
      BY <1>3, <1>6, <2>1
    <2>2. CASE /\ Refetch /\ obj' = obj
               /\ remote[FqnOf[obj.spec]] \in Entities
               /\ st' = RereadStatus(remote[FqnOf[obj.spec]])
      <3> DEFINE e == remote[FqnOf[obj.spec]]
      <3>1. /\ pc = "refetch" /\ UNCHANGED <<cr, remote>>
            /\ st \in Statuses /\ ~obj.deleting
        BY <1>1, <2>2, InFlight DEF Refetch
      <3>2. Current(obj)
        BY <3>1, AllCurrent
      <3>3. Current(o)'
        BY <1>6, <2>2, <3>1, <3>2 DEF Current
      <3>4. /\ st'.id = st.id /\ st'.observed = st.observed
            /\ st'.remoteVersion = e.ver
        BY <2>2, <3>1, RereadResult
      <3>5. /\ st.observed = obj.gen /\ e # None /\ e.id = st.id
            /\ e.content = obj.spec /\ e.dag = obj.spec
        BY <1>2, <3>1 DEF InTheWindow
      <3>6. Agrees(remote'[FqnOf[o.spec]], o.spec, status)
        BY <1>6, <2>2, <3>1, <3>4, <3>5 DEF Agrees
      <3> QED
        BY <3>3, <3>6 DEF Right
    <2>3. CASE /\ Upsert /\ obj' = obj
               /\ remote'[FqnOf[obj.spec]] =
                    AfterPut(remote[FqnOf[obj.spec]], obj.spec)
               /\ st' = Registered(remote'[FqnOf[obj.spec]])
      <3>1. /\ Agrees(remote'[FqnOf[obj.spec]], obj.spec, st')
            /\ cr' = cr /\ Current(obj)
        BY <2>3, UpsertAgrees
      <3>2. Current(o)'
        BY <1>6, <2>3, <3>1 DEF Current
      <3>3. Agrees(remote'[FqnOf[o.spec]], o.spec, status)
        BY <1>6, <2>3, <3>1
      <3> QED
        BY <3>2, <3>3 DEF Right
    <2> QED
      BY <1>6, <2>1, <2>2, <2>3, ClaimsOfWorking
  <1>7. ASSUME NEW o, o = obj', o # None
        PROVE  (o = obj => Right(remote, o, st))'
    <2>1. Right(remote, o, st)'
      BY <1>6, <1>7 DEF Right, Current, Doomed, Agrees
    <2> QED
      BY <2>1
  <1> QED
    BY <1>5, <1>7 DEF StatusesAreRight

(* Every step keeps InTheWindow, as long as nothing is touched.            *)
LEMMA NextInTheWindow ==
  ASSUME DriftInv, [Next]_vars, ~touched'
  PROVE  InTheWindow'
  <1> SUFFICES ASSUME pc' \in {"deploy", "refetch"}
               PROVE  InTheWindow'
    BY DEF InTheWindow
  <1>1. /\ TypeOK /\ LifecycleInv /\ WorkingStatus
    BY LifecycleFacts
  <1>2. ~touched /\ InTheWindow
    BY TouchedStays, HeldIsRight
  <1>3. CASE ~HandlerSteps
    <2>1. UNCHANGED <<pc, obj, st>>
      BY <1>3, WorkingStatusElsewhere
    <2>2. ~Others
      BY <2>1, Zenon DEF Others, ExternalEdit, ExternalDelete, ExternalCreate
    <2>3. UNCHANGED remote
      BY <1>3, <2>2, StepKinds DEF vars, pipelineVars
    <2> QED
      BY <1>2, <2>1, <2>3 DEF InTheWindow
  <1>4. CASE HandlerSteps
    <2>1. /\ pc \in {"observe", "query", "upsert", "deploy", "refetch", "delete"}
          /\ obj # None /\ st # None /\ (~obj.deleting \/ pc = "delete")
          /\ FqnOf[obj.spec] \in Fqns
      BY <1>1, <1>4, HandlerByStep, InFlight
    <2>2. CASE Query
      <3> DEFINE e == remote[FqnOf[obj.spec]]
      <3>1. /\ pc = "query" /\ Goto("deploy") /\ UNCHANGED remote
            /\ DecidePipelineAction(obj, e) = "redeploy"
        BY <2>2 DEF Query, GotoPersist, Goto, pipelineVars
      <3>2. /\ e # None /\ obj.gen = obj.status.observed
            /\ e.ver = obj.status.remoteVersion /\ ~e.deployed
        BY <3>1 DEF DecidePipelineAction
      <3>3. st = obj.status /\ Held(obj, st)
        BY <1>1, <2>1, <3>1 DEF WorkingStatus, Held
      <3>4. Current(obj) /\ ~Doomed
        BY <2>1, <3>1, AllCurrent
      <3>5. Agrees(e, obj.spec, st)
        BY <1>2, <3>2, <3>3, <3>4, HeldIsRight DEF Right
      <3>6. e.id = st.id /\ e.content = obj.spec
        <4>1. st.remoteVersion \in Nat
          BY <3>3, HeldFacts DEF Statuses
        <4> QED
          BY <3>2, <3>3, <3>5, <4>1 DEF Agrees
      <3> QED
        BY <3>1, <3>2, <3>3, <3>6 DEF InTheWindow, Goto
    <2>3. CASE Upsert
      <3>1. /\ pc' = "deploy" /\ obj' = obj
            /\ remote'[FqnOf[obj.spec]] =
                 AfterPut(remote[FqnOf[obj.spec]], obj.spec)
            /\ st' = Registered(remote'[FqnOf[obj.spec]])
        <4>1. /\ pc' = "deploy" /\ obj' = obj
              /\ st' = Registered(AfterPut(remote[FqnOf[obj.spec]], obj.spec))
              /\ remote' = [remote EXCEPT ![FqnOf[obj.spec]] =
                              AfterPut(remote[FqnOf[obj.spec]], obj.spec)]
          BY <1>1, <2>3, UpsertOutcomes DEF GotoPersist
        <4>2. remote'[FqnOf[obj.spec]] =
                AfterPut(remote[FqnOf[obj.spec]], obj.spec)
          BY <1>1, <2>1, <4>1 DEF TypeOK
        <4> QED
          BY <4>1, <4>2
      <3> QED
        BY <2>3, <3>1, UpsertAgrees DEF InTheWindow
    <2>4. CASE DeployPipeline
      <3> DEFINE f == FqnOf[obj.spec]
      <3>1. /\ pc = "deploy" /\ pc' = "refetch" /\ obj' = obj
            /\ st' = [st EXCEPT !.deployed = TRUE]
            /\ remote' = [g \in Fqns |-> AfterDeploy(remote[g], st.id)]
        BY <2>4 DEF DeployPipeline, DeployFailed, GotoPersist
      <3>2. /\ st.observed = obj.gen /\ remote[f] \in Entities
            /\ remote[f].id = st.id /\ remote[f].content = obj.spec
            /\ st.remoteVersion = remote[f].ver
            /\ Has(remote[f], st.id)
        BY <1>1, <1>2, <2>1, <3>1 DEF InTheWindow, TypeOK, Has
      <3>3. remote'[f] = AfterDeploy(remote[f], st.id)
        BY <2>1, <3>1
      <3>4. /\ remote'[f] \in Entities /\ remote'[f].id = remote[f].id
            /\ remote'[f].content = obj.spec /\ remote'[f].dag = obj.spec
            /\ remote[f].ver < remote'[f].ver
        BY <3>2, <3>3, DeployResult
      <3>5. /\ st'.id = st.id /\ st'.observed = st.observed
            /\ st'.remoteVersion = st.remoteVersion
        BY <1>1, <3>1, InFlight, SameClaims DEF ClaimsTheSame
      <3>6. remote'[f] # None
        BY <3>4, KindFacts
      <3> QED
        BY <3>1, <3>2, <3>4, <3>5, <3>6 DEF InTheWindow
    <2>5. CASE Observe \/ Refetch \/ Delete
      BY <2>5 DEF Observe, Refetch, Delete, Goto, GotoPersist, Return
    <2> QED
      BY <1>4, <2>2, <2>3, <2>4, <2>5 DEF HandlerSteps
  <1> QED
    BY <1>3, <1>4

(* DriftInv is inductive.                                                  *)
LEMMA NextDrift ==
  ASSUME DriftInv, [Next]_vars, IInv'
  PROVE  DriftInv'
  <1>1. CustodyInv'
    BY NextCustody DEF DriftInv
  <1>2. ObservedUpToGen' /\ CacheKeepsUp'
    BY NextObservedUpToGen, NextCacheKeepsUp
  <1>3. ~touched' => StatusesAreRight' /\ InTheWindow'
    BY NextStatusesAreRight, NextInTheWindow, Zenon
  <1> QED
    BY <1>1, <1>2, <1>3, Zenon DEF DriftInv

(* It holds in every initial state.                                        *)
LEMMA InitDrift == Init => DriftInv
  <1> SUFFICES ASSUME Init PROVE DriftInv
    OBVIOUS
  <1>1. CustodyInv
    BY InitInv DEF CustodyInv, WritesWhatIsThere, DoomedRecordIsFrozen,
                   GoneIsCleanedUp, Init, LifecycleInit
  <1>2. /\ ObservedUpToGen /\ CacheKeepsUp /\ StatusesAreRight /\ InTheWindow
    BY DEF Init, LifecycleInit, ObservedUpToGen, CacheKeepsUp,
           StatusesAreRight, InTheWindow
  <1> QED
    BY <1>1, <1>2, Zenon DEF DriftInv

(* Statuses that are right tell when the pipeline is in sync.              *)
LEMMA RightIsSound ==
  ASSUME DriftInv, ~touched
  PROVE  \A o \in {cr, cached, obj} \ {None} :
           LET e == remote[FqnOf[o.spec]]
           IN  InSync(o, e) => AsSpecified(e, o.spec)
  <1> SUFFICES ASSUME NEW o \in {cr, cached, obj} \ {None},
                      InSync(o, remote[FqnOf[o.spec]])
               PROVE  AsSpecified(remote[FqnOf[o.spec]], o.spec)
    OBVIOUS
  <1> DEFINE e == remote[FqnOf[o.spec]]
  <1>1. Held(o, o.status)
    BY DEF Held
  <1>2. /\ e # None /\ o.gen = o.status.observed
        /\ e.ver = o.status.remoteVersion /\ e.deployed
    BY DEF InSync, DecidePipelineAction
  <1>3. Agrees(e, o.spec, o.status)
    BY <1>1, <1>2, HeldIsRight DEF Right
  <1>4. o.status.remoteVersion \in Nat
    BY <1>1, HeldFacts DEF Statuses
  <1> QED
    BY <1>2, <1>3, <1>4 DEF Agrees, AsSpecified

(* Whatever copy of the object the operator acts on: what it takes for in  *)
(* sync is as specified, in OpenMetadata and in Airflow - after failed     *)
(* and half-done reconciliations, lost answers, crashes and edits by       *)
(* others, but those that the re-read after a deployment cannot see.       *)
THEOREM DriftDetected == Spec => []DriftDetectionSound
  <1>1. Init => DriftInv
    BY InitDrift
  <1>2. DriftInv /\ IInv' /\ [Next]_vars => DriftInv'
    BY NextDrift
  <1>3. DriftInv => DriftDetectionSound
    BY RightIsSound, Zenon DEF DriftDetectionSound
  <1> QED
    BY <1>1, <1>2, <1>3, InductiveInvariant, PTL DEF Spec

=============================================================================
