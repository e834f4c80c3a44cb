------------------------------- MODULE TestCase -------------------------------
(***************************************************************************)
(* The OpenMetadataTestCase controller: one custom resource, its           *)
(* reconciliation by TestCaseHandler, and the data quality test cases of   *)
(* that name in OpenMetadata.                                              *)
(*                                                                         *)
(* OpenMetadata keeps a test case under the name of the table or column it *)
(* tests (spec.forOpenMetadata.entityLink) followed by its own: that is    *)
(* where a PUT puts it.  The handler looks for it under its own name only  *)
(* (testcase_handler.go:80).  Whether OpenMetadata finds anything there is *)
(* not for this code to say: byName covers both answers.                   *)
(***************************************************************************)
EXTENDS ManagedResource

CONSTANTS
  Fqns,         \* the fully qualified names the specs lead to
  FqnOf,        \* the fully qualified name each spec leads to
  BadOwners,    \* specs with an owner that is neither a user nor a team
  ByName,       \* the answers of OpenMetadata considered: subset of BOOLEAN
  Foreign,      \* content that somebody else gave a test case
  ExternalOps,  \* what others do: subset of {"edit", "delete", "create"}
  MaxExternal   \* bound: how often they do it

ASSUME SpecsAssumption ==
  /\ FqnOf \in [Specs -> Fqns]
  /\ BadOwners \subseteq Specs
  /\ ByName \subseteq BOOLEAN
  /\ MaxExternal \in Nat

VARIABLES
  remote,    \* the test case under each fully qualified name, or None
  lastId,    \* entity IDs handed out so far
  byName,    \* does OpenMetadata find a test case by its own name?
  external,  \* what others did so far, counted
  lost,      \* history: IDs of test cases whose recording in status failed,
             \* or was overwritten when the spec moved to another entity
  replaced   \* history: did others put a test case of theirs in its place?

testCaseVars == <<remote, lastId, byName, external, lost, replaced>>
vars == <<lifecycleVars, testCaseVars>>

Ids == Nat \ {0}
Contents == Specs \cup {Foreign}

Statuses ==
  [id : Ids \cup {None}, observed : 0..MaxGen, remoteVersion : Nat,
   ready : {"Unknown", "True", "False"}]

EmptyStatus ==
  [id |-> None, observed |-> 0, remoteVersion |-> 0, ready |-> "Unknown"]

Entities ==
  [id : Ids, ver : Ids, content : Contents, by : {"operator", "others"}]

ASSUME NoneAssumption ==
  None \notin Objects(Statuses) \cup Statuses \cup Entities \cup Ids

Steps == {"idle", "addFinalizer", "observe", "query", "upsert", "persist",
          "delete", "release"}

TypeOK ==
  /\ LifecycleTypeOK(Statuses, Steps)
  /\ remote \in [Fqns -> Entities \cup {None}]
  /\ lastId \in Nat
  /\ byName \in ByName
  /\ external \in 0..MaxExternal
  /\ lost \subseteq Ids
  /\ replaced \in BOOLEAN

Init ==
  /\ LifecycleInit
  /\ remote = [f \in Fqns |-> None]
  /\ lastId = 0
  /\ byName \in ByName
  /\ external = 0
  /\ lost = {}
  /\ replaced = FALSE

-----------------------------------------------------------------------------
(* OpenMetadata.  A PUT of what is there is no new version.                *)

NewEntity(content, by) ==
  [id |-> lastId + 1, ver |-> 1, content |-> content, by |-> by]

AfterPut(entity, content) ==
  IF entity = None THEN NewEntity(content, "operator")
  ELSE IF entity.content = content THEN entity
  ELSE [entity EXCEPT !.content = content, !.ver = @ + 1]

IdsAfterPut(entity) == IF entity = None THEN lastId + 1 ELSE lastId

(* Mutant of AfterDelete: what is there is deleted, whatever its ID.       *)
AfterDeleteByName(entity, id) == None

(* DELETE by ID: 404, a success to the client, if the ID is not there.     *)
AfterDelete(entity, id) ==
  IF entity # None /\ entity.id = id THEN None ELSE entity

(* What GetTestCaseByFQN, given the bare name, answers for a spec.         *)
Found(spec) == IF byName THEN remote[FqnOf[spec]] ELSE None

-----------------------------------------------------------------------------
(* Others.                                                                 *)

External(op) ==
  /\ op \in ExternalOps
  /\ external < MaxExternal
  /\ external' = external + 1
  /\ UNCHANGED <<lifecycleVars, byName, lost>>

ExternalEdit(f) ==
  /\ External("edit")
  /\ remote[f] # None
  /\ remote' = [remote EXCEPT ![f].content = Foreign, ![f].ver = @ + 1]
  /\ UNCHANGED <<lastId, replaced>>

ExternalDelete(f) ==
  /\ External("delete")
  /\ remote[f] # None
  /\ remote' = [remote EXCEPT ![f] = None]
  /\ UNCHANGED <<lastId, replaced>>

ExternalCreate(f) ==
  /\ External("create")
  /\ remote[f] = None
  /\ remote' = [remote EXCEPT ![f] = NewEntity(Foreign, "others")]
  /\ lastId' = lastId + 1
  /\ replaced' = TRUE

-----------------------------------------------------------------------------
(* TestCaseHandler.Reconcile.                                              *)

NotReady == [st EXCEPT !.ready = "False"]

(* Resolve the connection and the auth token.                              *)
Observe ==
  /\ pc = "observe"
  /\ \/ prereqs /\ Goto("query")
     \/ ~prereqs /\ GotoPersist(NotReady, "error")
  /\ UNCHANGED <<cr, cached, prereqs, lastUid, faults, testCaseVars>>

(* Mutant of InSync: the version is not compared.                          *)
InSyncByGeneration(o, entity) == entity # None /\ o.gen = o.status.observed

InSync(o, entity) ==
  /\ entity # None
  /\ o.gen = o.status.observed
  /\ entity.ver = o.status.remoteVersion

(* Look the test case up and compare; resolve the owners if there is       *)
(* something to converge.                                                  *)
Query ==
  /\ pc = "query"
  /\ LET inSync == InSync(obj, Found(obj.spec))
     IN  \/ /\ Fault
            /\ GotoPersist(NotReady, "error")
         \/ /\ inSync
            /\ GotoPersist([st EXCEPT !.ready = "True"], "requeue")
            /\ UNCHANGED faults
         \/ /\ ~inSync
            /\ obj.spec \in BadOwners
            /\ GotoPersist(NotReady, "done")
            /\ UNCHANGED faults
         \/ /\ ~inSync
            /\ obj.spec \notin BadOwners
            /\ Goto("upsert")
            /\ UNCHANGED faults
  /\ UNCHANGED <<cr, cached, prereqs, lastUid, testCaseVars>>

(* Mutants of Registered: the ID is not recorded; off-by-one generation.   *)
RegisteredWithoutId(entity) ==
  [id |-> st.id, observed |-> obj.gen, remoteVersion |-> entity.ver,
   ready |-> "True"]

RegisteredAhead(entity) ==
  [id |-> entity.id, observed |-> obj.gen + 1, remoteVersion |-> entity.ver,
   ready |-> "True"]

Registered(entity) ==
  [id |-> entity.id, observed |-> obj.gen, remoteVersion |-> entity.ver,
   ready |-> "True"]

(* PUT the test case: it succeeds, fails, or is applied and its answer     *)
(* lost.                                                                   *)
Upsert ==
  /\ pc = "upsert"
  /\ LET f   == FqnOf[obj.spec]
         new == AfterPut(remote[f], obj.spec)
         put == /\ remote' = [remote EXCEPT ![f] = new]
                /\ lastId' = IdsAfterPut(remote[f])
     IN  \/ /\ put
            /\ GotoPersist(Registered(new), "requeue")
            /\ UNCHANGED <<faults, lost>>
         \/ /\ Fault
            /\ GotoPersist(NotReady, "error")
            /\ UNCHANGED <<remote, lastId, lost>>
         \/ /\ Fault
            /\ put
            /\ GotoPersist(NotReady, "error")
            /\ lost' = IF remote[f] = None THEN lost \cup {new.id} ELSE lost
  /\ UNCHANGED <<cr, cached, prereqs, lastUid, byName, external, replaced>>

(* The ID a status write in flight would record for the first time.        *)
Unrecorded ==
  IF pc = "persist" /\ st.id \notin {None, obj.status.id} THEN {st.id} ELSE {}

Recorded == IF cr = None THEN {} ELSE {cr.status.id} \ {None}

Persist ==
  /\ SetConditionAndPersist
  /\ lost' = (lost \cup Unrecorded \cup Recorded) \ Recorded'
  /\ UNCHANGED <<remote, lastId, byName, external, replaced>>

-----------------------------------------------------------------------------
(* TestCaseHandler.HandleDeletion: DELETE of the recorded ID, if one is    *)
(* recorded.  A missing connection or token is retried without a status    *)
(* write.                                                                  *)
Delete ==
  /\ pc = "delete"
  /\ LET gone == [f \in Fqns |-> AfterDelete(remote[f], st.id)]
     IN  \/ /\ st.id = None
            /\ Goto("release")
            /\ UNCHANGED <<remote, faults>>
         \/ /\ st.id # None
            /\ ~prereqs
            /\ Return("error")
            /\ UNCHANGED <<remote, faults>>
         \/ /\ st.id # None
            /\ remote' = gone
            /\ Goto("release")
            /\ UNCHANGED faults
         \/ /\ st.id # None
            /\ Fault
            /\ remote' \in {remote, gone}
            /\ GotoPersist(NotReady, "error")
  /\ UNCHANGED <<cr, cached, prereqs, lastUid, lastId, byName, external, lost,
                 replaced>>

-----------------------------------------------------------------------------
(* What Custody sees of all this.                                          *)

CustodyObject == ObjectPhase(cr)
CustodyRecord == IF cr = None THEN None ELSE cr.status.id
CustodyEntities == {remote[f].id : f \in {g \in Fqns : remote[g] # None}}

-----------------------------------------------------------------------------
(* The whole system.                                                       *)

Users ==
  \/ \E s \in Specs : UserCreate(s, EmptyStatus) \/ UserEdit(s)
  \/ UserDelete
  \/ PrereqsLost

Others ==
  \E f \in Fqns : ExternalEdit(f) \/ ExternalDelete(f) \/ ExternalCreate(f)

CrashAndRestart ==
  /\ Crash
  /\ lost' = lost \cup Unrecorded
  /\ UNCHANGED <<remote, lastId, byName, external, replaced>>

Worker ==
  \/ Dequeue /\ UNCHANGED testCaseVars
  \/ EnsurePresent /\ UNCHANGED testCaseVars
  \/ Observe
  \/ Query
  \/ Upsert
  \/ Persist
  \/ Delete
  \/ EnsureAbsent /\ UNCHANGED testCaseVars

Next ==
  \/ Users /\ UNCHANGED testCaseVars
  \/ Others
  \/ PrereqsRestored /\ UNCHANGED testCaseVars
  \/ CacheSync /\ UNCHANGED testCaseVars
  \/ TimerFires /\ UNCHANGED testCaseVars
  \/ CrashAndRestart
  \/ Worker

Spec == Init /\ [][Next]_vars

Fairness ==
  /\ WF_vars(CacheSync /\ UNCHANGED testCaseVars)
  /\ WF_vars(TimerFires /\ UNCHANGED testCaseVars)
  /\ WF_vars(PrereqsRestored /\ UNCHANGED testCaseVars)
  /\ WF_vars(Worker)

FairSpec == Spec /\ Fairness

-----------------------------------------------------------------------------
(* Properties.                                                             *)

(* The controller implements the custody of its test cases, whatever they  *)
(* test and whether or not the lookup ever finds them: made for a guarded  *)
(* object only, removed only if recorded, outlived by what records them.   *)
Guarded == INSTANCE Custody WITH
  object   <- CustodyObject,
  record   <- CustodyRecord,
  entities <- CustodyEntities,
  meddling <- external

ImplementsCustody == Guarded!Spec

(* Every test case the operator created is recorded in the status, about   *)
(* to be recorded, or one whose recording failed or was overwritten: an    *)
(* edit of the entityLink leaves the test case of the old entity where it  *)
(* is (testcase_handler.go:119).  Only these survive the resource.         *)
EveryTestCaseAccountedFor ==
  \A f \in Fqns :
    LET e == remote[f]
    IN  e # None /\ e.by = "operator" =>
          \/ e.id \in lost \cup Recorded
          \/ pc = "persist" /\ st.id = e.id

(* In every copy of the object the operator may act on, "in sync" means    *)
(* that the test case has the content of that copy's spec, whatever others *)
(* did to it.  For the test case recorded: another one under the name may  *)
(* carry an equal version, and the code does not compare the ID            *)
(* (testcase_handler.go:94).                                               *)
DriftDetectionSound ==
  \A o \in {cr, cached, obj} \ {None} :
    LET e == Found(o.spec)
    IN  InSync(o, e) /\ o.status.id = e.id => e.content = o.spec

(* Once users and others leave it alone, the test case has the content of  *)
(* the spec: also if the lookup by the bare name never finds it, so that   *)
(* no drift is ever noticed and every reconciliation goes on to the PUT.   *)
(* The PUT then keeps the recorded ID right, too.  Where the lookup does   *)
(* find something, two things escape it, because only the version is       *)
(* compared (testcase_handler.go:94): a test case that others put in the   *)
(* place of the operator's; and one that the operator created again after  *)
(* others deleted the first, if it crashed before recording the new ID.    *)
Settled ==
  cr # None /\ ~cr.deleting /\ cr.spec \notin BadOwners /\ ~(replaced /\ byName) =>
    LET e == remote[FqnOf[cr.spec]]
    IN  /\ e # None
        /\ e.content = cr.spec
        /\ byName \/ cr.status.id = e.id
        /\ InSync(cr, e)
        /\ cr.status.ready = "True"

Converges == <>[]Settled

(* A deleted resource goes once prerequisites are back and calls succeed.  *)
DeletionCompletes ==
  []<>(cr = None \/ ~cr.deleting)

=============================================================================
