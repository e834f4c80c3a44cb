---------------------------- MODULE TestCaseProofs ----------------------------
(***************************************************************************)
(* Proofs about TestCase, for every value of its constants and both        *)
(* answers of OpenMetadata to the lookup by name: the invariant IInv is    *)
(* inductive; the accounting of test cases, the soundness of the drift     *)
(* detection and the refinement of Custody follow from it and from what    *)
(* each of them needs in addition.                                         *)
(***************************************************************************)
EXTENDS TestCase, ManagedResourceProofs

(* Until the status write the working status is the one that was read.     *)
WorkingStatus == pc \notin {"idle", "persist"} => st = obj.status

IdsUpToLast ==
  /\ \A f \in Fqns : remote[f] # None => remote[f].id <= lastId
  /\ CopiesUpTo(lastId)

(* The finalizer is up for release when the recorded test case is gone.    *)
ReleasedIsGone == pc = "release" => obj.status.id \notin CustodyEntities

IInv ==
  /\ TypeOK
  /\ LifecycleInv
  /\ WorkingStatus
  /\ IdsUpToLast
  /\ BareRecordsNothing
  /\ ReleasedIsGone

(* Each test case of the operator has its ID in one of three places.       *)
Accounted ==
  \A f \in Fqns :
    remote[f] # None /\ remote[f].by = "operator" =>
      remote[f].id \in lost \cup Recorded \cup Unrecorded

(* What a status of generation gen of a spec claims about the test case it *)
(* records holds, or a version it has not seen refutes it.                 *)
Sound(there, spec, gen, status) ==
  /\ status.observed <= gen
  /\ LET e == there[FqnOf[spec]]
     IN  status.observed = gen /\ e # None /\ e.id = status.id =>
           \/ status.remoteVersion < e.ver
           \/ status.remoteVersion = e.ver /\ e.content = spec

VersionsIdentify ==
  /\ \A o \in {cr, cached, obj} \ {None} :
       Sound(remote, o.spec, o.gen, o.status)
  /\ st # None => Sound(remote, obj.spec, obj.gen, st)

(* A status write in flight records the ID that the object has, or, for an *)
(* object read as not deleted, that of a test case that is there unless    *)
(* others interfered.                                                      *)
WritesWhatIsThere ==
  pc = "persist" /\ st.id # obj.status.id =>
    /\ ~obj.deleting
    /\ st.id # None
    /\ external > 0 \/ st.id \in CustodyEntities

CustodyInv ==
  /\ IInv
  /\ WritesWhatIsThere
  /\ DoomedRecordIsFrozen
  /\ GoneIsCleanedUp(CustodyEntities)

-----------------------------------------------------------------------------
(* What steps do to Kubernetes.                                            *)

(* None is not mistaken for a value, and test cases fit the lemmas about   *)
(* every kind.                                                             *)
LEMMA KindFacts ==
  /\ Kind(Statuses, Steps)
  /\ None \notin Entities /\ None \notin Ids
  /\ EmptyStatus \in Statuses /\ EmptyStatus.id = None
  /\ \A s \in Statuses : s.id # None => s.id \in Ids
  <1>1. EmptyStatus \in Statuses /\ EmptyStatus.id = None
    BY BoundsAssumption DEF EmptyStatus, Statuses
  <1>2. \A s \in Statuses : s.id # None => s.id \in Ids
    BY DEF Statuses
  <1>3. None \notin Objects(Statuses) \cup Statuses \cup Entities \cup Ids
    BY NoneAssumption
  <1> QED
    BY <1>1, <1>2, <1>3 DEF Kind, Steps

(* The status of a failed reconciliation, or with another Ready condition, *)
(* claims what the old one does.                                           *)
LEMMA NotReadyStatus ==
  ASSUME st \in Statuses
  PROVE  /\ NotReady \in Statuses
         /\ NotReady.id = st.id /\ NotReady.observed = st.observed
         /\ NotReady.remoteVersion = st.remoteVersion
         /\ [st EXCEPT !.ready = "True"] \in Statuses
         /\ [st EXCEPT !.ready = "True"].id = st.id
         /\ [st EXCEPT !.ready = "True"].observed = st.observed
         /\ [st EXCEPT !.ready = "True"].remoteVersion = st.remoteVersion
  BY DEF NotReady, Statuses

(* What a PUT leaves: a new test case with a fresh ID, the old one, or a   *)
(* new version of it.  Its content is what was PUT.                        *)
LEMMA PutResult ==
  ASSUME TypeOK, NEW c \in Contents, NEW e \in Entities \cup {None}
  PROVE  /\ AfterPut(e, c) \in Entities
         /\ AfterPut(e, c).content = c
         /\ IdsAfterPut(e) \in Nat /\ lastId <= IdsAfterPut(e)
         /\ e = None => /\ AfterPut(e, c).id = lastId + 1
                        /\ IdsAfterPut(e) = lastId + 1
         /\ e # None => /\ AfterPut(e, c).id = e.id
                        /\ AfterPut(e, c).by = e.by
                        /\ AfterPut(e, c) = e \/ e.ver < AfterPut(e, c).ver
                        /\ IdsAfterPut(e) = lastId
  <1>1. lastId \in Nat /\ lastId + 1 \in Ids /\ 1 \in Ids
    BY DEF TypeOK, Ids
  <1>2. NewEntity(c, "operator") \in Entities
    BY <1>1 DEF NewEntity, Entities
  <1>3. ASSUME e \in Entities
        PROVE  LET new == [e EXCEPT !.content = c, !.ver = e.ver + 1]
               IN  /\ new \in Entities /\ new.id = e.id /\ new.by = e.by
                   /\ new.content = c /\ e.ver < new.ver
    <2>1. e.ver \in Ids /\ e.ver + 1 \in Ids /\ e.ver < e.ver + 1
      BY <1>3 DEF Entities, Ids
    <2> QED
      BY <1>3, <2>1 DEF Entities
  <1> QED
    BY <1>1, <1>2, <1>3 DEF AfterPut, IdsAfterPut, NewEntity

(* The status of a successful upsert records the test case and the         *)
(* generation that was applied.                                            *)
LEMMA RegisteredStatus ==
  ASSUME NEW e \in Entities, obj \in Objects(Statuses)
  PROVE  /\ Registered(e) \in Statuses
         /\ Registered(e).id = e.id /\ Registered(e).observed = obj.gen
         /\ Registered(e).remoteVersion = e.ver
  BY ObjectFields, BoundsAssumption DEF Registered, Statuses, Entities, Ids

(* What a reconciliation in flight works on.                               *)
LEMMA InFlight ==
  ASSUME TypeOK, LifecycleInv, pc # "idle"
  PROVE  /\ obj \in Objects(Statuses) /\ obj # None
         /\ st \in Statuses /\ st # None
         /\ obj.spec \in Specs /\ obj.spec \in Contents
         /\ obj.status \in Statuses /\ obj.gen \in 1..MaxGen
         /\ FqnOf[obj.spec] \in Fqns
         /\ remote[FqnOf[obj.spec]] \in Entities \cup {None}
         /\ pc # "addFinalizer" => obj.finalizer
         /\ pc \in {"delete", "release"} => obj.deleting
         /\ pc \notin {"persist", "delete", "release"} => ~obj.deleting
  <1>1. LifecycleTypeOK(Statuses, Steps) /\ remote \in [Fqns -> Entities \cup {None}]
    BY DEF TypeOK
  <1>2. /\ obj \in Objects(Statuses) /\ obj # None
        /\ st \in Statuses /\ st # None
        /\ obj.spec \in Specs /\ obj.status \in Statuses
        /\ obj.gen \in 1..MaxGen
        /\ pc # "addFinalizer" => obj.finalizer
        /\ pc \in {"delete", "release"} => obj.deleting
        /\ pc \notin {"persist", "delete", "release"} => ~obj.deleting
    BY <1>1, InReconciliation
  <1> QED
    BY <1>1, <1>2, SpecsAssumption DEF Contents

(* Every step is one that the lemmas about all kinds cover.                *)
LEMMA NextIsLifecycleStep ==
  ASSUME TypeOK, LifecycleInv, [Next]_vars
  PROVE  LifecycleStep(Statuses, Steps, EmptyStatus)
  <1> DEFINE ToPersist == \E status \in Statuses, result \in Results :
                            GotoPersist(status, result)
             Onward == /\ pc' \in Steps \ {"idle", "addFinalizer", "persist"}
                       /\ pc' \in {"delete", "release"} <=> obj.deleting
                       /\ st' \in Statuses
                       /\ UNCHANGED <<queued, timer, obj, res>>
  <1>1. CASE Observe
    <2>1. /\ pc = "observe" /\ UNCHANGED <<cr, cached, prereqs, lastUid, faults>>
          /\ Goto("query") \/ GotoPersist(NotReady, "error")
      BY <1>1 DEF Observe
    <2>2. Goto("query") => Onward
      BY <2>1, InFlight DEF Goto, Steps
    <2>3. GotoPersist(NotReady, "error") => ToPersist
      BY <2>1, InFlight, NotReadyStatus DEF Results
    <2> QED
      BY <2>1, <2>2, <2>3 DEF LifecycleStep, HandlerStep, Steps
  <1>2. CASE Query
    <2>1. /\ pc = "query" /\ UNCHANGED <<cr, cached, prereqs, lastUid>>
          /\ Fault \/ UNCHANGED faults
          /\ \/ Goto("upsert")
             \/ GotoPersist(NotReady, "error") \/ GotoPersist(NotReady, "done")
             \/ GotoPersist([st EXCEPT !.ready = "True"], "requeue")
      BY <1>2 DEF Query
    <2>2. Goto("upsert") => Onward
      BY <2>1, InFlight DEF Goto, Steps
    <2>3. ~Goto("upsert") => ToPersist
      BY <2>1, InFlight, NotReadyStatus DEF Results
    <2> QED
      BY <2>1, <2>2, <2>3 DEF LifecycleStep, HandlerStep, Steps
  <1>3. CASE Upsert
    <2> DEFINE new == AfterPut(remote[FqnOf[obj.spec]], obj.spec)
    <2>1. /\ pc = "upsert" /\ UNCHANGED <<cr, cached, prereqs, lastUid>>
          /\ Fault \/ UNCHANGED faults
          /\ GotoPersist(Registered(new), "requeue") \/ GotoPersist(NotReady, "error")
      BY <1>3 DEF Upsert
    <2>2. Registered(new) \in Statuses /\ NotReady \in Statuses
      BY <2>1, InFlight, PutResult, RegisteredStatus, NotReadyStatus
    <2>3. ToPersist
      BY <2>1, <2>2 DEF Results
    <2> QED
      BY <2>1, <2>3 DEF LifecycleStep, HandlerStep, Steps
  <1>4. CASE Delete
    <2>1. /\ pc = "delete" /\ UNCHANGED <<cr, cached, prereqs, lastUid>>
          /\ Fault \/ UNCHANGED faults
          /\ Goto("release") \/ Return("error") \/ GotoPersist(NotReady, "error")
      BY <1>4 DEF Delete
    <2>2. Goto("release") => Onward
      BY <2>1, InFlight DEF Goto, Steps
    <2>3. GotoPersist(NotReady, "error") => ToPersist
      BY <2>1, InFlight, NotReadyStatus DEF Results
    <2> QED
      BY <2>1, <2>2, <2>3 DEF LifecycleStep, HandlerStep, Steps, Results
  <1>5. CASE Others
    BY <1>5 DEF Others, ExternalEdit, ExternalDelete, ExternalCreate, External,
                LifecycleStep
  <1>6. CASE UNCHANGED vars
    BY <1>6 DEF vars, LifecycleStep
  <1> QED
    BY <1>1, <1>2, <1>3, <1>4, <1>5, <1>6
       DEF Next, Worker, Users, Persist, CrashAndRestart, LifecycleStep,
           SharedStep

-----------------------------------------------------------------------------
(* What steps do to OpenMetadata.                                          *)

(* A test case under f was there before, perhaps in an older version, or   *)
(* is new.                                                                 *)
Evolved(f) ==
  remote'[f] # None =>
    \/ /\ remote[f] # None
       /\ remote'[f].id = remote[f].id
       /\ remote'[f].by = remote[f].by
       /\ remote'[f] = remote[f] \/ remote[f].ver < remote'[f].ver
    \/ /\ remote[f] = None
       /\ remote'[f].id = lastId + 1
       /\ lastId' = lastId + 1

RemoteEvolves ==
  /\ remote' \in [Fqns -> Entities \cup {None}]
  /\ lastId' \in Nat /\ lastId <= lastId'
  /\ \A f \in Fqns : Evolved(f)

(* One test case that evolves, the others staying as they are.             *)
LEMMA OneEvolves ==
  ASSUME TypeOK, NEW f \in Fqns, NEW new \in Entities \cup {None},
         remote' = [remote EXCEPT ![f] = new],
         \/ new = None /\ lastId' = lastId
         \/ /\ remote[f] # None /\ lastId' = lastId
            /\ new.id = remote[f].id /\ new.by = remote[f].by
            /\ new = remote[f] \/ remote[f].ver < new.ver
         \/ /\ remote[f] = None
            /\ new.id = lastId + 1 /\ lastId' = lastId + 1
  PROVE  RemoteEvolves
  <1>1. remote \in [Fqns -> Entities \cup {None}] /\ lastId \in Nat
    BY DEF TypeOK
  <1>2. \A g \in Fqns : remote'[g] = IF g = f THEN new ELSE remote[g]
    BY <1>1
  <1>3. \A g \in Fqns : Evolved(g)
    BY <1>2 DEF Evolved
  <1> QED
    BY <1>1, <1>3 DEF RemoteEvolves

(* Nothing evolves in a step that leaves OpenMetadata alone.               *)
LEMMA NothingEvolves ==
  ASSUME TypeOK, UNCHANGED <<remote, lastId>>
  PROVE  RemoteEvolves
  BY DEF TypeOK, RemoteEvolves, Evolved

(* What others do to test cases.                                           *)
LEMMA OthersEvolve ==
  ASSUME TypeOK, Others
  PROVE  RemoteEvolves
  <1>1. PICK f \in Fqns : ExternalEdit(f) \/ ExternalDelete(f) \/ ExternalCreate(f)
    BY DEF Others
  <1>2. remote[f] \in Entities \cup {None} /\ Foreign \in Contents /\ lastId \in Nat
    BY DEF TypeOK, Contents
  <1>3. CASE ExternalEdit(f)
    <2> DEFINE new == [remote[f] EXCEPT !.content = Foreign, !.ver = remote[f].ver + 1]
    <2>1. /\ remote[f] \in Entities /\ remote[f] # None /\ lastId' = lastId
          /\ remote' = [remote EXCEPT ![f] = new]
      BY <1>2, <1>3 DEF ExternalEdit
    <2>2. remote[f].ver \in Ids /\ remote[f].ver + 1 \in Ids
      BY <2>1 DEF Entities, Ids
    <2>3. /\ new \in Entities /\ new.id = remote[f].id /\ new.by = remote[f].by
          /\ new.ver = remote[f].ver + 1
      BY <1>2, <2>1, <2>2 DEF Entities
    <2>4. remote[f].ver < new.ver
      BY <2>2, <2>3 DEF Ids
    <2> QED
      BY <2>1, <2>3, <2>4, OneEvolves
  <1>4. CASE ExternalDelete(f)
    BY <1>4, OneEvolves DEF ExternalDelete
  <1>5. CASE ExternalCreate(f)
    <2>1. /\ remote[f] = None /\ lastId' = lastId + 1
          /\ remote' = [remote EXCEPT ![f] = NewEntity(Foreign, "others")]
      BY <1>5 DEF ExternalCreate
    <2>2. lastId + 1 \in Ids /\ 1 \in Ids
      BY <1>2 DEF Ids
    <2>3. /\ NewEntity(Foreign, "others") \in Entities
          /\ NewEntity(Foreign, "others").id = lastId + 1
      BY <1>2, <2>2 DEF NewEntity, Entities
    <2> QED
      BY <2>1, <2>3, OneEvolves
  <1> QED
    BY <1>1, <1>3, <1>4, <1>5

(* The outcomes of an upsert: it is applied and answered, fails, or is     *)
(* applied and its answer lost.                                            *)
LEMMA UpsertOutcomes ==
  ASSUME TypeOK, LifecycleInv, Upsert
  PROVE  LET f   == FqnOf[obj.spec]
             new == AfterPut(remote[f], obj.spec)
         IN  /\ pc = "upsert" /\ f \in Fqns /\ new \in Entities
             /\ UNCHANGED <<cr, cached, prereqs, lastUid, byName, external,
                            replaced>>
             /\ \/ UNCHANGED <<remote, lastId>>
                \/ /\ remote' = [remote EXCEPT ![f] = new]
                   /\ lastId' = IdsAfterPut(remote[f])
             /\ \/ /\ remote' = [remote EXCEPT ![f] = new]
                   /\ GotoPersist(Registered(new), "requeue")
                   /\ UNCHANGED lost
                \/ /\ UNCHANGED remote
                   /\ GotoPersist(NotReady, "error")
                   /\ UNCHANGED lost
                \/ /\ remote' = [remote EXCEPT ![f] = new]
                   /\ GotoPersist(NotReady, "error")
                   /\ lost' = IF remote[f] = None THEN lost \cup {new.id} ELSE lost
  <1>1. pc = "upsert"
    BY DEF Upsert
  <1>2. /\ FqnOf[obj.spec] \in Fqns
        /\ AfterPut(remote[FqnOf[obj.spec]], obj.spec) \in Entities
    BY <1>1, InFlight, PutResult
  <1> QED
    BY <1>1, <1>2 DEF Upsert

(* An upsert creates the test case, makes a new version of it, or nothing. *)
LEMMA UpsertEvolves ==
  ASSUME TypeOK, LifecycleInv, Upsert
  PROVE  RemoteEvolves
  <1> DEFINE f   == FqnOf[obj.spec]
             new == AfterPut(remote[f], obj.spec)
  <1>1. /\ f \in Fqns /\ new \in Entities
        /\ \/ UNCHANGED <<remote, lastId>>
           \/ /\ remote' = [remote EXCEPT ![f] = new]
              /\ lastId' = IdsAfterPut(remote[f])
    BY UpsertOutcomes
  <1>2. /\ remote[f] = None => /\ new.id = lastId + 1
                               /\ IdsAfterPut(remote[f]) = lastId + 1
        /\ remote[f] # None => /\ new.id = remote[f].id /\ new.by = remote[f].by
                               /\ new = remote[f] \/ remote[f].ver < new.ver
                               /\ IdsAfterPut(remote[f]) = lastId
    <2>1. pc = "upsert"
      BY DEF Upsert
    <2> QED
      BY <2>1, InFlight, PutResult
  <1> HIDE DEF new, f
  <1> QED
    BY <1>1, <1>2, OneEvolves, NothingEvolves

(* A DELETE leaves every test case, or takes those with the recorded ID.   *)
LEMMA DeleteEvolves ==
  ASSUME TypeOK, Delete
  PROVE  /\ RemoteEvolves
         /\ \A f \in Fqns : remote'[f] # None => remote'[f] = remote[f]
  <1> DEFINE gone == [f \in Fqns |-> AfterDelete(remote[f], st.id)]
  <1>1. lastId' = lastId /\ remote' \in {remote, gone}
    BY DEF Delete
  <1>2. /\ gone \in [Fqns -> Entities \cup {None}]
        /\ \A f \in Fqns : gone[f] # None => gone[f] = remote[f]
    BY DEF AfterDelete, TypeOK
  <1>3. /\ remote' \in [Fqns -> Entities \cup {None}]
        /\ \A f \in Fqns : remote'[f] # None => remote'[f] = remote[f]
    BY <1>1, <1>2 DEF TypeOK
  <1> QED
    BY <1>1, <1>3 DEF RemoteEvolves, Evolved, TypeOK

(* Every step lets the test cases evolve.                                  *)
LEMMA NextEvolves ==
  ASSUME TypeOK, LifecycleInv, [Next]_vars
  PROVE  RemoteEvolves
  <1>1. Others \/ Upsert \/ Delete \/ UNCHANGED <<remote, lastId>>
    BY DEF Next, Worker, Observe, Query, Persist, CrashAndRestart,
       testCaseVars,
           vars
  <1> QED
    BY <1>1, OthersEvolve, UpsertEvolves, DeleteEvolves, NothingEvolves

-----------------------------------------------------------------------------
(* The invariant IInv.                                                     *)

(* IInv holds in every initial state.                                      *)
LEMMA InitInv == Init => IInv
  <1> SUFFICES ASSUME Init PROVE IInv
    OBVIOUS
  <1>1. LifecycleTypeOK(Statuses, Steps)
    <2>1. lastUid \in 0..MaxUid /\ faults \in 0..MaxFaults
      BY BoundsAssumption DEF Init, LifecycleInit
    <2>2. queued \in BOOLEAN /\ timer \in BOOLEAN /\ prereqs \in BOOLEAN
      BY Zenon DEF Init, LifecycleInit
    <2> QED
      BY <2>1, <2>2 DEF Init, LifecycleInit, LifecycleTypeOK, Steps, Results
  <1>2. external \in 0..MaxExternal
    BY SpecsAssumption DEF Init
  <1>3. TypeOK
    <2>1. replaced \in BOOLEAN
      BY Zenon DEF Init
    <2> QED
      BY <1>1, <1>2, <2>1 DEF Init, TypeOK
  <1>4. LifecycleInv /\ WorkingStatus /\ BareRecordsNothing /\ ReleasedIsGone
    BY DEF Init, LifecycleInit, LifecycleInv, StepFitsObject, WorkingStatus,
           BareRecordsNothing, ReleasedIsGone
  <1>5. IdsUpToLast
    BY DEF Init, LifecycleInit, IdsUpToLast, CopiesUpTo
  <1> QED
    BY <1>3, <1>4, <1>5 DEF IInv

(* A step of the system is a shared one that leaves OpenMetadata alone, a  *)
(* step of the handler, or a step of others.                               *)
LEMMA StepKinds ==
  ASSUME [Next]_vars
  PROVE  \/ SharedStep(EmptyStatus) /\ UNCHANGED <<remote, lastId, external>>
         \/ Observe \/ Query \/ Upsert \/ Delete
         \/ Others
         \/ UNCHANGED vars
  BY DEF Next, Worker, Users, Persist, CrashAndRestart, SharedStep,
     testCaseVars

(* The history of lost recordings has IDs only.                            *)
LEMMA UnrecordedType ==
  ASSUME TypeOK, LifecycleInv
  PROVE  Unrecorded \subseteq Ids
  BY InFlight, KindFacts DEF Unrecorded

(* Every step keeps the types and LifecycleInv.                            *)
LEMMA NextTypes ==
  ASSUME TypeOK, LifecycleInv, [Next]_vars
  PROVE  TypeOK' /\ LifecycleInv'
  <1>1. LifecycleTypeOK(Statuses, Steps)' /\ LifecycleInv'
    BY NextIsLifecycleStep, LifecycleKept, KindFacts DEF TypeOK
  <1>2. remote' \in [Fqns -> Entities \cup {None}] /\ lastId' \in Nat
    BY NextEvolves DEF RemoteEvolves
  <1>3. /\ byName' = byName
        /\ replaced' \in BOOLEAN
        /\ external' = external \/ (external < MaxExternal /\ external' = external + 1)
    <2>1. CASE Others
      BY <2>1 DEF Others, ExternalEdit, ExternalDelete, ExternalCreate,
         External,
                  TypeOK
    <2>2. CASE UNCHANGED <<byName, replaced, external>>
      BY <2>2 DEF TypeOK
    <2> QED
      BY <2>1, <2>2
         DEF Next, Worker, Observe, Query, Upsert, Persist, Delete,
             CrashAndRestart, testCaseVars, vars
  <1>4. external' \in 0..MaxExternal
    BY <1>3, SpecsAssumption DEF TypeOK
  <1>5. lost' \subseteq Ids
    <2>1. CASE UNCHANGED lost
      BY <2>1 DEF TypeOK
    <2>2. CASE Persist \/ CrashAndRestart
      <3>1. Recorded \subseteq Ids
        BY KindFacts, ObjectFields DEF Recorded, TypeOK, LifecycleTypeOK
      <3> QED
        BY <2>2, <3>1, UnrecordedType DEF Persist, CrashAndRestart, TypeOK
    <2>3. CASE Upsert
      <3> DEFINE new == AfterPut(remote[FqnOf[obj.spec]], obj.spec)
      <3>1. new \in Entities /\ (lost' = lost \/ lost' = lost \cup {new.id})
        BY <2>3, UpsertOutcomes
      <3>2. new.id \in Ids
        BY <3>1 DEF Entities
      <3> QED
        BY <3>1, <3>2 DEF TypeOK
    <2>4. CASE Others
      BY <2>1, <2>4 DEF Others, ExternalEdit, ExternalDelete, ExternalCreate,
         External
    <2> QED
      BY <2>1, <2>2, <2>3, <2>4
         DEF Next, Worker, Observe, Query, Delete, testCaseVars, vars
  <1> QED
    BY <1>1, <1>2, <1>3, <1>4, <1>5 DEF TypeOK

(* What others do leaves Kubernetes and the operator alone.                *)
LEMMA OthersElsewhere ==
  ASSUME Others
  PROVE  /\ UNCHANGED <<lifecycleVars, byName, lost>>
         /\ external' = external + 1
  BY DEF Others, ExternalEdit, ExternalDelete, ExternalCreate, External

(* A handler step sets the working status only on its way to the status    *)
(* write: to the old one but for its Ready condition, or to the outcome of *)
(* an upsert.                                                              *)
LEMMA WorkingStatusByStep ==
  ASSUME TypeOK, LifecycleInv, Observe \/ Query \/ Delete \/ Upsert
  PROVE  /\ pc \in {"observe", "query", "upsert", "delete"}
         /\ \/ Goto("query") \/ Goto("upsert") \/ Goto("release")
            \/ Return("error")
            \/ /\ pc' = "persist" /\ UNCHANGED obj
               /\ st' = NotReady \/ st' = [st EXCEPT !.ready = "True"]
            \/ /\ Upsert /\ pc' = "persist" /\ UNCHANGED obj
               /\ st' = Registered(AfterPut(remote[FqnOf[obj.spec]], obj.spec))
               /\ remote' = [remote EXCEPT ![FqnOf[obj.spec]] =
                               AfterPut(remote[FqnOf[obj.spec]], obj.spec)]
               /\ UNCHANGED lost
  <1>1. CASE Observe \/ Query \/ Delete
    BY <1>1 DEF Observe, Query, Delete, GotoPersist
  <1>2. CASE Upsert
    BY <1>2, UpsertOutcomes DEF GotoPersist
  <1> QED
    BY <1>1, <1>2

(* Every step keeps WorkingStatus.                                         *)
LEMMA NextWorkingStatus ==
  ASSUME TypeOK, LifecycleInv, WorkingStatus, [Next]_vars
  PROVE  WorkingStatus'
  <1>1. CASE Observe \/ Query \/ Delete \/ Upsert
    BY <1>1, WorkingStatusByStep DEF WorkingStatus, Goto, Return
  <1>2. CASE SharedStep(EmptyStatus)
    <2>1. CASE Dequeue
      BY <2>1 DEF Dequeue, WorkingStatus
    <2> QED
      BY <1>2, <2>1
         DEF SharedStep, UserCreate, UserEdit, UserDelete, PrereqsLost,
             PrereqsRestored, CacheSync, TimerFires, Crash, EnsurePresent,
             SetConditionAndPersist, EnsureAbsent, Return, WorkingStatus
  <1>3. CASE Others \/ UNCHANGED vars
    BY <1>3, OthersElsewhere DEF WorkingStatus, vars, lifecycleVars
  <1> QED
    BY <1>1, <1>2, <1>3, StepKinds

(* Every step keeps IdsUpToLast: no ID is known before it is handed out.   *)
LEMMA NextIdsUpToLast ==
  ASSUME TypeOK, LifecycleInv, IdsUpToLast, [Next]_vars
  PROVE  IdsUpToLast'
  <1>1. RemoteEvolves /\ lastId \in Nat
    BY NextEvolves DEF TypeOK
  <1>2. \A f \in Fqns : remote[f] # None => remote[f].id \in Nat
    BY DEF TypeOK, Entities, Ids
  <1>3. \A f \in Fqns : remote'[f] # None => remote'[f].id <= lastId'
    BY <1>1, <1>2 DEF RemoteEvolves, Evolved, IdsUpToLast
  <1>4. pc # "idle" /\ st' \notin {st, None} /\ st'.id # None => st'.id <= lastId'
    <2> SUFFICES ASSUME pc # "idle", st' \notin {st, None}, st'.id # None
                 PROVE  st'.id <= lastId'
      OBVIOUS
    <2>1. Observe \/ Query \/ Delete \/ Upsert
      BY StepKinds, OthersElsewhere
         DEF SharedStep, UserCreate, UserEdit, UserDelete, PrereqsLost,
             PrereqsRestored, CacheSync, TimerFires, Crash, Dequeue,
             EnsurePresent, SetConditionAndPersist, EnsureAbsent, Return, vars,
             lifecycleVars
    <2>2. CASE st' = NotReady \/ st' = [st EXCEPT !.ready = "True"]
      <3>1. st'.id = st.id /\ st.id \in Ids /\ st # None
        BY <2>2, InFlight, NotReadyStatus, KindFacts
      <3>2. st.id <= lastId
        BY <3>1 DEF IdsUpToLast, CopiesUpTo
      <3> QED
        BY <1>1, <3>1, <3>2 DEF RemoteEvolves, Ids
    <2>3. CASE Upsert /\ st' = Registered(AfterPut(remote[FqnOf[obj.spec]], obj.spec))
               /\ remote' = [remote EXCEPT ![FqnOf[obj.spec]] =
                               AfterPut(remote[FqnOf[obj.spec]], obj.spec)]
      <3> DEFINE f   == FqnOf[obj.spec]
                 new == AfterPut(remote[f], obj.spec)
      <3>1. f \in Fqns /\ new \in Entities /\ obj \in Objects(Statuses)
        BY <2>3, InFlight, UpsertOutcomes
      <3>2. st'.id = new.id
        BY <2>3, <3>1, RegisteredStatus
      <3>3. remote'[f] = new /\ new # None
        BY <2>3, <3>1, KindFacts DEF TypeOK
      <3> QED
        BY <1>3, <3>1, <3>2, <3>3
    <2> QED
      BY <2>1, <2>2, <2>3, WorkingStatusByStep DEF Goto, Return
  <1>5. CopiesUpTo(lastId)'
    BY <1>1, <1>4, NextIsLifecycleStep, KindFacts, CopiesUpToKept
       DEF RemoteEvolves, IdsUpToLast, TypeOK, Ids, CopiesUpTo
  <1> QED
    BY <1>3, <1>5 DEF IdsUpToLast

(* The IDs of the test cases that are there.                               *)
LEMMA IdsThere ==
  ASSUME TypeOK, NEW id
  PROVE  /\ id \in CustodyEntities <=>
              \E f \in Fqns : remote[f] # None /\ remote[f].id = id
         /\ id \in CustodyEntities => id \in Ids
  BY DEF CustodyEntities, TypeOK, Entities

(* The same after a step.                                                  *)
LEMMA IdsThereNext ==
  ASSUME NEW id
  PROVE  id \in CustodyEntities' <=>
           \E f \in Fqns : remote'[f] # None /\ remote'[f].id = id
  BY DEF CustodyEntities

(* The IDs there after a step were there before, or one is fresh.          *)
LEMMA IdsByStep ==
  ASSUME TypeOK, LifecycleInv, [Next]_vars, NEW id \in CustodyEntities'
  PROVE  id \in CustodyEntities \/ id = lastId + 1
  <1>1. PICK f \in Fqns : remote'[f] # None /\ remote'[f].id = id
    BY IdsThereNext
  <1>2. Evolved(f)
    BY NextEvolves DEF RemoteEvolves
  <1> QED
    BY <1>1, <1>2, IdsThere DEF Evolved

(* No copy records a fresh ID.                                             *)
LEMMA CopiesAreNotFresh ==
  ASSUME TypeOK, IdsUpToLast, NEW o \in {cr, cached, obj} \ {None}
  PROVE  o.status.id # lastId + 1
  <1>1. o.status \in Statuses /\ lastId \in Nat /\ lastId + 1 \in Ids
    BY ObjectFields DEF TypeOK, LifecycleTypeOK, Ids
  <1> QED
    BY <1>1, KindFacts DEF IdsUpToLast, CopiesUpTo, Ids

(* Every step keeps ReleasedIsGone.                                        *)
LEMMA NextReleasedIsGone ==
  ASSUME TypeOK, LifecycleInv, WorkingStatus, IdsUpToLast, ReleasedIsGone,
         [Next]_vars
  PROVE  ReleasedIsGone'
  <1> SUFFICES ASSUME pc' = "release", obj'.status.id \in CustodyEntities'
               PROVE  FALSE
    BY DEF ReleasedIsGone
  <1>1. CASE Delete
    <2>1. /\ pc = "delete" /\ UNCHANGED obj
          /\ \/ st.id = None
             \/ remote' = [f \in Fqns |-> AfterDelete(remote[f], st.id)]
      BY <1>1 DEF Delete, Goto, GotoPersist, Return
    <2>2. st = obj.status
      BY <2>1 DEF WorkingStatus
    <2>3. PICK f \in Fqns : remote'[f] # None /\ remote'[f].id = st.id
      BY <2>1, <2>2, IdsThereNext
    <2>4. remote[f] # None /\ remote[f].id = st.id /\ st.id # None
      <3>1. remote'[f] = remote[f]
        BY <1>1, <2>3, DeleteEvolves
      <3>2. remote[f] \in Entities
        BY <2>3, <3>1 DEF TypeOK
      <3> QED
        BY <2>3, <3>1, <3>2, KindFacts DEF Entities
    <2>5. remote'[f] = AfterDelete(remote[f], st.id)
      BY <2>1, <2>4
    <2> QED
      BY <2>3, <2>4, <2>5 DEF AfterDelete
  <1>2. CASE ~Delete
    <2>1. pc = "release" /\ UNCHANGED obj
      <3>1. CASE Observe \/ Query \/ Upsert
        BY <3>1, WorkingStatusByStep DEF Observe, Query, Upsert, Goto,
           GotoPersist
      <3>2. CASE Others \/ UNCHANGED vars
        BY <3>2, OthersElsewhere DEF vars, lifecycleVars
      <3>3. CASE SharedStep(EmptyStatus)
        BY <3>3 DEF SharedStep, UserCreate, UserEdit, UserDelete, PrereqsLost,
                    PrereqsRestored, CacheSync, TimerFires, Crash, Dequeue,
                    FirstStep, EnsurePresent, SetConditionAndPersist,
                    EnsureAbsent, Return
      <3> QED
        BY <1>2, <3>1, <3>2, <3>3, StepKinds
    <2>2. obj # None /\ obj.status.id # lastId + 1
      BY <2>1, InFlight, CopiesAreNotFresh
    <2> QED
      BY <2>1, <2>2, IdsByStep DEF ReleasedIsGone
  <1> QED
    BY <1>1, <1>2

-----------------------------------------------------------------------------
(* The theorems about IInv.                                                *)

(* IInv is an inductive invariant of the TestCase controller and of what   *)
(* surrounds it.                                                           *)
THEOREM InductiveInvariant == Spec => []IInv
  <1>1. Init => IInv
    BY InitInv
  <1>2. IInv /\ [Next]_vars => IInv'
    <2> SUFFICES ASSUME IInv, [Next]_vars PROVE IInv'
      OBVIOUS
    <2>1. BareRecordsNothing'
      BY NextIsLifecycleStep, BareRecordsNothingKept, KindFacts DEF IInv,
         TypeOK
    <2> QED
      BY <2>1, NextTypes, NextWorkingStatus, NextIdsUpToLast,
         NextReleasedIsGone DEF IInv
  <1> QED
    BY <1>1, <1>2, PTL DEF Spec

(* Every variable keeps its type.                                          *)
THEOREM TypeCorrect == Spec => []TypeOK
  <1>1. IInv => TypeOK
    BY DEF IInv
  <1> QED
    BY <1>1, InductiveInvariant, PTL

-----------------------------------------------------------------------------
(* What follows from IInv and the lifecycle.                               *)

(* From the start of the handler to its status write the object it read    *)
(* exists and carries the finalizer, however stale the cache: no test case *)
(* is pushed for an object whose deletion the operator would not hear of.  *)
THEOREM FinalizerGuardsHandler ==
  Spec => []FinalizerGuards({"observe", "query", "upsert"})
  <1>1. IInv => FinalizerGuards({"observe", "query", "upsert"})
    BY GuardsHold DEF IInv
  <1> QED
    BY <1>1, InductiveInvariant, PTL

(* An idle controller hears of every test case it can converge or has to   *)
(* delete: only a wrong owner, a permanent error, ends the retries.        *)
THEOREM NoLostWakeUp == Spec => []Awake(BadOwners)
  <1> DEFINE Wakes == Awake(BadOwners) /\ GivesUpOn(BadOwners)
  <1>1. Init => Wakes
    BY DEF Init, LifecycleInit, Awake, GivesUpOn
  <1>2. IInv /\ Wakes /\ [Next]_vars => Wakes'
    <2> SUFFICES ASSUME IInv, Wakes, [Next]_vars PROVE Wakes'
      OBVIOUS
    <2>1. /\ LifecycleTypeOK(Statuses, Steps) /\ LifecycleInv
          /\ Kind(Statuses, Steps)
      BY KindFacts DEF IInv, TypeOK
    <2>2. \/ SharedStep(EmptyStatus)
          \/ UNCHANGED lifecycleVars
          \/ /\ GivesUpOn(BadOwners)'
             /\ pc' = "idle" => queued' \/ timer'
      <3>1. CASE Observe \/ Query \/ Upsert
        <4>1. /\ pc \notin {"persist", "delete", "release"} /\ pc # "idle"
              /\ \/ Goto("query") \/ Goto("upsert")
                 \/ \E s : GotoPersist(s, "error") \/ GotoPersist(s, "requeue")
                 \/ (\E s : GotoPersist(s, "done")) /\ obj.spec \in BadOwners
          BY <3>1 DEF Observe, Query, Upsert
        <4> QED
          BY <2>1, <4>1, InReconciliation DEF Goto, GotoPersist, GivesUpOn
      <3>2. CASE Delete
        BY <3>2 DEF Delete, Goto, GotoPersist, Return, GivesUpOn
      <3>3. CASE Others \/ UNCHANGED vars
        BY <3>3, OthersElsewhere DEF vars
      <3> QED
        BY <3>1, <3>2, <3>3, StepKinds
    <2> QED
      BY <2>1, <2>2, AwakeKept
  <1>3. Wakes => Awake(BadOwners)
    OBVIOUS
  <1> QED
    BY <1>1, <1>2, <1>3, InductiveInvariant, PTL DEF Spec

(* No step lets the object go from Kubernetes while the test case its      *)
(* status records is in OpenMetadata, under whatever name.                 *)
THEOREM CleanupBeforeRelease ==
  Spec => [][cr # None /\ cr' # cr /\ (cr' = None \/ cr'.uid # cr.uid) =>
               cr.status.id \notin CustodyEntities]_vars
  <1> DEFINE Step == cr # None /\ cr' # cr /\ (cr' = None \/ cr'.uid # cr.uid) =>
                       cr.status.id \notin CustodyEntities
  <1>1. IInv /\ [Next]_vars => [Step]_vars
    <2> SUFFICES ASSUME IInv, Next, cr # None, cr' # cr,
                        cr' = None \/ cr'.uid # cr.uid
                 PROVE  cr.status.id \notin CustodyEntities
      OBVIOUS
    <2>1. /\ LifecycleStep(Statuses, Steps, EmptyStatus)
          /\ LifecycleTypeOK(Statuses, Steps) /\ LifecycleInv
          /\ EmptyStatus \in Statuses /\ Kind(Statuses, Steps)
      BY NextIsLifecycleStep, KindFacts DEF IInv, TypeOK
    <2>2. cr' = None
      BY <2>1, StoredByStep
    <2>3. ~cr.finalizer \/ (pc = "release" /\ cr = obj)
      BY <2>1, <2>2, GoneByStep
    <2>4. None \notin CustodyEntities
      <3>1. \A f \in Fqns : remote[f] # None => remote[f].id # None
        BY KindFacts DEF IInv, TypeOK, Entities
      <3> QED
        BY <3>1 DEF CustodyEntities
    <2> QED
      BY <2>3, <2>4 DEF IInv, BareRecordsNothing, ReleasedIsGone
  <1> QED
    BY <1>1, InductiveInvariant, PTL DEF Spec

-----------------------------------------------------------------------------
(* The accounting.                                                         *)

(* Test cases that others bring are theirs.                                *)
LEMMA OthersBringTheirs ==
  ASSUME TypeOK, Others, NEW f \in Fqns, remote[f] = None, remote'[f] # None
  PROVE  remote'[f].by = "others"
  <1>1. PICK g \in Fqns : ExternalEdit(g) \/ ExternalDelete(g) \/ ExternalCreate(g)
    BY DEF Others
  <1>2. remote \in [Fqns -> Entities \cup {None}]
    BY DEF TypeOK
  <1> QED
    BY <1>1, <1>2 DEF ExternalEdit, ExternalDelete, ExternalCreate, NewEntity

(* No shared step but the status write and the release of the object makes *)
(* it forget the ID it records.                                            *)
LEMMA RecordedStays ==
  ASSUME IInv, SharedStep(EmptyStatus), pc \notin {"persist", "release"}
  PROVE  Recorded \subseteq Recorded'
  <1>1. LifecycleStep(Statuses, Steps, EmptyStatus) /\ LifecycleTypeOK(Statuses, Steps)
    BY DEF LifecycleStep, IInv, TypeOK
  <1>2. CASE cr = None \/ cr' = cr
    BY <1>2 DEF Recorded
  <1>3. CASE cr # None /\ cr' = None
    <2>1. ~cr.finalizer
      BY <1>1, <1>3, GoneByStep, KindFacts DEF IInv
    <2> QED
      BY <1>3, <2>1 DEF IInv, BareRecordsNothing, Recorded
  <1>4. CASE cr # None /\ cr' # None /\ cr' # cr
    <2>1. cr'.status = cr.status
      BY <1>1, <1>4, StoredByStep, KindFacts DEF IInv
    <2> QED
      BY <1>4, <2>1 DEF Recorded
  <1> QED
    BY <1>2, <1>3, <1>4

(* A test case that was there before a step stays accounted for, as long   *)
(* as it is there.                                                         *)
LEMMA OldOnesAccounted ==
  ASSUME IInv, [Next]_vars, NEW id \in lost \cup Recorded \cup Unrecorded,
         id \in CustodyEntities
  PROVE  id \in lost' \cup Recorded' \cup Unrecorded'
  <1>1. CASE Persist
    BY <1>1 DEF Persist
  <1>2. CASE CrashAndRestart
    BY <1>2 DEF CrashAndRestart, Crash, Recorded
  <1>3. CASE EnsureAbsent /\ UNCHANGED testCaseVars
    <2>1. Unrecorded = {} /\ lost' = lost /\ pc = "release"
      BY <1>3 DEF EnsureAbsent, Unrecorded, testCaseVars
    <2>2. CASE cr' = cr
      BY <2>1, <2>2 DEF Recorded
    <2>3. CASE cr' # cr
      <3>1. cr = obj /\ cr # None
        BY <1>3, <2>3 DEF EnsureAbsent, Accepted, Refused, IInv, LifecycleInv,
                          StepFitsObject
      <3>2. id \notin Recorded
        BY <2>1, <3>1 DEF IInv, ReleasedIsGone, Recorded
      <3> QED
        BY <2>1, <3>2
    <2> QED
      BY <2>2, <2>3
  <1>4. CASE Observe \/ Query \/ Upsert \/ Delete
    <2>1. Unrecorded = {} /\ cr' = cr
      BY <1>4 DEF Observe, Query, Upsert, Delete, Unrecorded
    <2>2. lost \subseteq lost'
      BY <1>4 DEF Observe, Query, Upsert, Delete, testCaseVars
    <2> QED
      BY <2>1, <2>2 DEF Recorded
  <1>5. CASE Others \/ UNCHANGED vars
    BY <1>5, OthersElsewhere DEF vars, lifecycleVars, testCaseVars, Recorded,
       Unrecorded
  <1>6. CASE (Dequeue \/ EnsurePresent) /\ UNCHANGED testCaseVars
    <2>1. pc \in {"idle", "addFinalizer"} /\ SharedStep(EmptyStatus)
      BY <1>6 DEF Dequeue, EnsurePresent, SharedStep
    <2>2. Unrecorded = {} /\ lost' = lost
      BY <1>6, <2>1 DEF Unrecorded, testCaseVars
    <2> QED
      BY <2>1, <2>2, RecordedStays
  <1>7. CASE \/ PrereqsRestored /\ UNCHANGED testCaseVars
             \/ CacheSync /\ UNCHANGED testCaseVars
             \/ TimerFires /\ UNCHANGED testCaseVars
    BY <1>7 DEF PrereqsRestored, CacheSync, TimerFires, testCaseVars, Recorded,
                Unrecorded
  <1>8. CASE Users /\ UNCHANGED testCaseVars
    <2>1. UNCHANGED <<pc, obj, st, lost>>
      BY <1>8 DEF Users, UserCreate, UserEdit, UserDelete, PrereqsLost,
         testCaseVars
    <2>2. LifecycleStep(Statuses, Steps, EmptyStatus) /\ LifecycleTypeOK(Statuses, Steps)
      BY <1>8 DEF Users, SharedStep, LifecycleStep, IInv, TypeOK
    <2>3. Recorded \subseteq Recorded'
      <3>1. CASE cr = None \/ cr' = cr
        BY <3>1 DEF Recorded
      <3>2. ASSUME cr # None, cr' = None
            PROVE  ~cr.finalizer
        <4>1. Kind(Statuses, Steps) /\ EmptyStatus \in Statuses
          BY KindFacts
        <4>2. ~cr.finalizer \/ (pc = "release" /\ EnsureAbsent)
          BY <2>2, <3>2, <4>1, GoneByStep DEF IInv
        <4> QED
          BY <2>1, <4>2 DEF EnsureAbsent, Return
      <3>3. ASSUME cr # None, cr' # None, cr' # cr
            PROVE  cr'.status = cr.status
        <4>1. cr \in Objects(Statuses)
          BY <3>3 DEF IInv, TypeOK, LifecycleTypeOK
        <4> QED
          BY <1>8, <3>3, <4>1
             DEF Users, UserCreate, UserEdit, UserDelete, PrereqsLost, Objects
      <3> QED
        BY <3>1, <3>2, <3>3 DEF IInv, BareRecordsNothing, Recorded
    <2> QED
      BY <2>1, <2>3 DEF Unrecorded
  <1> QED
    BY <1>1, <1>2, <1>3, <1>4, <1>5, <1>6, <1>7, <1>8 DEF Next, Worker

(* Accounted is inductive.                                                 *)
LEMMA NextAccounted ==
  ASSUME IInv, Accounted, [Next]_vars
  PROVE  Accounted'
  <1> SUFFICES ASSUME NEW f \in Fqns, remote'[f] # None,
                      remote'[f].by = "operator"
               PROVE  remote'[f].id \in lost' \cup Recorded' \cup Unrecorded'
    BY DEF Accounted
  <1>1. Evolved(f) /\ TypeOK /\ LifecycleInv
    BY NextEvolves DEF RemoteEvolves, IInv
  <1>2. CASE remote[f] # None
    <2>1. remote'[f].id = remote[f].id /\ remote[f].by = "operator"
      BY <1>1, <1>2 DEF Evolved
    <2>2. remote[f].id \in CustodyEntities
      BY <1>1, <1>2, IdsThere
    <2> QED
      BY <1>2, <2>1, <2>2, OldOnesAccounted DEF Accounted
  <1>3. CASE remote[f] = None
    <2>1. Upsert
      <3>1. ~Others
        BY <1>1, <1>3, OthersBringTheirs
      <3>2. ~Delete
        BY <1>1, <1>3, DeleteEvolves
      <3> QED
        BY <1>3, <3>1, <3>2
           DEF Next, Worker, Observe, Query, Persist, CrashAndRestart,
               testCaseVars, vars
    <2> DEFINE g   == FqnOf[obj.spec]
               new == AfterPut(remote[g], obj.spec)
    <2>2. /\ pc = "upsert" /\ new \in Entities
          /\ remote' = [remote EXCEPT ![g] = new] \/ UNCHANGED remote
      BY <1>1, <2>1, UpsertOutcomes
    <2>3. remote \in [Fqns -> Entities \cup {None}]
      BY <1>1 DEF TypeOK
    <2>4. /\ f = g /\ remote'[f] = new
          /\ remote' = [remote EXCEPT ![g] = new]
      BY <1>3, <2>2, <2>3
    <2>5. CASE lost' = lost \cup {new.id}
      BY <2>4, <2>5
    <2>6. CASE GotoPersist(Registered(new), "requeue")
      <3>1. st'.id = new.id /\ obj' = obj /\ pc' = "persist"
        BY <1>1, <2>2, <2>6, InFlight, RegisteredStatus DEF GotoPersist
      <3>2. new.id = lastId + 1
        BY <1>1, <1>3, <2>4 DEF Evolved
      <3>3. obj.status.id # lastId + 1
        BY <1>1, <2>2, InFlight, CopiesAreNotFresh DEF IInv
      <3>4. new.id # None
        BY <2>2, KindFacts DEF Entities
      <3> QED
        BY <2>4, <3>1, <3>2, <3>3, <3>4 DEF Unrecorded
    <2> QED
      BY <1>1, <1>3, <2>1, <2>4, <2>5, <2>6, UpsertOutcomes
  <1> QED
    BY <1>2, <1>3

(* Whatever fails, crashes or is refused: every test case of the operator  *)
(* is recorded, about to be, or known as one whose recording was lost.     *)
THEOREM AllAccountedFor == Spec => []EveryTestCaseAccountedFor
  <1>1. Init => Accounted
    BY DEF Init, Accounted
  <1>2. IInv /\ Accounted /\ [Next]_vars => Accounted'
    BY NextAccounted
  <1>3. Accounted => EveryTestCaseAccountedFor
    BY DEF Accounted, EveryTestCaseAccountedFor, Unrecorded
  <1> QED
    BY <1>1, <1>2, <1>3, InductiveInvariant, PTL DEF Spec

-----------------------------------------------------------------------------
(* The drift detection.                                                    *)

(* Versions only grow, and a test case that comes back has another ID: a   *)
(* sound claim stays sound.                                                *)
LEMMA SoundStays ==
  ASSUME TypeOK, RemoteEvolves, NEW spec \in Specs, NEW gen \in 1..MaxGen,
         NEW status \in Statuses, status.id # lastId + 1,
         Sound(remote, spec, gen, status)
  PROVE  Sound(remote', spec, gen, status)
  <1> DEFINE f == FqnOf[spec]
  <1>1. f \in Fqns /\ status.remoteVersion \in Nat
    BY SpecsAssumption DEF Statuses
  <1>2. SUFFICES ASSUME status.observed = gen, remote'[f] # None,
                        remote'[f].id = status.id
                 PROVE  \/ status.remoteVersion < remote'[f].ver
                        \/ /\ status.remoteVersion = remote'[f].ver
                           /\ remote'[f].content = spec
    BY DEF Sound
  <1>3. /\ remote[f] # None /\ remote'[f].id = remote[f].id
        /\ remote'[f] = remote[f] \/ remote[f].ver < remote'[f].ver
    BY <1>1, <1>2 DEF RemoteEvolves, Evolved
  <1>4. remote[f].ver \in Nat /\ remote'[f].ver \in Nat
    BY <1>1, <1>2, <1>3 DEF TypeOK, RemoteEvolves, Entities, Ids
  <1>5. \/ status.remoteVersion < remote[f].ver
        \/ status.remoteVersion = remote[f].ver /\ remote[f].content = spec
    BY <1>2, <1>3 DEF Sound
  <1> QED
    BY <1>1, <1>3, <1>4, <1>5

(* In particular the claims of the copies, and of the working status.      *)
LEMMA CopiesStaySound ==
  ASSUME IInv, VersionsIdentify, [Next]_vars
  PROVE  /\ \A o \in {cr, cached, obj} \ {None} :
              Sound(remote', o.spec, o.gen, o.status)
         /\ st # None => Sound(remote', obj.spec, obj.gen, st)
  <1>1. TypeOK /\ RemoteEvolves
    BY NextEvolves DEF IInv
  <1>2. ASSUME NEW o \in {cr, cached, obj} \ {None}
        PROVE  Sound(remote', o.spec, o.gen, o.status)
    <2>1. o.spec \in Specs /\ o.gen \in 1..MaxGen /\ o.status \in Statuses
      BY <1>1, <1>2, ObjectFields, BoundsAssumption
         DEF TypeOK, LifecycleTypeOK, Objects
    <2>2. o.status.id # lastId + 1
      BY <1>1, CopiesAreNotFresh DEF IInv
    <2> QED
      BY <1>1, <2>1, <2>2, SoundStays DEF VersionsIdentify
  <1>3. ASSUME st # None
        PROVE  Sound(remote', obj.spec, obj.gen, st)
    <2>1. /\ obj.spec \in Specs /\ obj.gen \in 1..MaxGen /\ st \in Statuses
      BY <1>1, <1>3, InFlight DEF IInv, LifecycleInv, StepFitsObject
    <2>2. st.id # lastId + 1
      <3>1. lastId \in Nat /\ lastId + 1 \in Ids
        BY <1>1 DEF TypeOK, Ids
      <3> QED
        BY <1>3, <2>1, <3>1, KindFacts DEF IInv, IdsUpToLast, CopiesUpTo, Ids
    <2> QED
      BY <1>1, <1>3, <2>1, <2>2, SoundStays DEF VersionsIdentify
  <1> QED
    BY <1>2, <1>3

(* A handler step leaves a sound working status: an upsert records the     *)
(* version that it left.                                                   *)
LEMMA HandlerStaysSound ==
  ASSUME IInv, VersionsIdentify, [Next]_vars,
         Observe \/ Query \/ Upsert \/ Delete, st' # None
  PROVE  Sound(remote', obj'.spec, obj'.gen, st')
  <1>1. TypeOK /\ LifecycleInv
    BY DEF IInv
  <1>2. pc # "idle" /\ st # None /\ st \in Statuses /\ obj \in Objects(Statuses)
    BY <1>1, InFlight, WorkingStatusByStep
  <1>3. Sound(remote', obj.spec, obj.gen, st)
    BY <1>2, CopiesStaySound
  <1>4. CASE UNCHANGED <<obj, st>>
    BY <1>3, <1>4
  <1>5. CASE UNCHANGED obj /\ (st' = NotReady \/ st' = [st EXCEPT !.ready = "True"])
    <2>1. /\ st'.id = st.id /\ st'.observed = st.observed
          /\ st'.remoteVersion = st.remoteVersion
      BY <1>2, <1>5, NotReadyStatus
    <2> QED
      BY <1>3, <1>5, <2>1 DEF Sound
  <1>6. CASE /\ Upsert /\ UNCHANGED obj
             /\ st' = Registered(AfterPut(remote[FqnOf[obj.spec]], obj.spec))
             /\ remote' = [remote EXCEPT ![FqnOf[obj.spec]] =
                             AfterPut(remote[FqnOf[obj.spec]], obj.spec)]
    <2> DEFINE f   == FqnOf[obj.spec]
               new == AfterPut(remote[f], obj.spec)
    <2>1. new \in Entities /\ new.content = obj.spec
      BY <1>1, <1>2, InFlight, PutResult
    <2>2. remote'[f] = new
      BY <1>1, <1>2, <1>6, InFlight DEF TypeOK
    <2>3. st'.observed = obj.gen /\ st'.remoteVersion = new.ver
      BY <1>2, <1>6, <2>1, RegisteredStatus
    <2>4. obj.gen \in Nat
      BY <1>2, ObjectFields, BoundsAssumption
    <2> QED
      BY <1>6, <2>1, <2>2, <2>3, <2>4 DEF Sound
  <1> QED
    BY <1>1, <1>4, <1>5, <1>6, WorkingStatusByStep DEF Goto, Return

(* VersionsIdentify is inductive.                                          *)
LEMMA NextVersionsIdentify ==
  ASSUME IInv, VersionsIdentify, [Next]_vars
  PROVE  VersionsIdentify'
  <1>1. /\ LifecycleStep(Statuses, Steps, EmptyStatus)
        /\ LifecycleTypeOK(Statuses, Steps) /\ LifecycleInv
    BY NextIsLifecycleStep DEF IInv, TypeOK
  <1>2. ASSUME cr' # None
        PROVE  Sound(remote', cr'.spec, cr'.gen, cr'.status)
    <2>1. CASE cr' = cr
      BY <1>2, <2>1, CopiesStaySound
    <2>2. CASE cr'.gen = 1 /\ cr'.status = EmptyStatus
      BY <2>2 DEF Sound, EmptyStatus
    <2>3. CASE cr # None /\ cr'.gen = cr.gen + 1 /\ cr'.status = cr.status
      <3>1. cr.status.observed <= cr.gen
        BY <2>3 DEF VersionsIdentify, Sound
      <3>2. cr.gen \in Nat /\ cr.status.observed \in Nat
        BY <1>1, <2>3, ObjectFields, BoundsAssumption
           DEF LifecycleTypeOK, Statuses, Objects
      <3> QED
        BY <2>3, <3>1, <3>2 DEF Sound
    <2>4. CASE /\ cr # None /\ cr'.spec = cr.spec /\ cr'.gen = cr.gen
               /\ cr'.status = cr.status
      BY <2>4, CopiesStaySound
    <2>5. CASE /\ pc = "persist" /\ cr = obj /\ cr'.status = st
               /\ cr'.spec = cr.spec /\ cr'.gen = cr.gen
      <3>1. st # None
        BY <1>1, <2>5 DEF LifecycleInv, StepFitsObject
      <3> QED
        BY <2>5, <3>1, CopiesStaySound
    <2> QED
      BY <1>1, <1>2, <2>1, <2>2, <2>3, <2>4, <2>5, StoredByStep, KindFacts
  <1>3. /\ cached' # None => Sound(remote', cached'.spec, cached'.gen, cached'.status)
        /\ obj' # None => Sound(remote', obj'.spec, obj'.gen, obj'.status)
    BY <1>1, CopiesStaySound, CopiesByStep
  <1>4. ASSUME st' # None
        PROVE  Sound(remote', obj'.spec, obj'.gen, st')
    <2>1. CASE Observe \/ Query \/ Upsert \/ Delete
      BY <1>4, <2>1, HandlerStaysSound
    <2>2. CASE UNCHANGED <<obj, st>>
      BY <1>4, <2>2, CopiesStaySound
    <2>3. CASE obj' = cached /\ cached # None /\ st' = cached.status
      BY <2>3, CopiesStaySound
    <2>4. CASE SharedStep(EmptyStatus)
      BY <1>4, <2>2, <2>3, <2>4
         DEF SharedStep, UserCreate, UserEdit, UserDelete, PrereqsLost,
             PrereqsRestored, CacheSync, TimerFires, Crash, Dequeue,
             EnsurePresent, SetConditionAndPersist, EnsureAbsent, Return
    <2>5. CASE Others \/ UNCHANGED vars
      BY <2>2, <2>5, OthersElsewhere DEF vars, lifecycleVars
    <2> QED
      BY <2>1, <2>4, <2>5, StepKinds
  <1> QED
    BY <1>2, <1>3, <1>4 DEF VersionsIdentify

(* Drift does not go unnoticed: a copy that shows the generation applied   *)
(* and the version of the test case it records stands for a test case with *)
(* the content of its spec, whatever failed or was edited on the way.      *)
THEOREM DriftDetected == Spec => []DriftDetectionSound
  <1>1. Init => VersionsIdentify
    BY DEF Init, LifecycleInit, VersionsIdentify
  <1>2. IInv /\ VersionsIdentify /\ [Next]_vars => VersionsIdentify'
    BY NextVersionsIdentify
  <1>3. IInv /\ VersionsIdentify => DriftDetectionSound
    <2> SUFFICES ASSUME IInv, VersionsIdentify,
                        NEW o \in {cr, cached, obj} \ {None},
                        InSync(o, Found(o.spec)), o.status.id = Found(o.spec).id
                 PROVE  Found(o.spec).content = o.spec
      BY DEF DriftDetectionSound
    <2> DEFINE e == remote[FqnOf[o.spec]]
    <2>1. Found(o.spec) = e /\ e # None
      BY DEF Found, InSync
    <2>2. o.spec \in Specs
      BY ObjectFields DEF IInv, TypeOK, LifecycleTypeOK
    <2>3. e.ver \in Nat
      BY <2>1, <2>2, SpecsAssumption DEF IInv, TypeOK, Entities, Ids
    <2> QED
      BY <2>1, <2>3 DEF VersionsIdentify, Sound, InSync
  <1> QED
    BY <1>1, <1>2, <1>3, InductiveInvariant, PTL DEF Spec

-----------------------------------------------------------------------------
(* The refinement: what it takes beyond IInv.                              *)

(* WritesWhatIsThere is inductive.                                         *)
LEMMA NextWrites ==
  ASSUME IInv, WritesWhatIsThere, [Next]_vars
  PROVE  WritesWhatIsThere'
  <1>1. TypeOK /\ LifecycleInv
    BY DEF IInv
  <1>2. CASE UNCHANGED <<pc, obj, st, remote, external>>
    BY <1>2 DEF WritesWhatIsThere, CustodyEntities
  <1>3. CASE pc' # "persist"
    BY <1>3 DEF WritesWhatIsThere
  <1>4. CASE Others
    <2>1. external \in Nat /\ external' = external + 1
      BY <1>1, <1>4, OthersElsewhere, SpecsAssumption DEF TypeOK
    <2>2. UNCHANGED <<pc, obj, st>>
      BY <1>4, OthersElsewhere DEF lifecycleVars
    <2> QED
      BY <2>1, <2>2 DEF WritesWhatIsThere
  <1>5. CASE SharedStep(EmptyStatus) /\ UNCHANGED <<remote, external>>
    BY <1>2, <1>3, <1>5
       DEF SharedStep, UserCreate, UserEdit, UserDelete, PrereqsLost,
           PrereqsRestored, CacheSync, TimerFires, Crash, Dequeue, FirstStep,
           EnsurePresent, SetConditionAndPersist, EnsureAbsent, Return
  <1>6. CASE Observe \/ Query \/ Upsert \/ Delete
    <2>1. pc \notin {"idle", "persist"} /\ st \in Statuses /\ st = obj.status
      BY <1>1, <1>6, WorkingStatusByStep, InFlight DEF IInv, WorkingStatus
    <2>2. CASE UNCHANGED obj /\ (st' = NotReady \/ st' = [st EXCEPT !.ready = "True"])
      BY <2>1, <2>2, NotReadyStatus DEF WritesWhatIsThere
    <2>3. CASE /\ Upsert /\ UNCHANGED obj
               /\ st' = Registered(AfterPut(remote[FqnOf[obj.spec]], obj.spec))
               /\ remote' = [remote EXCEPT ![FqnOf[obj.spec]] =
                               AfterPut(remote[FqnOf[obj.spec]], obj.spec)]
      <3> DEFINE f   == FqnOf[obj.spec]
                 new == AfterPut(remote[f], obj.spec)
      <3>1. /\ f \in Fqns /\ new \in Entities
            /\ obj \in Objects(Statuses) /\ pc = "upsert"
        BY <1>1, <2>1, <2>3, InFlight, UpsertOutcomes
      <3>2. st'.id = new.id /\ new # None /\ new.id # None
        BY <2>3, <3>1, RegisteredStatus, KindFacts DEF Entities
      <3>3. remote'[f] = new
        BY <1>1, <2>3, <3>1 DEF TypeOK
      <3>4. st'.id \in CustodyEntities'
        BY <3>1, <3>2, <3>3, IdsThereNext
      <3> QED
        BY <1>1, <2>3, <3>1, <3>2, <3>4, InFlight DEF WritesWhatIsThere
    <2> QED
      BY <1>1, <1>3, <1>6, <2>2, <2>3, WorkingStatusByStep DEF Goto, Return
  <1> QED
    BY <1>2, <1>4, <1>5, <1>6, StepKinds DEF vars, lifecycleVars, testCaseVars

(* CustodyInv is inductive.                                                *)
LEMMA NextCustody ==
  ASSUME CustodyInv, [Next]_vars, IInv'
  PROVE  CustodyInv'
  <1>1. /\ LifecycleStep(Statuses, Steps, EmptyStatus)
        /\ LifecycleTypeOK(Statuses, Steps) /\ LifecycleInv
        /\ Kind(Statuses, Steps) /\ EmptyStatus \in Statuses
    BY NextIsLifecycleStep, KindFacts DEF CustodyInv, IInv, TypeOK
  <1>2. DoomedKeepsRecord
    BY DEF CustodyInv, WritesWhatIsThere, DoomedKeepsRecord
  <1>3. DoomedRecordIsFrozen'
    BY <1>1, <1>2, DoomedRecordIsFrozenKept DEF CustodyInv
  <1>4. GoneIsCleanedUp(CustodyEntities)'
    <2>1. ASSUME NEW o \in {cached, obj} \ {None},
                 o.status.id \in CustodyEntities'
          PROVE  o.status.id \in CustodyEntities
      <3>1. o.status.id # lastId + 1
        BY CopiesAreNotFresh DEF CustodyInv, IInv
      <3> QED
        BY <2>1, <3>1, IdsByStep DEF CustodyInv, IInv
    <2>2. pc = "release" => obj.status.id \notin CustodyEntities
      BY DEF CustodyInv, IInv, ReleasedIsGone
    <2>3. DoomedRecordIsFrozen /\ GoneIsCleanedUp(CustodyEntities)
      BY DEF CustodyInv
    <2> QED
      BY <1>1, <2>1, <2>2, <2>3, GoneIsCleanedUpKept DEF GoneIsCleanedUp
  <1> QED
    BY <1>3, <1>4, NextWrites DEF CustodyInv

-----------------------------------------------------------------------------
(* The refinement, step by step.                                           *)

CustodyView == <<CustodyObject, CustodyRecord, CustodyEntities, external>>

(* A shared step is one of Custody's that leaves the test cases alone.     *)
LEMMA SharedStepSimulated ==
  ASSUME CustodyInv, SharedStep(EmptyStatus), UNCHANGED <<remote, external>>
  PROVE  [Guarded!Next]_CustodyView
  <1>1. UNCHANGED <<CustodyEntities, external>>
    BY DEF CustodyEntities
  <1>2. /\ CustodyObject = ObjectPhase(cr) /\ CustodyObject' = ObjectPhase(cr)'
        /\ CustodyRecord = RecordedId(cr) /\ CustodyRecord' = RecordedId(cr)'
    BY DEF CustodyObject, CustodyRecord, RecordedId
  <1>3. CASE UNCHANGED <<ObjectPhase(cr), RecordedId(cr)>>
    BY <1>1, <1>2, <1>3 DEF CustodyView
  <1>4. CASE /\ \/ ObjectPhase(cr) = "none" /\ ObjectPhase(cr)' = "bare"
                \/ /\ ObjectPhase(cr) = "bare"
                   /\ ObjectPhase(cr)' \in {"none", "kept"}
                \/ ObjectPhase(cr) = "kept" /\ ObjectPhase(cr)' = "doomed"
             /\ UNCHANGED RecordedId(cr)
    <2>1. Guarded!Want \/ Guarded!Withdraw \/ Guarded!Keep
      BY <1>1, <1>2, <1>4 DEF Guarded!Want, Guarded!Withdraw, Guarded!Keep
    <2> QED
      BY <2>1 DEF Guarded!Next
  <1>5. CASE /\ pc = "persist" /\ cr = obj /\ st.id # obj.status.id
             /\ ObjectPhase(cr) = "kept" /\ ObjectPhase(cr)' = "kept"
             /\ RecordedId(cr)' = st.id
    <2>1. st.id # None /\ (external > 0 \/ st.id \in CustodyEntities)
      BY <1>5 DEF CustodyInv, WritesWhatIsThere
    <2>2. Guarded!Record
      BY <1>1, <1>2, <1>5, <2>1 DEF Guarded!Record
    <2> QED
      BY <2>2 DEF Guarded!Next
  <1>6. CASE /\ pc = "release" /\ cr = obj
             /\ ObjectPhase(cr) = "doomed" /\ ObjectPhase(cr)' = "none"
             /\ RecordedId(cr)' = None
    <2>1. CustodyRecord \notin CustodyEntities
      <3>1. obj # None
        BY <1>6 DEF CustodyInv, IInv, LifecycleInv, StepFitsObject
      <3> QED
        BY <1>6, <3>1 DEF CustodyInv, IInv, ReleasedIsGone, CustodyRecord
    <2>2. Guarded!Release
      BY <1>1, <1>2, <1>6, <2>1 DEF Guarded!Release
    <2> QED
      BY <2>2 DEF Guarded!Next
  <1>7. DoomedKeepsRecord
    BY DEF CustodyInv, WritesWhatIsThere, DoomedKeepsRecord
  <1> QED
    BY <1>3, <1>4, <1>5, <1>6, <1>7, PhaseByStep, KindFacts
       DEF CustodyInv, IInv, TypeOK

(* Steps that leave the stored object alone.                               *)
LEMMA ViewOfObject ==
  ASSUME UNCHANGED cr
  PROVE  UNCHANGED <<CustodyObject, CustodyRecord>>
  BY DEF CustodyObject, CustodyRecord, ObjectPhase

(* Others meddle.                                                          *)
LEMMA OthersSimulated ==
  ASSUME CustodyInv, Others
  PROVE  Guarded!Meddle
  <1>1. UNCHANGED <<CustodyObject, CustodyRecord>> /\ external' = external + 1
    BY OthersElsewhere, ViewOfObject DEF lifecycleVars
  <1>2. PICK f \in Fqns : ExternalEdit(f) \/ ExternalDelete(f) \/ ExternalCreate(f)
    BY DEF Others
  <1>3. remote \in [Fqns -> Entities \cup {None}] /\ TypeOK /\ RemoteEvolves
    BY OthersEvolve DEF CustodyInv, IInv, TypeOK
  <1>4. \A g \in Fqns \ {f} : remote'[g] = remote[g]
    BY <1>2, <1>3 DEF ExternalEdit, ExternalDelete, ExternalCreate
  <1>5. CASE ExternalEdit(f)
    <2>1. remote[f] # None /\ remote[f] \in Entities
      BY <1>3, <1>5 DEF ExternalEdit
    <2>2. remote'[f] # None
      <3> DEFINE new == [remote[f] EXCEPT !.content = Foreign,
                                          !.ver = remote[f].ver + 1]
      <3>1. remote'[f] = new
        BY <1>3, <1>5 DEF ExternalEdit
      <3>2. remote[f].ver + 1 \in Ids /\ Foreign \in Contents
        BY <2>1 DEF Entities, Ids, Contents
      <3>3. new \in Entities
        BY <2>1, <3>2 DEF Entities
      <3> QED
        BY <3>1, <3>3, KindFacts
    <2>3. remote'[f].id = remote[f].id
      BY <1>3, <2>1, <2>2 DEF RemoteEvolves, Evolved
    <2>4. ASSUME NEW id
          PROVE  id \in CustodyEntities' <=> id \in CustodyEntities
      BY <1>3, <1>4, <2>1, <2>2, <2>3, IdsThere, IdsThereNext
    <2>5. UNCHANGED CustodyEntities
      BY <2>4
    <2> QED
      BY <1>1, <2>5 DEF Guarded!Meddle
  <1>6. CASE ExternalDelete(f)
    <2>1. remote[f] # None /\ remote'[f] = None
      BY <1>3, <1>6 DEF ExternalDelete
    <2> DEFINE gone == remote[f].id
    <2>2. ASSUME NEW id
          PROVE  id \in CustodyEntities' <=>
                   \E g \in Fqns \ {f} : remote[g] # None /\ remote[g].id = id
      BY <1>4, <2>1, IdsThereNext
    <2>3. CASE gone \in CustodyEntities'
      <3>1. ASSUME NEW id
            PROVE  id \in CustodyEntities' <=> id \in CustodyEntities
        BY <1>3, <2>2, <2>3, IdsThere
      <3>2. UNCHANGED CustodyEntities
        BY <3>1
      <3> QED
        BY <1>1, <3>2 DEF Guarded!Meddle
    <2>4. CASE gone \notin CustodyEntities'
      <3>1. ASSUME NEW id
            PROVE  id \in CustodyEntities' <=> id \in CustodyEntities \ {gone}
        BY <1>3, <2>2, <2>4, IdsThere
      <3>2. gone \in CustodyEntities
        BY <1>3, <2>1, IdsThere
      <3>3. CustodyEntities' = CustodyEntities \ {gone}
        BY <3>1
      <3> QED
        BY <1>1, <3>2, <3>3 DEF Guarded!Meddle
    <2> QED
      BY <2>3, <2>4
  <1>7. CASE ExternalCreate(f)
    <2> DEFINE new == NewEntity(Foreign, "others")
    <2>1. remote[f] = None /\ remote'[f] = new
      BY <1>3, <1>7 DEF ExternalCreate
    <2>2. new # None
      <3>1. lastId + 1 \in Ids /\ 1 \in Ids /\ Foreign \in Contents
        BY <1>3 DEF TypeOK, Ids, Contents
      <3>2. new \in Entities
        BY <3>1 DEF NewEntity, Entities
      <3> QED
        BY <3>2, KindFacts
    <2>3. ASSUME NEW id
          PROVE  id \in CustodyEntities' <=> id \in CustodyEntities \cup {new.id}
      <3> HIDE DEF new
      <3> QED
        BY <1>3, <1>4, <2>1, <2>2, IdsThere, IdsThereNext
    <2>4. /\ new.id \in CustodyEntities'
          /\ CustodyEntities' = CustodyEntities \cup {new.id}
      BY <2>3
    <2> QED
      BY <1>1, <2>4 DEF Guarded!Meddle
  <1> QED
    BY <1>2, <1>5, <1>6, <1>7

(* A PUT makes a test case, if there was none, for an object that is kept  *)
(* or at least not gone.                                                   *)
LEMMA UpsertSimulated ==
  ASSUME CustodyInv, Upsert
  PROVE  Guarded!Make \/ UNCHANGED CustodyView
  <1> DEFINE f   == FqnOf[obj.spec]
             new == AfterPut(remote[f], obj.spec)
  <1>1. TypeOK /\ LifecycleInv /\ IdsUpToLast
    BY DEF CustodyInv, IInv
  <1>2. /\ pc = "upsert" /\ f \in Fqns /\ new \in Entities
        /\ UNCHANGED <<cr, external>>
        /\ UNCHANGED remote \/ remote' = [remote EXCEPT ![f] = new]
    BY <1>1, UpsertOutcomes
  <1>3. UNCHANGED <<CustodyObject, CustodyRecord, external>>
    BY <1>2, ViewOfObject
  <1>4. CASE UNCHANGED remote
    BY <1>3, <1>4 DEF CustodyView, CustodyEntities
  <1>5. CASE remote' = [remote EXCEPT ![f] = new]
    <2>1. /\ remote'[f] = new /\ new # None
          /\ \A g \in Fqns \ {f} : remote'[g] = remote[g]
      BY <1>1, <1>2, <1>5, KindFacts DEF TypeOK
    <2>2. CASE remote[f] # None
      <3>1. new.id = remote[f].id
        BY <1>1, <1>2, <2>2, InFlight, PutResult
      <3>2. ASSUME NEW id
            PROVE  id \in CustodyEntities' <=> id \in CustodyEntities
        <4> HIDE DEF new, f
        <4> QED
          BY <1>1, <1>2, <2>1, <2>2, <3>1, IdsThere, IdsThereNext
      <3>3. UNCHANGED CustodyEntities
        BY <3>2
      <3> QED
        BY <1>3, <3>3 DEF CustodyView
    <2>3. CASE remote[f] = None
      <3>1. new.id = lastId + 1 /\ lastId \in Nat
        BY <1>1, <1>2, <2>3, InFlight, PutResult DEF TypeOK
      <3>2. new.id \notin CustodyEntities
        <4>1. \A g \in Fqns : remote[g] # None => remote[g].id \in Nat
          BY <1>1 DEF TypeOK, Entities, Ids
        <4> QED
          BY <1>1, <3>1, <4>1, IdsThere DEF IdsUpToLast
      <3>3. ASSUME NEW id
            PROVE  id \in CustodyEntities' <=> id \in CustodyEntities \cup {new.id}
        <4> HIDE DEF new, f
        <4> QED
          BY <1>1, <1>2, <2>1, <2>3, IdsThere, IdsThereNext
      <3>4. /\ new.id \in CustodyEntities' \ CustodyEntities
            /\ CustodyEntities' = CustodyEntities \cup {new.id}
        BY <3>2, <3>3
      <3>5. CustodyObject \in {"kept", "doomed"}
        BY <1>1, <1>2, InFlight DEF LifecycleInv, Follows, CustodyObject,
                                    ObjectPhase
      <3> QED
        BY <1>3, <3>4, <3>5 DEF Guarded!Make
    <2> QED
      BY <2>2, <2>3
  <1> QED
    BY <1>2, <1>4, <1>5

(* A DELETE removes the recorded test case of a doomed object, or nothing. *)
LEMMA DeleteSimulated ==
  ASSUME CustodyInv, Delete
  PROVE  Guarded!Remove \/ UNCHANGED CustodyView
  <1>1. /\ UNCHANGED <<CustodyObject, CustodyRecord, external>>
        /\ pc = "delete" /\ TypeOK /\ LifecycleInv
        /\ st = obj.status /\ obj # None /\ obj.deleting
    BY ViewOfObject, InFlight DEF Delete, CustodyInv, IInv, WorkingStatus
  <1>2. CASE UNCHANGED remote
    BY <1>1, <1>2 DEF CustodyView, CustodyEntities
  <1>3. CASE remote' = [f \in Fqns |-> AfterDelete(remote[f], st.id)]
    <2>1. ASSUME NEW id
          PROVE  id \in CustodyEntities' <=> id \in CustodyEntities \ {st.id}
      <3>1. \A f \in Fqns : remote'[f] = AfterDelete(remote[f], st.id)
        BY <1>3
      <3> QED
        BY <1>1, <3>1, IdsThere, IdsThereNext DEF AfterDelete
    <2>2. CustodyEntities' = CustodyEntities \ {st.id}
      BY <2>1
    <2>3. CASE st.id \notin CustodyEntities
      <3>1. UNCHANGED CustodyEntities
        BY <2>2, <2>3
      <3> QED
        BY <1>1, <3>1 DEF CustodyView
    <2>4. CASE st.id \in CustodyEntities
      <3>1. cr # None /\ cr.uid = obj.uid
        BY <1>1, <2>4 DEF CustodyInv, GoneIsCleanedUp
      <3>2. cr.deleting /\ cr.finalizer
        BY <1>1, <3>1 DEF LifecycleInv, Follows
      <3>3. cr.status.id = st.id
        BY <1>1, <3>1 DEF CustodyInv, DoomedRecordIsFrozen
      <3>4. CustodyObject = "doomed" /\ CustodyRecord = st.id
        BY <3>1, <3>2, <3>3 DEF CustodyObject, CustodyRecord, ObjectPhase
      <3> QED
        BY <1>1, <2>2, <2>4, <3>4 DEF Guarded!Remove
    <2> QED
      BY <2>3, <2>4
  <1> QED
    BY <1>2, <1>3 DEF Delete

(* Every step is one of Custody's, or shows nothing to it.                 *)
LEMMA StepSimulated ==
  ASSUME CustodyInv, [Next]_vars
  PROVE  [Guarded!Next]_CustodyView
  <1>1. CASE SharedStep(EmptyStatus) /\ UNCHANGED <<remote, lastId, external>>
    BY <1>1, SharedStepSimulated
  <1>2. CASE Observe \/ Query \/ UNCHANGED vars
    <2>1. UNCHANGED <<cr, remote, external>>
      BY <1>2 DEF Observe, Query, vars, lifecycleVars, testCaseVars
    <2> QED
      BY <2>1, ViewOfObject DEF CustodyView, CustodyEntities
  <1>3. CASE Upsert
    BY <1>3, UpsertSimulated DEF Guarded!Next
  <1>4. CASE Delete
    BY <1>4, DeleteSimulated DEF Guarded!Next
  <1>5. CASE Others
    BY <1>5, OthersSimulated DEF Guarded!Next
  <1> QED
    BY <1>1, <1>2, <1>3, <1>4, <1>5, StepKinds

(* The TestCase controller implements Custody, whatever entities the specs *)
(* name over time and whether or not OpenMetadata finds test cases by      *)
(* name: a test case is made for an object that has the finalizer only,    *)
(* none is removed but the recorded one of an object that is to be         *)
(* deleted, and that object does not go before what it records.            *)
THEOREM TestCaseIsCustody == Spec => ImplementsCustody
  <1>1. Init => Guarded!Init
    BY DEF Init, LifecycleInit, Guarded!Init, CustodyObject, CustodyRecord,
           CustodyEntities, ObjectPhase
  <1>2. CustodyInv /\ [Next]_vars => [Guarded!Next]_(Guarded!custodyVars)
    BY StepSimulated DEF CustodyView, Guarded!custodyVars
  <1>3. Init => CustodyInv
    BY InitInv DEF CustodyInv, WritesWhatIsThere, DoomedRecordIsFrozen,
                   GoneIsCleanedUp, Init, LifecycleInit
  <1>4. CustodyInv /\ IInv' /\ [Next]_vars => CustodyInv'
    BY NextCustody
  <1> QED
    BY <1>1, <1>2, <1>3, <1>4, InductiveInvariant, PTL
       DEF Spec, ImplementsCustody, Guarded!Spec

Consequences == INSTANCE CustodyProofs WITH
  object   <- CustodyObject,
  record   <- CustodyRecord,
  entities <- CustodyEntities,
  meddling <- external

(* The test case that a live resource records is in OpenMetadata as long as*)
(* others keep their hands off: no edit of its name or entity, no failure, *)
(* crash or stale cache makes the operator itself take it away or record   *)
(* one that is not there.                                                  *)
THEOREM RecordedTestCaseIsThere ==
  Spec => [](external = 0 /\ cr # None /\ ~cr.deleting /\ cr.status.id # None
               => cr.status.id \in CustodyEntities)
  <1> DEFINE There ==
        external = 0 /\ cr # None /\ ~cr.deleting /\ cr.status.id # None
          => cr.status.id \in CustodyEntities
  <1>1. Spec => Consequences!Spec
    <2>1. Guarded!Init => Consequences!Init
      BY DEF Guarded!Init, Consequences!Init
    <2>2. [Guarded!Next]_(Guarded!custodyVars)
            => [Consequences!Next]_(Consequences!custodyVars)
      BY Zenon
         DEF Guarded!Next, Guarded!Want, Guarded!Withdraw, Guarded!Meddle,
             Guarded!Keep, Guarded!Make, Guarded!Record, Guarded!Remove,
             Guarded!Release, Guarded!custodyVars, Consequences!Next,
             Consequences!Want, Consequences!Withdraw, Consequences!Meddle,
             Consequences!Keep, Consequences!Make, Consequences!Record,
             Consequences!Remove, Consequences!Release,
             Consequences!custodyVars
    <2> QED
      BY <2>1, <2>2, TestCaseIsCustody, PTL
         DEF ImplementsCustody, Guarded!Spec, Consequences!Spec
  <1>2. Consequences!Spec => []Consequences!RecordIsThere
    BY Consequences!RecordIsAlwaysThere, PTL
  <1>3. Consequences!RecordIsThere => There
    BY DEF Consequences!RecordIsThere, CustodyObject, CustodyRecord,
           ObjectPhase
  <1> QED
    BY <1>1, <1>2, <1>3, PTL

=============================================================================
