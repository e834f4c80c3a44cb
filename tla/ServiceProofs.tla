---------------------------- MODULE ServiceProofs ----------------------------
(***************************************************************************)
(* Proofs about Service, for every value of its constants: the invariant   *)
(* IInv is inductive, and the safety properties follow from it; the        *)
(* refinement of Custody and the account of the services take a little     *)
(* more.  Some lemmas are about the controller among others of its kind,   *)
(* for SharedServiceProofs.                                                *)
(***************************************************************************)
EXTENDS Service, ManagedResourceProofs

(* None is not mistaken for a value.                                       *)
LEMMA NoneFacts ==
  /\ None \notin Objects(Statuses)
  /\ None \notin Statuses
  /\ None \notin Entities
  /\ None \notin Ids
  BY NoneAssumption

(* The status of a new object is a status.                                 *)
LEMMA EmptyStatusType == EmptyStatus \in Statuses
  BY BoundsAssumption DEF EmptyStatus, Statuses

(* A status with another Ready condition is a status and keeps its ID.     *)
LEMMA ReadyStatus ==
  ASSUME NEW s \in Statuses, NEW r \in {"Unknown", "True", "False"}
  PROVE  /\ [s EXCEPT !.ready = r] \in Statuses
         /\ [s EXCEPT !.ready = r].id = s.id
  BY DEF Statuses

(* The inductive invariant holds in every initial state.                   *)
LEMMA InitInv == Init => IInv
  <1> SUFFICES ASSUME Init PROVE IInv
    OBVIOUS
  <1>1. TypeOK
    <2>1. LifecycleTypeOK(Statuses, Steps)
      <3>1. lastUid \in 0..MaxUid /\ faults \in 0..MaxFaults
        BY BoundsAssumption DEF Init, LifecycleInit
      <3>2. queued \in BOOLEAN /\ timer \in BOOLEAN /\ prereqs \in BOOLEAN
        BY Zenon DEF Init, LifecycleInit
      <3> QED
        BY <3>1, <3>2 DEF Init, LifecycleInit, LifecycleTypeOK, Steps, Results
    <2>2. external \in 0..MaxExternal
      BY SpecsAssumption DEF Init
    <2>3. remote \in [Locations -> Entities \cup {None}]
      BY DEF Init
    <2> QED
      BY <2>1, <2>2, <2>3 DEF Init, TypeOK
  <1>2. LifecycleInv /\ NeverForgotten /\ WorkingStatus
    BY DEF Init, LifecycleInit, LifecycleInv, StepFitsObject, NeverForgotten,
           Awake, WorkingStatus
  <1>3. IdsUpToLast /\ RecordedIsGuarded
    BY DEF Init, LifecycleInit, IdsUpToLast, RecordedIsGuarded
  <1> QED
    BY <1>1, <1>2, <1>3 DEF IInv

-----------------------------------------------------------------------------
(* Types and LifecycleInv, one action after the other.                     *)

(* New and changed services are services; a change keeps the ID.           *)
LEMMA EntityTypes ==
  ASSUME lastId \in Nat, NEW c \in Contents
  PROVE  /\ NewEntity(c, "others") \in Entities
         /\ NewEntity(c, "operator") \in Entities
         /\ NewEntity(c, "others").id = lastId + 1
         /\ NewEntity(c, "operator").id = lastId + 1
         /\ \A e \in Entities : Changed(e, c) \in Entities /\ Changed(e, c).id = e.id
  <1>1. /\ lastId + 1 \in Ids /\ 1 \in Ids
        /\ \A n \in Ids : n + 1 \in Ids
    BY DEF Ids
  <1>2. ASSUME NEW e \in Entities
        PROVE  Changed(e, c) \in Entities /\ Changed(e, c).id = e.id
    <2>1. e.ver + 1 \in Ids
      BY <1>1 DEF Entities
    <2> QED
      BY <2>1 DEF Changed, Entities
  <1> QED
    BY <1>1, <1>2 DEF NewEntity, Entities

(* What a PUT answers: the entity that was there, or a fresh one.          *)
LEMMA PutTypes ==
  ASSUME lastId \in Nat, NEW c \in Contents, NEW e \in Entities \cup {None}
  PROVE  /\ AfterPut(e, c) \in Entities
         /\ IdsAfterPut(e) \in Nat /\ lastId <= IdsAfterPut(e)
         /\ e = None => AfterPut(e, c).id = IdsAfterPut(e)
         /\ e # None => AfterPut(e, c).id = e.id
  BY EntityTypes DEF AfterPut, IdsAfterPut

(* The status of a successful upsert is a status with the service's ID.    *)
LEMMA RegisteredType ==
  ASSUME NEW e \in Entities, obj \in Objects(Statuses)
  PROVE  Registered(e) \in Statuses /\ Registered(e).id = e.id
  BY ObjectFields, BoundsAssumption DEF Registered, Statuses, Entities, Ids

(* The steps of the worker.                                                *)

(* The object and the status a reconciliation in flight works on.          *)
LEMMA InFlight ==
  ASSUME TypeOK, LifecycleInv, pc # "idle"
  PROVE  /\ obj \in Objects(Statuses) /\ st \in Statuses
         /\ obj.spec \in Specs /\ obj.status \in Statuses
         /\ obj.gen \in 1..MaxGen /\ LocationOf[obj.spec] \in Locations
  BY ObjectFields, SpecsAssumption, BoundsAssumption
     DEF TypeOK, LifecycleTypeOK, LifecycleInv, StepFitsObject, Objects

(* The status of a failed reconciliation is a status with the same ID.     *)
LEMMA NotReadyType ==
  ASSUME st \in Statuses
  PROVE  NotReady \in Statuses /\ NotReady.id = st.id
  BY ReadyStatus DEF NotReady

(* What an upsert does with the entity new that a PUT leaves at l.         *)
Applied(l, new) ==
  /\ remote' = [remote EXCEPT ![l] = new]
  /\ lastId' = IdsAfterPut(remote[l])

UpsertOutcome(l, new) ==
  \/ /\ Applied(l, new)
     /\ GotoPersist(Registered(new), "requeue")
     /\ UNCHANGED <<faults, lost>>
  \/ /\ Fault
     /\ GotoPersist(NotReady, "error")
     /\ UNCHANGED <<remote, lastId, lost>>
  \/ /\ Fault
     /\ Applied(l, new)
     /\ GotoPersist(NotReady, "error")
     /\ lost' = IF remote[l] = None THEN lost \cup {new.id} ELSE lost

(* The outcomes of an upsert, with the service it is about named.          *)
LEMMA UpsertCases ==
  ASSUME TypeOK, LifecycleInv, WorkingStatus, Upsert
  PROVE  \E l \in Locations, new \in Entities :
           /\ l = LocationOf[obj.spec]
           /\ new = AfterPut(remote[l], want)
           /\ remote[l] \in Entities \cup {None}
           /\ pc = "upsert"
           /\ UNCHANGED <<cr, cached, prereqs, lastUid, secret, want, external>>
           /\ lastId \in Nat /\ want \in Contents
           /\ UpsertOutcome(l, new)
  <1> DEFINE l   == LocationOf[obj.spec]
             new == AfterPut(remote[l], want)
  <1>1. /\ pc = "upsert" /\ want \in Contents /\ lastId \in Nat
        /\ UNCHANGED <<cr, cached, prereqs, lastUid, secret, want, external>>
    BY DEF Upsert, TypeOK, WorkingStatus
  <1>2. l \in Locations /\ remote[l] \in Entities \cup {None}
    BY <1>1, InFlight DEF TypeOK
  <1>3. new \in Entities
    BY <1>1, <1>2, PutTypes
  <1>4. UpsertOutcome(l, new)
    BY DEF Upsert, UpsertOutcome, Applied
  <1> QED
    BY <1>1, <1>2, <1>3, <1>4

(* Services fit the lemmas about every kind.                               *)
LEMMA KindFacts ==
  Kind(Statuses, Steps) /\ EmptyStatus \in Statuses /\ EmptyStatus.id = None
  <1>1. EmptyStatus \in Statuses /\ EmptyStatus.id = None
    BY EmptyStatusType DEF EmptyStatus
  <1> QED
    BY <1>1, NoneFacts DEF Kind, Steps

(* Every step is one that the lemmas about all kinds cover.                *)
LEMMA NextIsLifecycleStep ==
  ASSUME TypeOK, LifecycleInv, WorkingStatus, [Next]_vars
  PROVE  LifecycleStep(Statuses, Steps, EmptyStatus)
  <1> DEFINE ToPersist == \E status \in Statuses, result \in Results :
                            GotoPersist(status, result)
             Onward == /\ pc' \in Steps \ {"idle", "addFinalizer", "persist"}
                       /\ pc' \in {"delete", "release"} <=> obj.deleting
                       /\ st' \in Statuses
                       /\ UNCHANGED <<queued, timer, obj, res>>
  <1>1. ASSUME pc # "idle", Goto("query") \/ Goto("upsert") \/ Goto("release"),
               pc \in {"observe", "query"} <=> ~Goto("release"),
               pc \in {"observe", "query", "delete"}
        PROVE  Onward
    <2>1. st \in Statuses /\ (obj.deleting <=> pc = "delete")
      BY <1>1, InFlight DEF LifecycleInv, StepFitsObject
    <2> QED
      BY <1>1, <2>1 DEF Goto, Steps
  <1>2. CASE Observe \/ Query \/ Delete
    <2>1. /\ pc \in {"observe", "query", "delete"}
          /\ UNCHANGED <<cr, cached, prereqs, lastUid>>
          /\ Fault \/ UNCHANGED faults
          /\ \/ pc \in {"observe", "query"} /\ (Goto("query") \/ Goto("upsert"))
             \/ pc = "delete" /\ (Goto("release") \/ Return("error"))
             \/ GotoPersist(NotReady, "error") \/ GotoPersist(NotReady, "done")
             \/ GotoPersist([st EXCEPT !.ready = "True"], "requeue")
      BY <1>2 DEF Observe, Query, Delete
    <2>2. /\ NotReady \in Statuses /\ [st EXCEPT !.ready = "True"] \in Statuses
      BY <2>1, InFlight, NotReadyType, ReadyStatus
    <2>3. CASE Goto("query") \/ Goto("upsert") \/ Goto("release")
      <3>1. pc \in {"observe", "query"} <=> ~Goto("release")
        BY <2>1, <2>3 DEF Goto, GotoPersist, Return
      <3>2. Onward
        BY <1>1, <2>1, <2>3, <3>1
      <3> QED
        BY <2>1, <3>2 DEF LifecycleStep, HandlerStep, Steps
    <2>4. CASE Return("error")
      BY <2>1, <2>4 DEF LifecycleStep, HandlerStep, Steps, Results
    <2>5. CASE \/ GotoPersist(NotReady, "error") \/ GotoPersist(NotReady, "done")
               \/ GotoPersist([st EXCEPT !.ready = "True"], "requeue")
      <3>1. ToPersist
        BY <2>2, <2>5 DEF Results
      <3> QED
        BY <2>1, <3>1 DEF LifecycleStep, HandlerStep, Steps
    <2> QED
      BY <2>1, <2>3, <2>4, <2>5
  <1>3. CASE Upsert
    <2>1. PICK l \in Locations, new \in Entities :
            /\ pc = "upsert"
            /\ UNCHANGED <<cr, cached, prereqs, lastUid>>
            /\ UpsertOutcome(l, new)
      BY <1>3, UpsertCases
    <2>2. /\ Fault \/ UNCHANGED faults
          /\ GotoPersist(NotReady, "error") \/ GotoPersist(Registered(new), "requeue")
      BY <2>1 DEF UpsertOutcome
    <2>3. NotReady \in Statuses /\ Registered(new) \in Statuses
      BY <2>1, InFlight, NotReadyType, RegisteredType
    <2>4. ToPersist
      BY <2>2, <2>3 DEF Results
    <2> QED
      BY <2>1, <2>2, <2>4 DEF LifecycleStep, HandlerStep, Steps
  <1>4. CASE Others \/ UNCHANGED vars
    BY <1>4, Zenon DEF Others, ExternalEdit, ExternalDelete, ExternalCreate,
                       RotateSecret, External, vars, LifecycleStep
  <1> QED
    BY <1>2, <1>3, <1>4
       DEF Next, Worker, Users, Persist, CrashAndRestart, LifecycleStep,
           SharedStep

(* What others do keeps the types.                                         *)
LEMMA OthersTypes ==
  ASSUME TypeOK, Others
  PROVE  /\ remote' \in [Locations -> Entities \cup {None}]
         /\ lastId' \in Nat /\ secret' \in Nat /\ external' \in 0..MaxExternal
         /\ UNCHANGED <<want, lost>>
  <1> DEFINE Kept == /\ remote' \in [Locations -> Entities \cup {None}]
                     /\ lastId' \in Nat /\ secret' \in Nat
  <1>1. ASSUME NEW l \in Locations, ExternalEdit(l)
        PROVE  Kept
    <2>1. remote[l] \in Entities /\ Foreign \in Contents
      BY <1>1 DEF ExternalEdit, TypeOK, Contents
    <2>2. remote[l].ver + 1 \in Ids
      BY <2>1 DEF Entities, Ids
    <2>3. [remote[l] EXCEPT !.content = Foreign, !.ver = @ + 1] \in Entities
      BY <2>1, <2>2 DEF Entities
    <2> QED
      BY <1>1, <2>3 DEF ExternalEdit, TypeOK
  <1>2. ASSUME NEW l \in Locations, ExternalDelete(l)
        PROVE  Kept
    BY <1>2 DEF ExternalDelete, TypeOK
  <1>3. ASSUME NEW l \in Locations, ExternalCreate(l)
        PROVE  Kept
    BY <1>3, EntityTypes DEF ExternalCreate, TypeOK, Contents
  <1>4. ASSUME RotateSecret
        PROVE  Kept
    BY <1>4 DEF RotateSecret, TypeOK
  <1>5. external < MaxExternal /\ external' = external + 1
    BY Zenon DEF Others, ExternalEdit, ExternalDelete, ExternalCreate,
                 RotateSecret, External
  <1>6. UNCHANGED <<want, lost>>
    BY Zenon DEF Others, ExternalEdit, ExternalDelete, ExternalCreate,
                 RotateSecret, External
  <1>7. external' \in 0..MaxExternal
    BY <1>5, SpecsAssumption DEF TypeOK
  <1> QED
    BY <1>1, <1>2, <1>3, <1>4, <1>6, <1>7 DEF Others

(* So does an upsert, whatever its outcome.                                *)
LEMMA UpsertTypes ==
  ASSUME TypeOK, LifecycleInv, WorkingStatus, Upsert
  PROVE  /\ remote' \in [Locations -> Entities \cup {None}]
         /\ lastId' \in Nat /\ lost' \subseteq Ids
         /\ UNCHANGED <<secret, want, external>>
  <1>1. PICK l \in Locations, new \in Entities :
          /\ l = LocationOf[obj.spec]
          /\ new = AfterPut(remote[l], want)
          /\ remote[l] \in Entities \cup {None}
          /\ pc = "upsert"
          /\ UNCHANGED <<cr, cached, prereqs, lastUid, secret, want, external>>
          /\ lastId \in Nat /\ want \in Contents
          /\ UpsertOutcome(l, new)
    BY UpsertCases
  <1>2. IdsAfterPut(remote[l]) \in Nat /\ new.id \in Ids
    BY <1>1, PutTypes DEF Entities
  <1> QED
    BY <1>1, <1>2 DEF UpsertOutcome, Applied, TypeOK

(* Every step of the system keeps the types and LifecycleInv.              *)
LEMMA NextTypes ==
  ASSUME TypeOK, LifecycleInv, WorkingStatus, [Next]_vars
  PROVE  TypeOK' /\ LifecycleInv'
  <1>1. LifecycleTypeOK(Statuses, Steps)' /\ LifecycleInv'
    BY NextIsLifecycleStep, LifecycleKept, KindFacts DEF TypeOK
  <1>2. /\ remote' \in [Locations -> Entities \cup {None}]
        /\ lastId' \in Nat /\ secret' \in Nat
        /\ want' \in Contents \cup {None}
        /\ external' \in 0..MaxExternal
        /\ lost' \subseteq Ids
    <2>1. CASE UNCHANGED serviceVars
      BY <2>1 DEF TypeOK, serviceVars
    <2>2. CASE Others
      BY <2>2, OthersTypes DEF TypeOK
    <2>3. CASE Upsert
      BY <2>3, UpsertTypes DEF TypeOK
    <2>4. CASE Observe
      <3>1. /\ want' = want \/ want' = Content(obj.spec, secret)
            /\ obj.spec \in Specs
            /\ UNCHANGED <<remote, lastId, secret, external, lost>>
        BY <2>4, InFlight DEF Observe
      <3> QED
        BY <3>1 DEF TypeOK, Content, Contents
    <2>5. CASE Persist \/ CrashAndRestart
      <3>1. Unrecorded \subseteq Ids
        BY InFlight DEF Unrecorded, Statuses
      <3> QED
        BY <2>5, <3>1 DEF Persist, CrashAndRestart, TypeOK
    <2>6. CASE Delete
      BY <2>6 DEF Delete, AfterDelete, TypeOK
    <2> QED
      BY <2>1, <2>2, <2>3, <2>4, <2>5, <2>6 DEF Next, Worker, Query, vars
  <1> QED
    BY <1>1, <1>2 DEF TypeOK

-----------------------------------------------------------------------------
(* The other conjuncts of IInv.                                            *)

(* What most steps leave alone.                                            *)
LEMMA NotTheWorker ==
  ASSUME \/ Users /\ UNCHANGED serviceVars
         \/ Others
         \/ PrereqsRestored /\ UNCHANGED serviceVars
         \/ CacheSync /\ UNCHANGED serviceVars
         \/ TimerFires /\ UNCHANGED serviceVars
         \/ UNCHANGED vars
  PROVE  UNCHANGED <<pc, obj, st, res, want, lost>>
  <1> USE DEF serviceVars, lifecycleVars, vars
  <1>1. CASE Users /\ UNCHANGED serviceVars
    BY <1>1 DEF Users, UserCreate, UserEdit, UserDelete, PrereqsLost
  <1>2. CASE Others
    BY <1>2, Zenon DEF Others, ExternalEdit, ExternalDelete, ExternalCreate,
                       RotateSecret, External
  <1> QED
    BY <1>1, <1>2 DEF PrereqsRestored, CacheSync, TimerFires

(* Every step keeps WorkingStatus.                                         *)
LEMMA NextWorkingStatus ==
  ASSUME TypeOK, LifecycleInv, WorkingStatus, [Next]_vars
  PROVE  WorkingStatus'
  <1>1. CASE UNCHANGED <<pc, obj, st, res, want, lost>>
    BY <1>1 DEF WorkingStatus
  <1>2. CASE pc' = "idle"
    BY <1>2 DEF WorkingStatus
  <1>3. CASE Dequeue /\ UNCHANGED serviceVars
    BY <1>3 DEF Dequeue, FirstStep, WorkingStatus, LifecycleInv, StepFitsObject
  <1>4. CASE Observe
    BY <1>4, InFlight
       DEF Observe, Goto, GotoPersist, WorkingStatus, Content, Contents, TypeOK
  <1>5. CASE Query
    <2>1. obj # None /\ ~obj.deleting
      BY <1>5 DEF Query, LifecycleInv, StepFitsObject
    <2> QED
      BY <1>5, <2>1
         DEF Query, Goto, GotoPersist, WorkingStatus, serviceVars
  <1>6. CASE Upsert
    BY <1>6, UpsertCases DEF UpsertOutcome, GotoPersist, WorkingStatus
  <1>7. CASE Delete
    BY <1>7 DEF Delete, Goto, GotoPersist, Return, WorkingStatus
  <1> QED
    BY <1>1, <1>2, <1>3, <1>4, <1>5, <1>6, <1>7, NotTheWorker
       DEF Next, Worker, CrashAndRestart, Crash, EnsurePresent, EnsureAbsent,
           Persist, SetConditionAndPersist, Return

(* Every step keeps NeverForgotten: no wake-up is lost.                    *)
LEMMA NextNeverForgotten ==
  ASSUME TypeOK, LifecycleInv, WorkingStatus, NeverForgotten, [Next]_vars
  PROVE  NeverForgotten'
  <1>1. LifecycleTypeOK(Statuses, Steps) /\ Kind(Statuses, Steps)
    BY KindFacts DEF TypeOK
  <1>2. GivesUpOn(BadOwners) /\ GivesUpOn(BadOwners)'
    BY NextWorkingStatus DEF WorkingStatus, GivesUpOn
  <1>3. \/ SharedStep(EmptyStatus)
        \/ UNCHANGED lifecycleVars
        \/ pc' = "idle" => queued' \/ timer'
    <2>1. CASE Observe \/ Query \/ Upsert
      BY <2>1 DEF Observe, Query, Upsert, Goto, GotoPersist
    <2>2. CASE Delete
      BY <2>2 DEF Delete, Goto, GotoPersist, Return
    <2>3. CASE Others
      BY <2>3, Zenon DEF Others, ExternalEdit, ExternalDelete, ExternalCreate,
                         RotateSecret, External
    <2> QED
      BY <2>1, <2>2, <2>3
         DEF Next, Worker, Users, Persist, CrashAndRestart, SharedStep, vars
  <1> QED
    BY <1>1, <1>2, <1>3, AwakeKept DEF NeverForgotten

(* What others do to the services: the one at each location is the same    *)
(* entity as before, is gone, or has a fresh ID.                           *)
LEMMA OthersEntities ==
  ASSUME TypeOK, Others
  PROVE  /\ UNCHANGED lifecycleVars
         /\ lastId' \in Nat /\ lastId <= lastId'
         /\ \A l \in Locations :
              remote'[l] # None =>
                \/ remote[l] # None /\ remote'[l].id = remote[l].id
                \/ remote'[l].id = lastId + 1 /\ lastId' = lastId + 1
  <1>1. UNCHANGED lifecycleVars
    BY Zenon DEF Others, ExternalEdit, ExternalDelete, ExternalCreate,
                 RotateSecret, External
  <1>2. lastId \in Nat /\ remote \in [Locations -> Entities \cup {None}]
    BY DEF TypeOK
  <1>3. ASSUME NEW l \in Locations, ExternalEdit(l), NEW k \in Locations,
               remote'[k] # None
        PROVE  remote[k] # None /\ remote'[k].id = remote[k].id
    <2>1. remote[l] \in Entities
      BY <1>2, <1>3 DEF ExternalEdit
    <2>2. remote' = [remote EXCEPT
                       ![l] = [remote[l] EXCEPT !.content = Foreign,
                                                !.ver = remote[l].ver + 1]]
      BY <1>3 DEF ExternalEdit
    <2>3. [remote[l] EXCEPT !.content = Foreign,
                            !.ver = remote[l].ver + 1].id = remote[l].id
      BY <2>1 DEF Entities
    <2> QED
      BY <1>2, <1>3, <2>2, <2>3 DEF ExternalEdit
  <1>4. ASSUME NEW l \in Locations, ExternalDelete(l), NEW k \in Locations,
               remote'[k] # None
        PROVE  remote[k] # None /\ remote'[k].id = remote[k].id
    BY <1>2, <1>4 DEF ExternalDelete
  <1>5. ASSUME NEW l \in Locations, ExternalCreate(l), NEW k \in Locations,
               remote'[k] # None
        PROVE  \/ remote[k] # None /\ remote'[k].id = remote[k].id
               \/ remote'[k].id = lastId + 1
    BY <1>2, <1>5 DEF ExternalCreate, NewEntity
  <1>6. ASSUME RotateSecret PROVE UNCHANGED <<remote, lastId>>
    BY <1>6 DEF RotateSecret
  <1>7. /\ lastId' = lastId \/ lastId' = lastId + 1
        /\ \A l \in Locations : ExternalCreate(l) => lastId' = lastId + 1
    BY Zenon DEF Others, ExternalEdit, ExternalDelete, ExternalCreate,
                 RotateSecret
  <1> QED
    BY <1>1, <1>2, <1>3, <1>4, <1>5, <1>6, <1>7 DEF Others

(* After an upsert the services have old IDs, or the one just handed out.  *)
LEMMA UpsertEntities ==
  ASSUME TypeOK, LifecycleInv, WorkingStatus, IdsUpToLast, Upsert
  PROVE  /\ lastId' \in Nat /\ lastId <= lastId'
         /\ \A l \in Locations : remote'[l] # None => remote'[l].id <= lastId'
         /\ st'.id # None => st'.id <= lastId'
  <1>1. PICK l \in Locations, new \in Entities :
          /\ l = LocationOf[obj.spec]
          /\ new = AfterPut(remote[l], want)
          /\ remote[l] \in Entities \cup {None}
          /\ pc = "upsert"
          /\ UNCHANGED <<cr, cached, prereqs, lastUid, secret, want, external>>
          /\ lastId \in Nat /\ want \in Contents
          /\ UpsertOutcome(l, new)
    BY UpsertCases
  <1>2. /\ IdsAfterPut(remote[l]) \in Nat /\ lastId <= IdsAfterPut(remote[l])
        /\ new.id <= IdsAfterPut(remote[l])
    <2>1. IdsAfterPut(remote[l]) \in Nat /\ lastId <= IdsAfterPut(remote[l])
      BY <1>1, PutTypes
    <2>2. CASE remote[l] = None
      BY <1>1, <2>1, <2>2, PutTypes
    <2>3. CASE remote[l] # None
      <3>1. new.id = remote[l].id /\ remote[l].id <= lastId
        BY <1>1, <2>3, PutTypes DEF IdsUpToLast
      <3>2. IdsAfterPut(remote[l]) = lastId
        BY <2>3 DEF IdsAfterPut
      <3> QED
        BY <2>1, <3>1, <3>2
    <2> QED
      BY <2>2, <2>3
  <1>3. \A k \in Locations : remote[k] # None => remote[k].id \in Nat
    BY DEF TypeOK, Entities, Ids
  <1>4. st.id # None => st.id \in Nat
    <2>1. st \in Statuses
      BY <1>1, InFlight
    <2> QED
      BY <2>1 DEF Statuses, Ids
  <1>5. CASE Applied(l, new)
    <2>1. lastId' \in Nat /\ lastId <= lastId' /\ new.id <= lastId'
      BY <1>2, <1>5 DEF Applied
    <2>2. \A k \in Locations : remote'[k] # None => remote'[k].id <= lastId'
      BY <1>1, <1>3, <1>5, <2>1 DEF Applied, IdsUpToLast, TypeOK
    <2>3. st' = Registered(new) \/ st' = NotReady
      BY <1>1 DEF UpsertOutcome, GotoPersist
    <2>4. st'.id = new.id \/ st'.id = st.id
      BY <1>1, <2>3, InFlight, RegisteredType, NotReadyType
    <2>5. st # None
      BY <1>1 DEF LifecycleInv, StepFitsObject
    <2> QED
      BY <1>1, <1>4, <2>1, <2>2, <2>4, <2>5 DEF IdsUpToLast
  <1>6. CASE UNCHANGED <<remote, lastId>> /\ st' = NotReady
    <2>1. st'.id = st.id /\ st # None
      BY <1>1, <1>6, InFlight, NotReadyType DEF LifecycleInv, StepFitsObject
    <2> QED
      BY <1>1, <1>6, <2>1 DEF IdsUpToLast
  <1> QED
    BY <1>1, <1>5, <1>6 DEF UpsertOutcome, GotoPersist

(* Users and the lifecycle steps bring no new ID into a status.            *)
LEMMA StoredStatus ==
  ASSUME TypeOK, LifecycleInv, WorkingStatus, [Next]_vars
  PROVE  cr' # None =>
           \/ cr # None /\ cr'.status = cr.status
           \/ cr'.status = EmptyStatus
           \/ pc = "persist" /\ cr = obj /\ cr'.status = st
  BY NextIsLifecycleStep, StoredByStep, KindFacts DEF TypeOK

(* Every step keeps IdsUpToLast: no ID is known before it is handed out.   *)
LEMMA NextIdsUpToLast ==
  ASSUME TypeOK, LifecycleInv, WorkingStatus, IdsUpToLast, [Next]_vars
  PROVE  IdsUpToLast'
  <1>1. lastId \in Nat /\ remote \in [Locations -> Entities \cup {None}]
    BY DEF TypeOK
  <1>2. /\ lastId' \in Nat /\ lastId <= lastId'
        /\ \A l \in Locations : remote'[l] # None => remote'[l].id <= lastId'
    <2>1. CASE UNCHANGED <<remote, lastId>>
      BY <1>1, <2>1 DEF IdsUpToLast
    <2>2. CASE Others
      <3>1. \A l \in Locations : remote[l] # None => remote[l].id \in Nat
        BY <1>1 DEF Entities, Ids
      <3> QED
        BY <1>1, <2>2, <3>1, OthersEntities DEF IdsUpToLast
    <2>3. CASE Upsert
      BY <2>3, UpsertEntities
    <2>4. CASE Delete
      <3>1. obj.spec \in Specs /\ LocationOf[obj.spec] \in Locations
        BY <2>4, InFlight DEF Delete
      <3>2. /\ lastId' = lastId
            /\ \A l \in Locations : remote'[l] # None => remote'[l] = remote[l]
        BY <1>1, <2>4, <3>1 DEF Delete, AfterDelete
      <3> QED
        BY <1>1, <3>2 DEF IdsUpToLast
    <2> QED
      BY <2>1, <2>2, <2>3, <2>4
         DEF Next, Worker, CrashAndRestart, Observe, Query, Persist,
            serviceVars,
             vars
  <1>3. ASSUME NEW s \in Statuses, s.id # None => s.id <= lastId
        PROVE  s.id # None => s.id <= lastId'
    BY <1>1, <1>2, <1>3 DEF Statuses, Ids
  <1>4. /\ cr # None => cr.status \in Statuses
        /\ cached # None => cached.status \in Statuses
        /\ obj # None => obj.status \in Statuses
        /\ st # None => st \in Statuses
    BY ObjectFields DEF TypeOK, LifecycleTypeOK
  <1>5. /\ cr # None => (cr.status.id # None => cr.status.id <= lastId')
        /\ cached # None => (cached.status.id # None => cached.status.id <= lastId')
        /\ obj # None => (obj.status.id # None => obj.status.id <= lastId')
        /\ st # None => (st.id # None => st.id <= lastId')
    BY <1>3, <1>4 DEF IdsUpToLast
  <1>6. cr' # None => (cr'.status.id # None => cr'.status.id <= lastId')
    <2>1. pc = "persist" => st # None
      BY DEF LifecycleInv, StepFitsObject
    <2> QED
      BY <1>5, <2>1, StoredStatus DEF EmptyStatus
  <1>7. cached' \in {cached, cr} /\ obj' \in {obj, cached, None}
    BY NextIsLifecycleStep, CopiesByStep
  <1>8. st' # None => (st'.id # None => st'.id <= lastId')
    <2>1. CASE UNCHANGED st
      BY <1>5, <2>1
    <2>2. CASE st' = None
      BY <2>2
    <2>3. CASE Dequeue
      BY <1>5, <2>1, <2>3 DEF Dequeue
    <2>4. CASE Upsert
      BY <2>4, UpsertEntities
    <2>5. CASE Observe \/ Query \/ Delete
      <3>1. pc # "idle" /\ st # None
        BY <2>5 DEF Observe, Query, Delete, LifecycleInv, StepFitsObject
      <3>2. st' = None \/ st' = st \/ st' = NotReady \/ st' = [st EXCEPT !.ready = "True"]
        BY <2>5 DEF Observe, Query, Delete, Goto, GotoPersist, Return
      <3>4. NotReady.id = st.id /\ [st EXCEPT !.ready = "True"].id = st.id
        <4>1. st \in Statuses
          BY <3>1, InFlight
        <4> QED
          BY <4>1, NotReadyType, ReadyStatus
      <3>3. st' = None \/ st'.id = st.id
        BY <3>2, <3>4
      <3> QED
        BY <1>5, <3>1, <3>3
    <2> QED
      BY <2>1, <2>2, <2>3, <2>4, <2>5, NotTheWorker
         DEF Next, Worker, CrashAndRestart, Crash, EnsurePresent, EnsureAbsent,
             Persist, SetConditionAndPersist, Return
  <1> QED
    BY <1>2, <1>5, <1>6, <1>7, <1>8 DEF IdsUpToLast

(* What is recorded is guarded by the finalizer, and the finalizer is up   *)
(* for release only after the recorded service is gone.                    *)
LEMMA NextRecordedIsGuarded ==
  ASSUME TypeOK, LifecycleInv, WorkingStatus, IdsUpToLast, RecordedIsGuarded,
         [Next]_vars
  PROVE  RecordedIsGuarded'
  <1>1. cr' # None /\ ~cr'.finalizer => cr'.status.id = None
    BY NextIsLifecycleStep, BareRecordsNothingKept, KindFacts
       DEF TypeOK, RecordedIsGuarded, BareRecordsNothing
  <1>2. pc' = "release" =>
          LET e == remote'[LocationOf[obj'.spec]]
          IN  e = None \/ e.id # obj'.status.id
    <2> SUFFICES ASSUME pc' = "release"
                 PROVE  \/ remote'[LocationOf[obj'.spec]] = None
                        \/ remote'[LocationOf[obj'.spec]].id # obj'.status.id
      OBVIOUS
    <2>1. CASE Delete
      <3>1. /\ pc = "delete" /\ pc # "idle"
            /\ UNCHANGED obj
            /\ \/ st.id = None /\ UNCHANGED remote
               \/ remote' = [remote EXCEPT ![LocationOf[obj.spec]] =
                               AfterDelete(remote[LocationOf[obj.spec]], st.id)]
        BY <2>1 DEF Delete, Goto, GotoPersist, Return
      <3>2. st = obj.status /\ LocationOf[obj.spec] \in Locations
        BY <3>1, InFlight DEF WorkingStatus
      <3>3. /\ remote \in [Locations -> Entities \cup {None}]
            /\ \A e \in Entities : e.id # None
        BY NoneFacts DEF TypeOK, Entities
      <3>4. CASE st.id = None /\ UNCHANGED remote
        BY <3>1, <3>2, <3>3, <3>4
      <3>5. CASE remote' = [remote EXCEPT ![LocationOf[obj.spec]] =
                              AfterDelete(remote[LocationOf[obj.spec]], st.id)]
        <4>1. remote'[LocationOf[obj.spec]] =
                AfterDelete(remote[LocationOf[obj.spec]], st.id)
          BY <3>2, <3>3, <3>5
        <4> QED
          BY <3>1, <3>2, <4>1 DEF AfterDelete
      <3> QED
        BY <3>1, <3>4, <3>5
    <2>2. CASE Others
      <3>1. UNCHANGED <<pc, obj>>
        BY <2>2, OthersEntities DEF lifecycleVars
      <3>2. LocationOf[obj.spec] \in Locations /\ obj.status \in Statuses /\ obj # None
        BY <3>1, InFlight DEF LifecycleInv, StepFitsObject
      <3>3. obj.status.id # None => obj.status.id \in Nat /\ obj.status.id <= lastId
        BY <3>2 DEF IdsUpToLast, Statuses, Ids
      <3>4. lastId \in Nat
        BY DEF TypeOK
      <3>5. \/ remote'[LocationOf[obj.spec]] = None
            \/ /\ remote[LocationOf[obj.spec]] # None
               /\ remote'[LocationOf[obj.spec]].id = remote[LocationOf[obj.spec]].id
            \/ remote'[LocationOf[obj.spec]].id = lastId + 1
        BY <2>2, <3>2, OthersEntities
      <3>6. lastId + 1 # obj.status.id
        <4>1. CASE obj.status.id = None
          <5>1. lastId + 1 \in Ids
            BY <3>4 DEF Ids
          <5> QED
            BY <4>1, <5>1, NoneFacts
        <4>2. CASE obj.status.id # None
          BY <3>3, <3>4, <4>2
        <4> QED
          BY <4>1, <4>2
      <3> QED
        BY <3>1, <3>5, <3>6 DEF RecordedIsGuarded
    <2>3. CASE UNCHANGED <<pc, obj, remote>>
      BY <2>3 DEF RecordedIsGuarded
    <2>4. CASE Dequeue
      BY <2>4 DEF Dequeue, FirstStep
    <2> QED
      BY <2>1, <2>2, <2>3, <2>4, NotTheWorker
         DEF Next, Worker, vars, lifecycleVars, serviceVars, PrereqsRestored,
             CacheSync, TimerFires, Users, UserCreate, UserEdit, UserDelete,
             PrereqsLost, CrashAndRestart, Crash, EnsurePresent, EnsureAbsent,
             Observe, Query, Upsert, Persist, SetConditionAndPersist, Return,
             Goto, GotoPersist
  <1> QED
    BY <1>1, <1>2 DEF RecordedIsGuarded

-----------------------------------------------------------------------------
(* The theorems.                                                           *)

(* IInv is an inductive invariant of the Service controller and of what    *)
(* surrounds it: no sequence of edits, deletions, crashes, failed calls    *)
(* and external changes breaks it.                                         *)
THEOREM InductiveInvariant == Spec => []IInv
  <1>1. Init => IInv
    BY InitInv
  <1>2. IInv /\ [Next]_vars => IInv'
    BY NextTypes, NextWorkingStatus, NextNeverForgotten, NextIdsUpToLast,
       NextRecordedIsGuarded DEF IInv
  <1> QED
    BY <1>1, <1>2, PTL DEF Spec

(* Every variable keeps its type.                                          *)
THEOREM TypeCorrect == Spec => []TypeOK
  <1>1. IInv => TypeOK
    BY DEF IInv
  <1> QED
    BY <1>1, InductiveInvariant, PTL

(* From the start of ServiceHandler.Reconcile to its status write the      *)
(* object it read still exists and carries the finalizer.                  *)
THEOREM FinalizerGuardsUpserts == Spec => []FinalizerGuardsUpsert
  <1>1. IInv => FinalizerGuardsUpsert
    BY GuardsHold DEF IInv, FinalizerGuardsUpsert
  <1> QED
    BY <1>1, InductiveInvariant, PTL

(* No wake-up is lost: a resource that can still be converged is queued,   *)
(* waits for its timer, or has a watch event coming, whenever no           *)
(* reconciliation is in flight.                                            *)
THEOREM NoLostWakeUp == Spec => []NeverForgotten
  <1>1. IInv => NeverForgotten
    BY DEF IInv
  <1> QED
    BY <1>1, InductiveInvariant, PTL

(* No step lets the object go from Kubernetes while the service its status *)
(* records is still where its spec says.                                   *)
THEOREM CleanupBeforeRelease == Spec => ReleaseAfterCleanup
  <1> DEFINE Step == cr # None /\ cr' # cr /\ (cr' = None \/ cr'.uid # cr.uid) =>
                       LET e == remote[LocationOf[cr.spec]]
                       IN  e = None \/ e.id # cr.status.id
  <1>1. IInv /\ [Next]_vars => [Step]_vars
    <2> SUFFICES ASSUME TypeOK, LifecycleInv, WorkingStatus,
                        RecordedIsGuarded, Next, cr # None, cr' # cr,
                        cr' = None \/ cr'.uid # cr.uid
                 PROVE  \/ remote[LocationOf[cr.spec]] = None
                        \/ remote[LocationOf[cr.spec]].id # cr.status.id
      BY DEF IInv
    <2>1. cr \in Objects(Statuses) /\ LocationOf[cr.spec] \in Locations
      BY ObjectFields, SpecsAssumption DEF TypeOK, LifecycleTypeOK
    <2>2. remote[LocationOf[cr.spec]] # None => remote[LocationOf[cr.spec]].id # None
      BY <2>1, NoneFacts DEF TypeOK, Entities
    <2>3. cr' = None
      BY NextIsLifecycleStep, StoredByStep, KindFacts DEF IInv, TypeOK
    <2>4. ~cr.finalizer \/ (pc = "release" /\ cr = obj)
      BY <2>3, NextIsLifecycleStep, GoneByStep, KindFacts DEF IInv, TypeOK
    <2> QED
      BY <2>2, <2>4 DEF RecordedIsGuarded
  <1> QED
    BY <1>1, InductiveInvariant, PTL DEF Spec, ReleaseAfterCleanup

-----------------------------------------------------------------------------
(* The drift detection.                                                    *)

(* The service at l was there before, perhaps in an older version, or has  *)
(* a fresh ID.                                                             *)
Evolved(l) ==
  remote'[l] # None =>
    \/ /\ remote[l] # None /\ remote'[l].id = remote[l].id
       /\ remote'[l] = remote[l] \/ remote[l].ver < remote'[l].ver
    \/ remote'[l].id = lastId + 1

(* What a status of generation gen of a spec claims about the service it   *)
(* records holds, with the secrets as they were at some time so far, or a  *)
(* version it has not seen refutes it.                                     *)
Sound(there, latest, spec, gen, status) ==
  /\ status.observed <= gen
  /\ LET e == there[LocationOf[spec]]
     IN  status.observed = gen /\ e # None /\ e.id = status.id =>
           \/ status.remoteVersion < e.ver
           \/ /\ status.remoteVersion = e.ver
              /\ \E value \in 0..latest : e.content = Content(spec, value)

VersionsIdentify ==
  /\ \A o \in {cr, cached, obj} \ {None} :
       Sound(remote, secret, o.spec, o.gen, o.status)
  /\ st # None => Sound(remote, secret, obj.spec, obj.gen, st)

(* What is PUT was resolved from the spec that was read.                   *)
WantIsResolved ==
  pc \in {"query", "upsert"} =>
    \E value \in 0..secret : want = Content(obj.spec, value)

(* What a PUT leaves has the content that was PUT, under the old version   *)
(* only if it had it before.                                               *)
LEMMA PutResult ==
  ASSUME NEW c \in Contents, NEW e \in Entities \cup {None}
  PROVE  /\ AfterPut(e, c).content = c
         /\ e # None => AfterPut(e, c) = e \/ e.ver < AfterPut(e, c).ver
  <1>1. CASE e # None
    <2> DEFINE new == [[e EXCEPT !.content = c] EXCEPT !.ver = e.ver + 1]
    <2>1. e \in Entities /\ e.ver \in Nat
      BY <1>1 DEF Entities, Ids
    <2>2. new.content = c /\ new.ver = e.ver + 1
      <3>1. ASSUME NEW x \in Entities, NEW v
            PROVE  LET n == [[x EXCEPT !.content = c] EXCEPT !.ver = v]
                   IN  n.content = c /\ n.ver = v
        BY DEF Entities
      <3> QED
        BY <2>1, <3>1
    <2>3. AfterPut(e, c) = IF e.content = c THEN e ELSE new
      BY <1>1 DEF AfterPut, Changed
    <2> HIDE DEF new
    <2>4. CASE e.content = c
      BY <2>3, <2>4
    <2>5. CASE e.content # c
      <3>1. AfterPut(e, c) = new
        BY <2>3, <2>5
      <3> QED
        BY <2>1, <2>2, <3>1
    <2> QED
      BY <2>4, <2>5
  <1>2. CASE e = None
    BY <1>2 DEF AfterPut, NewEntity
  <1> QED
    BY <1>1, <1>2

(* The value of the secret only moves on.                                  *)
LEMMA NextSecret ==
  ASSUME TypeOK, [Next]_vars
  PROVE  secret' \in Nat /\ secret <= secret'
  <1>1. secret \in Nat
    BY DEF TypeOK
  <1>2. CASE Others
    <2>1. CASE RotateSecret
      BY <1>1, <2>1 DEF RotateSecret
    <2>2. CASE \E l \in Locations :
                 ExternalEdit(l) \/ ExternalDelete(l) \/ ExternalCreate(l)
      <3>1. UNCHANGED secret
        BY <2>2, Zenon DEF ExternalEdit, ExternalDelete, ExternalCreate
      <3> QED
        BY <1>1, <3>1
    <2> QED
      BY <1>2, <2>1, <2>2 DEF Others
  <1>3. CASE UNCHANGED serviceVars
    BY <1>1, <1>3 DEF serviceVars
  <1>4. CASE Observe \/ Upsert \/ Persist \/ Delete \/ CrashAndRestart
    <2>1. UNCHANGED secret
      BY <1>4 DEF Observe, Upsert, Persist, Delete, CrashAndRestart
    <2> QED
      BY <1>1, <2>1
  <1> QED
    BY <1>2, <1>3, <1>4 DEF Next, Worker, Query, vars

(* Every step lets the services evolve.                                    *)
LEMMA NextEvolves ==
  ASSUME IInv, [Next]_vars
  PROVE  \A l \in Locations : Evolved(l)
  <1>1. /\ remote \in [Locations -> Entities \cup {None}]
        /\ lastId \in Nat /\ TypeOK
    BY DEF IInv, TypeOK
  <1>3. CASE UNCHANGED remote
    BY <1>3 DEF Evolved
  <1>4. ASSUME NEW k \in Locations, ExternalEdit(k)
        PROVE  \A l \in Locations : Evolved(l)
    <2> DEFINE new == [[remote[k] EXCEPT !.content = Foreign]
                         EXCEPT !.ver = remote[k].ver + 1]
    <2>1. remote[k] \in Entities /\ remote[k] # None
      BY <1>1, <1>4 DEF ExternalEdit
    <2>2. remote' = [remote EXCEPT ![k] = new]
      BY <1>1, <1>4 DEF ExternalEdit
    <2>3. new.id = remote[k].id /\ new.ver = remote[k].ver + 1
      <3>1. ASSUME NEW e \in Entities
            PROVE  LET n == [[e EXCEPT !.content = Foreign] EXCEPT !.ver = e.ver + 1]
                   IN  n.id = e.id /\ n.ver = e.ver + 1
        BY DEF Entities
      <3> QED
        BY <2>1, <3>1
    <2>4. remote[k].ver < new.ver
      BY <2>1, <2>3 DEF Entities, Ids
    <2> HIDE DEF new
    <2> QED
      BY <1>1, <2>1, <2>2, <2>3, <2>4 DEF Evolved
  <1>5. ASSUME NEW k \in Locations, ExternalDelete(k)
        PROVE  \A l \in Locations : Evolved(l)
    BY <1>1, <1>5 DEF ExternalDelete, Evolved
  <1>6. ASSUME NEW k \in Locations, ExternalCreate(k)
        PROVE  \A l \in Locations : Evolved(l)
    BY <1>1, <1>6 DEF ExternalCreate, NewEntity, Evolved
  <1>7. CASE Upsert
    <2>1. PICK k \in Locations, new \in Entities :
            /\ k = LocationOf[obj.spec]
            /\ new = AfterPut(remote[k], want)
            /\ remote[k] \in Entities \cup {None}
            /\ pc = "upsert"
            /\ UNCHANGED <<cr, cached, prereqs, lastUid, secret, want, external>>
            /\ lastId \in Nat /\ want \in Contents
            /\ UpsertOutcome(k, new)
      BY <1>7, UpsertCases, Zenon DEF IInv
    <2>2. \/ /\ remote[k] # None /\ new.id = remote[k].id
             /\ new = remote[k] \/ remote[k].ver < new.ver
          \/ new.id = lastId + 1
      <3>1. CASE remote[k] = None
        BY <2>1, <3>1, PutTypes DEF IdsAfterPut
      <3>2. CASE remote[k] # None
        BY <2>1, <3>2, PutTypes, PutResult
      <3> QED
        BY <3>1, <3>2
    <2>3. CASE UNCHANGED remote
      BY <1>3, <2>3
    <2>4. CASE Applied(k, new)
      <3>1. remote' = [remote EXCEPT ![k] = new]
        BY <2>4 DEF Applied
      <3>2. \A l \in Locations : remote'[l] = IF l = k THEN new ELSE remote[l]
        BY <1>1, <3>1
      <3> QED
        BY <2>2, <3>2 DEF Evolved
    <2> QED
      BY <2>1, <2>3, <2>4 DEF UpsertOutcome
  <1>8. CASE Delete
    BY <1>1, <1>8 DEF Delete, AfterDelete, Evolved
  <1> QED
    BY <1>3, <1>4, <1>5, <1>6, <1>7, <1>8
       DEF Next, Worker, Others, RotateSecret, CrashAndRestart, Observe, Query,
           Persist, serviceVars, vars

(* No copy records a fresh ID.                                             *)
LEMMA CopiesAreNotFresh ==
  ASSUME TypeOK, IdsUpToLast, NEW o \in {cr, cached, obj} \ {None}
  PROVE  o.status.id # lastId + 1
  <1>1. o.status \in Statuses /\ lastId \in Nat /\ lastId + 1 \in Ids
    BY ObjectFields DEF TypeOK, LifecycleTypeOK, Ids
  <1>2. o.status.id # None => o.status.id \in Ids /\ o.status.id <= lastId
    BY <1>1 DEF IdsUpToLast, Statuses
  <1> QED
    BY <1>1, <1>2, NoneFacts DEF Ids

(* What a status claims stays true of a service that only evolves, unless  *)
(* the status records the ID that is handed out next.                      *)
LEMMA SoundStays ==
  ASSUME TypeOK, TypeOK', \A l \in Locations : Evolved(l), secret <= secret',
         NEW spec \in Specs, NEW gen \in 1..MaxGen, NEW status \in Statuses,
         status.id # lastId + 1, Sound(remote, secret, spec, gen, status)
  PROVE  Sound(remote', secret', spec, gen, status)
  <1> DEFINE l       == LocationOf[spec]
             Had(e)  == \E value \in 0..secret : e.content = Content(spec, value)
             Has(e)  == \E value \in 0..secret' : e.content = Content(spec, value)
  <1>1. l \in Locations /\ status.remoteVersion \in Nat
    BY SpecsAssumption DEF Statuses
  <1>2. SUFFICES ASSUME status.observed = gen, remote'[l] # None,
                        remote'[l].id = status.id
                 PROVE  \/ status.remoteVersion < remote'[l].ver
                        \/ status.remoteVersion = remote'[l].ver /\ Has(remote'[l])
    BY DEF Sound
  <1>3. /\ remote[l] # None /\ remote'[l].id = remote[l].id
        /\ remote'[l] = remote[l] \/ remote[l].ver < remote'[l].ver
    BY <1>1, <1>2 DEF Evolved
  <1>4. remote[l].ver \in Nat /\ remote'[l].ver \in Nat
    BY <1>1, <1>2, <1>3 DEF TypeOK, Entities, Ids
  <1>5. \/ status.remoteVersion < remote[l].ver
        \/ status.remoteVersion = remote[l].ver /\ Had(remote[l])
    BY <1>2, <1>3 DEF Sound
  <1>6. \A e : Had(e) => Has(e)
    <2>1. 0..secret \subseteq 0..secret'
      BY DEF TypeOK
    <2> QED
      BY <2>1
  <1> HIDE DEF Had, Has
  <1> QED
    BY <1>1, <1>3, <1>4, <1>5, <1>6

(* In particular the claims of the copies, and of the working status.      *)
LEMMA CopiesStaySound ==
  ASSUME IInv, VersionsIdentify, [Next]_vars
  PROVE  /\ \A o \in {cr, cached, obj} \ {None} :
              Sound(remote', secret', o.spec, o.gen, o.status)
         /\ st # None => Sound(remote', secret', obj.spec, obj.gen, st)
  <1>1. TypeOK /\ TypeOK' /\ secret <= secret' /\ \A l \in Locations : Evolved(l)
    BY NextEvolves, NextSecret, NextTypes DEF IInv
  <1>2. ASSUME NEW o \in {cr, cached, obj} \ {None}
        PROVE  Sound(remote', secret', o.spec, o.gen, o.status)
    <2>1. o.spec \in Specs /\ o.gen \in 1..MaxGen /\ o.status \in Statuses
      BY <1>1, <1>2, ObjectFields, BoundsAssumption
         DEF TypeOK, LifecycleTypeOK, Objects
    <2>2. o.status.id # lastId + 1
      BY <1>1, CopiesAreNotFresh DEF IInv
    <2>3. Sound(remote, secret, o.spec, o.gen, o.status)
      BY DEF VersionsIdentify
    <2> QED
      BY <1>1, <2>1, <2>2, <2>3, SoundStays
  <1>3. ASSUME st # None
        PROVE  Sound(remote', secret', obj.spec, obj.gen, st)
    <2>1. obj.spec \in Specs /\ obj.gen \in 1..MaxGen /\ st \in Statuses
      BY <1>1, <1>3, InFlight DEF IInv, LifecycleInv, StepFitsObject
    <2>2. st.id # lastId + 1
      <3>1. lastId \in Nat /\ lastId + 1 \in Ids
        BY <1>1 DEF TypeOK, Ids
      <3>2. st.id # None => st.id \in Nat /\ st.id <= lastId
        BY <1>3, <2>1 DEF IInv, IdsUpToLast, Statuses, Ids
      <3> QED
        BY <3>1, <3>2, NoneFacts
    <2>3. Sound(remote, secret, obj.spec, obj.gen, st)
      BY <1>3 DEF VersionsIdentify
    <2> QED
      BY <1>1, <2>1, <2>2, <2>3, SoundStays
  <1> QED
    BY <1>2, <1>3

(* What was resolved stays the content of the spec that was read.          *)
LEMMA NextWantIsResolved ==
  ASSUME IInv, WantIsResolved, [Next]_vars
  PROVE  WantIsResolved'
  <1>1. secret \in Nat /\ secret' \in Nat /\ secret <= secret'
    BY NextSecret DEF IInv, TypeOK
  <1>2. CASE pc' \notin {"query", "upsert"}
    BY <1>2 DEF WantIsResolved
  <1>3. CASE UNCHANGED <<want, obj>> /\ pc \in {"query", "upsert"}
    <2>1. PICK value \in 0..secret : want = Content(obj.spec, value)
      BY <1>3 DEF WantIsResolved
    <2>2. value \in 0..secret'
      BY <1>1, <2>1
    <2>3. want' = Content(obj'.spec, value)
      BY <1>3, <2>1 DEF Content
    <2> QED
      BY <2>2, <2>3 DEF WantIsResolved, Content
  <1>4. CASE Observe
    <2>1. \/ want' = Content(obj.spec, secret) /\ obj' = obj
          \/ pc' = "persist"
      BY <1>4 DEF Observe, Goto, GotoPersist
    <2>2. secret \in 0..secret'
      BY <1>1
    <2> QED
      BY <1>2, <2>1, <2>2 DEF WantIsResolved, Content
  <1>5. CASE Query
    BY <1>2, <1>3, <1>5 DEF Query, Goto, GotoPersist, serviceVars
  <1>6. CASE Upsert \/ Persist \/ CrashAndRestart \/ Delete
    BY <1>2, <1>6
       DEF Upsert, Persist, SetConditionAndPersist, CrashAndRestart, Crash,
           Delete, Goto, GotoPersist, Return
  <1>7. CASE Dequeue \/ EnsurePresent \/ EnsureAbsent
    BY <1>2, <1>7
       DEF Dequeue, FirstStep, EnsurePresent, EnsureAbsent, Return
  <1> QED
    BY <1>2, <1>3, <1>4, <1>5, <1>6, <1>7, NotTheWorker DEF Next, Worker

(* A successful upsert leaves a sound working status: it records the       *)
(* version of what it left.                                                *)
LEMMA UpsertIsSound ==
  ASSUME IInv, VersionsIdentify, WantIsResolved, Upsert, [Next]_vars
  PROVE  Sound(remote', secret', obj'.spec, obj'.gen, st')
  <1>1. PICK l \in Locations, new \in Entities :
          /\ l = LocationOf[obj.spec]
          /\ new = AfterPut(remote[l], want)
          /\ remote[l] \in Entities \cup {None}
          /\ pc = "upsert"
          /\ UNCHANGED <<cr, cached, prereqs, lastUid, secret, want, external>>
          /\ lastId \in Nat /\ want \in Contents
          /\ UpsertOutcome(l, new)
    BY UpsertCases, Zenon DEF IInv
  <1>2. /\ st # None /\ st \in Statuses /\ obj \in Objects(Statuses)
        /\ UNCHANGED obj
    BY <1>1, InFlight
       DEF IInv, LifecycleInv, StepFitsObject, UpsertOutcome, GotoPersist
  <1>3. Sound(remote', secret', obj.spec, obj.gen, st)
    BY <1>2, CopiesStaySound
  <1>4. CASE st' = NotReady
    <2>1. /\ st'.id = st.id /\ st'.observed = st.observed
          /\ st'.remoteVersion = st.remoteVersion
      BY <1>2, <1>4 DEF NotReady, Statuses
    <2> QED
      BY <1>2, <1>3, <2>1 DEF Sound
  <1>5. CASE Applied(l, new) /\ st' = Registered(new)
    <2>1. remote'[l] = new
      BY <1>1, <1>5 DEF Applied, IInv, TypeOK
    <2>2. new.content = want
      BY <1>1, PutResult
    <2>3. PICK value \in 0..secret : want = Content(obj.spec, value)
      BY <1>1 DEF WantIsResolved
    <2>4. st'.observed = obj.gen /\ st'.remoteVersion = new.ver
      BY <1>5 DEF Registered
    <2>5. obj.gen \in Nat
      BY <1>2, ObjectFields, BoundsAssumption
    <2> QED
      BY <1>1, <1>2, <2>1, <2>2, <2>3, <2>4, <2>5 DEF Sound
  <1> QED
    BY <1>1, <1>4, <1>5 DEF UpsertOutcome, GotoPersist

(* VersionsIdentify is inductive.                                          *)
LEMMA NextVersionsIdentify ==
  ASSUME IInv, VersionsIdentify, WantIsResolved, [Next]_vars
  PROVE  VersionsIdentify'
  <1>1. /\ LifecycleStep(Statuses, Steps, EmptyStatus)
        /\ LifecycleTypeOK(Statuses, Steps) /\ LifecycleInv
    BY NextIsLifecycleStep DEF IInv, TypeOK
  <1>2. ASSUME cr' # None
        PROVE  Sound(remote', secret', cr'.spec, cr'.gen, cr'.status)
    <2>1. CASE cr' = cr
      BY <1>2, <2>1, CopiesStaySound
    <2>2. CASE cr'.gen = 1 /\ cr'.status = EmptyStatus
      BY <2>2 DEF Sound, EmptyStatus
    <2>3. CASE cr # None /\ cr'.gen = cr.gen + 1 /\ cr'.status = cr.status
      <3>1. cr.status.observed <= cr.gen
        BY <2>3 DEF VersionsIdentify, Sound
      <3>2. cr.gen \in Nat /\ cr.status.observed \in Nat
        BY <1>1, <2>3, ObjectFields, BoundsAssumption
           DEF LifecycleTypeOK, Statuses, Objects
      <3> QED
        BY <2>3, <3>1, <3>2 DEF Sound
    <2>4. CASE /\ cr # None /\ cr'.spec = cr.spec /\ cr'.gen = cr.gen
               /\ cr'.status = cr.status
      BY <2>4, CopiesStaySound
    <2>5. CASE /\ pc = "persist" /\ cr = obj /\ cr'.status = st
               /\ cr'.spec = cr.spec /\ cr'.gen = cr.gen
      <3>1. st # None
        BY <1>1, <2>5 DEF LifecycleInv, StepFitsObject
      <3> QED
        BY <2>5, <3>1, CopiesStaySound
    <2> QED
      BY <1>1, <1>2, <2>1, <2>2, <2>3, <2>4, <2>5, StoredByStep, KindFacts
  <1>3. /\ cached' # None =>
             Sound(remote', secret', cached'.spec, cached'.gen, cached'.status)
        /\ obj' # None =>
             Sound(remote', secret', obj'.spec, obj'.gen, obj'.status)
    BY <1>1, CopiesStaySound, CopiesByStep
  <1>4. ASSUME st' # None
        PROVE  Sound(remote', secret', obj'.spec, obj'.gen, st')
    <2>1. CASE UNCHANGED <<obj, st>>
      BY <1>4, <2>1, CopiesStaySound
    <2>2. CASE obj' = cached /\ cached # None /\ st' = cached.status
      BY <2>2, CopiesStaySound
    <2>3. CASE Upsert
      BY <2>3, UpsertIsSound
    <2>4. CASE Observe \/ Query \/ Delete
      <3>1. st # None /\ st \in Statuses /\ UNCHANGED obj
        BY <1>4, <2>4, InFlight
           DEF Observe, Query, Delete, IInv, LifecycleInv, StepFitsObject,
               Goto, GotoPersist, Return
      <3>2. st' = st \/ st' = NotReady \/ st' = [st EXCEPT !.ready = "True"]
        BY <1>4, <2>4 DEF Observe, Query, Delete, Goto, GotoPersist, Return
      <3>3. /\ st'.id = st.id /\ st'.observed = st.observed
            /\ st'.remoteVersion = st.remoteVersion
        BY <3>1, <3>2 DEF NotReady, Statuses
      <3>4. Sound(remote', secret', obj.spec, obj.gen, st)
        BY <3>1, CopiesStaySound
      <3> QED
        BY <3>1, <3>3, <3>4 DEF Sound
    <2>5. CASE Dequeue
      BY <2>1, <2>2, <2>5 DEF Dequeue
    <2> QED
      BY <1>4, <2>1, <2>3, <2>4, <2>5, NotTheWorker
         DEF Next, Worker, CrashAndRestart, Crash, EnsurePresent, EnsureAbsent,
             Persist, SetConditionAndPersist, Return
  <1> QED
    BY <1>2, <1>3, <1>4 DEF VersionsIdentify

(* Drift does not go unnoticed: a copy of the object that shows its        *)
(* generation applied and the version of the service it records stands for *)
(* a service with the content of its spec, whatever calls failed, answers  *)
(* were lost or edits were made behind the operator's back.                *)
THEOREM DriftDetected == Spec => []DriftDetectionSound
  <1>1. Init => VersionsIdentify /\ WantIsResolved
    BY DEF Init, LifecycleInit, VersionsIdentify, WantIsResolved
  <1>2. IInv /\ VersionsIdentify /\ WantIsResolved /\ [Next]_vars =>
          (VersionsIdentify /\ WantIsResolved)'
    BY NextVersionsIdentify, NextWantIsResolved
  <1>3. IInv /\ VersionsIdentify => DriftDetectionSound
    <2> SUFFICES ASSUME IInv, VersionsIdentify,
                        NEW o \in {cr, cached, obj} \ {None},
                        InSync(o, remote[LocationOf[o.spec]]),
                        o.status.id = remote[LocationOf[o.spec]].id
                 PROVE  HasContentOf(remote[LocationOf[o.spec]], o.spec)
      BY DEF DriftDetectionSound
    <2> DEFINE e == remote[LocationOf[o.spec]]
    <2>1. LocationOf[o.spec] \in Locations /\ e # None
      BY ObjectFields, SpecsAssumption DEF IInv, TypeOK, LifecycleTypeOK,
         InSync
    <2>2. e.ver \in Nat
      BY <2>1 DEF IInv, TypeOK, Entities, Ids
    <2> QED
      BY <2>1, <2>2 DEF VersionsIdentify, Sound, InSync, HasContentOf
  <1> QED
    BY <1>1, <1>2, <1>3, InductiveInvariant, PTL DEF Spec

-----------------------------------------------------------------------------
(***************************************************************************)
(* The controller implements Custody where all specs name one location,    *)
(* for any number of incarnations, edits, failures and external changes.   *)
(* Beyond IInv it takes three facts: a new ID is only written while its    *)
(* service is there or was meddled with; the ID of an object that is being *)
(* deleted never changes; and when such an object is gone, so is its       *)
(* service, however long a stale cache still shows it.                     *)
(***************************************************************************)

(* The status write in flight records either the ID the object has, or,    *)
(* for an object read as not deleted, that of a service that is there      *)
(* unless others interfered.                                               *)
WritesWhatIsThere ==
  pc = "persist" /\ st.id # obj.status.id =>
    /\ ~obj.deleting
    /\ st.id # None
    /\ \/ external > 0
       \/ \E l \in Locations : remote[l] # None /\ remote[l].id = st.id

CustodyInv ==
  /\ IInv
  /\ WritesWhatIsThere
  /\ DoomedRecordIsFrozen
  /\ GoneIsCleanedUp(CustodyEntities)

-----------------------------------------------------------------------------
(* Failing ends of a reconciliation keep the ID that the object has.       *)
LEMMA PersistKeepsId ==
  ASSUME TypeOK, LifecycleInv, WorkingStatus, pc \notin {"idle", "persist"},
         NEW result,
         \/ GotoPersist(NotReady, result)
         \/ GotoPersist([st EXCEPT !.ready = "True"], result)
  PROVE  st'.id = obj'.status.id
  <1>1. st \in Statuses /\ st = obj.status
    BY InFlight DEF WorkingStatus
  <1>2. NotReady.id = st.id /\ [st EXCEPT !.ready = "True"].id = st.id
    BY <1>1, ReadyStatus DEF NotReady
  <1> QED
    BY <1>1, <1>2 DEF GotoPersist

(* An upsert that is answered writes the ID of the service it left.        *)
LEMMA UpsertWrites ==
  ASSUME TypeOK, LifecycleInv, WorkingStatus, Upsert
  PROVE  WritesWhatIsThere'
  <1>1. PICK l \in Locations, new \in Entities :
          /\ l = LocationOf[obj.spec]
          /\ new = AfterPut(remote[l], want)
          /\ remote[l] \in Entities \cup {None}
          /\ pc = "upsert"
          /\ UNCHANGED <<cr, cached, prereqs, lastUid, secret, want, external>>
          /\ \/ /\ remote' = [remote EXCEPT ![l] = new]
                /\ lastId' = IdsAfterPut(remote[l])
                /\ GotoPersist(Registered(new), "requeue")
             \/ GotoPersist(NotReady, "error")
    BY UpsertCases, Zenon DEF UpsertOutcome, Applied
  <1>2. CASE GotoPersist(NotReady, "error")
    BY <1>1, <1>2, PersistKeepsId DEF WritesWhatIsThere
  <1>3. CASE /\ remote' = [remote EXCEPT ![l] = new]
             /\ GotoPersist(Registered(new), "requeue")
    <2>1. obj \in Objects(Statuses) /\ ~obj.deleting
      BY <1>1, InFlight DEF LifecycleInv, StepFitsObject
    <2>2. Registered(new) \in Statuses /\ Registered(new).id = new.id
      BY <2>1, RegisteredType
    <2>3. st' = Registered(new) /\ obj' = obj
      BY <1>3 DEF GotoPersist
    <2>4. remote'[l] = new /\ new # None /\ new.id # None
      BY <1>1, <1>3, NoneFacts DEF TypeOK, Entities
    <2> QED
      BY <2>1, <2>2, <2>3, <2>4 DEF WritesWhatIsThere
  <1> QED
    BY <1>1, <1>2, <1>3

(* WritesWhatIsThere is inductive.                                         *)
LEMMA NextWrites ==
  ASSUME TypeOK, LifecycleInv, WorkingStatus, WritesWhatIsThere, [Next]_vars
  PROVE  WritesWhatIsThere'
  <1>1. CASE Others
    <2>1. UNCHANGED <<pc, obj, st>> /\ external' = external + 1
      BY <1>1, Zenon DEF Others, ExternalEdit, ExternalDelete, ExternalCreate,
                  RotateSecret, External, lifecycleVars
    <2>2. external \in Nat
      BY SpecsAssumption DEF TypeOK
    <2> QED
      BY <2>1, <2>2 DEF WritesWhatIsThere
  <1>2. CASE pc' # "persist"
    BY <1>2 DEF WritesWhatIsThere
  <1>3. CASE UNCHANGED <<pc, obj, st, remote, external>>
    BY <1>3 DEF WritesWhatIsThere
  <1>4. CASE Upsert
    BY <1>4, UpsertWrites
  <1>5. CASE Observe \/ Query \/ Delete
    <2>1. \/ pc' # "persist"
          \/ \E result \in Results :
               \/ GotoPersist(NotReady, result)
               \/ GotoPersist([st EXCEPT !.ready = "True"], result)
      BY <1>5 DEF Observe, Query, Delete, Goto, Return, Results
    <2>2. pc \notin {"idle", "persist"}
      BY <1>5 DEF Observe, Query, Delete
    <2> QED
      BY <1>2, <2>1, <2>2, PersistKeepsId DEF WritesWhatIsThere
  <1>6. CASE Dequeue /\ UNCHANGED serviceVars
    BY <1>2, <1>6 DEF Dequeue, FirstStep
  <1> QED
    BY <1>1, <1>2, <1>3, <1>4, <1>5, <1>6
       DEF Next, Worker, vars, lifecycleVars, serviceVars, PrereqsRestored,
           CacheSync, TimerFires, Users, UserCreate, UserEdit, UserDelete,
           PrereqsLost, CrashAndRestart, Crash, EnsurePresent, EnsureAbsent,
           Persist, SetConditionAndPersist, Return

(* A step brings no entity back: what is there afterwards was there before *)
(* or is new.                                                              *)
LEMMA EntitiesOfStep ==
  ASSUME TypeOK, LifecycleInv, WorkingStatus, [Next]_vars,
         NEW l \in Locations, remote'[l] # None
  PROVE  \/ remote[l] # None /\ remote'[l].id = remote[l].id
         \/ remote'[l].id = lastId + 1
  <1>1. remote \in [Locations -> Entities \cup {None}] /\ lastId \in Nat
    BY DEF TypeOK
  <1>2. CASE Others
    BY <1>2, OthersEntities
  <1>3. CASE UNCHANGED remote
    BY <1>3
  <1>4. CASE Upsert
    <2>1. PICK k \in Locations, new \in Entities :
            /\ k = LocationOf[obj.spec]
            /\ new = AfterPut(remote[k], want)
            /\ remote[k] \in Entities \cup {None}
            /\ pc = "upsert"
            /\ UNCHANGED <<cr, cached, prereqs, lastUid, secret, want, external>>
            /\ lastId \in Nat /\ want \in Contents
            /\ UpsertOutcome(k, new)
      BY <1>4, UpsertCases, Zenon
    <2>2. remote' = [remote EXCEPT ![k] = new] \/ UNCHANGED remote
      BY <2>1 DEF UpsertOutcome, Applied
    <2>3. \/ remote[k] # None /\ new.id = remote[k].id
          \/ new.id = lastId + 1
      BY <2>1, PutTypes DEF IdsAfterPut
    <2> QED
      BY <1>1, <2>2, <2>3
  <1>5. CASE Delete
    <2>1. \/ remote' = [remote EXCEPT ![LocationOf[obj.spec]] = AfterDelete(@, st.id)]
          \/ UNCHANGED remote
      BY <1>5 DEF Delete
    <2> QED
      BY <1>1, <2>1 DEF AfterDelete
  <1> QED
    BY <1>2, <1>3, <1>4, <1>5
       DEF Next, Worker, serviceVars, vars, CrashAndRestart, Observe, Query,
           Persist

(* The IDs of the services that are there, before and after a step.        *)
LEMMA IdsThere ==
  ASSUME NEW id
  PROVE  /\ id \in CustodyEntities <=>
              \E l \in Locations : remote[l] # None /\ remote[l].id = id
         /\ id \in CustodyEntities' <=>
              \E l \in Locations : remote'[l] # None /\ remote'[l].id = id
  BY DEF CustodyEntities

(* Where there is one location, what is up for release records nothing     *)
(* that is there.                                                          *)
LEMMA ReleasedIsGone ==
  ASSUME NEW here, Locations = {here}, TypeOK, LifecycleInv, RecordedIsGuarded,
         pc = "release"
  PROVE  obj.status.id \notin CustodyEntities
  <1> SUFFICES ASSUME obj.status.id \in CustodyEntities
               PROVE  FALSE
    OBVIOUS
  <1>1. LocationOf[obj.spec] = here
    BY InFlight
  <1>2. remote[here] # None /\ remote[here].id = obj.status.id
    BY IdsThere
  <1> QED
    BY <1>1, <1>2 DEF RecordedIsGuarded

(* Where there is one location the invariant is inductive.                 *)
LEMMA NextCustody ==
  ASSUME NEW here, Locations = {here}, CustodyInv, [Next]_vars
  PROVE  CustodyInv'
  <1>1. IInv'
    BY NextTypes, NextWorkingStatus, NextNeverForgotten, NextIdsUpToLast,
       NextRecordedIsGuarded DEF CustodyInv, IInv
  <1>2. /\ LifecycleStep(Statuses, Steps, EmptyStatus)
        /\ LifecycleTypeOK(Statuses, Steps) /\ LifecycleInv
        /\ Kind(Statuses, Steps) /\ EmptyStatus \in Statuses
    BY NextIsLifecycleStep, KindFacts DEF CustodyInv, IInv, TypeOK
  <1>3. WritesWhatIsThere'
    BY NextWrites DEF CustodyInv, IInv
  <1>4. DoomedRecordIsFrozen'
    <2>1. DoomedKeepsRecord
      BY DEF CustodyInv, WritesWhatIsThere, DoomedKeepsRecord
    <2> QED
      BY <1>2, <2>1, DoomedRecordIsFrozenKept DEF CustodyInv
  <1>5. GoneIsCleanedUp(CustodyEntities)'
    <2>1. ASSUME NEW o \in {cached, obj} \ {None},
                 o.status.id \in CustodyEntities'
          PROVE  o.status.id \in CustodyEntities
      <3>1. PICK l \in Locations : remote'[l] # None /\ remote'[l].id = o.status.id
        BY <2>1, IdsThere
      <3>2. o.status.id # lastId + 1
        BY CopiesAreNotFresh DEF CustodyInv, IInv
      <3>3. remote[l] # None /\ remote[l].id = o.status.id
        BY <3>1, <3>2, EntitiesOfStep DEF CustodyInv, IInv
      <3> QED
        BY <3>3, IdsThere
    <2>2. pc = "release" => obj.status.id \notin CustodyEntities
      BY ReleasedIsGone DEF CustodyInv, IInv
    <2>3. DoomedRecordIsFrozen /\ GoneIsCleanedUp(CustodyEntities)
      BY DEF CustodyInv
    <2> QED
      BY <1>2, <2>1, <2>2, <2>3, GoneIsCleanedUpKept DEF GoneIsCleanedUp
  <1> QED
    BY <1>1, <1>3, <1>4, <1>5 DEF CustodyInv

(* The strengthened invariant holds in every initial state.                *)
LEMMA InitCustody == Init => CustodyInv
  BY InitInv DEF CustodyInv, WritesWhatIsThere, DoomedRecordIsFrozen,
                 GoneIsCleanedUp, Init, LifecycleInit

-----------------------------------------------------------------------------
(* The simulation, step by step.                                           *)

CustodyView == <<CustodyObject, CustodyRecord, CustodyEntities, external>>

(* With one location there is one entity at most.                          *)
LEMMA EntitiesAtOne ==
  ASSUME NEW here, Locations = {here}
  PROVE  /\ CustodyEntities =
              IF remote[here] = None THEN {} ELSE {remote[here].id}
         /\ CustodyEntities' =
              IF remote'[here] = None THEN {} ELSE {remote'[here].id}
  BY DEF CustodyEntities

(* The view depends on the stored object and on the entities' IDs.         *)
LEMMA ViewOfObject ==
  ASSUME UNCHANGED cr
  PROVE  UNCHANGED <<CustodyObject, CustodyRecord>>
  BY DEF CustodyObject, CustodyRecord, ObjectPhase

LEMMA ViewOfRemote ==
  ASSUME UNCHANGED remote
  PROVE  UNCHANGED CustodyEntities
  BY DEF CustodyEntities

(* A shared step is one of Custody's that leaves the services alone.       *)
LEMMA SharedStepSimulated ==
  ASSUME NEW here, Locations = {here}, CustodyInv, SharedStep(EmptyStatus),
         UNCHANGED <<remote, external>>
  PROVE  [Guarded!Next]_CustodyView
  <1>1. UNCHANGED <<CustodyEntities, external>>
    BY DEF CustodyEntities
  <1>2. /\ CustodyObject = ObjectPhase(cr) /\ CustodyObject' = ObjectPhase(cr)'
        /\ CustodyRecord = RecordedId(cr) /\ CustodyRecord' = RecordedId(cr)'
    BY DEF CustodyObject, CustodyRecord, RecordedId
  <1>3. CASE UNCHANGED <<ObjectPhase(cr), RecordedId(cr)>>
    BY <1>1, <1>2, <1>3 DEF CustodyView
  <1>4. CASE /\ \/ ObjectPhase(cr) = "none" /\ ObjectPhase(cr)' = "bare"
                \/ /\ ObjectPhase(cr) = "bare"
                   /\ ObjectPhase(cr)' \in {"none", "kept"}
                \/ ObjectPhase(cr) = "kept" /\ ObjectPhase(cr)' = "doomed"
             /\ UNCHANGED RecordedId(cr)
    <2>1. Guarded!Want \/ Guarded!Withdraw \/ Guarded!Keep
      BY <1>1, <1>2, <1>4 DEF Guarded!Want, Guarded!Withdraw, Guarded!Keep
    <2> QED
      BY <2>1 DEF Guarded!Next
  <1>5. CASE /\ pc = "persist" /\ cr = obj /\ st.id # obj.status.id
             /\ ObjectPhase(cr) = "kept" /\ ObjectPhase(cr)' = "kept"
             /\ RecordedId(cr)' = st.id
    <2>1. st.id # None /\ (external > 0 \/ st.id \in CustodyEntities)
      BY <1>5, IdsThere DEF CustodyInv, WritesWhatIsThere
    <2>2. Guarded!Record
      BY <1>1, <1>2, <1>5, <2>1 DEF Guarded!Record
    <2> QED
      BY <2>2 DEF Guarded!Next
  <1>6. CASE /\ pc = "release" /\ cr = obj
             /\ ObjectPhase(cr) = "doomed" /\ ObjectPhase(cr)' = "none"
             /\ RecordedId(cr)' = None
    <2>1. CustodyRecord \notin CustodyEntities
      <3>1. obj # None
        BY <1>6 DEF CustodyInv, IInv, LifecycleInv, StepFitsObject
      <3> QED
        BY <1>6, <3>1, ReleasedIsGone DEF CustodyInv, IInv, CustodyRecord
    <2>2. Guarded!Release
      BY <1>1, <1>2, <1>6, <2>1 DEF Guarded!Release
    <2> QED
      BY <2>2 DEF Guarded!Next
  <1>7. DoomedKeepsRecord
    BY DEF CustodyInv, WritesWhatIsThere, DoomedKeepsRecord
  <1>8. BareRecordsNothing
    BY DEF CustodyInv, IInv, RecordedIsGuarded, BareRecordsNothing
  <1> QED
    BY <1>3, <1>4, <1>5, <1>6, <1>7, <1>8, PhaseByStep, KindFacts
       DEF CustodyInv, IInv, TypeOK

(* Others meddle.                                                          *)
LEMMA OthersSimulated ==
  ASSUME NEW here, Locations = {here}, CustodyInv, Others
  PROVE  Guarded!Meddle
  <1>1. /\ UNCHANGED <<CustodyObject, CustodyRecord>>
        /\ external' = external + 1
    <2>1. UNCHANGED cr /\ external' = external + 1
      BY Zenon DEF Others, ExternalEdit, ExternalDelete, ExternalCreate,
                   RotateSecret, External, lifecycleVars
    <2> QED
      BY <2>1, ViewOfObject
  <1>2. remote \in [Locations -> Entities \cup {None}] /\ lastId \in Nat
    BY DEF CustodyInv, IInv, TypeOK
  <1>3. CASE ExternalEdit(here)
    <2>1. /\ remote[here] # None /\ remote[here] \in Entities
          /\ remote' = [remote EXCEPT ![here].content = Foreign, ![here].ver = @ + 1]
      BY <1>2, <1>3 DEF ExternalEdit
    <2>2. remote'[here] \in Entities /\ remote'[here].id = remote[here].id
      <3> DEFINE e == remote[here]
      <3>1. remote'[here] = [[e EXCEPT !.content = Foreign]
                               EXCEPT !.ver = e.ver + 1]
        BY <1>2, <2>1
      <3>2. e.ver + 1 \in Ids /\ Foreign \in Contents
        BY <2>1 DEF Entities, Ids, Contents
      <3>3. e \in Entities
        BY <2>1
      <3> HIDE DEF e
      <3> QED
        BY <3>1, <3>2, <3>3 DEF Entities, e
    <2>3. UNCHANGED CustodyEntities
      BY <2>1, <2>2, EntitiesAtOne, NoneFacts
    <2> QED
      BY <1>1, <2>3 DEF Guarded!Meddle
  <1>4. CASE ExternalDelete(here)
    <2>1. remote[here] # None /\ remote'[here] = None
      BY <1>2, <1>4 DEF ExternalDelete
    <2>2. /\ remote[here].id \in CustodyEntities
          /\ CustodyEntities' = CustodyEntities \ {remote[here].id}
      BY <2>1, EntitiesAtOne
    <2> QED
      BY <1>1, <2>2 DEF Guarded!Meddle
  <1>5. CASE ExternalCreate(here)
    <2>1. remote[here] = None /\ remote'[here] = NewEntity(Foreign, "others")
      BY <1>2, <1>5 DEF ExternalCreate
    <2>2. NewEntity(Foreign, "others") \in Entities
      BY <1>2, EntityTypes DEF Contents
    <2>3. /\ remote'[here].id \in CustodyEntities'
          /\ CustodyEntities' = CustodyEntities \cup {remote'[here].id}
      BY <2>1, <2>2, NoneFacts, EntitiesAtOne
    <2> QED
      BY <1>1, <2>3 DEF Guarded!Meddle
  <1>6. CASE RotateSecret
    BY <1>1, <1>6, ViewOfRemote DEF RotateSecret, Guarded!Meddle
  <1> QED
    BY <1>3, <1>4, <1>5, <1>6 DEF Others

(* A PUT makes a service, if there was none, for an object that is kept or *)
(* at least not gone.                                                      *)
LEMMA UpsertSimulated ==
  ASSUME NEW here, Locations = {here}, CustodyInv, Upsert
  PROVE  Guarded!Make \/ UNCHANGED CustodyView
  <1>1. PICK l \in Locations, new \in Entities :
          /\ l = LocationOf[obj.spec]
          /\ new = AfterPut(remote[l], want)
          /\ remote[l] \in Entities \cup {None}
          /\ pc = "upsert"
          /\ UNCHANGED <<cr, cached, prereqs, lastUid, secret, want, external>>
          /\ lastId \in Nat /\ want \in Contents
          /\ UpsertOutcome(l, new)
    BY UpsertCases, Zenon DEF CustodyInv, IInv
  <1>2. UNCHANGED <<CustodyObject, CustodyRecord, external>>
    BY <1>1, ViewOfObject
  <1>3. CASE UNCHANGED remote
    BY <1>2, <1>3, ViewOfRemote DEF CustodyView
  <1>4. CASE remote' = [remote EXCEPT ![l] = new]
    <2>1. l = here /\ remote'[here] = new /\ new # None
      BY <1>1, <1>4, NoneFacts DEF CustodyInv, IInv, TypeOK
    <2>2. CASE remote[here] = None
      <3>1. CustodyEntities = {} /\ CustodyEntities' = {new.id}
        BY <2>1, <2>2, EntitiesAtOne
      <3>2. CustodyObject \in {"kept", "doomed"}
        BY <1>1 DEF CustodyInv, IInv, LifecycleInv, StepFitsObject, Follows,
                    CustodyObject, ObjectPhase
      <3> QED
        BY <1>2, <3>1, <3>2 DEF Guarded!Make
    <2>3. CASE remote[here] # None
      <3>1. new.id = remote[here].id
        BY <1>1, <2>1, <2>3, PutTypes
      <3>2. UNCHANGED CustodyEntities
        BY <2>1, <2>3, <3>1, EntitiesAtOne
      <3> QED
        BY <1>2, <3>2 DEF CustodyView
    <2> QED
      BY <2>2, <2>3
  <1> QED
    BY <1>1, <1>3, <1>4 DEF UpsertOutcome, Applied

(* What HandleDeletion works on is what is stored, as far as Custody sees. *)
LEMMA DoomedObject ==
  ASSUME CustodyInv, pc \in {"delete", "release"}, cr # None, cr.uid = obj.uid
  PROVE  /\ CustodyObject = "doomed"
         /\ CustodyRecord = obj.status.id
         /\ st.id = obj.status.id
  <1>1. obj # None /\ obj.deleting /\ obj.finalizer /\ Follows(obj)
    BY DEF CustodyInv, IInv, LifecycleInv, StepFitsObject
  <1>2. cr.deleting /\ cr.finalizer
    BY <1>1 DEF Follows
  <1>3. cr.status.id = obj.status.id
    BY <1>1 DEF CustodyInv, DoomedRecordIsFrozen
  <1> QED
    BY <1>2, <1>3
       DEF CustodyObject, CustodyRecord, ObjectPhase, CustodyInv, IInv,
           WorkingStatus

(* A DELETE removes the recorded entity of a doomed object, or nothing.    *)
LEMMA DeleteSimulated ==
  ASSUME NEW here, Locations = {here}, CustodyInv, Delete
  PROVE  Guarded!Remove \/ UNCHANGED CustodyView
  <1>1. UNCHANGED <<CustodyObject, CustodyRecord, external>> /\ pc = "delete"
    BY ViewOfObject DEF Delete
  <1>2. CASE UNCHANGED remote
    BY <1>1, <1>2, ViewOfRemote DEF CustodyView
  <1>3. CASE remote' = [remote EXCEPT ![LocationOf[obj.spec]] =
                                        AfterDelete(@, st.id)]
    <2>1. LocationOf[obj.spec] = here /\ st.id = obj.status.id
      BY <1>1, InFlight DEF CustodyInv, IInv, WorkingStatus
    <2>2. remote'[here] = AfterDelete(remote[here], st.id)
      BY <1>3, <2>1 DEF CustodyInv, IInv, TypeOK
    <2>3. CASE remote[here] = None \/ remote[here].id # st.id
      <3>1. UNCHANGED CustodyEntities
        BY <2>2, <2>3, EntitiesAtOne DEF AfterDelete
      <3> QED
        BY <1>1, <3>1 DEF CustodyView
    <2>4. CASE remote[here] # None /\ remote[here].id = st.id
      <3>1. obj # None /\ obj.deleting
        BY <1>1 DEF CustodyInv, IInv, LifecycleInv, StepFitsObject
      <3>2. cr # None /\ cr.uid = obj.uid
        BY <2>1, <2>4, <3>1, EntitiesAtOne DEF CustodyInv, GoneIsCleanedUp
      <3>3. CustodyObject = "doomed" /\ CustodyRecord = st.id
        BY <1>1, <2>1, <3>2, DoomedObject
      <3>4. CustodyEntities = {st.id} /\ CustodyEntities' = {}
        BY <2>2, <2>4, EntitiesAtOne DEF AfterDelete
      <3> QED
        BY <1>1, <3>3, <3>4 DEF Guarded!Remove
    <2> QED
      BY <2>3, <2>4
  <1> QED
    BY <1>2, <1>3 DEF Delete

(* Every step is one of Custody's, or shows nothing to it.                 *)
LEMMA StepSimulated ==
  ASSUME NEW here, Locations = {here}, CustodyInv, [Next]_vars
  PROVE  [Guarded!Next]_CustodyView
  <1>1. CASE SharedStep(EmptyStatus) /\ UNCHANGED <<remote, external>>
    BY <1>1, SharedStepSimulated
  <1>2. CASE Observe \/ Query \/ UNCHANGED vars
    <2>1. UNCHANGED <<cr, remote, external>>
      BY <1>2 DEF Observe, Query, vars, lifecycleVars, serviceVars
    <2> QED
      BY <2>1, ViewOfObject, ViewOfRemote DEF CustodyView
  <1>3. CASE Upsert
    BY <1>3, UpsertSimulated DEF Guarded!Next
  <1>4. CASE Delete
    BY <1>4, DeleteSimulated DEF Guarded!Next
  <1>5. CASE Others
    BY <1>5, OthersSimulated DEF Guarded!Next
  <1> QED
    BY <1>1, <1>2, <1>3, <1>4, <1>5
       DEF Next, Worker, Users, Persist, CrashAndRestart, SharedStep,
          serviceVars

-----------------------------------------------------------------------------
(* The theorem.                                                            *)

(* The Service controller implements Custody wherever the specs name one   *)
(* location: whatever users, others and failures do, a service is made for *)
(* an object that has the finalizer only, none is removed but the recorded *)
(* one of an object that is to be deleted, what is recorded was there, and *)
(* the object does not go before what it records.                          *)
THEOREM ServiceIsCustody ==
  ASSUME NEW here, Locations = {here}
  PROVE  Spec => ImplementsCustody
  <1>1. Init => Guarded!Init
    BY EntitiesAtOne DEF Init, LifecycleInit, Guarded!Init, CustodyObject,
                         CustodyRecord, ObjectPhase
  <1>2. CustodyInv /\ [Next]_vars => [Guarded!Next]_(Guarded!custodyVars)
    BY StepSimulated DEF CustodyView, Guarded!custodyVars
  <1>3. Init => CustodyInv
    BY InitCustody
  <1>4. CustodyInv /\ [Next]_vars => CustodyInv'
    BY NextCustody
  <1> QED
    BY <1>1, <1>2, <1>3, <1>4, PTL DEF Spec, ImplementsCustody, Guarded!Spec

Consequences == INSTANCE CustodyProofs WITH
  object   <- CustodyObject,
  record   <- CustodyRecord,
  entities <- CustodyEntities,
  meddling <- external

(* The service that a live resource records is in OpenMetadata as long as  *)
(* others keep their hands off: no failure, crash, edit or stale cache     *)
(* makes the operator itself take it away or record one that is not there. *)
THEOREM RecordedServiceIsThere ==
  ASSUME NEW here, Locations = {here}
  PROVE  Spec => [](/\ external = 0
                    /\ cr # None /\ ~cr.deleting /\ cr.status.id # None
                    => \E l \in Locations : /\ remote[l] # None
                                            /\ remote[l].id = cr.status.id)
  <1> DEFINE There == /\ external = 0
                      /\ cr # None /\ ~cr.deleting /\ cr.status.id # None
                      => \E l \in Locations : /\ remote[l] # None
                                              /\ remote[l].id = cr.status.id
  <1>1. Spec => Consequences!Spec
    <2>1. Guarded!Init => Consequences!Init
      BY DEF Guarded!Init, Consequences!Init
    <2>2. [Guarded!Next]_(Guarded!custodyVars)
            => [Consequences!Next]_(Consequences!custodyVars)
      BY Zenon DEF Guarded!Next, Guarded!Want, Guarded!Withdraw,
         Guarded!Meddle,
             Guarded!Keep, Guarded!Make, Guarded!Record, Guarded!Remove,
             Guarded!Release, Guarded!custodyVars, Consequences!Next,
             Consequences!Want, Consequences!Withdraw, Consequences!Meddle,
             Consequences!Keep, Consequences!Make, Consequences!Record,
             Consequences!Remove, Consequences!Release,
             Consequences!custodyVars
    <2> QED
      BY <2>1, <2>2, ServiceIsCustody, PTL
         DEF ImplementsCustody, Guarded!Spec, Consequences!Spec
  <1>2. Consequences!Spec => []Consequences!RecordIsThere
    BY Consequences!RecordIsAlwaysThere, PTL
  <1>3. Consequences!RecordIsThere => There
    BY EntitiesAtOne DEF Consequences!RecordIsThere, CustodyObject,
                         CustodyRecord, ObjectPhase
  <1> QED
    BY <1>1, <1>2, <1>3, PTL

-----------------------------------------------------------------------------
(***************************************************************************)
(* Every service the operator creates is accounted for, where all specs    *)
(* name one location.  The invariant says a little more than the property: *)
(* a status write in flight accounts for a service only if it brings a new *)
(* ID, and then only for the one the operator has there; otherwise a write *)
(* that is refused would take the account away.                            *)
(***************************************************************************)

(* The controller records the ID, is about to, or failed to.               *)
Knows(id) ==
  \/ id \in lost
  \/ cr # None /\ cr.status.id = id
  \/ id \in Unrecorded

AccountOf(id) ==
  id \in CustodyEntities => Knows(id) /\ Unrecorded \subseteq {id}

Account ==
  \A l \in Locations :
    remote[l] # None /\ remote[l].by = "operator" => AccountOf(remote[l].id)

(* Steps of others leave the operator's services or take them away.        *)
LEMMA OthersServices ==
  ASSUME TypeOK, Others, NEW l \in Locations,
         remote'[l] # None, remote'[l].by = "operator"
  PROVE  /\ remote[l] # None /\ remote[l].by = "operator"
         /\ remote'[l].id = remote[l].id
  <1>1. remote \in [Locations -> Entities \cup {None}] /\ lastId \in Nat
    BY DEF TypeOK
  <1>2. ASSUME NEW k \in Locations, ExternalEdit(k)
        PROVE  /\ remote[l] # None /\ remote[l].by = "operator"
               /\ remote'[l].id = remote[l].id
    <2> DEFINE e == remote[k]
    <2>1. /\ e \in Entities /\ e # None
          /\ remote' = [remote EXCEPT ![k] = [[e EXCEPT !.content = Foreign]
                                                EXCEPT !.ver = e.ver + 1]]
      BY <1>1, <1>2 DEF ExternalEdit
    <2>2. /\ [[e EXCEPT !.content = Foreign] EXCEPT !.ver = e.ver + 1].by = e.by
          /\ [[e EXCEPT !.content = Foreign] EXCEPT !.ver = e.ver + 1].id = e.id
      <3>1. e \in Entities
        BY <2>1
      <3> HIDE DEF e
      <3> QED
        BY <3>1 DEF Entities
    <2> QED
      BY <1>1, <2>1, <2>2
  <1>3. ASSUME NEW k \in Locations, ExternalDelete(k)
        PROVE  /\ remote[l] # None /\ remote[l].by = "operator"
               /\ remote'[l].id = remote[l].id
    BY <1>1, <1>3 DEF ExternalDelete
  <1>4. ASSUME NEW k \in Locations, ExternalCreate(k)
        PROVE  /\ remote[l] # None /\ remote[l].by = "operator"
               /\ remote'[l].id = remote[l].id
    BY <1>1, <1>4 DEF ExternalCreate, NewEntity
  <1>5. CASE RotateSecret
    BY <1>5 DEF RotateSecret
  <1> QED
    BY <1>2, <1>3, <1>4, <1>5 DEF Others

(* A PUT keeps whose service it is.                                        *)
LEMMA PutKeepsOwner ==
  ASSUME lastId \in Nat, NEW c \in Contents, NEW e \in Entities
  PROVE  AfterPut(e, c).by = e.by
  <1>1. [e EXCEPT !.content = c, !.ver = @ + 1].by = e.by
    BY DEF Entities
  <1> QED
    BY <1>1, NoneFacts DEF AfterPut, Changed

(* Whose service one is never changes.                                     *)
LEMMA OwnerStays ==
  ASSUME IInv, [Next]_vars, NEW l \in Locations,
         remote'[l] # None, remote'[l].by = "operator",
         remote[l] # None, remote'[l].id = remote[l].id
  PROVE  remote[l].by = "operator"
  <1>1. /\ remote \in [Locations -> Entities \cup {None}]
        /\ TypeOK /\ LifecycleInv /\ WorkingStatus
    BY DEF IInv, TypeOK
  <1>2. CASE Others
    BY <1>1, <1>2, OthersServices
  <1>3. CASE UNCHANGED remote
    BY <1>3
  <1>4. CASE Upsert
    <2>1. PICK k \in Locations, new \in Entities :
            /\ k = LocationOf[obj.spec]
            /\ new = AfterPut(remote[k], want)
            /\ remote[k] \in Entities \cup {None}
            /\ pc = "upsert"
            /\ UNCHANGED <<cr, cached, prereqs, lastUid, secret, want, external>>
            /\ lastId \in Nat /\ want \in Contents
            /\ UpsertOutcome(k, new)
      BY <1>1, <1>4, UpsertCases, Zenon
    <2>2. remote' = [remote EXCEPT ![k] = new] \/ UNCHANGED remote
      BY <2>1 DEF UpsertOutcome, Applied
    <2>3. remote[k] # None => new.by = remote[k].by
      BY <2>1, PutKeepsOwner
    <2> QED
      BY <1>1, <2>2, <2>3
  <1>5. CASE Delete
    <2>1. \/ remote' = [remote EXCEPT ![LocationOf[obj.spec]] = AfterDelete(@, st.id)]
          \/ UNCHANGED remote
      BY <1>5 DEF Delete
    <2> QED
      BY <1>1, <2>1 DEF AfterDelete
  <1> QED
    BY <1>2, <1>3, <1>4, <1>5
       DEF Next, Worker, serviceVars, vars, CrashAndRestart, Observe, Query,
           Persist

(* Nothing is on its way to be recorded but in a status write.             *)
LEMMA NothingUnrecorded ==
  /\ pc # "persist" => Unrecorded = {}
  /\ pc' # "persist" => Unrecorded' = {}
  /\ st.id = obj.status.id => Unrecorded = {}
  /\ st'.id = obj'.status.id => Unrecorded' = {}
  /\ UNCHANGED <<pc, obj, st>> => UNCHANGED Unrecorded
  BY DEF Unrecorded

(* The account holds on if no service comes back, and what is recorded, on *)
(* its way to be, or lost stays as it is.                                  *)
LEMMA AccountKept ==
  ASSUME NEW id \in Ids, AccountOf(id),
         UNCHANGED lost, UNCHANGED Unrecorded,
         \/ cr = None
         \/ cr # None /\ cr.status.id = None
         \/ cr' # None /\ cr'.status = cr.status,
         id \in CustodyEntities' => id \in CustodyEntities
  PROVE  AccountOf(id)'
  BY NoneFacts DEF AccountOf, Knows

(* Users: the account survives that an object without finalizer goes, for  *)
(* nothing is recorded in it.                                              *)
LEMMA UsersAccount ==
  ASSUME CustodyInv, NEW id \in Ids, AccountOf(id), Users, UNCHANGED serviceVars
  PROVE  AccountOf(id)'
  <1>1. TypeOK /\ RecordedIsGuarded /\ (cr # None => cr \in Objects(Statuses))
    BY DEF CustodyInv, IInv, TypeOK, LifecycleTypeOK
  <1>2. UNCHANGED Unrecorded
    BY NotTheWorker, NothingUnrecorded
  <1>3. \/ cr = None
        \/ cr # None /\ cr.status.id = None
        \/ cr' # None /\ cr'.status = cr.status
    <2>1. ASSUME NEW s \in Specs, UserCreate(s, EmptyStatus)
          PROVE  cr = None
      BY <2>1 DEF UserCreate
    <2>2. ASSUME NEW s \in Specs, UserEdit(s)
          PROVE  cr' # None /\ cr'.status = cr.status
      <3>1. cr \in Objects(Statuses) /\ cr.gen + 1 \in 1..MaxGen
        BY <1>1, <2>2, ObjectFields, BoundsAssumption DEF UserEdit
      <3>2. cr' \in Objects(Statuses) /\ cr'.status = cr.status
        BY <2>2, <3>1 DEF UserEdit, Objects
      <3> QED
        BY <3>2, NoneFacts
    <2>3. CASE UserDelete
      <3>1. cr \in Objects(Statuses)
        BY <1>1, <2>3 DEF UserDelete
      <3>2. CASE cr.finalizer
        <4>1. cr' \in Objects(Statuses) /\ cr'.status = cr.status
          BY <2>3, <3>1, <3>2 DEF UserDelete, Objects
        <4> QED
          BY <4>1, NoneFacts
      <3>3. CASE ~cr.finalizer
        BY <1>1, <2>3, <3>3 DEF UserDelete, RecordedIsGuarded
      <3> QED
        BY <3>2, <3>3
    <2>4. CASE PrereqsLost
      BY <2>4 DEF PrereqsLost
    <2> QED
      BY <2>1, <2>2, <2>3, <2>4 DEF Users
  <1>4. UNCHANGED <<CustodyEntities, lost>>
    BY DEF serviceVars, CustodyEntities
  <1> QED
    BY <1>1, <1>2, <1>3, <1>4, AccountKept

(* A finalizer is added to an object that has the same status before.      *)
LEMMA EnsurePresentAccount ==
  ASSUME CustodyInv, NEW id \in Ids, AccountOf(id), EnsurePresent, UNCHANGED serviceVars
  PROVE  AccountOf(id)'
  <1>1. TypeOK /\ LifecycleInv /\ pc = "addFinalizer" /\ pc' = "idle"
    BY DEF CustodyInv, IInv, EnsurePresent, Return
  <1>2. UNCHANGED Unrecorded
    BY <1>1, NothingUnrecorded
  <1>3. cr = None \/ (cr' # None /\ cr'.status = cr.status)
    <2>1. CASE UNCHANGED cr
      BY <2>1
    <2>2. CASE Accepted([cr EXCEPT !.finalizer = TRUE])
      <3>1. cr \in Objects(Statuses)
        BY <1>1, <2>2 DEF Accepted, LifecycleInv, StepFitsObject, TypeOK,
                          LifecycleTypeOK
      <3>2. cr' \in Objects(Statuses) /\ cr'.status = cr.status
        BY <2>2, <3>1 DEF Accepted, Objects
      <3> QED
        BY <3>2, NoneFacts
    <2> QED
      BY <2>1, <2>2 DEF EnsurePresent, Refused
  <1>4. UNCHANGED <<CustodyEntities, lost>>
    BY DEF serviceVars, CustodyEntities
  <1> QED
    BY <1>1, <1>2, <1>3, <1>4, AccountKept

(* An upsert that OpenMetadata applied has its service on the way to be    *)
(* recorded, or among the lost ones; a service that was there before keeps *)
(* its account.                                                            *)
LEMMA UpsertAccount ==
  ASSUME NEW here, Locations = {here}, CustodyInv, NEW id \in Ids,
         AccountOf(id), Upsert
  PROVE  AccountOf(id)'
  <1>1. PICK l \in Locations, new \in Entities :
          /\ l = LocationOf[obj.spec]
          /\ new = AfterPut(remote[l], want)
          /\ remote[l] \in Entities \cup {None}
          /\ pc = "upsert"
          /\ UNCHANGED <<cr, cached, prereqs, lastUid, secret, want, external>>
          /\ lastId \in Nat /\ want \in Contents
          /\ UpsertOutcome(l, new)
    BY UpsertCases, Zenon DEF CustodyInv, IInv
  <1>2. /\ l = here /\ remote \in [Locations -> Entities \cup {None}]
        /\ Unrecorded = {}
        /\ pc' = "persist"
    BY <1>1, NothingUnrecorded
       DEF CustodyInv, IInv, TypeOK, UpsertOutcome, GotoPersist
  <1>3. new \in Entities /\ new # None /\ new.id \in Ids /\ new.id # None
    BY <1>1, NoneFacts DEF Entities
  <1>4. /\ remote[here] # None => new.id = remote[here].id
        /\ remote[here] = None => new.id = lastId + 1
    BY <1>1, <1>2, PutTypes DEF IdsAfterPut
  <1>5. /\ CustodyEntities = IF remote[here] = None THEN {} ELSE {remote[here].id}
        /\ remote' = [remote EXCEPT ![l] = new] => CustodyEntities' = {new.id}
        /\ UNCHANGED remote => UNCHANGED CustodyEntities
    BY <1>2, <1>3, EntitiesAtOne DEF CustodyEntities
  <1>6. CASE GotoPersist(NotReady, "error")
    <2>1. Unrecorded' = {}
      BY <1>1, <1>6, PersistKeepsId, NothingUnrecorded DEF CustodyInv, IInv
    <2>2. CASE UNCHANGED <<remote, lost>>
      BY <1>1, <1>2, <1>5, <2>1, <2>2 DEF AccountOf, Knows
    <2>3. CASE /\ remote' = [remote EXCEPT ![l] = new]
               /\ lost' = IF remote[l] = None THEN lost \cup {new.id} ELSE lost
      BY <1>1, <1>2, <1>4, <1>5, <2>1, <2>3 DEF AccountOf, Knows
    <2>4. \/ UNCHANGED <<remote, lost>>
          \/ /\ remote' = [remote EXCEPT ![l] = new]
             /\ lost' = IF remote[l] = None THEN lost \cup {new.id} ELSE lost
      <3>1. ~GotoPersist(Registered(new), "requeue")
        BY <1>6 DEF GotoPersist
      <3> QED
        BY <1>1, <3>1 DEF UpsertOutcome, Applied
    <2> QED
      BY <2>2, <2>3, <2>4
  <1>7. CASE /\ Applied(l, new)
             /\ GotoPersist(Registered(new), "requeue")
             /\ UNCHANGED lost
    <2>1. obj \in Objects(Statuses)
      BY <1>1, InFlight DEF CustodyInv, IInv
    <2>2. st'.id = new.id /\ obj' = obj
      BY <1>7, <2>1, RegisteredType DEF GotoPersist
    <2>3. CustodyEntities' = {new.id} /\ lost' = lost
      BY <1>5, <1>7 DEF Applied
    <2>4. Unrecorded' = IF new.id = obj.status.id THEN {} ELSE {new.id}
      BY <1>2, <1>3, <2>2 DEF Unrecorded
    <2>5. CASE new.id # obj.status.id
      BY <2>3, <2>4, <2>5 DEF AccountOf, Knows
    <2>6. CASE new.id = obj.status.id
      <3>1. remote[here] # None
        <4>1. ASSUME new.id = lastId + 1
              PROVE  FALSE
          <5>1. obj.status.id <= lastId
            BY <1>1, <1>3, <2>1, <2>6, NoneFacts DEF CustodyInv, IInv,
               IdsUpToLast
          <5> QED
            BY <1>1, <2>6, <4>1, <5>1
        <4> QED
          BY <1>4, <4>1
      <3> QED
        BY <1>1, <1>2, <1>4, <1>5, <2>3, <2>4, <2>6, <3>1 DEF AccountOf, Knows
    <2> QED
      BY <2>5, <2>6
  <1> QED
    BY <1>1, <1>6, <1>7 DEF UpsertOutcome

(* An accepted status write records the service it accounted for, a        *)
(* refused one leaves it among the lost ones.                              *)
LEMMA PersistAccount ==
  ASSUME CustodyInv, NEW id \in Ids, AccountOf(id), Persist
  PROVE  AccountOf(id)'
  <1>1. /\ pc = "persist" /\ pc' = "idle" /\ UNCHANGED CustodyEntities
        /\ lost' = (lost \cup Unrecorded)
                   \ (IF cr' = None THEN {} ELSE {cr'.status.id})
    BY DEF Persist, SetConditionAndPersist, Return, CustodyEntities
  <1>2. Unrecorded' = {}
    BY <1>1, NothingUnrecorded
  <1>3. CASE UNCHANGED cr
    BY <1>1, <1>2, <1>3 DEF AccountOf, Knows
  <1>4. CASE Accepted([cr EXCEPT !.status = st])
    <2>1. obj \in Objects(Statuses) /\ st \in Statuses /\ cr = obj
      BY <1>1, <1>4, InFlight DEF CustodyInv, IInv, Accepted
    <2>2. cr' \in Objects(Statuses) /\ cr'.status = st
      BY <1>4, <2>1 DEF Accepted, Objects
    <2>3. cr' # None /\ cr # None
      BY <2>1, <2>2, NoneFacts
    <2>4. st.id = obj.status.id \/ Unrecorded = {st.id}
      BY <1>1 DEF CustodyInv, WritesWhatIsThere, Unrecorded
    <2>5. CASE st.id = obj.status.id
      <3>1. Unrecorded = {}
        BY <2>5, NothingUnrecorded
      <3> QED
        BY <1>1, <1>2, <2>1, <2>2, <2>3, <2>5, <3>1
           DEF AccountOf, Knows
    <2>6. CASE Unrecorded = {st.id}
      BY <1>1, <1>2, <2>2, <2>3, <2>6 DEF AccountOf, Knows
    <2> QED
      BY <2>4, <2>5, <2>6
  <1> QED
    BY <1>3, <1>4 DEF Persist, SetConditionAndPersist, Refused

(* A DELETE takes a service or leaves everything.                          *)
LEMMA DeleteAccount ==
  ASSUME CustodyInv, NEW id \in Ids, AccountOf(id), Delete
  PROVE  AccountOf(id)'
  <1> DEFINE here == LocationOf[obj.spec]
  <1>1. /\ pc = "delete" /\ UNCHANGED <<cr, lost>>
        /\ \/ remote' = remote
           \/ remote' = [remote EXCEPT ![here] = AfterDelete(@, st.id)]
        /\ Goto("release") \/ Return("error") \/ GotoPersist(NotReady, "error")
    BY DEF Delete
  <1>2. UNCHANGED Unrecorded
    <2>1. CASE GotoPersist(NotReady, "error")
      BY <1>1, <2>1, PersistKeepsId, NothingUnrecorded DEF CustodyInv, IInv
    <2>2. CASE Goto("release") \/ Return("error")
      BY <1>1, <2>2, NothingUnrecorded DEF Goto, Return
    <2> QED
      BY <1>1, <2>1, <2>2
  <1>3. here \in Locations /\ TypeOK
    BY <1>1, InFlight DEF CustodyInv, IInv
  <1>4. id \in CustodyEntities' => id \in CustodyEntities
    <2>1. \A l \in Locations : remote'[l] # None => remote'[l] = remote[l]
      BY <1>1, <1>3 DEF TypeOK, AfterDelete
    <2> QED
      BY <2>1, IdsThere
  <1> QED
    BY <1>1, <1>2, <1>3, <1>4, AccountKept

(* The object goes when the service it records has gone before.            *)
LEMMA EnsureAbsentAccount ==
  ASSUME NEW here, Locations = {here}, CustodyInv, NEW id \in Ids,
         AccountOf(id), EnsureAbsent,
         UNCHANGED serviceVars
  PROVE  AccountOf(id)'
  <1>1. pc = "release" /\ pc' = "idle" /\ UNCHANGED <<CustodyEntities, lost>>
    BY DEF EnsureAbsent, Return, serviceVars, CustodyEntities
  <1>2. Unrecorded = {} /\ Unrecorded' = {}
    BY <1>1, NothingUnrecorded
  <1>3. CASE UNCHANGED cr
    BY <1>1, <1>2, <1>3 DEF AccountOf, Knows
  <1>4. CASE Accepted(None)
    <2>1. cr = obj /\ cr.status.id \notin CustodyEntities
      BY <1>1, <1>4, ReleasedIsGone DEF CustodyInv, IInv, Accepted
    <2> QED
      BY <1>1, <1>2, <2>1 DEF AccountOf, Knows
  <1> QED
    BY <1>3, <1>4 DEF EnsureAbsent, Refused

(* The other steps of the worker leave objects and services alone.         *)
LEMMA RestAccount ==
  ASSUME CustodyInv, NEW id \in Ids, AccountOf(id),
         \/ PrereqsRestored /\ UNCHANGED serviceVars
         \/ CacheSync /\ UNCHANGED serviceVars
         \/ TimerFires /\ UNCHANGED serviceVars
         \/ Dequeue /\ UNCHANGED serviceVars
         \/ Observe \/ Query
         \/ UNCHANGED vars
  PROVE  AccountOf(id)'
  <1>1. UNCHANGED <<cr, CustodyEntities, lost>>
    BY DEF CustodyEntities, PrereqsRestored, CacheSync, TimerFires, Dequeue, Observe, Query,
           vars, serviceVars, lifecycleVars
  <1>2. UNCHANGED Unrecorded
    <2>1. CASE Dequeue
      <3>1. pc = "idle" /\ pc' # "persist"
        BY <2>1 DEF Dequeue, FirstStep
      <3> QED
        BY <3>1, NothingUnrecorded
    <2>2. CASE Observe \/ Query
      <3>1. /\ pc \in {"observe", "query"}
            /\ \/ Goto("query") \/ Goto("upsert")
               \/ GotoPersist(NotReady, "error") \/ GotoPersist(NotReady, "done")
               \/ GotoPersist([st EXCEPT !.ready = "True"], "requeue")
        BY <2>2 DEF Observe, Query
      <3>2. CASE Goto("query") \/ Goto("upsert")
        BY <3>1, <3>2, NothingUnrecorded DEF Goto
      <3>3. CASE ~(Goto("query") \/ Goto("upsert"))
        <4>1. st'.id = obj'.status.id
          BY <3>1, <3>3, PersistKeepsId DEF CustodyInv, IInv
        <4> QED
          BY <3>1, <4>1, NothingUnrecorded
      <3> QED
        BY <3>2, <3>3
    <2>3. CASE UNCHANGED <<pc, obj, st>>
      BY <2>3, NothingUnrecorded
    <2> QED
      BY <2>1, <2>2, <2>3 DEF PrereqsRestored, CacheSync, TimerFires, vars,
                              lifecycleVars
  <1> QED
    BY <1>1, <1>2 DEF AccountOf, Knows

(* Every step keeps the account of an ID, unless others come up with it.   *)
LEMMA NextAccountOf ==
  ASSUME NEW here, Locations = {here}, CustodyInv, NEW id \in Ids,
         AccountOf(id), [Next]_vars,
         Others /\ id \in CustodyEntities' => id \in CustodyEntities
  PROVE  AccountOf(id)'
  <1>1. CASE Users /\ UNCHANGED serviceVars
    BY <1>1, UsersAccount
  <1>2. CASE Others
    <2>1. UNCHANGED lifecycleVars /\ UNCHANGED lost
      BY <1>2, Zenon DEF Others, ExternalEdit, ExternalDelete, ExternalCreate,
                         RotateSecret, External
    <2>2. UNCHANGED cr /\ UNCHANGED Unrecorded
      BY <2>1, NothingUnrecorded DEF lifecycleVars
    <2> QED
      BY <1>2, <2>1, <2>2, AccountKept
  <1>3. CASE CrashAndRestart
    <2>1. /\ UNCHANGED <<cr, CustodyEntities>> /\ lost' = lost \cup Unrecorded
          /\ pc' = "idle"
      BY <1>3 DEF CrashAndRestart, Crash, CustodyEntities
    <2>2. Unrecorded' = {}
      BY <2>1, NothingUnrecorded
    <2> QED
      BY <2>1, <2>2 DEF AccountOf, Knows
  <1>4. CASE EnsurePresent /\ UNCHANGED serviceVars
    BY <1>4, EnsurePresentAccount
  <1>5. CASE Upsert
    BY <1>5, UpsertAccount
  <1>6. CASE Persist
    BY <1>6, PersistAccount
  <1>7. CASE Delete
    BY <1>7, DeleteAccount
  <1>8. CASE EnsureAbsent /\ UNCHANGED serviceVars
    BY <1>8, EnsureAbsentAccount
  <1> QED
    BY <1>1, <1>2, <1>3, <1>4, <1>5, <1>6, <1>7, <1>8, RestAccount
       DEF Next, Worker

(* Every step keeps the account.                                           *)
LEMMA NextAccount ==
  ASSUME NEW here, Locations = {here}, CustodyInv, Account, [Next]_vars
  PROVE  Account'
  <1> SUFFICES ASSUME NEW id \in Ids, remote'[here] # None,
                      remote'[here].by = "operator", remote'[here].id = id
               PROVE  AccountOf(id)'
    <2>1. remote'[here] # None => remote'[here].id \in Ids
      BY NextTypes DEF CustodyInv, IInv, TypeOK, Entities
    <2> QED
      BY <2>1 DEF Account
  <1>1. id \in CustodyEntities => remote[here] # None /\ remote[here].id = id
    BY IdsThere
  <1>2. AccountOf(id)
    BY <1>1, OwnerStays DEF CustodyInv, AccountOf, Account
  <1>3. Others => id \in CustodyEntities
    BY OthersServices, IdsThere DEF CustodyInv, IInv
  <1> QED
    BY <1>2, <1>3, NextAccountOf

(* Every service the operator created is recorded, about to be recorded,   *)
(* or one of those whose recording failed, wherever the specs name one     *)
(* location: no edit, re-creation, stale cache or outside change ever      *)
(* makes it forget a service it has on its books.                          *)
THEOREM EveryServiceAccounted ==
  ASSUME NEW here, Locations = {here}
  PROVE  Spec => []EveryServiceAccountedFor
  <1>1. Init => CustodyInv /\ Account
    BY InitCustody DEF Init, Account
  <1>2. CustodyInv /\ Account /\ [Next]_vars => (CustodyInv /\ Account)'
    BY NextCustody, NextAccount
  <1>3. Account => EveryServiceAccountedFor
    BY IdsThere
       DEF Account, AccountOf, Knows, EveryServiceAccountedFor, Unrecorded
  <1> QED
    BY <1>1, <1>2, <1>3, PTL DEF Spec

-----------------------------------------------------------------------------
(***************************************************************************)
(* The controller beside others that use the same OpenMetadata: what they  *)
(* do while it has no reconciliation in flight, in keeping with the rules  *)
(* of OpenMetadata, leaves its invariants alone.                           *)
(***************************************************************************)
SharedInv == CustodyInv /\ VersionsIdentify /\ WantIsResolved

(* Versions only rise, an ID is handed out once.                           *)
Aside ==
  /\ UNCHANGED <<cr, cached, queued, timer, pc, obj, st, res, lastUid>>
  /\ UNCHANGED <<want, secret, external, lost>>
  /\ pc # "idle" => UNCHANGED remote
  /\ lastId' \in Nat /\ lastId <= lastId'
  /\ \A l \in Locations :
       /\ Evolved(l)
       /\ remote'[l] # None => remote'[l].id <= lastId'

LEMMA AsideKeepsInv ==
  ASSUME NEW here, Locations = {here}, SharedInv, Aside, TypeOK'
  PROVE  SharedInv'
  <1>1. /\ TypeOK /\ IInv /\ secret \in Nat /\ secret <= secret'
        /\ \A l \in Locations : Evolved(l)
        /\ UNCHANGED <<cr, cached, queued, timer, pc, obj, st, res, lastUid>>
    BY DEF SharedInv, CustodyInv, IInv, TypeOK, Aside
  <1>2. LifecycleInv' /\ NeverForgotten' /\ WorkingStatus'
    BY <1>1
       DEF IInv, Aside, LifecycleInv, StepFitsObject, Follows, NeverForgotten,
           Awake, WorkingStatus
  <1>3. IdsUpToLast'
    <2>1. \A o \in {cr, cached, obj} \ {None} :
            o.status.id # None => o.status.id \in Nat
      <3>1. \A o \in {cr, cached, obj} \ {None} : o.status \in Statuses
        BY <1>1, ObjectFields DEF TypeOK, LifecycleTypeOK
      <3>2. \A s \in Statuses : s.id # None => s.id \in Nat
        BY DEF Statuses, Ids
      <3> QED
        BY <3>1, <3>2
    <2>2. st # None /\ st.id # None => st.id \in Nat
      BY <1>1 DEF TypeOK, LifecycleTypeOK, Statuses, Ids
    <2>3. lastId \in Nat /\ lastId' \in Nat /\ lastId <= lastId'
      BY <1>1 DEF Aside, TypeOK
    <2> QED
      BY <1>1, <2>1, <2>2, <2>3 DEF IInv, IdsUpToLast, Aside
  <1>4. RecordedIsGuarded'
    BY <1>1 DEF IInv, RecordedIsGuarded, Aside
  <1>5. ASSUME NEW id, id \in CustodyEntities'
        PROVE  id \in CustodyEntities \/ id = lastId + 1
    BY <1>1, <1>5, IdsThere DEF Evolved
  <1>6. WritesWhatIsThere'
    BY <1>1 DEF SharedInv, CustodyInv, WritesWhatIsThere, Aside
  <1>7. DoomedRecordIsFrozen' /\ GoneIsCleanedUp(CustodyEntities)'
    <2>1. \A o \in {cr, cached, obj} \ {None} : o.status.id # lastId + 1
      BY <1>1, CopiesAreNotFresh DEF IInv
    <2> QED
      BY <1>1, <1>5, <2>1
         DEF SharedInv, CustodyInv, DoomedRecordIsFrozen, GoneIsCleanedUp
  <1>8. VersionsIdentify'
    <2>1. ASSUME NEW o \in {cr, cached, obj} \ {None}
          PROVE  Sound(remote', secret', o.spec, o.gen, o.status)
      <3>1. o.spec \in Specs /\ o.gen \in 1..MaxGen /\ o.status \in Statuses
        BY <1>1, <2>1, ObjectFields, BoundsAssumption
           DEF TypeOK, LifecycleTypeOK, Objects
      <3>2. o.status.id # lastId + 1
        BY <1>1, CopiesAreNotFresh DEF IInv
      <3> QED
        BY <1>1, <3>1, <3>2, SoundStays DEF SharedInv, VersionsIdentify
    <2>2. ASSUME st # None
          PROVE  Sound(remote', secret', obj.spec, obj.gen, st)
      <3>1. /\ pc # "idle" /\ UNCHANGED <<remote, secret>>
        BY <1>1, <2>2 DEF IInv, LifecycleInv, StepFitsObject, Aside
      <3> QED
        BY <2>2, <3>1 DEF SharedInv, VersionsIdentify
    <2> QED
      BY <1>1, <2>1, <2>2 DEF VersionsIdentify
  <1>9. WantIsResolved'
    BY <1>1 DEF SharedInv, WantIsResolved, Aside, Content
  <1> QED
    BY <1>2, <1>3, <1>4, <1>6, <1>7, <1>8, <1>9
       DEF SharedInv, CustodyInv, IInv

(* The account of an ID, too, unless the others come up with it.           *)
LEMMA AsideKeepsAccount ==
  ASSUME NEW id \in Ids, AccountOf(id), Aside,
         id \in CustodyEntities' => id \in CustodyEntities
  PROVE  AccountOf(id)'
  BY DEF AccountOf, Knows, Unrecorded, Aside

(* The controller's own steps keep its invariants, and to those rules.     *)
LEMMA NextSharedInv ==
  ASSUME NEW here, Locations = {here}, SharedInv, [Next]_vars
  PROVE  SharedInv'
  BY NextCustody, NextVersionsIdentify, NextWantIsResolved
     DEF SharedInv, CustodyInv

LEMMA NextKeepsToTheRules ==
  ASSUME SharedInv, [Next]_vars
  PROVE  /\ lastId' \in Nat /\ lastId <= lastId'
         /\ \A l \in Locations :
              /\ Evolved(l)
              /\ remote'[l] # None => remote'[l].id <= lastId'
  <1>1. IInv
    BY DEF SharedInv, CustodyInv
  <1>2. IInv' /\ \A l \in Locations : Evolved(l)
    BY <1>1, NextTypes, NextWorkingStatus, NextNeverForgotten,
       NextIdsUpToLast, NextRecordedIsGuarded, NextEvolves DEF IInv
  <1>3. lastId <= lastId'
    <2>1. CASE Others
      BY <1>1, <2>1, OthersEntities DEF IInv
    <2>2. CASE Upsert
      BY <1>1, <2>2, UpsertEntities DEF IInv
    <2>3. CASE UNCHANGED lastId
      BY <1>1, <2>3 DEF IInv, TypeOK
    <2> QED
      BY <2>1, <2>2, <2>3
         DEF Next, Worker, serviceVars, vars, CrashAndRestart, Observe, Query,
             Persist, Delete
  <1> QED
    BY <1>2, <1>3 DEF IInv, IdsUpToLast, TypeOK

=============================================================================
