------------------------ MODULE ManagedResourceProofs ------------------------
(***************************************************************************)
(* Lemmas about the lifecycle actions of ManagedResource, for the proofs   *)
(* about every kind of resource.  Each action preserves the types and      *)
(* LifecycleInv; then what a step may do to the stored status and to its   *)
(* copies, what becomes of the one ID a resource records, and to which     *)
(* phase of Custody the object goes.  Statuses and Steps are those of the  *)
(* kind.                                                                   *)
(***************************************************************************)
EXTENDS ManagedResource, TLAPS

(* An object, its fields, and the ways actions change it.                  *)
LEMMA ObjectFields ==
  ASSUME NEW Statuses, NEW o \in Objects(Statuses)
  PROVE  /\ o.uid \in Int /\ 1 <= o.uid /\ o.uid <= MaxUid
         /\ o.gen \in Int /\ 1 <= o.gen /\ o.gen <= MaxGen
         /\ o.deleting \in BOOLEAN /\ o.finalizer \in BOOLEAN
         /\ o.spec \in Specs /\ o.status \in Statuses
  BY BoundsAssumption DEF Objects

(* The count of failures stays within its bound.                           *)
LEMMA FaultBound ==
  ASSUME faults \in 0..MaxFaults, Fault \/ UNCHANGED faults
  PROVE  faults' \in 0..MaxFaults
  BY BoundsAssumption DEF Fault

(* The actions of users keep types and LifecycleInv.                       *)
LEMMA UserCreateLemma ==
  ASSUME NEW Statuses, NEW Steps, None \notin Objects(Statuses),
         LifecycleTypeOK(Statuses, Steps), LifecycleInv,
         NEW s \in Specs, NEW e \in Statuses, UserCreate(s, e)
  PROVE  LifecycleTypeOK(Statuses, Steps)' /\ LifecycleInv'
  <1>1. cr' \in Objects(Statuses) /\ cr'.uid = lastUid + 1 /\ ~cr'.deleting
    BY BoundsAssumption DEF UserCreate, LifecycleTypeOK, Objects
  <1>2. LifecycleTypeOK(Statuses, Steps)'
    BY <1>1, BoundsAssumption DEF UserCreate, LifecycleTypeOK, Results
  <1>3. cr = None /\ lastUid' = lastUid + 1 /\ lastUid \in Int
    BY BoundsAssumption DEF UserCreate, LifecycleTypeOK
  <1>4. ASSUME NEW o \in Objects(Statuses), Follows(o)
        PROVE  Follows(o)'
    BY <1>1, <1>3, <1>4, ObjectFields DEF Follows
  <1>5. UNCHANGED <<cached, obj, pc, st, queued>>
    BY DEF UserCreate
  <1>6. (cached # None => Follows(cached))' /\ (obj # None => Follows(obj))'
    BY <1>4, <1>5 DEF LifecycleInv, LifecycleTypeOK
  <1> QED
    BY <1>1, <1>2, <1>3, <1>5, <1>6 DEF LifecycleInv, StepFitsObject

(* An edit of the spec keeps types and LifecycleInv.                       *)
LEMMA UserEditLemma ==
  ASSUME NEW Statuses, NEW Steps, None \notin Objects(Statuses),
         LifecycleTypeOK(Statuses, Steps), LifecycleInv,
         NEW s \in Specs, UserEdit(s)
  PROVE  LifecycleTypeOK(Statuses, Steps)' /\ LifecycleInv'
  <1>1. cr \in Objects(Statuses) /\ cr.gen < MaxGen
    BY DEF UserEdit, LifecycleTypeOK
  <1>2. /\ cr' \in Objects(Statuses)
        /\ cr'.uid = cr.uid /\ cr'.gen = cr.gen + 1
        /\ cr'.deleting = cr.deleting /\ cr'.finalizer = cr.finalizer
    <2>1. cr.gen \in 1..MaxGen /\ cr.gen + 1 \in 1..MaxGen
      BY <1>1, BoundsAssumption DEF Objects
    <2> QED
      BY <1>1, <2>1 DEF UserEdit, Objects
  <1>3. LifecycleTypeOK(Statuses, Steps)'
    BY <1>2 DEF UserEdit, LifecycleTypeOK, Results
  <1>4. UNCHANGED <<cached, obj, pc, st, queued, lastUid>>
    BY DEF UserEdit
  <1>5. ASSUME NEW o \in Objects(Statuses), Follows(o)
        PROVE  Follows(o)'
    BY <1>1, <1>2, <1>4, <1>5, ObjectFields DEF Follows
  <1>6. (cached # None => Follows(cached))' /\ (obj # None => Follows(obj))'
    BY <1>4, <1>5 DEF LifecycleInv, LifecycleTypeOK
  <1> QED
    BY <1>1, <1>2, <1>3, <1>4, <1>6 DEF LifecycleInv, StepFitsObject

(* A deletion by a user, with or without a finalizer, keeps them.          *)
LEMMA UserDeleteLemma ==
  ASSUME NEW Statuses, NEW Steps, None \notin Objects(Statuses),
         LifecycleTypeOK(Statuses, Steps), LifecycleInv, UserDelete
  PROVE  LifecycleTypeOK(Statuses, Steps)' /\ LifecycleInv'
  <1>1. cr \in Objects(Statuses) /\ ~cr.deleting
    BY DEF UserDelete, LifecycleTypeOK
  <1>2. UNCHANGED <<cached, obj, pc, st, queued, lastUid>>
    BY DEF UserDelete
  <1>3. \/ ~cr.finalizer /\ cr' = None
        \/ /\ cr.finalizer /\ cr' \in Objects(Statuses)
           /\ cr'.uid = cr.uid /\ cr'.gen = cr.gen
           /\ cr'.deleting /\ cr'.finalizer
    BY <1>1 DEF UserDelete, Objects
  <1>4. LifecycleTypeOK(Statuses, Steps)'
    BY <1>3 DEF UserDelete, LifecycleTypeOK, Results
  <1>5. ASSUME NEW o \in Objects(Statuses), Follows(o)
        PROVE  Follows(o)'
    BY <1>1, <1>2, <1>3, <1>5, ObjectFields DEF Follows
  <1>6. (cached # None => Follows(cached))' /\ (obj # None => Follows(obj))'
    BY <1>2, <1>5 DEF LifecycleInv, LifecycleTypeOK
  <1> QED
    BY <1>1, <1>2, <1>3, <1>4, <1>6 DEF LifecycleInv, StepFitsObject

-----------------------------------------------------------------------------
(* Informer, work queue, process.                                          *)

(* Prerequisites that go and come back keep them.                          *)
LEMMA PrereqsLemma ==
  ASSUME NEW Statuses, NEW Steps,
         LifecycleTypeOK(Statuses, Steps), LifecycleInv,
         PrereqsLost \/ PrereqsRestored
  PROVE  LifecycleTypeOK(Statuses, Steps)' /\ LifecycleInv'
  <1>1. UNCHANGED <<cr, cached, queued, timer, pc, obj, st, res, lastUid>>
    BY DEF PrereqsLost, PrereqsRestored
  <1>2. prereqs' \in BOOLEAN
    BY DEF PrereqsLost, PrereqsRestored
  <1>3. faults' \in 0..MaxFaults
    BY FaultBound DEF PrereqsLost, PrereqsRestored, LifecycleTypeOK
  <1> QED
    BY <1>1, <1>2, <1>3
       DEF LifecycleTypeOK, LifecycleInv, StepFitsObject, Follows, Results

(* A watch event keeps them.                                               *)
LEMMA CacheSyncLemma ==
  ASSUME NEW Statuses, NEW Steps, None \notin Objects(Statuses),
         LifecycleTypeOK(Statuses, Steps), LifecycleInv, CacheSync
  PROVE  LifecycleTypeOK(Statuses, Steps)' /\ LifecycleInv'
  <1>1. LifecycleTypeOK(Statuses, Steps)'
    BY DEF CacheSync, LifecycleTypeOK, Results
  <1>2. cr # None => Follows(cr)
    BY ObjectFields DEF LifecycleInv, LifecycleTypeOK, Follows
  <1>3. cached' = cr /\ queued' /\ UNCHANGED <<cr, pc, obj, st, lastUid>>
    BY DEF CacheSync
  <1>4. (obj # None /\ obj.deleting /\ cached # None /\ cached.uid = obj.uid =>
           cached.deleting)'
    BY <1>3 DEF LifecycleInv, Follows
  <1> QED
    BY <1>1, <1>2, <1>3, <1>4 DEF LifecycleInv, StepFitsObject, Follows

(* A timer that fires keeps them.                                          *)
LEMMA TimerFiresLemma ==
  ASSUME NEW Statuses, NEW Steps,
         LifecycleTypeOK(Statuses, Steps), LifecycleInv, TimerFires
  PROVE  LifecycleTypeOK(Statuses, Steps)' /\ LifecycleInv'
  BY DEF TimerFires, LifecycleTypeOK, Results, LifecycleInv, StepFitsObject,
         Follows

(* A crash and restart of the operator keeps them.                         *)
LEMMA CrashLemma ==
  ASSUME NEW Statuses, NEW Steps, None \notin Objects(Statuses),
         "idle" \in Steps, LifecycleTypeOK(Statuses, Steps), LifecycleInv, Crash
  PROVE  LifecycleTypeOK(Statuses, Steps)' /\ LifecycleInv'
  <1>1. LifecycleTypeOK(Statuses, Steps)'
    <2>1. faults' \in 0..MaxFaults
      BY FaultBound DEF Crash, LifecycleTypeOK
    <2>2. queued' \in BOOLEAN
      BY Zenon DEF Crash
    <2> QED
      BY <2>1, <2>2 DEF Crash, LifecycleTypeOK, Results
  <1>2. cr # None => Follows(cr)
    BY ObjectFields DEF LifecycleInv, LifecycleTypeOK, Follows
  <1> QED
    BY <1>1, <1>2 DEF Crash, LifecycleInv, StepFitsObject, Follows

-----------------------------------------------------------------------------
(* The common part of a reconciliation.                                    *)

(* Steps of a handler that leave Kubernetes alone: they go on,             *)
LEMMA GotoLemma ==
  ASSUME NEW Statuses, NEW Steps,
         LifecycleTypeOK(Statuses, Steps), LifecycleInv,
         pc \notin {"idle", "addFinalizer"},
         UNCHANGED <<cr, cached, lastUid, prereqs>>, Fault \/ UNCHANGED faults,
         NEW step \in Steps \ {"idle", "addFinalizer", "persist"},
         step \in {"delete", "release"} <=> obj.deleting,
         Goto(step)
  PROVE  LifecycleTypeOK(Statuses, Steps)' /\ LifecycleInv'
  <1>1. faults' \in 0..MaxFaults
    BY FaultBound DEF LifecycleTypeOK
  <1> QED
    BY <1>1 DEF Goto, LifecycleTypeOK, LifecycleInv, StepFitsObject, Follows,
                Results

(* or turn to the status write,                                            *)
LEMMA GotoPersistLemma ==
  ASSUME NEW Statuses, NEW Steps, "persist" \in Steps, None \notin Statuses,
         LifecycleTypeOK(Statuses, Steps), LifecycleInv,
         pc \notin {"idle", "addFinalizer"},
         UNCHANGED <<cr, cached, lastUid, prereqs>>, Fault \/ UNCHANGED faults,
         NEW status \in Statuses, NEW result \in Results,
         GotoPersist(status, result)
  PROVE  LifecycleTypeOK(Statuses, Steps)' /\ LifecycleInv'
  <1>1. faults' \in 0..MaxFaults
    BY FaultBound DEF LifecycleTypeOK
  <1> QED
    BY <1>1 DEF GotoPersist, LifecycleTypeOK, LifecycleInv, StepFitsObject,
                Follows, Results

(* or return without writing anything.                                     *)
LEMMA ReturnLemma ==
  ASSUME NEW Statuses, NEW Steps, "idle" \in Steps,
         LifecycleTypeOK(Statuses, Steps), LifecycleInv,
         UNCHANGED <<cr, cached, lastUid, prereqs>>, Fault \/ UNCHANGED faults,
         NEW result \in Results, Return(result)
  PROVE  LifecycleTypeOK(Statuses, Steps)' /\ LifecycleInv'
  <1>1. faults' \in 0..MaxFaults
    BY FaultBound DEF LifecycleTypeOK
  <1> QED
    BY <1>1 DEF Return, LifecycleTypeOK, LifecycleInv, StepFitsObject, Follows,
                Results

(* Taking the name from the queue starts a step the object is meant for.   *)
LEMMA DequeueLemma ==
  ASSUME NEW Statuses, NEW Steps, None \notin Objects(Statuses),
         None \notin Statuses,
         {"idle", "addFinalizer", "observe", "delete"} \subseteq Steps,
         LifecycleTypeOK(Statuses, Steps), LifecycleInv, Dequeue
  PROVE  LifecycleTypeOK(Statuses, Steps)' /\ LifecycleInv'
  <1>1. CASE cached = None \/ FirstStep(cached) = "idle"
    BY <1>1 DEF Dequeue, LifecycleTypeOK, LifecycleInv, StepFitsObject,
       Follows,
                Results
  <1>2. CASE ~(cached = None \/ FirstStep(cached) = "idle")
    <2>1. cached \in Objects(Statuses) /\ cached.status \in Statuses
      BY <1>2, ObjectFields DEF LifecycleTypeOK
    <2>2. /\ pc' = FirstStep(cached) /\ obj' = cached /\ st' = cached.status
          /\ UNCHANGED <<cr, cached, timer, res, prereqs, lastUid, faults>>
          /\ queued' = FALSE
      BY <1>2 DEF Dequeue
    <2>3. LifecycleTypeOK(Statuses, Steps)'
      BY <2>1, <2>2 DEF LifecycleTypeOK, FirstStep, Results
    <2>4. StepFitsObject'
      BY <1>2, <2>1, <2>2, ObjectFields DEF StepFitsObject, FirstStep
    <2> QED
      BY <2>1, <2>2, <2>3, <2>4 DEF LifecycleInv, Follows
  <1> QED
    BY <1>1, <1>2

(* Storing the finalizer (EnsurePresent), accepted or refused, keeps them. *)
LEMMA EnsurePresentLemma ==
  ASSUME NEW Statuses, NEW Steps, None \notin Objects(Statuses),
         "idle" \in Steps,
         LifecycleTypeOK(Statuses, Steps), LifecycleInv, EnsurePresent
  PROVE  LifecycleTypeOK(Statuses, Steps)' /\ LifecycleInv'
  <1>1. obj \in Objects(Statuses)
    BY DEF EnsurePresent, LifecycleInv, StepFitsObject, LifecycleTypeOK
  <1>2. CASE Accepted([cr EXCEPT !.finalizer = TRUE]) /\ Return("done")
    <2>1. /\ cr \in Objects(Statuses) /\ cr' \in Objects(Statuses)
          /\ cr'.uid = cr.uid /\ cr'.gen = cr.gen
          /\ cr'.deleting = cr.deleting /\ cr'.finalizer
      BY <1>1, <1>2 DEF Accepted, Objects
    <2>2. UNCHANGED <<cached, lastUid, prereqs, faults>>
      BY <1>2 DEF EnsurePresent, Accepted
    <2>3. LifecycleTypeOK(Statuses, Steps)'
      BY <1>2, <2>1, <2>2 DEF Return, LifecycleTypeOK, Results
    <2>4. ASSUME NEW o \in Objects(Statuses), Follows(o)
          PROVE  Follows(o)'
      BY <2>1, <2>2, <2>4, ObjectFields DEF Follows
    <2>5. (cached # None => Follows(cached))'
      BY <2>2, <2>4 DEF LifecycleInv, LifecycleTypeOK
    <2> QED
      BY <1>2, <2>1, <2>2, <2>3, <2>5 DEF LifecycleInv, StepFitsObject, Return
  <1>3. CASE Refused /\ Return("error")
    BY <1>3, BoundsAssumption
       DEF EnsurePresent, Refused, Fault, Return, LifecycleTypeOK, Results,
           LifecycleInv, StepFitsObject, Follows
  <1> QED
    BY <1>2, <1>3 DEF EnsurePresent

(* The status write that ends a reconciliation keeps them.                 *)
LEMMA PersistLemma ==
  ASSUME NEW Statuses, NEW Steps, None \notin Objects(Statuses),
         "idle" \in Steps,
         LifecycleTypeOK(Statuses, Steps), LifecycleInv, SetConditionAndPersist
  PROVE  LifecycleTypeOK(Statuses, Steps)' /\ LifecycleInv'
  <1>1. obj \in Objects(Statuses) /\ st \in Statuses
    BY DEF SetConditionAndPersist, LifecycleInv, StepFitsObject,
       LifecycleTypeOK
  <1>2. CASE Accepted([cr EXCEPT !.status = st])
    <2>1. /\ cr \in Objects(Statuses) /\ cr' \in Objects(Statuses)
          /\ cr'.uid = cr.uid /\ cr'.gen = cr.gen
          /\ cr'.deleting = cr.deleting /\ cr'.finalizer = cr.finalizer
      BY <1>1, <1>2 DEF Accepted, Objects
    <2>2. UNCHANGED <<cached, lastUid, prereqs, faults>> /\ Return(res)
      BY <1>2 DEF SetConditionAndPersist, Accepted
    <2>3. LifecycleTypeOK(Statuses, Steps)'
      BY <2>1, <2>2 DEF Return, LifecycleTypeOK, Results
    <2>4. ASSUME NEW o \in Objects(Statuses), Follows(o)
          PROVE  Follows(o)'
      BY <2>1, <2>2, <2>4, ObjectFields DEF Follows
    <2>5. (cached # None => Follows(cached))'
      BY <2>2, <2>4 DEF LifecycleInv, LifecycleTypeOK
    <2> QED
      BY <2>1, <2>2, <2>3, <2>5 DEF LifecycleInv, StepFitsObject, Return
  <1>3. CASE Refused
    BY <1>3, BoundsAssumption
       DEF SetConditionAndPersist, Refused, Fault, Return, LifecycleTypeOK,
           Results, LifecycleInv, StepFitsObject, Follows
  <1> QED
    BY <1>2, <1>3 DEF SetConditionAndPersist

(* The object goes only when the copies have seen its deletion, so that no *)
(* copy is left that shows it alive.                                       *)
LEMMA EnsureAbsentLemma ==
  ASSUME NEW Statuses, NEW Steps, None \notin Objects(Statuses),
         "idle" \in Steps,
         LifecycleTypeOK(Statuses, Steps), LifecycleInv, EnsureAbsent
  PROVE  LifecycleTypeOK(Statuses, Steps)' /\ LifecycleInv'
  <1>1. CASE Accepted(None) /\ Return("done")
    <2>1. /\ obj # None /\ obj.deleting /\ cr = obj /\ cr' = None
          /\ UNCHANGED <<cached, lastUid, prereqs, faults>>
      BY <1>1 DEF EnsureAbsent, Accepted, LifecycleInv, StepFitsObject
    <2>2. LifecycleTypeOK(Statuses, Steps)'
      BY <1>1, <2>1 DEF Return, LifecycleTypeOK, Results
    <2>3. (cached # None => Follows(cached))'
      BY <2>1, ObjectFields DEF LifecycleInv, LifecycleTypeOK, Follows
    <2> QED
      BY <1>1, <2>1, <2>2, <2>3 DEF LifecycleInv, StepFitsObject, Return
  <1>2. CASE Refused /\ Return("error")
    BY <1>2, BoundsAssumption
       DEF EnsureAbsent, Refused, Fault, Return, LifecycleTypeOK, Results,
           LifecycleInv, StepFitsObject, Follows
  <1> QED
    BY <1>1, <1>2 DEF EnsureAbsent

-----------------------------------------------------------------------------
(* All the steps of a kind, as far as they show in the lifecycle.          *)

(* What a kind has to provide: statuses that None is not mistaken for, and *)
(* at least the steps that every reconciliation has.                       *)
Kind(Statuses, Steps) ==
  /\ None \notin Objects(Statuses)
  /\ None \notin Statuses
  /\ {"idle", "addFinalizer", "observe", "persist", "delete", "release"}
       \subseteq Steps

(* The steps that all kinds share; a new object has the status e.          *)
SharedStep(e) ==
  \/ \E s \in Specs : UserCreate(s, e) \/ UserEdit(s)
  \/ UserDelete
  \/ PrereqsLost \/ PrereqsRestored
  \/ CacheSync \/ TimerFires \/ Crash
  \/ Dequeue \/ EnsurePresent \/ SetConditionAndPersist \/ EnsureAbsent

(* The steps of a handler leave the objects alone: they return, turn to    *)
(* the status write, or go on to a step that the object is meant for,      *)
(* perhaps with another working status.                                    *)
HandlerStep(Statuses, Steps) ==
  /\ pc \in Steps \ {"idle", "addFinalizer", "persist", "release"}
  /\ UNCHANGED <<cr, cached, prereqs, lastUid>>
  /\ Fault \/ UNCHANGED faults
  /\ \/ \E result \in Results : Return(result)
     \/ \E status \in Statuses, result \in Results : GotoPersist(status, result)
     \/ /\ pc' \in Steps \ {"idle", "addFinalizer", "persist"}
        /\ pc' \in {"delete", "release"} <=> obj.deleting
        /\ st' \in Statuses
        /\ UNCHANGED <<queued, timer, obj, res>>

LifecycleStep(Statuses, Steps, e) ==
  SharedStep(e) \/ HandlerStep(Statuses, Steps) \/ UNCHANGED lifecycleVars

(* Every step of a kind keeps types and LifecycleInv.                      *)
LEMMA LifecycleKept ==
  ASSUME NEW Statuses, NEW Steps, NEW e \in Statuses, Kind(Statuses, Steps),
         LifecycleTypeOK(Statuses, Steps), LifecycleInv,
         LifecycleStep(Statuses, Steps, e)
  PROVE  LifecycleTypeOK(Statuses, Steps)' /\ LifecycleInv'
  <1> USE DEF Kind
  <1>1. CASE \E s \in Specs : UserCreate(s, e) \/ UserEdit(s)
    BY <1>1, UserCreateLemma, UserEditLemma
  <1>2. CASE UserDelete \/ PrereqsLost \/ PrereqsRestored
    BY <1>2, UserDeleteLemma, PrereqsLemma
  <1>3. CASE CacheSync \/ TimerFires \/ Crash
    BY <1>3, CacheSyncLemma, TimerFiresLemma, CrashLemma
  <1>4. CASE Dequeue \/ EnsurePresent
    BY <1>4, DequeueLemma, EnsurePresentLemma
  <1>5. CASE SetConditionAndPersist \/ EnsureAbsent
    BY <1>5, PersistLemma, EnsureAbsentLemma
  <1>6. CASE HandlerStep(Statuses, Steps)
    <2>1. CASE \E result \in Results : Return(result)
      BY <1>6, <2>1, ReturnLemma DEF HandlerStep
    <2>2. CASE \E status \in Statuses, result \in Results :
                 GotoPersist(status, result)
      BY <1>6, <2>2, GotoPersistLemma DEF HandlerStep
    <2>3. CASE /\ pc' \in Steps \ {"idle", "addFinalizer", "persist"}
               /\ pc' \in {"delete", "release"} <=> obj.deleting
               /\ st' \in Statuses
               /\ UNCHANGED <<queued, timer, obj, res>>
      <3>1. faults' \in 0..MaxFaults
        BY <1>6, FaultBound DEF HandlerStep, LifecycleTypeOK
      <3>2. /\ pc \notin {"idle", "addFinalizer"}
            /\ UNCHANGED <<cr, cached, prereqs, lastUid>>
        BY <1>6 DEF HandlerStep
      <3> QED
        BY <2>3, <3>1, <3>2 DEF LifecycleTypeOK, LifecycleInv, StepFitsObject,
                                Follows, Results
    <2> QED
      BY <1>6, <2>1, <2>2, <2>3 DEF HandlerStep
  <1>7. CASE UNCHANGED lifecycleVars
    BY <1>7 DEF lifecycleVars, LifecycleTypeOK, LifecycleInv, StepFitsObject,
                Follows
  <1> QED
    BY <1>1, <1>2, <1>3, <1>4, <1>5, <1>6, <1>7 DEF LifecycleStep, SharedStep

(* The object and the status that a reconciliation in flight works on.     *)
LEMMA InReconciliation ==
  ASSUME NEW Statuses, NEW Steps,
         LifecycleTypeOK(Statuses, Steps), LifecycleInv, pc # "idle"
  PROVE  /\ obj \in Objects(Statuses) /\ obj # None
         /\ st \in Statuses /\ st # None
         /\ obj.spec \in Specs /\ obj.status \in Statuses
         /\ obj.gen \in 1..MaxGen
         /\ pc # "addFinalizer" => obj.finalizer
         /\ pc \in {"delete", "release"} => obj.deleting
         /\ pc \notin {"persist", "delete", "release"} => ~obj.deleting
  BY ObjectFields, BoundsAssumption
     DEF LifecycleTypeOK, LifecycleInv, StepFitsObject, Objects

(* What a step can make of the stored object: a new one, one that only     *)
(* differs in its finalizer or its deletion, an edited one, or one with    *)
(* the working status of a reconciliation that read just this object.      *)
LEMMA StoredByStep ==
  ASSUME NEW Statuses, NEW Steps, NEW e \in Statuses, Kind(Statuses, Steps),
         LifecycleTypeOK(Statuses, Steps), LifecycleInv,
         LifecycleStep(Statuses, Steps, e), cr' # cr, cr' # None
  PROVE  \/ /\ cr = None
            /\ cr'.uid = lastUid + 1 /\ cr'.gen = 1 /\ cr'.status = e
            /\ ~cr'.deleting /\ ~cr'.finalizer
         \/ /\ cr # None
            /\ cr'.uid = cr.uid
            /\ cr.deleting => cr'.deleting
            /\ cr.finalizer => cr'.finalizer
            /\ \/ /\ cr'.spec = cr.spec /\ cr'.gen = cr.gen
                  /\ cr'.status = cr.status
               \/ cr'.gen = cr.gen + 1 /\ cr'.status = cr.status
               \/ /\ pc = "persist" /\ cr = obj /\ cr'.status = st
                  /\ cr'.spec = cr.spec /\ cr'.gen = cr.gen
                  /\ cr'.deleting = cr.deleting
  <1>1. cr # None => cr \in Objects(Statuses)
    BY DEF LifecycleTypeOK
  <1>2. ASSUME NEW s \in Specs, UserCreate(s, e)
        PROVE  /\ cr = None
               /\ cr'.uid = lastUid + 1 /\ cr'.gen = 1 /\ cr'.status = e
               /\ ~cr'.deleting /\ ~cr'.finalizer
    BY <1>2 DEF UserCreate
  <1>3. ASSUME NEW s \in Specs, UserEdit(s)
        PROVE  /\ cr # None /\ cr'.uid = cr.uid /\ cr'.gen = cr.gen + 1
               /\ cr'.status = cr.status /\ cr'.deleting = cr.deleting
               /\ cr'.finalizer = cr.finalizer
    BY <1>1, <1>3 DEF UserEdit, Objects
  <1>4. CASE UserDelete
    BY <1>1, <1>4 DEF UserDelete, Objects
  <1>5. CASE EnsurePresent
    <2>1. cr # None /\ cr' = [cr EXCEPT !.finalizer = TRUE]
      BY <1>5 DEF EnsurePresent, Accepted, Refused, LifecycleInv,
         StepFitsObject
    <2> QED
      BY <1>1, <2>1 DEF Objects
  <1>6. CASE SetConditionAndPersist
    <2>1. /\ pc = "persist" /\ cr = obj /\ cr # None
          /\ cr' = [cr EXCEPT !.status = st]
      BY <1>6 DEF SetConditionAndPersist, Accepted, Refused, LifecycleInv,
                  StepFitsObject
    <2> QED
      BY <1>1, <2>1 DEF Objects
  <1>7. CASE EnsureAbsent
    BY <1>7 DEF EnsureAbsent, Accepted, Refused
  <1> QED
    BY <1>2, <1>3, <1>4, <1>5, <1>6, <1>7
       DEF LifecycleStep, SharedStep, HandlerStep, PrereqsLost,
          PrereqsRestored,
           CacheSync, TimerFires, Crash, Dequeue, lifecycleVars

(* The object goes because it has no finalizer, or is released by a        *)
(* reconciliation that read just this object.                              *)
LEMMA GoneByStep ==
  ASSUME NEW Statuses, NEW Steps, NEW e \in Statuses, Kind(Statuses, Steps),
         LifecycleTypeOK(Statuses, Steps), LifecycleInv,
         LifecycleStep(Statuses, Steps, e), cr # None, cr' = None
  PROVE  \/ ~cr.finalizer /\ UserDelete
         \/ pc = "release" /\ cr = obj /\ EnsureAbsent
  <1>1. cr \in Objects(Statuses) /\ None \notin Objects(Statuses)
    BY DEF LifecycleTypeOK, Kind
  <1>2. ASSUME NEW s \in Specs, UserEdit(s) PROVE FALSE
    <2>1. cr.gen + 1 \in 1..MaxGen
      BY <1>1, <1>2, ObjectFields, BoundsAssumption DEF UserEdit
    <2>2. cr' \in Objects(Statuses)
      BY <1>1, <1>2, <2>1 DEF UserEdit, Objects
    <2> QED
      BY <1>1, <2>2
  <1>3. ASSUME NEW s \in Specs, UserCreate(s, e) PROVE FALSE
    BY <1>3 DEF UserCreate
  <1>4. CASE UserDelete
    BY <1>1, <1>4 DEF UserDelete, Objects
  <1>5. ASSUME EnsurePresent PROVE FALSE
    <2>1. cr' = [cr EXCEPT !.finalizer = TRUE]
      BY <1>5 DEF EnsurePresent, Accepted, Refused
    <2>2. cr' \in Objects(Statuses)
      BY <1>1, <2>1 DEF Objects
    <2> QED
      BY <1>1, <2>2
  <1>6. ASSUME SetConditionAndPersist PROVE FALSE
    <2>1. cr' = [cr EXCEPT !.status = st] /\ pc = "persist"
      BY <1>6 DEF SetConditionAndPersist, Accepted, Refused
    <2>2. cr' \in Objects(Statuses)
      BY <1>1, <2>1, InReconciliation DEF Objects
    <2> QED
      BY <1>1, <2>2
  <1>7. CASE EnsureAbsent
    BY <1>7 DEF EnsureAbsent, Accepted, Refused
  <1> QED
    BY <1>2, <1>3, <1>4, <1>5, <1>6, <1>7
       DEF LifecycleStep, SharedStep, HandlerStep, PrereqsLost,
          PrereqsRestored,
           CacheSync, TimerFires, Crash, Dequeue, lifecycleVars

(* The copies that a step leaves are copies from before, or the stored     *)
(* object; a reconciliation starts with a copy from the cache.             *)
LEMMA CopiesByStep ==
  ASSUME NEW Statuses, NEW Steps, NEW e, LifecycleStep(Statuses, Steps, e)
  PROVE  /\ cached' = cached \/ (cached' = cr /\ cr' = cr)
         /\ \/ obj' = obj
            \/ obj' = None /\ st' = None /\ pc' = "idle"
            \/ /\ obj' = cached /\ cached # None /\ st' = cached.status
               /\ cr' = cr /\ pc = "idle" /\ pc' = FirstStep(cached)
  <1>1. CASE \E s \in Specs : UserCreate(s, e) \/ UserEdit(s)
    BY <1>1 DEF UserCreate, UserEdit
  <1>2. CASE \/ UserDelete \/ PrereqsLost \/ PrereqsRestored
             \/ CacheSync \/ TimerFires
    BY <1>2 DEF UserDelete, PrereqsLost, PrereqsRestored, CacheSync, TimerFires
  <1>3. CASE Crash \/ Dequeue
    BY <1>3 DEF Crash, Dequeue
  <1>4. CASE EnsurePresent \/ SetConditionAndPersist \/ EnsureAbsent
    BY <1>4 DEF EnsurePresent, SetConditionAndPersist, EnsureAbsent, Return
  <1>5. CASE HandlerStep(Statuses, Steps)
    BY <1>5 DEF HandlerStep, Return, GotoPersist
  <1> QED
    BY <1>1, <1>2, <1>3, <1>4, <1>5 DEF LifecycleStep, SharedStep,
       lifecycleVars

(* What all statuses have in common, of the copies of the object and the   *)
(* working one.                                                            *)
StatusesIn(good) ==
  /\ \A o \in {cr, cached, obj} \ {None} : o.status \in good
  /\ st # None => st \in good

(* They keep it if a new object has it, and each status that a handler     *)
(* comes up with.                                                          *)
LEMMA StatusesInKept ==
  ASSUME NEW Statuses, NEW Steps, NEW e \in Statuses, Kind(Statuses, Steps),
         LifecycleTypeOK(Statuses, Steps), LifecycleInv,
         LifecycleStep(Statuses, Steps, e), NEW good, e \in good,
         StatusesIn(good),
         pc # "idle" /\ st' \notin {st, None} => st' \in good
  PROVE  /\ \A o \in {cr', cached', obj'} \ {None} : o.status \in good
         /\ st' # None => st' \in good
  <1>1. cr' # None => cr'.status \in good
    <2>1. pc = "persist" => st # None
      BY DEF LifecycleInv, StepFitsObject
    <2> QED
      BY <2>1, StoredByStep DEF StatusesIn
  <1>2. /\ cached' # None => cached'.status \in good
        /\ obj' # None => obj'.status \in good
    BY CopiesByStep DEF StatusesIn
  <1>3. st' # None => st' \in good
    <2>1. CASE pc # "idle"
      BY <2>1 DEF StatusesIn
    <2>2. CASE pc = "idle"
      <3>1. \/ st' = st
            \/ st' = None
            \/ cached # None /\ st' = cached.status
        BY <2>2
           DEF LifecycleStep, SharedStep, HandlerStep, UserCreate, UserEdit,
               UserDelete, PrereqsLost, PrereqsRestored, CacheSync, TimerFires,
               Crash, Dequeue, EnsurePresent, SetConditionAndPersist,
               EnsureAbsent, lifecycleVars
      <3> QED
        BY <3>1 DEF StatusesIn
    <2> QED
      BY <2>1, <2>2
  <1> QED
    BY <1>1, <1>2, <1>3

(* A live, finalized object that a reconciliation works on is guarded: it  *)
(* exists, and nobody removes its finalizer.                               *)
LEMMA GuardsHold ==
  ASSUME NEW steps, LifecycleInv,
         steps \cap {"idle", "addFinalizer", "persist", "delete", "release"} = {}
  PROVE  FinalizerGuards(steps)
  BY DEF LifecycleInv, StepFitsObject, Follows, FinalizerGuards

(* Users never turn the stored object into what a copy shows already.      *)
LEMMA UsersAreNews ==
  ASSUME NEW Statuses, NEW Steps, NEW e, LifecycleTypeOK(Statuses, Steps),
         NEW o \in Objects(Statuses), Follows(o), cr' # cr, cr' # None,
         (\E s \in Specs : UserCreate(s, e) \/ UserEdit(s)) \/ UserDelete
  PROVE  cr' # o
  <1>1. /\ lastUid \in Int /\ o.uid \in Int /\ o.gen \in Int
        /\ cr \in Objects(Statuses) \cup {None}
    BY ObjectFields DEF LifecycleTypeOK
  <1>2. ASSUME NEW s \in Specs, UserCreate(s, e)
        PROVE  cr' # o
    BY <1>1, <1>2 DEF UserCreate, Follows
  <1>3. ASSUME NEW s \in Specs, UserEdit(s)
        PROVE  cr' # o
    <2>1. cr # None /\ cr \in Objects(Statuses) /\ cr.gen \in Int
      BY <1>1, <1>3, ObjectFields DEF UserEdit
    <2>2. cr'.uid = cr.uid /\ cr'.gen = cr.gen + 1
      BY <1>3, <2>1 DEF UserEdit, Objects
    <2>3. o.uid = cr.uid => o.gen <= cr.gen
      BY <2>1 DEF Follows
    <2> QED
      BY <1>1, <2>1, <2>2, <2>3
  <1>4. CASE UserDelete
    <2>1. cr \in Objects(Statuses) /\ ~cr.deleting /\ cr # None
      BY <1>1, <1>4 DEF UserDelete
    <2>2. cr'.uid = cr.uid /\ cr'.deleting
      BY <1>4, <2>1 DEF UserDelete, Objects
    <2> QED
      BY <2>1, <2>2 DEF Follows
  <1> QED
    BY <1>2, <1>3, <1>4

(* A reconciliation gives up for good only on an object with a hopeless    *)
(* spec, that nobody asked to delete when it was read.                     *)
GivesUpOn(hopeless) ==
  pc = "persist" /\ res = "done" => ~obj.deleting /\ obj.spec \in hopeless

(* Awake and GivesUpOn are kept if the handler ends without a status write *)
(* only to be called again.                                                *)
LEMMA AwakeKept ==
  ASSUME NEW Statuses, NEW Steps, NEW e, NEW hopeless,
         Kind(Statuses, Steps),
         LifecycleTypeOK(Statuses, Steps), LifecycleInv,
         Awake(hopeless), GivesUpOn(hopeless),
         \/ SharedStep(e)
         \/ UNCHANGED lifecycleVars
         \/ GivesUpOn(hopeless)' /\ (pc' = "idle" => queued' \/ timer')
  PROVE  Awake(hopeless)' /\ GivesUpOn(hopeless)'
  <1>1. /\ cached # None => cached \in Objects(Statuses) /\ Follows(cached)
        /\ pc # "idle" => obj \in Objects(Statuses) /\ obj # None
    BY InReconciliation DEF LifecycleTypeOK, LifecycleInv
  <1>2. CASE (\E s \in Specs : UserCreate(s, e) \/ UserEdit(s)) \/ UserDelete
    <2>1. UNCHANGED <<cached, queued, timer, pc, obj, res>>
      BY <1>2 DEF UserCreate, UserEdit, UserDelete
    <2>2. cr' # cr /\ cr' # None => cached # cr'
      BY <1>1, <1>2, UsersAreNews
    <2> QED
      BY <2>1, <2>2 DEF Awake, GivesUpOn
  <1>3. CASE \/ PrereqsLost \/ PrereqsRestored \/ CacheSync \/ TimerFires
             \/ Crash \/ UNCHANGED lifecycleVars
    BY <1>3 DEF PrereqsLost, PrereqsRestored, CacheSync, TimerFires, Crash,
                lifecycleVars, Awake, GivesUpOn
  <1>4. CASE Dequeue
    BY <1>4 DEF Dequeue, FirstStep, LifecycleInv, Awake, GivesUpOn
  <1>5. CASE EnsurePresent
    <2>1. /\ obj \in Objects(Statuses) /\ ~obj.finalizer
          /\ queued \/ cached = obj
          /\ pc' = "idle" /\ cached' = cached
      BY <1>1, <1>5 DEF EnsurePresent, Return, LifecycleInv, StepFitsObject
    <2>2. CASE Accepted([cr EXCEPT !.finalizer = TRUE]) /\ Return("done")
      <3>1. cr'.finalizer
        BY <2>1, <2>2 DEF Accepted, Objects
      <3> QED
        BY <2>1, <2>2, <3>1 DEF Return, Awake, GivesUpOn
    <2>3. CASE Return("error")
      BY <2>3 DEF Return, Awake, GivesUpOn
    <2> QED
      BY <1>5, <2>2, <2>3 DEF EnsurePresent
  <1>6. CASE SetConditionAndPersist
    <2>1. /\ pc = "persist" /\ pc' = "idle" /\ Return(res)
          /\ queued \/ cached = obj
          /\ cached' = cached /\ res \in Results
          /\ cr' = cr \/ (cr = obj /\ cr' = [cr EXCEPT !.status = st])
      BY <1>6 DEF SetConditionAndPersist, Return, Accepted, Refused,
                  LifecycleInv, LifecycleTypeOK
    <2>2. CASE res = "done"
      <3>1. cr = obj => ~cr'.deleting /\ cr'.spec \in hopeless
        BY <1>1, <2>1, <2>2 DEF GivesUpOn, Objects
      <3> QED
        BY <2>1, <3>1 DEF Return, Awake, GivesUpOn
    <2>3. CASE res # "done"
      BY <2>1, <2>3 DEF Return, Results, Awake, GivesUpOn
    <2> QED
      BY <2>2, <2>3
  <1>7. CASE EnsureAbsent
    BY <1>7 DEF EnsureAbsent, Accepted, Refused, Return, Awake, GivesUpOn
  <1>8. CASE GivesUpOn(hopeless)' /\ (pc' = "idle" => queued' \/ timer')
    BY <1>8 DEF Awake
  <1> QED
    BY <1>2, <1>3, <1>4, <1>5, <1>6, <1>7, <1>8 DEF SharedStep

-----------------------------------------------------------------------------
(* Kinds whose status records the ID of the one entity they stand for.     *)

RecordedId(o) == IF o = None THEN None ELSE o.status.id

(* No ID is known before it was handed out: none exceeds the last one.     *)
CopiesUpTo(last) ==
  /\ \A o \in {cr, cached, obj} \ {None} :
       o.status.id # None => o.status.id <= last
  /\ st # None /\ st.id # None => st.id <= last

(* Nothing is recorded before the finalizer is stored.                     *)
BareRecordsNothing == cr # None /\ ~cr.finalizer => cr.status.id = None

(* No reconciliation gives an object that is being deleted another ID,     *)
DoomedKeepsRecord ==
  pc = "persist" /\ st.id # obj.status.id => ~obj.deleting

(* so any copy of such an object shows the ID that is stored.              *)
DoomedRecordIsFrozen ==
  \A o \in {cached, obj} \ {None} :
    o.deleting /\ cr # None /\ cr.uid = o.uid => cr.status.id = o.status.id

(* A copy of a deleted object that has gone since records nothing that is  *)
(* still there, ids being what is: acting on it once more does no harm.    *)
GoneIsCleanedUp(ids) ==
  \A o \in {cached, obj} \ {None} :
    o.deleting /\ (cr = None \/ cr.uid # o.uid) => o.status.id \notin ids

(* CopiesUpTo is kept if the IDs that a step puts into the working status  *)
(* were handed out.                                                        *)
LEMMA CopiesUpToKept ==
  ASSUME NEW Statuses, NEW Steps, NEW e \in Statuses, Kind(Statuses, Steps),
         LifecycleTypeOK(Statuses, Steps), LifecycleInv,
         LifecycleStep(Statuses, Steps, e),
         \A s \in Statuses : s.id # None => s.id \in Int,
         e.id = None, NEW last \in Int, NEW next \in Int, last <= next,
         CopiesUpTo(last),
         pc # "idle" /\ st' \notin {st, None} /\ st'.id # None => st'.id <= next
  PROVE  CopiesUpTo(next)'
  <1> DEFINE good == {s \in Statuses : s.id # None => s.id <= next}
  <1>1. /\ \A o \in {cr, cached, obj} \ {None} : o.status \in Statuses
        /\ st # None => st \in Statuses
    BY ObjectFields DEF LifecycleTypeOK
  <1>2. StatusesIn(good)
    BY <1>1 DEF CopiesUpTo, StatusesIn
  <1>3. pc # "idle" /\ st' \notin {st, None} => st' \in good
    <2>1. st' \in Statuses \cup {None}
      BY LifecycleKept DEF LifecycleTypeOK
    <2> QED
      BY <2>1
  <1>4. /\ \A o \in {cr', cached', obj'} \ {None} : o.status \in good
        /\ st' # None => st' \in good
    <2>1. e \in good
      OBVIOUS
    <2> HIDE DEF good
    <2> QED
      BY <1>2, <1>3, <2>1, StatusesInKept
  <1> QED
    BY <1>4 DEF CopiesUpTo

(* BareRecordsNothing is kept.                                             *)
LEMMA BareRecordsNothingKept ==
  ASSUME NEW Statuses, NEW Steps, NEW e \in Statuses, Kind(Statuses, Steps),
         LifecycleTypeOK(Statuses, Steps), LifecycleInv,
         LifecycleStep(Statuses, Steps, e), e.id = None, BareRecordsNothing
  PROVE  BareRecordsNothing'
  <1>1. pc = "persist" => obj.finalizer
    BY DEF LifecycleInv, StepFitsObject
  <1> QED
    BY <1>1, StoredByStep DEF BareRecordsNothing

(* DoomedRecordIsFrozen is kept.                                           *)
LEMMA DoomedRecordIsFrozenKept ==
  ASSUME NEW Statuses, NEW Steps, NEW e \in Statuses, Kind(Statuses, Steps),
         LifecycleTypeOK(Statuses, Steps), LifecycleInv,
         LifecycleStep(Statuses, Steps, e),
         DoomedKeepsRecord, DoomedRecordIsFrozen
  PROVE  DoomedRecordIsFrozen'
  <1> SUFFICES ASSUME NEW o \in {cached', obj'} \ {None}, o.deleting,
                      cr' # None, cr'.uid = o.uid
               PROVE  cr'.status.id = o.status.id
    BY DEF DoomedRecordIsFrozen
  <1>1. CASE o = cr /\ cr' = cr
    BY <1>1
  <1>2. CASE o \in {cached, obj}
    <2>1. o # None /\ Follows(o) /\ o \in Objects(Statuses)
      BY <1>2 DEF LifecycleInv, LifecycleTypeOK
    <2>2. CASE cr' = cr
      BY <1>2, <2>2 DEF DoomedRecordIsFrozen
    <2>3. CASE cr' # cr
      <3>1. cr # None /\ cr'.uid = cr.uid
        <4>1. o.uid \in Int /\ o.uid <= lastUid /\ lastUid \in Int
          BY <2>1, ObjectFields, BoundsAssumption DEF Follows, LifecycleTypeOK
        <4> QED
          BY <2>3, <4>1, StoredByStep
      <3>2. cr.deleting /\ cr.status.id = o.status.id
        BY <1>2, <2>1, <3>1 DEF DoomedRecordIsFrozen, Follows
      <3> QED
        BY <2>3, <3>1, <3>2, StoredByStep DEF DoomedKeepsRecord
    <2> QED
      BY <2>2, <2>3
  <1> QED
    BY <1>1, <1>2, CopiesByStep

(* GoneIsCleanedUp is kept if a step brings no ID back and the object is   *)
(* only released when what it records is not there.                        *)
LEMMA GoneIsCleanedUpKept ==
  ASSUME NEW Statuses, NEW Steps, NEW e \in Statuses, Kind(Statuses, Steps),
         LifecycleTypeOK(Statuses, Steps), LifecycleInv,
         LifecycleStep(Statuses, Steps, e), NEW ids, NEW nextIds,
         \A o \in {cached, obj} \ {None} :
           o.status.id \in nextIds => o.status.id \in ids,
         pc = "release" => obj.status.id \notin ids,
         DoomedRecordIsFrozen, GoneIsCleanedUp(ids)
  PROVE  GoneIsCleanedUp(nextIds)'
  <1> SUFFICES ASSUME NEW o \in {cached', obj'} \ {None}, o.deleting,
                      cr' = None \/ cr'.uid # o.uid
               PROVE  o.status.id \notin nextIds
    BY DEF GoneIsCleanedUp
  <1>1. CASE o = cr /\ cr' = cr
    BY <1>1
  <1>2. CASE o \in {cached, obj}
    <2>1. o # None /\ Follows(o)
      BY <1>2 DEF LifecycleInv
    <2>2. CASE cr = None \/ cr.uid # o.uid
      BY <1>2, <2>1, <2>2 DEF GoneIsCleanedUp
    <2>3. CASE cr # None /\ cr.uid = o.uid
      <3>1. /\ cr.deleting /\ cr.finalizer
            /\ cr.status.id = o.status.id /\ cr' # cr
        BY <1>2, <2>1, <2>3 DEF Follows, DoomedRecordIsFrozen, LifecycleInv
      <3>2. cr' = None
        BY <2>3, <3>1, StoredByStep
      <3>3. pc = "release" /\ cr = obj
        BY <2>3, <3>1, <3>2, GoneByStep
      <3> QED
        BY <1>2, <2>1, <3>1, <3>3
    <2> QED
      BY <2>2, <2>3
  <1> QED
    BY <1>1, <1>2, CopiesByStep

(* How a step shows in what Custody sees of the object.                    *)
LEMMA PhaseByStep ==
  ASSUME NEW Statuses, NEW Steps, NEW e \in Statuses, Kind(Statuses, Steps),
         LifecycleTypeOK(Statuses, Steps), LifecycleInv,
         SharedStep(e), e.id = None, BareRecordsNothing, DoomedKeepsRecord
  PROVE  \/ UNCHANGED <<ObjectPhase(cr), RecordedId(cr)>>
         \/ /\ \/ ObjectPhase(cr) = "none" /\ ObjectPhase(cr)' = "bare"
               \/ /\ ObjectPhase(cr) = "bare"
                  /\ ObjectPhase(cr)' \in {"none", "kept"}
               \/ ObjectPhase(cr) = "kept" /\ ObjectPhase(cr)' = "doomed"
            /\ UNCHANGED RecordedId(cr)
         \/ /\ pc = "persist" /\ cr = obj /\ st.id # obj.status.id
            /\ ObjectPhase(cr) = "kept" /\ ObjectPhase(cr)' = "kept"
            /\ RecordedId(cr)' = st.id
         \/ /\ pc = "release" /\ cr = obj
            /\ ObjectPhase(cr) = "doomed" /\ ObjectPhase(cr)' = "none"
            /\ RecordedId(cr)' = None
  <1> USE DEF ObjectPhase, RecordedId
  <1>1. /\ cr # None => cr \in Objects(Statuses)
        /\ cr # None => (cr.deleting => cr.finalizer)
        /\ None \notin Objects(Statuses)
    BY DEF LifecycleTypeOK, LifecycleInv, Kind
  <1>2. CASE UNCHANGED cr
    BY <1>2
  <1>3. ASSUME NEW s \in Specs, UserCreate(s, e)
        PROVE  /\ ObjectPhase(cr) = "none" /\ ObjectPhase(cr)' = "bare"
               /\ UNCHANGED RecordedId(cr)
    <2>1. cr = None /\ cr' \in Objects(Statuses)
      BY <1>3, BoundsAssumption DEF UserCreate, LifecycleTypeOK, Objects
    <2>2. ~cr'.finalizer /\ cr'.status.id = None
      BY <1>3 DEF UserCreate
    <2> QED
      BY <1>1, <2>1, <2>2
  <1>4. ASSUME NEW s \in Specs, UserEdit(s)
        PROVE  UNCHANGED <<ObjectPhase(cr), RecordedId(cr)>>
    <2>1. cr # None /\ cr.gen + 1 \in 1..MaxGen
      BY <1>1, <1>4, ObjectFields, BoundsAssumption DEF UserEdit
    <2>2. /\ cr' \in Objects(Statuses) /\ cr'.status = cr.status
          /\ cr'.deleting = cr.deleting /\ cr'.finalizer = cr.finalizer
      BY <1>1, <1>4, <2>1 DEF UserEdit, Objects
    <2> QED
      BY <1>1, <2>1, <2>2
  <1>5. CASE UserDelete
    <2>1. cr # None /\ ~cr.deleting /\ cr \in Objects(Statuses)
      BY <1>1, <1>5 DEF UserDelete
    <2>2. CASE cr.finalizer
      <3>1. /\ cr' \in Objects(Statuses) /\ cr'.status = cr.status
            /\ cr'.deleting /\ cr'.finalizer
        BY <1>5, <2>1, <2>2 DEF UserDelete, Objects
      <3> QED
        BY <1>1, <2>1, <2>2, <3>1
    <2>3. CASE ~cr.finalizer
      BY <1>5, <2>1, <2>3 DEF UserDelete, BareRecordsNothing
    <2> QED
      BY <2>2, <2>3
  <1>6. CASE EnsurePresent /\ cr' # cr
    <2>1. /\ cr = obj /\ cr # None /\ ~cr.deleting /\ ~cr.finalizer
          /\ cr' = [cr EXCEPT !.finalizer = TRUE]
      BY <1>6 DEF EnsurePresent, Accepted, Refused, LifecycleInv,
         StepFitsObject
    <2>2. /\ cr' \in Objects(Statuses) /\ cr'.status = cr.status
          /\ ~cr'.deleting /\ cr'.finalizer
      BY <1>1, <2>1 DEF Objects
    <2>3. cr' # None
      BY <1>1, <2>2
    <2>4. ObjectPhase(cr) = "bare" /\ ObjectPhase(cr)' = "kept"
      BY <2>1, <2>2, <2>3
    <2>5. UNCHANGED RecordedId(cr)
      BY <2>1, <2>2, <2>3
    <2> QED
      BY <2>4, <2>5
  <1>7. CASE SetConditionAndPersist /\ cr' # cr
    <2>1. /\ pc = "persist" /\ cr = obj /\ cr # None /\ cr.finalizer
          /\ cr' = [cr EXCEPT !.status = st] /\ st \in Statuses
      BY <1>7 DEF SetConditionAndPersist, Accepted, Refused, LifecycleInv,
                  StepFitsObject, LifecycleTypeOK
    <2>2. /\ cr' \in Objects(Statuses) /\ cr'.status = st
          /\ cr'.deleting = cr.deleting /\ cr'.finalizer
      BY <1>1, <2>1 DEF Objects
    <2> QED
      BY <1>1, <2>1, <2>2 DEF DoomedKeepsRecord
  <1>8. CASE EnsureAbsent /\ cr' # cr
    BY <1>8 DEF EnsureAbsent, Accepted, Refused, LifecycleInv, StepFitsObject
  <1> QED
    BY <1>2, <1>3, <1>4, <1>5, <1>6, <1>7, <1>8
       DEF SharedStep, PrereqsLost, PrereqsRestored, CacheSync, TimerFires,
           Crash, Dequeue

=============================================================================
