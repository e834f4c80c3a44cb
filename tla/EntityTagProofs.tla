---------------------------- MODULE EntityTagProofs ----------------------------
(***************************************************************************)
(* Proofs about EntityTag, for every value of its constants: the           *)
(* accounting of labels is inductive together with what it rests on        *)
(* (IInv), and so is, on top of it, that what the status of a live         *)
(* resource records is true of OpenMetadata (ClaimsInv).                   *)
(***************************************************************************)
EXTENDS EntityTag, ManagedResourceProofs

(* Until the status write the working status is the one that was read.     *)
WorkingStatus == pc \notin {"idle", "persist"} => st = obj.status

(* A status that lists assets names the tag they have.                     *)
Proper == {s \in Statuses : s.assets = {} \/ s.tag \in Tags}

(* A label goes with its tag.                                              *)
LabelsHaveTags == labels \subseteq Assets \X tags

(* Nothing is listed before the finalizer is stored.                       *)
BareListsNothing == cr # None /\ ~cr.finalizer => cr.status.assets = {}

(* The finalizer is up for release when the listed labels are gone.        *)
ReleasedIsClean == pc = "release" => labels \cap Assignments(obj.status) = {}

(* A status write forgets no label that the status listed before.          *)
WriteForgetsNothing ==
  pc = "persist" => labels \cap Assignments(obj.status) \subseteq Assignments(st)

IInv ==
  /\ TypeOK
  /\ LifecycleInv
  /\ WorkingStatus
  /\ StatusesIn(Proper)
  /\ LabelsHaveTags
  /\ BareListsNothing
  /\ ReleasedIsClean
  /\ WriteForgetsNothing
  /\ EveryLabelAccountedFor

-----------------------------------------------------------------------------
(* What steps do to Kubernetes.                                            *)

(* Entity tags fit the lemmas about every kind.                            *)
LEMMA KindFacts ==
  /\ Kind(Statuses, Steps)
  /\ EmptyStatus \in Proper /\ EmptyStatus.assets = {}
  /\ Proper \subseteq Statuses
  <1>1. EmptyStatus \in Proper /\ EmptyStatus.assets = {}
    BY BoundsAssumption DEF EmptyStatus, Statuses, Proper
  <1>2. None \notin Objects(Statuses) \cup Statuses
    BY NoneAssumption
  <1> QED
    BY <1>1, <1>2 DEF Kind, Steps, Proper

(* What a reconciliation in flight works on.                               *)
LEMMA InFlight ==
  ASSUME TypeOK, LifecycleInv, pc # "idle"
  PROVE  /\ obj \in Objects(Statuses) /\ obj # None
         /\ st \in Statuses /\ st # None
         /\ obj.spec \in Specs /\ obj.status \in Statuses
         /\ obj.gen \in 1..MaxGen /\ TagOf[obj.spec] \in Tags
         /\ pc # "addFinalizer" => obj.finalizer
         /\ pc \in {"delete", "release"} => obj.deleting
         /\ pc \notin {"persist", "delete", "release"} => ~obj.deleting
  <1>1. LifecycleTypeOK(Statuses, Steps)
    BY DEF TypeOK
  <1> QED
    BY <1>1, InReconciliation, SpecsAssumption

(* The status of a failed reconciliation lists the labels of the old one.  *)
LEMMA NotReadyStatus ==
  ASSUME st \in Statuses
  PROVE  /\ NotReady \in Statuses
         /\ NotReady.assets = st.assets /\ NotReady.tag = st.tag
         /\ Assignments(NotReady) = Assignments(st)
  BY DEF NotReady, Statuses, Assignments

(* The status of one that got through lists what the search found.         *)
LEMMA AppliedStatus ==
  ASSUME TypeOK, LifecycleInv, pc = "remove"
  PROVE  /\ Applied \in Proper
         /\ Applied.assets = matched
         /\ Assignments(Applied) = matched \X {TagOf[obj.spec]}
  <1>1. /\ st \in Statuses /\ matched \subseteq Assets
        /\ obj.gen \in 0..MaxGen /\ TagOf[obj.spec] \in Tags
    BY InFlight, BoundsAssumption DEF TypeOK
  <1> DEFINE tag == IF matched = {} THEN None ELSE TagOf[obj.spec]
  <1>2. tag \in Tags \cup {None}
    BY <1>1
  <1>3. Applied = [st EXCEPT !.tag = tag, !.assets = matched,
                             !.observed = obj.gen, !.ready = "True"]
    BY DEF Applied
  <1>4. /\ Applied \in Statuses
        /\ Applied.assets = matched /\ Applied.tag = tag
    <2> HIDE DEF tag
    <2> QED
      BY <1>1, <1>2, <1>3 DEF Statuses
  <1> QED
    BY <1>1, <1>4 DEF Assignments, Proper

HandlerSteps ==
  Observe \/ Search \/ SearchMisses \/ BulkAdd \/ BulkRemove \/ Delete

(* The ways out of a step of the handler.                                  *)
LEMMA WaysOut ==
  ASSUME TypeOK, LifecycleInv, HandlerSteps
  PROVE  /\ pc \in {"observe", "search", "add", "remove", "delete"}
         /\ UNCHANGED <<cr, cached, prereqs, lastUid, catalog, tags>>
         /\ Fault \/ UNCHANGED faults
         /\ \/ pc # "delete" /\ pc' \in {"search", "add", "remove"} /\ Goto(pc')
            \/ pc = "delete" /\ pc' = "release" /\ Goto(pc')
            \/ Delete /\ Return("error")
            \/ GotoPersist(NotReady, "error")
            \/ BulkRemove /\ GotoPersist(Applied, "requeue")
  <1>1. CASE Observe \/ Search \/ SearchMisses
    BY <1>1 DEF Observe, Search, SearchMisses, Failed, Goto
  <1>2. CASE BulkAdd
    BY <1>2 DEF BulkAdd, Failed, Goto
  <1>3. CASE BulkRemove
    BY <1>3 DEF BulkRemove, Failed
  <1>4. CASE Delete
    BY <1>4 DEF Delete, Failed, Goto
  <1> QED
    BY <1>1, <1>2, <1>3, <1>4 DEF HandlerSteps

(* The steps that leave labels and their history alone.                    *)
QuietSteps ==
  Users \/ PrereqsRestored \/ CacheSync \/ TimerFires \/ Dequeue
        \/ EnsurePresent \/ EnsureAbsent

(* Every step is one of these, the end of a reconciliation, one of the     *)
(* handler, or one of others.                                              *)
LEMMA StepKinds ==
  ASSUME [Next]_vars
  PROVE  \/ QuietSteps /\ SharedStep(EmptyStatus) /\ UNCHANGED tagVars
         \/ Persist \/ CrashAndRestart
         \/ HandlerSteps
         \/ Others
         \/ UNCHANGED vars
  BY DEF Next, Worker, Users, QuietSteps, SharedStep, HandlerSteps

(* Every step is one that the lemmas about all kinds cover.                *)
LEMMA NextIsLifecycleStep ==
  ASSUME TypeOK, LifecycleInv, [Next]_vars
  PROVE  LifecycleStep(Statuses, Steps, EmptyStatus)
  <1>1. CASE HandlerSteps
    <2> DEFINE ToPersist == \E status \in Statuses, result \in Results :
                              GotoPersist(status, result)
               Onward == /\ pc' \in Steps \ {"idle", "addFinalizer", "persist"}
                         /\ pc' \in {"delete", "release"} <=> obj.deleting
                         /\ st' \in Statuses
                         /\ UNCHANGED <<queued, timer, obj, res>>
    <2>1. /\ pc \in {"observe", "search", "add", "remove", "delete"}
          /\ UNCHANGED <<cr, cached, prereqs, lastUid>>
          /\ Fault \/ UNCHANGED faults
          /\ \/ pc # "delete" /\ pc' \in {"search", "add", "remove"} /\ Goto(pc')
             \/ pc = "delete" /\ pc' = "release" /\ Goto(pc')
             \/ Return("error")
             \/ GotoPersist(NotReady, "error")
             \/ BulkRemove /\ GotoPersist(Applied, "requeue")
      BY <1>1, WaysOut
    <2>2. CASE \/ pc # "delete" /\ pc' \in {"search", "add", "remove"} /\ Goto(pc')
               \/ pc = "delete" /\ pc' = "release" /\ Goto(pc')
      <3>1. Onward
        BY <2>1, <2>2, InFlight DEF Goto, Steps
      <3> QED
        BY <2>1, <3>1 DEF LifecycleStep, HandlerStep, Steps
    <2>3. CASE Return("error")
      BY <2>1, <2>3 DEF LifecycleStep, HandlerStep, Steps, Results
    <2>4. CASE \/ GotoPersist(NotReady, "error")
               \/ BulkRemove /\ GotoPersist(Applied, "requeue")
      <3>1. NotReady \in Statuses /\ (BulkRemove => Applied \in Statuses)
        BY <2>1, InFlight, NotReadyStatus, AppliedStatus DEF BulkRemove, Proper
      <3>2. ToPersist
        BY <2>4, <3>1 DEF Results
      <3> QED
        BY <2>1, <3>2 DEF LifecycleStep, HandlerStep, Steps
    <2> QED
      BY <2>1, <2>2, <2>3, <2>4
  <1>2. CASE Others
    BY <1>2 DEF Others, Ingest, Drop, Untag, DropTag, RestoreTag, External,
                LifecycleStep
  <1>3. CASE UNCHANGED vars
    BY <1>3 DEF vars, LifecycleStep
  <1> QED
    BY <1>1, <1>2, <1>3, StepKinds
       DEF Persist, CrashAndRestart, LifecycleStep, SharedStep

-----------------------------------------------------------------------------
(* What steps do to OpenMetadata.                                          *)

(* Only a bulk addition brings labels, the one it is about and of a tag    *)
(* that is there; a tag that goes takes its labels along.                   *)
LEMMA LabelsByStep ==
  ASSUME TypeOK, LifecycleInv, [Next]_vars
  PROVE  /\ \/ labels' \subseteq labels
            \/ /\ pc = "add" /\ BulkAdd
               /\ TagOf[obj.spec] \in tags
               /\ labels' \subseteq labels \cup Labelled(ToAdd, TagOf[obj.spec])
         /\ tags' \subseteq Tags
         /\ \A l \in labels \cap labels' : l[2] \notin tags \ tags'
  <1>0. tags \subseteq Tags
    BY DEF TypeOK
  <1>1. CASE UNCHANGED tagVars \/ Persist \/ CrashAndRestart
    BY <1>0, <1>1 DEF tagVars, Persist, CrashAndRestart
  <1>2. CASE Observe \/ Search \/ SearchMisses \/ BulkRemove \/ Delete
    BY <1>0, <1>2 DEF Observe, Search, SearchMisses, BulkRemove, Delete
  <1>3. CASE BulkAdd
    <2>1. ToAdd = {} => Labelled(ToAdd, TagOf[obj.spec]) = {}
      BY DEF Labelled
    <2> QED
      BY <1>0, <1>3, <2>1 DEF BulkAdd
  <1>4. CASE Others
    <2>1. tags' \subseteq Tags
      BY <1>0, <1>4 DEF Others, Ingest, Drop, Untag, DropTag, RestoreTag
    <2>2. /\ labels' \subseteq labels
          /\ \A l \in labels \cap labels' : l[2] \notin tags \ tags'
      BY <1>4 DEF Others, Ingest, Drop, Untag, DropTag, RestoreTag
    <2> QED
      BY <2>1, <2>2
  <1> QED
    BY <1>1, <1>2, <1>3, <1>4, StepKinds DEF HandlerSteps, vars

(* What others do, as far as Kubernetes is concerned: nothing.             *)
LEMMA OthersElsewhere ==
  ASSUME Others
  PROVE  /\ UNCHANGED <<lifecycleVars, matched, lost>>
         /\ \/ UNCHANGED external
            \/ external < MaxExternal /\ external' = external + 1
  BY DEF Others, Ingest, Drop, Untag, DropTag, RestoreTag, External

(* The labels a status write not accepted would leave unrecorded, by step. *)
LEMMA UnrecordedByStep ==
  /\ pc = "remove" => Unrecorded = Labelled(ToAdd, TagOf[obj.spec])
  /\ pc = "persist" => Unrecorded = Assignments(st)
  /\ pc \notin {"remove", "persist"} => Unrecorded = {}
  BY DEF Unrecorded

(* What is to be added was found, what is to be removed is listed, and     *)
(* what is neither keeps its label.                                        *)
LEMMA PlanTypes ==
  ASSUME TypeOK, LifecycleInv, StatusesIn(Proper), pc \in {"add", "remove"}
  PROVE  /\ ToAdd \subseteq matched
         /\ Labelled(ToAdd, TagOf[obj.spec]) \subseteq Labels
         /\ ToRemove \X {OldTag} \subseteq Labels
         /\ Assignments(obj.status) \ (ToRemove \X {OldTag})
              \subseteq matched \X {TagOf[obj.spec]}
         /\ (matched \ ToAdd) \X {TagOf[obj.spec]} \subseteq Assignments(obj.status)
  <1>1. /\ matched \subseteq Assets /\ obj.status \in Proper
        /\ TagOf[obj.spec] \in Tags
    BY InFlight DEF TypeOK, StatusesIn
  <1>2. CASE Renaming
    BY <1>1, <1>2 DEF ToAdd, ToRemove, OldTag, Renaming, Labelled, Labels,
                      Assignments, Proper, Statuses
  <1>3. CASE ~Renaming
    BY <1>1, <1>3 DEF ToAdd, ToRemove, OldTag, Renaming, Labelled, Labels,
                      Assignments, Proper, Statuses
  <1> QED
    BY <1>2, <1>3

(* Assignments of a proper status are labels.                              *)
LEMMA ProperAssignments ==
  ASSUME NEW s \in Proper
  PROVE  Assignments(s) \subseteq Labels
  BY DEF Proper, Statuses, Assignments, Labels

(* What would be lost now is labels.                                       *)
LEMMA UnrecordedType ==
  ASSUME TypeOK, LifecycleInv, StatusesIn(Proper)
  PROVE  Unrecorded \subseteq Labels
  <1>1. CASE pc = "remove"
    BY <1>1, UnrecordedByStep, PlanTypes
  <1>2. CASE pc = "persist"
    BY <1>2, InFlight, UnrecordedByStep, ProperAssignments DEF StatusesIn
  <1> QED
    BY <1>1, <1>2, UnrecordedByStep

(* Every step keeps the types and LifecycleInv.                            *)
LEMMA NextTypes ==
  ASSUME TypeOK, LifecycleInv, StatusesIn(Proper), [Next]_vars
  PROVE  TypeOK' /\ LifecycleInv'
  <1>1. LifecycleTypeOK(Statuses, Steps)' /\ LifecycleInv'
    BY NextIsLifecycleStep, LifecycleKept, KindFacts DEF TypeOK
  <1>2. tags' \subseteq Tags
    BY LabelsByStep DEF TypeOK
  <1>3. labels' \subseteq Labels
    BY LabelsByStep, PlanTypes DEF TypeOK
  <1>4. catalog' \in [Assets -> {"absent", "present", "gone"}]
    <2>1. \/ UNCHANGED catalog
          \/ \E a \in Assets : Ingest(a) \/ Drop(a)
      BY WaysOut, StepKinds
         DEF tagVars, vars, Persist, CrashAndRestart, Others, Untag, DropTag,
             RestoreTag
    <2> QED
      BY <2>1 DEF Ingest, Drop, TypeOK
  <1>5. external' \in 0..MaxExternal
    <2>1. \/ UNCHANGED external
          \/ external < MaxExternal /\ external' = external + 1
      BY StepKinds, OthersElsewhere
         DEF tagVars, vars, Persist, CrashAndRestart, HandlerSteps, Observe,
             Search, SearchMisses, BulkAdd, BulkRemove, Delete
    <2> QED
      BY <2>1, SpecsAssumption DEF TypeOK
  <1>6. matched' \subseteq Assets
    <2>1. CASE Search \/ SearchMisses
      <3>1. SearchEntities(obj.spec) \subseteq Assets
        BY DEF SearchEntities, Present
      <3> QED
        BY <2>1, <3>1 DEF Search, SearchMisses, Failed
    <2> QED
      BY <2>1, StepKinds, OthersElsewhere
         DEF TypeOK, tagVars, vars, Persist, CrashAndRestart, HandlerSteps,
             Observe, BulkAdd, BulkRemove, Delete, Failed
  <1>7. lost' \subseteq Labels /\ torn' \subseteq Labels
    <2>1. CASE Persist \/ CrashAndRestart
      BY <2>1, UnrecordedType DEF Persist, CrashAndRestart, TypeOK
    <2>2. CASE BulkAdd
      BY <2>2, PlanTypes DEF BulkAdd, TypeOK
    <2>3. CASE BulkRemove
      BY <2>3, PlanTypes DEF BulkRemove, TypeOK
    <2>4. CASE Others
      BY <2>4 DEF Others, Ingest, Drop, Untag, DropTag, RestoreTag, External,
                  TypeOK
    <2> QED
      BY <2>1, <2>2, <2>3, <2>4, StepKinds
         DEF TypeOK, tagVars, vars, HandlerSteps, Observe, Search,
             SearchMisses, Delete
  <1> QED
    BY <1>1, <1>2, <1>3, <1>4, <1>5, <1>6, <1>7 DEF TypeOK

(* Every status is proper: a handler lists what it found with the tag of   *)
(* the spec.                                                               *)
LEMMA NextProper ==
  ASSUME TypeOK, LifecycleInv, StatusesIn(Proper), [Next]_vars
  PROVE  StatusesIn(Proper)'
  <1>1. pc # "idle" /\ st' \notin {st, None} => st' \in Proper
    <2> SUFFICES ASSUME pc # "idle", st' \notin {st, None}
                 PROVE  st' \in Proper
      OBVIOUS
    <2>1. HandlerSteps
      BY StepKinds, OthersElsewhere
         DEF SharedStep, UserCreate, UserEdit, UserDelete, PrereqsLost,
             PrereqsRestored, CacheSync, TimerFires, Crash, Dequeue,
             EnsurePresent, SetConditionAndPersist, EnsureAbsent, Return,
             Persist, CrashAndRestart, vars, lifecycleVars
    <2>2. st \in Proper /\ st \in Statuses
      BY InFlight DEF StatusesIn
    <2>3. st' = NotReady \/ (BulkRemove /\ st' = Applied)
      BY <2>1, WaysOut DEF Goto, GotoPersist, Return
    <2>4. NotReady \in Proper
      BY <2>2, NotReadyStatus DEF Proper
    <2> QED
      BY <2>3, <2>4, AppliedStatus DEF BulkRemove
  <1>2. /\ LifecycleStep(Statuses, Steps, EmptyStatus)
        /\ LifecycleTypeOK(Statuses, Steps) /\ EmptyStatus \in Statuses
    BY NextIsLifecycleStep, KindFacts DEF TypeOK
  <1>3. /\ \A o \in {cr', cached', obj'} \ {None} : o.status \in Proper
        /\ st' # None => st' \in Proper
    BY <1>1, <1>2, KindFacts, StatusesInKept
  <1> QED
    BY <1>3 DEF StatusesIn

-----------------------------------------------------------------------------
(* The accounting of labels.                                               *)

(* The initial states.                                                     *)
LEMMA InitInv == Init => IInv
  <1> SUFFICES ASSUME Init PROVE IInv
    OBVIOUS
  <1>1. LifecycleTypeOK(Statuses, Steps)
    <2>1. lastUid \in 0..MaxUid /\ faults \in 0..MaxFaults
      BY BoundsAssumption DEF Init, LifecycleInit
    <2>2. queued \in BOOLEAN /\ timer \in BOOLEAN /\ prereqs \in BOOLEAN
      BY Zenon DEF Init, LifecycleInit
    <2> QED
      BY <2>1, <2>2 DEF Init, LifecycleInit, LifecycleTypeOK, Steps, Results
  <1>2. TypeOK
    BY <1>1, SpecsAssumption DEF Init, TypeOK
  <1>3. LifecycleInv /\ WorkingStatus /\ StatusesIn(Proper)
    BY DEF Init, LifecycleInit, LifecycleInv, StepFitsObject, WorkingStatus,
           StatusesIn
  <1>4. /\ LabelsHaveTags /\ BareListsNothing /\ ReleasedIsClean
        /\ WriteForgetsNothing /\ EveryLabelAccountedFor
    BY DEF Init, LifecycleInit, LabelsHaveTags, BareListsNothing,
           ReleasedIsClean, WriteForgetsNothing, EveryLabelAccountedFor
  <1> QED
    BY <1>2, <1>3, <1>4 DEF IInv

(* Where a reconciliation can be after a step.                             *)
LEMMA ReconciliationByStep ==
  ASSUME TypeOK, LifecycleInv, [Next]_vars
  PROVE  \/ UNCHANGED <<pc, obj, st>>
         \/ pc' = "idle"
         \/ pc = "idle" /\ Dequeue /\ obj' = cached /\ st' = obj'.status
         \/ /\ HandlerSteps /\ pc' # pc /\ UNCHANGED obj
            /\ pc' \in {"search", "add", "remove", "release", "persist"}
            /\ pc' # "persist" => UNCHANGED st
            /\ pc' = "persist" => st' = NotReady \/ (BulkRemove /\ st' = Applied)
            /\ pc' = "release" => Delete
            /\ pc' = "remove" => BulkAdd
  <1>1. CASE HandlerSteps
    <2>1. pc' = "remove" => BulkAdd
      BY <1>1 DEF HandlerSteps, Observe, Search, SearchMisses, BulkRemove,
                  Delete, Failed, Goto, GotoPersist, Return
    <2>2. pc' = "release" => Delete
      BY <1>1 DEF HandlerSteps, Observe, Search, SearchMisses, BulkAdd,
                  BulkRemove, Failed, Goto, GotoPersist
    <2>3. pc' # pc
      BY <1>1 DEF HandlerSteps, Observe, Search, SearchMisses, BulkAdd,
                  BulkRemove, Delete, Failed, Goto, GotoPersist, Return
    <2> QED
      BY <1>1, <2>1, <2>2, <2>3, WaysOut DEF Goto, GotoPersist, Return
  <1>2. CASE Dequeue
    BY <1>2 DEF Dequeue
  <1> QED
    BY <1>1, <1>2, StepKinds, OthersElsewhere
       DEF SharedStep, UserCreate, UserEdit, UserDelete, PrereqsLost,
           PrereqsRestored, CacheSync, TimerFires, Crash, EnsurePresent,
           SetConditionAndPersist, EnsureAbsent, Return, Persist,
           CrashAndRestart, vars, lifecycleVars

(* Every step keeps the conjuncts about one reconciliation.                *)
LEMMA NextReconciliation ==
  ASSUME IInv, [Next]_vars
  PROVE  WorkingStatus' /\ BareListsNothing'
  <1>1. TypeOK /\ LifecycleInv /\ WorkingStatus /\ BareListsNothing
    BY DEF IInv
  <1>2. WorkingStatus'
    <2>1. HandlerSteps => pc \notin {"idle", "persist"}
      BY <1>1, WaysOut
    <2> QED
      BY <1>1, <2>1, ReconciliationByStep DEF WorkingStatus
  <1>3. BareListsNothing'
    <2>1. pc = "persist" => obj.finalizer
      BY <1>1 DEF LifecycleInv, StepFitsObject
    <2>2. /\ LifecycleStep(Statuses, Steps, EmptyStatus)
          /\ LifecycleTypeOK(Statuses, Steps) /\ EmptyStatus \in Statuses
      BY <1>1, NextIsLifecycleStep, KindFacts DEF TypeOK
    <2> QED
      BY <1>1, <2>1, <2>2, StoredByStep, KindFacts DEF BareListsNothing
  <1> QED
    BY <1>2, <1>3

(* Every step keeps LabelsHaveTags.                                        *)
LEMMA NextLabelsHaveTags ==
  ASSUME IInv, [Next]_vars
  PROVE  LabelsHaveTags'
  <1>1. /\ TypeOK /\ LifecycleInv /\ LabelsHaveTags /\ StatusesIn(Proper)
    BY DEF IInv
  <1>2. /\ \A l \in labels \cap labels' : l[2] \notin tags \ tags'
        /\ labels \subseteq Assets \X tags
    BY <1>1, LabelsByStep DEF LabelsHaveTags
  <1>3. CASE labels' \subseteq labels
    BY <1>2, <1>3 DEF LabelsHaveTags
  <1>4. CASE /\ pc = "add" /\ BulkAdd /\ TagOf[obj.spec] \in tags
             /\ labels' \subseteq labels \cup Labelled(ToAdd, TagOf[obj.spec])
    <2>1. tags' = tags
      BY <1>4 DEF BulkAdd
    <2>2. Labelled(ToAdd, TagOf[obj.spec]) \subseteq Assets \X {TagOf[obj.spec]}
      BY DEF Labelled, Present
    <2> QED
      BY <1>2, <1>4, <2>1, <2>2 DEF LabelsHaveTags
  <1> QED
    BY <1>1, <1>3, <1>4, LabelsByStep

(* Every step keeps ReleasedIsClean: HandleDeletion removed the labels, or *)
(* they had gone with their tag.                                           *)
LEMMA NextReleasedIsClean ==
  ASSUME IInv, [Next]_vars
  PROVE  ReleasedIsClean'
  <1>1. TypeOK /\ LifecycleInv
    BY DEF IInv
  <1>2. CASE UNCHANGED <<pc, obj>> /\ pc = "release"
    <2>1. labels' \subseteq labels
      BY <1>1, <1>2, LabelsByStep
    <2> QED
      BY <1>2, <2>1 DEF IInv, ReleasedIsClean, Assignments
  <1>3. CASE Delete /\ pc' = "release" /\ UNCHANGED obj
    <2>1. /\ pc = "delete"
          /\ st.assets = {} \/ st.tag \notin tags \/ labels' = labels \ Assignments(st)
          /\ labels' \subseteq labels
      BY <1>3 DEF Delete, Failed, GotoPersist, Return
    <2>2. st = obj.status /\ labels \subseteq Assets \X tags
      BY <2>1 DEF IInv, WorkingStatus, LabelsHaveTags
    <2>3. labels' \cap Assignments(obj.status) = {}
      BY <2>1, <2>2 DEF Assignments
    <2> QED
      BY <1>3, <2>3 DEF ReleasedIsClean, Assignments
  <1>4. CASE pc' # "release"
    BY <1>4 DEF ReleasedIsClean
  <1> QED
    BY <1>1, <1>2, <1>3, <1>4, ReconciliationByStep DEF Dequeue, FirstStep

(* Every step keeps WriteForgetsNothing: what the new status leaves out    *)
(* was removed before.                                                     *)
LEMMA NextWriteForgetsNothing ==
  ASSUME IInv, [Next]_vars
  PROVE  WriteForgetsNothing'
  <1>1. TypeOK /\ LifecycleInv /\ StatusesIn(Proper)
    BY DEF IInv
  <1>2. CASE UNCHANGED <<pc, obj, st>> /\ pc = "persist"
    <2>1. labels' \subseteq labels
      BY <1>1, <1>2, LabelsByStep
    <2> QED
      BY <1>2, <2>1 DEF IInv, WriteForgetsNothing, Assignments
  <1>3. CASE HandlerSteps /\ UNCHANGED obj /\ st' = NotReady
    <2>1. pc # "idle" /\ pc # "persist"
      BY <1>1, <1>3, WaysOut
    <2>2. st = obj.status /\ st \in Statuses
      BY <1>1, <2>1, InFlight DEF IInv, WorkingStatus
    <2>3. Assignments(NotReady) = Assignments(obj.status)
      BY <2>2, NotReadyStatus
    <2> QED
      BY <1>3, <2>3 DEF WriteForgetsNothing, Assignments
  <1>4. CASE BulkRemove /\ UNCHANGED obj /\ st' = Applied /\ pc' = "persist"
    <2>1. pc = "remove"
      BY <1>4 DEF BulkRemove
    <2>2. Assignments(Applied) = matched \X {TagOf[obj.spec]}
      BY <1>1, <2>1, AppliedStatus
    <2>3. Assignments(obj.status) \ (ToRemove \X {OldTag})
            \subseteq matched \X {TagOf[obj.spec]}
      BY <1>1, <2>1, PlanTypes
    <2>4. CASE labels' = labels \ (ToRemove \X {OldTag})
      <3>1. labels' \cap Assignments(obj.status) \subseteq Assignments(Applied)
        BY <2>2, <2>3, <2>4
      <3> QED
        BY <1>4, <3>1 DEF WriteForgetsNothing, Assignments
    <2>5. CASE st' = NotReady
      BY <1>3, <1>4, <2>5 DEF HandlerSteps
    <2> QED
      BY <1>4, <2>4, <2>5 DEF BulkRemove, Failed, GotoPersist
  <1>5. CASE pc' # "persist"
    BY <1>5 DEF WriteForgetsNothing
  <1> QED
    BY <1>1, <1>2, <1>3, <1>4, <1>5, ReconciliationByStep DEF Dequeue,
       FirstStep

(* What is listed and there stays listed, whatever a step makes of the     *)
(* object: the object only goes, and the list only shrinks, when the       *)
(* labels are not there any more.                                          *)
LEMMA ListedStaysListed ==
  ASSUME IInv, [Next]_vars
  PROVE  labels \cap Recorded \subseteq Recorded'
  <1>1. /\ LifecycleStep(Statuses, Steps, EmptyStatus)
        /\ LifecycleTypeOK(Statuses, Steps) /\ LifecycleInv
        /\ EmptyStatus \in Statuses /\ Kind(Statuses, Steps)
    BY NextIsLifecycleStep, KindFacts DEF IInv, TypeOK
  <1>2. CASE cr' = cr
    BY <1>2 DEF Recorded, Assignments
  <1>3. CASE cr = None
    BY <1>3 DEF Recorded
  <1>4. CASE cr # None /\ cr' = None
    <2>1. ~cr.finalizer \/ (pc = "release" /\ cr = obj)
      BY <1>1, <1>4, GoneByStep
    <2>2. labels \cap Assignments(cr.status) = {}
      BY <2>1, <1>4 DEF IInv, BareListsNothing, ReleasedIsClean, Assignments
    <2> QED
      BY <1>4, <2>2 DEF Recorded
  <1>5. CASE cr # None /\ cr' # None /\ cr' # cr
    <2>1. CASE cr'.status = cr.status
      BY <1>5, <2>1 DEF Recorded, Assignments
    <2>2. CASE pc = "persist" /\ cr = obj /\ cr'.status = st
      BY <1>5, <2>2 DEF IInv, WriteForgetsNothing, Recorded, Assignments
    <2> QED
      BY <1>1, <1>5, <2>1, <2>2, StoredByStep
  <1> QED
    BY <1>2, <1>3, <1>4, <1>5

(* Every step keeps the account: what is labelled is listed, about to be,  *)
(* or known to be lost.                                                    *)
LEMMA NextAccounted ==
  ASSUME IInv, [Next]_vars
  PROVE  EveryLabelAccountedFor'
  <1>1. /\ TypeOK /\ LifecycleInv /\ StatusesIn(Proper)
        /\ labels \subseteq Recorded \cup Unrecorded \cup lost
        /\ labels \cap Recorded \subseteq Recorded'
    BY ListedStaysListed DEF IInv, EveryLabelAccountedFor
  <1> DEFINE tag == TagOf[obj.spec]
  <1>2. CASE UNCHANGED <<labels, lost>> /\ Unrecorded \subseteq Unrecorded'
    BY <1>1, <1>2 DEF EveryLabelAccountedFor
  <1>3. CASE QuietSteps /\ UNCHANGED tagVars
    <2>1. CASE UNCHANGED <<pc, obj, st>>
      BY <1>2, <1>3, <2>1
         DEF Unrecorded, Labelled, Present, ToAdd, Renaming, Assignments,
            tagVars
    <2>2. CASE pc \notin {"remove", "persist"}
      BY <1>2, <1>3, <2>2, UnrecordedByStep DEF tagVars
    <2> QED
      BY <1>3, <2>1, <2>2
         DEF QuietSteps, Users, UserCreate, UserEdit, UserDelete, PrereqsLost,
             PrereqsRestored, CacheSync, TimerFires, Dequeue, EnsurePresent,
             EnsureAbsent
  <1>4. CASE Persist
    BY <1>1, <1>4 DEF Persist, EveryLabelAccountedFor
  <1>5. CASE CrashAndRestart
    <2>1. UNCHANGED <<cr, labels>> /\ lost' = (lost \cup Unrecorded) \ Recorded
      BY <1>5 DEF CrashAndRestart, Crash
    <2> QED
      BY <1>1, <2>1 DEF EveryLabelAccountedFor
  <1>6. CASE Observe \/ Search \/ SearchMisses \/ Delete
    <2>1. /\ pc \in {"observe", "search", "delete"}
          /\ labels' \subseteq labels /\ UNCHANGED lost
      BY <1>6 DEF Observe, Search, SearchMisses, Delete
    <2> QED
      BY <1>1, <2>1, UnrecordedByStep DEF EveryLabelAccountedFor
  <1>7. CASE BulkAdd
    <2>1. /\ pc = "add" /\ Unrecorded = {} /\ UNCHANGED catalog
      BY <1>7, UnrecordedByStep DEF BulkAdd
    <2>2. CASE /\ labels' = labels \cup Labelled(ToAdd, tag)
               /\ Goto("remove") /\ matched' = matched /\ lost' = lost
      <3>1. pc' = "remove" /\ UNCHANGED <<obj, matched, catalog>>
        BY <2>1, <2>2 DEF Goto
      <3>2. Unrecorded' = Labelled(ToAdd, tag)
        BY <3>1 DEF Unrecorded, Labelled, Present, ToAdd, Renaming
      <3> QED
        BY <1>1, <2>1, <2>2, <3>2 DEF EveryLabelAccountedFor
    <2>3. CASE labels' = labels /\ lost' = lost
      BY <1>1, <2>1, <2>3 DEF EveryLabelAccountedFor
    <2>4. CASE \E part \in SUBSET Labelled(ToAdd, tag) :
                 labels' = labels \cup part /\ lost' = lost \cup part
      BY <1>1, <2>1, <2>4 DEF EveryLabelAccountedFor
    <2>5. \/ /\ labels' = labels \cup Labelled(ToAdd, tag)
             /\ Goto("remove") /\ matched' = matched /\ lost' = lost
          \/ labels' = labels /\ lost' = lost
          \/ \E part \in SUBSET Labelled(ToAdd, tag) :
               labels' = labels \cup part /\ lost' = lost \cup part
      <3> HIDE DEF tag
      <3> QED
        BY <1>7 DEF BulkAdd, tag
    <2> QED
      BY <2>2, <2>3, <2>4, <2>5
  <1>8. CASE BulkRemove
    <2>1. /\ pc = "remove" /\ Unrecorded = Labelled(ToAdd, tag)
          /\ labels' \subseteq labels
      BY <1>1, <1>8, UnrecordedByStep DEF BulkRemove
    <2>2. CASE lost' = lost \cup Labelled(ToAdd, tag)
      BY <1>1, <2>1, <2>2 DEF EveryLabelAccountedFor
    <2>3. CASE GotoPersist(Applied, "requeue") /\ UNCHANGED lost
      <3>1. Unrecorded' = Assignments(Applied)
        BY <2>3 DEF GotoPersist, Unrecorded, Assignments
      <3>2. Labelled(ToAdd, tag) \subseteq Assignments(Applied)
        BY <1>1, <2>1, AppliedStatus, PlanTypes DEF Labelled
      <3> QED
        BY <1>1, <2>1, <2>3, <3>1, <3>2 DEF EveryLabelAccountedFor
    <2> QED
      BY <1>8, <2>2, <2>3 DEF BulkRemove
  <1>9. CASE Others
    <2>1. UNCHANGED <<pc, obj, st, matched, lost>>
      BY <1>9, OthersElsewhere DEF lifecycleVars
    <2>2. labels' \cap Unrecorded \subseteq Unrecorded'
      <3>1. CASE pc = "remove"
        <4>1. \A l \in labels' : l[1] \in Present => l[1] \in Present'
          BY <1>9 DEF Others, Ingest, Drop, Untag, DropTag, RestoreTag, Present, TypeOK,
             IInv
        <4>2. Unrecorded' = Labelled(ToAdd, tag)'
          BY <2>1, <3>1 DEF Unrecorded
        <4> QED
          BY <2>1, <3>1, <4>1, <4>2, UnrecordedByStep
             DEF Labelled, ToAdd, Renaming
      <3>2. CASE pc # "remove"
        BY <2>1, <3>2 DEF Unrecorded, Assignments
      <3> QED
        BY <3>1, <3>2
    <2>3. labels' \subseteq labels
      BY <1>9 DEF Others, Ingest, Drop, Untag, DropTag, RestoreTag
    <2> QED
      BY <1>1, <2>1, <2>2, <2>3 DEF EveryLabelAccountedFor
  <1>10. CASE UNCHANGED vars
    BY <1>2, <1>10
       DEF vars, lifecycleVars, tagVars, Unrecorded, Labelled, Present, ToAdd,
           Renaming, Assignments
  <1> QED
    BY <1>3, <1>4, <1>5, <1>6, <1>7, <1>8, <1>9, <1>10, StepKinds
       DEF HandlerSteps

-----------------------------------------------------------------------------
(* The theorems about the account.                                         *)

(* IInv is an inductive invariant: no sequence of edits, renames,          *)
(* deletions, crashes, half-applied bulk calls and external changes breaks *)
(* it.                                                                     *)
THEOREM InductiveInvariant == Spec => []IInv
  <1>1. Init => IInv
    BY InitInv
  <1>2. IInv /\ [Next]_vars => IInv'
    BY NextTypes, NextProper, NextReconciliation, NextLabelsHaveTags,
       NextReleasedIsClean, NextWriteForgetsNothing, NextAccounted DEF IInv
  <1> QED
    BY <1>1, <1>2, PTL DEF Spec

(* Every variable keeps its type.                                          *)
THEOREM TypeCorrect == Spec => []TypeOK
  <1>1. IInv => TypeOK
    BY DEF IInv
  <1> QED
    BY <1>1, InductiveInvariant, PTL

(* Renames, narrowed patterns, vanishing assets and refused status writes  *)
(* leave no label behind that nobody knows of: each label is listed in the *)
(* status, about to be, or one whose recording failed.                     *)
THEOREM AllAccountedFor == Spec => []EveryLabelAccountedFor
  <1>1. IInv => EveryLabelAccountedFor
    BY DEF IInv
  <1> QED
    BY <1>1, InductiveInvariant, PTL

(* No step lets the object go from Kubernetes while a label it lists is    *)
(* there.                                                                  *)
THEOREM CleanupBeforeRelease == Spec => ReleaseAfterCleanup
  <1> DEFINE Step == cr # None /\ cr' # cr /\ (cr' = None \/ cr'.uid # cr.uid) =>
                       labels \cap Recorded = {}
  <1>1. IInv /\ [Next]_vars => [Step]_vars
    <2> SUFFICES ASSUME IInv, Next, cr # None, cr' # cr,
                        cr' = None \/ cr'.uid # cr.uid
                 PROVE  labels \cap Recorded = {}
      OBVIOUS
    <2>1. /\ LifecycleStep(Statuses, Steps, EmptyStatus)
          /\ LifecycleTypeOK(Statuses, Steps) /\ LifecycleInv
          /\ EmptyStatus \in Statuses /\ Kind(Statuses, Steps)
      BY NextIsLifecycleStep, KindFacts DEF IInv, TypeOK
    <2>2. cr' = None
      BY <2>1, StoredByStep
    <2>3. ~cr.finalizer \/ (pc = "release" /\ cr = obj)
      BY <2>1, <2>2, GoneByStep
    <2> QED
      BY <2>3 DEF IInv, BareListsNothing, ReleasedIsClean, Recorded,
         Assignments
  <1> QED
    BY <1>1, InductiveInvariant, PTL DEF Spec, ReleaseAfterCleanup

-----------------------------------------------------------------------------
(* What follows from IInv and the lifecycle.                               *)

(* From the start of the handler to its status write the object it read    *)
(* exists and carries the finalizer, however stale the cache: no entity is *)
(* labelled for an object whose deletion the operator would not hear of.   *)
THEOREM FinalizerGuardsHandler ==
  Spec => []FinalizerGuards({"observe", "search", "add", "remove"})
  <1>1. IInv => FinalizerGuards({"observe", "search", "add", "remove"})
    BY GuardsHold DEF IInv
  <1> QED
    BY <1>1, InductiveInvariant, PTL

(* An idle controller hears of every resource there is: whatever fails,    *)
(* the handler is called again.                                            *)
THEOREM NoLostWakeUp == Spec => []Awake({})
  <1> DEFINE Wakes == Awake({}) /\ GivesUpOn({})
  <1>1. Init => Wakes
    BY DEF Init, LifecycleInit, Awake, GivesUpOn
  <1>2. IInv /\ Wakes /\ [Next]_vars => Wakes'
    <2> SUFFICES ASSUME IInv, Wakes, [Next]_vars PROVE Wakes'
      OBVIOUS
    <2>1. /\ LifecycleTypeOK(Statuses, Steps) /\ LifecycleInv
          /\ Kind(Statuses, Steps)
      BY KindFacts DEF IInv, TypeOK
    <2>2. \/ SharedStep(EmptyStatus)
          \/ UNCHANGED lifecycleVars
          \/ /\ GivesUpOn({})'
             /\ pc' = "idle" => queued' \/ timer'
      <3>1. CASE HandlerSteps
        <4>1. /\ pc \notin {"idle", "persist"}
              /\ \/ \E step \in Steps \ {"idle", "persist"} : Goto(step)
                 \/ Return("error")
                 \/ \E s : GotoPersist(s, "error") \/ GotoPersist(s, "requeue")
          BY <3>1, WaysOut DEF IInv, Steps
        <4> QED
          BY <4>1 DEF Goto, GotoPersist, Return, GivesUpOn
      <3>2. CASE Persist \/ CrashAndRestart
        BY <3>2 DEF Persist, CrashAndRestart, SharedStep
      <3>3. CASE Others \/ UNCHANGED vars
        BY <3>3, OthersElsewhere DEF vars
      <3> QED
        BY <3>1, <3>2, <3>3, StepKinds
    <2> QED
      BY <2>1, <2>2, AwakeKept
  <1>3. Wakes => Awake({})
    OBVIOUS
  <1> QED
    BY <1>1, <1>2, <1>3, InductiveInvariant, PTL DEF Spec

-----------------------------------------------------------------------------
(* What the status claims is true of OpenMetadata.                         *)

(* Assignments that are in force, were taken away, or cannot be any more.  *)
Covered ==
  {l \in Assets \X (Tags \cup {None}) :
     l[1] \in Present => l \in labels \cup torn}

(* Entities that have been in OpenMetadata: they do not come back once     *)
(* they are gone.                                                          *)
Seen == {a \in Assets : catalog[a] # "absent"}

ListsWhatWasSeen ==
  matched \subseteq Seen /\ StatusesIn({s \in Statuses : s.assets \subseteq Seen})

(* A reconciliation and the cache are about the incarnation that lists     *)
(* something, if the stored object does: the work for an older one is over *)
(* before a newer one gets its first status.                               *)
OneIncarnation ==
  /\ cr # None /\ obj # None /\ cr.uid = obj.uid =>
       cached # None /\ cached.uid = cr.uid
  /\ cr # None /\ cr.status.assets # {} =>
       /\ cached # None /\ cached.uid = cr.uid
       /\ obj # None => obj.uid = cr.uid

(* What the bulk addition was about is in force, and so is, if it comes to *)
(* be the stored status, what the write in flight lists.                   *)
AddedIsLabelled == pc = "remove" => ToAdd \X {TagOf[obj.spec]} \subseteq Covered

WritesWhatIsLabelled ==
  pc = "persist" /\ cr = obj /\ ~obj.deleting => Assignments(st) \subseteq Covered

ClaimsInv ==
  /\ ListsWhatWasSeen
  /\ OneIncarnation
  /\ cr # None /\ ~cr.deleting => Recorded \subseteq Covered
  /\ AddedIsLabelled
  /\ WritesWhatIsLabelled

(* Entities that are gone do not come back.                                *)
LEMMA NothingReturns ==
  ASSUME TypeOK, LifecycleInv, [Next]_vars
  PROVE  Seen \subseteq Seen' /\ Seen \cap Present' \subseteq Present
  <1>1. CASE UNCHANGED catalog
    BY <1>1 DEF Seen, Present
  <1>2. ASSUME NEW a \in Assets, Ingest(a) \/ Drop(a)
        PROVE  Seen \subseteq Seen' /\ Seen \cap Present' \subseteq Present
    BY <1>2 DEF Ingest, Drop, Seen, Present, TypeOK
  <1> QED
    BY <1>1, <1>2, WaysOut, StepKinds
       DEF tagVars, vars, Persist, CrashAndRestart, Others, Untag, DropTag, RestoreTag

(* A step leaves covered what is, but for a deletion, and for what a       *)
(* status write drops from the list.                                       *)
LEMMA CoveredStays ==
  ASSUME IInv, [Next]_vars, ~Delete, NEW l \in Covered, l[1] \in Seen,
         Persist => l \in Recorded'
  PROVE  l \in Covered'
  <1>1. /\ TypeOK /\ LifecycleInv
        /\ l \in Assets \X (Tags \cup {None})
        /\ l[1] \in Present => l \in labels \cup torn
    BY DEF IInv, Covered
  <1>2. SUFFICES ASSUME l[1] \in Present'
                 PROVE  l \in labels' \cup torn'
    BY <1>1 DEF Covered
  <1>3. l \in labels \cup torn
    BY <1>1, <1>2, NothingReturns
  <1>4. CASE UNCHANGED tagVars \/ Observe \/ Search \/ SearchMisses
             \/ CrashAndRestart
    BY <1>3, <1>4
       DEF tagVars, Observe, Search, SearchMisses, CrashAndRestart
  <1>5. CASE Persist
    BY <1>3, <1>5 DEF Persist
  <1>6. CASE BulkAdd
    BY <1>3, <1>6 DEF BulkAdd
  <1>7. CASE BulkRemove
    BY <1>3, <1>7 DEF BulkRemove
  <1>8. CASE Others
    BY <1>1, <1>2, <1>3, <1>8
       DEF Others, Ingest, Drop, Untag, DropTag, RestoreTag, Present, TypeOK
  <1> QED
    BY <1>4, <1>5, <1>6, <1>7, <1>8, StepKinds DEF HandlerSteps, vars

(* Every step keeps ListsWhatWasSeen: a search finds what is there.        *)
LEMMA NextListsWhatWasSeen ==
  ASSUME IInv, ListsWhatWasSeen, [Next]_vars
  PROVE  ListsWhatWasSeen'
  <1>1. TypeOK /\ LifecycleInv /\ Seen \subseteq Seen'
    BY NothingReturns DEF IInv
  <1>2. matched' \subseteq Seen
    <2>1. SearchEntities(obj.spec) \subseteq Seen
      BY DEF SearchEntities, Present, Seen
    <2>2. CASE Search \/ SearchMisses
      BY <2>1, <2>2 DEF Search, SearchMisses, Failed
    <2> QED
      BY <2>2, StepKinds, OthersElsewhere
         DEF ListsWhatWasSeen, tagVars, vars, Persist, CrashAndRestart,
             HandlerSteps, Observe, BulkAdd, BulkRemove, Delete, Failed
  <1> DEFINE good == {s \in Statuses : s.assets \subseteq Seen}
  <1>3. /\ LifecycleStep(Statuses, Steps, EmptyStatus)
        /\ LifecycleTypeOK(Statuses, Steps) /\ LifecycleInv
        /\ EmptyStatus \in Statuses /\ Kind(Statuses, Steps)
    BY <1>1, NextIsLifecycleStep, KindFacts DEF TypeOK
  <1>4. pc # "idle" /\ st' \notin {st, None} => st' \in good
    <2> SUFFICES ASSUME pc # "idle", st' \notin {st, None}
                 PROVE  st' \in good
      OBVIOUS
    <2>1. HandlerSteps
      BY StepKinds, OthersElsewhere
         DEF SharedStep, UserCreate, UserEdit, UserDelete, PrereqsLost,
             PrereqsRestored, CacheSync, TimerFires, Crash, Dequeue,
             EnsurePresent, SetConditionAndPersist, EnsureAbsent, Return,
             Persist, CrashAndRestart, vars, lifecycleVars
    <2>2. st' = NotReady \/ (BulkRemove /\ st' = Applied)
      BY <1>1, <2>1, WaysOut DEF Goto, GotoPersist, Return
    <2>3. NotReady \in good
      BY <1>1, InFlight, NotReadyStatus DEF ListsWhatWasSeen, StatusesIn
    <2>4. BulkRemove => Applied \in good
      BY <1>1, AppliedStatus DEF BulkRemove, ListsWhatWasSeen, Proper
    <2> QED
      BY <2>2, <2>3, <2>4
  <1>5. StatusesIn(good) /\ EmptyStatus \in good
    BY KindFacts DEF ListsWhatWasSeen, Proper
  <1>6. /\ \A o \in {cr', cached', obj'} \ {None} : o.status \in good
        /\ st' # None => st' \in good
    <2> HIDE DEF good
    <2> QED
      BY <1>3, <1>4, <1>5, StatusesInKept
  <1> QED
    BY <1>1, <1>2, <1>6 DEF ListsWhatWasSeen, StatusesIn

(* Every step keeps OneIncarnation.                                        *)
LEMMA NextOneIncarnation ==
  ASSUME IInv, OneIncarnation, [Next]_vars
  PROVE  OneIncarnation'
  <1>1. /\ LifecycleStep(Statuses, Steps, EmptyStatus)
        /\ LifecycleTypeOK(Statuses, Steps) /\ LifecycleInv
        /\ EmptyStatus \in Statuses /\ Kind(Statuses, Steps)
    BY NextIsLifecycleStep, KindFacts DEF IInv, TypeOK
  <1>2. /\ cached' = cached \/ (cached' = cr /\ cr' = cr)
        /\ obj' = obj \/ obj' = None \/ (obj' = cached /\ cached # None /\ cr' = cr
                                           /\ cached' = cached)
    <2>1. obj' = cached /\ obj' # obj /\ obj' # None => cached' = cached
      BY StepKinds, WaysOut, OthersElsewhere
         DEF IInv, SharedStep, UserCreate, UserEdit, UserDelete, PrereqsLost,
             PrereqsRestored, CacheSync, TimerFires, Crash, Dequeue,
             EnsurePresent, SetConditionAndPersist, EnsureAbsent, Return,
             Persist, CrashAndRestart, vars, lifecycleVars
    <2> QED
      BY <1>1, <2>1, CopiesByStep
  <1>3. cr' # cr /\ cr' # None =>
          \/ cr'.uid = lastUid + 1 /\ cr'.status.assets = {}
          \/ cr # None /\ cr'.uid = cr.uid /\ cr'.status = cr.status
          \/ cr = obj /\ cr # None /\ cr'.uid = cr.uid
    BY <1>1, StoredByStep, KindFacts
  <1>4. /\ lastUid \in Int
        /\ obj # None => obj.uid \in Int /\ obj.uid <= lastUid
    BY <1>1, ObjectFields DEF LifecycleTypeOK, LifecycleInv, Follows
  <1>5. CASE cr' = cr
    BY <1>2, <1>5 DEF OneIncarnation
  <1>6. CASE cr' # cr
    <2>1. cached' = cached /\ (obj' = obj \/ obj' = None)
      BY <1>2, <1>6
    <2> QED
      BY <1>3, <1>4, <1>6, <2>1 DEF OneIncarnation
  <1> QED
    BY <1>5, <1>6

(* A copy that was not the stored object any more never is again.          *)
LEMMA StaleForGood ==
  ASSUME IInv, [Next]_vars, UNCHANGED <<pc, obj>>, pc # "idle", cr' = obj'
  PROVE  cr = obj
  <1>1. /\ obj \in Objects(Statuses) /\ Follows(obj) /\ obj # None
        /\ LifecycleTypeOK(Statuses, Steps)
    BY InFlight DEF IInv, TypeOK, LifecycleInv
  <1>2. CASE Users
    <2>1. \/ (\E s \in Specs : UserCreate(s, EmptyStatus) \/ UserEdit(s)) \/ UserDelete
          \/ UNCHANGED cr
      BY <1>2 DEF Users, PrereqsLost
    <2> QED
      BY <1>1, <2>1, UsersAreNews
  <1>3. CASE UNCHANGED cr
    BY <1>3
  <1> QED
    BY <1>2, <1>3, StepKinds, WaysOut, OthersElsewhere
       DEF IInv, QuietSteps, PrereqsRestored, CacheSync, TimerFires, Dequeue,
           EnsurePresent, SetConditionAndPersist, EnsureAbsent, Return, Crash,
           Persist, CrashAndRestart, vars, lifecycleVars

(* An assignment that a status of the resource lists is a pair.            *)
LEMMA ListedPairs ==
  ASSUME NEW s \in Statuses, s.assets \subseteq Seen
  PROVE  \A l \in Assignments(s) : l \in Assets \X (Tags \cup {None}) /\ l[1] \in Seen
  BY DEF Statuses, Assignments

(* The claims of the stored status.                                        *)
LEMMA NextRecorded ==
  ASSUME IInv, ClaimsInv, [Next]_vars, cr' # None, ~cr'.deleting
  PROVE  Recorded' \subseteq Covered'
  <1>1. /\ LifecycleStep(Statuses, Steps, EmptyStatus)
        /\ LifecycleTypeOK(Statuses, Steps) /\ LifecycleInv
        /\ EmptyStatus \in Statuses /\ Kind(Statuses, Steps)
    BY NextIsLifecycleStep, KindFacts DEF IInv, TypeOK
  <1>2. CASE Delete
    <2>1. pc = "delete" /\ UNCHANGED cr /\ cr # None /\ ~cr.deleting
      BY <1>2 DEF Delete
    <2>2. obj # None /\ obj.deleting /\ Follows(obj)
      BY <1>1, <2>1 DEF LifecycleInv, StepFitsObject
    <2>3. cr.status.assets = {}
      BY <2>1, <2>2 DEF Follows, ClaimsInv, OneIncarnation
    <2> QED
      BY <2>1, <2>3 DEF Recorded, Assignments
  <1>3. CASE ~Delete /\ cr # None /\ cr'.status = cr.status /\ ~cr.deleting
    <2>1. Recorded' = Recorded /\ Recorded = Assignments(cr.status)
      BY <1>3 DEF Recorded, Assignments
    <2>2. \A l \in Recorded : l \in Covered /\ l[1] \in Seen
      <3>1. cr.status \in Statuses /\ cr.status.assets \subseteq Seen
        BY <1>3 DEF ClaimsInv, ListsWhatWasSeen, StatusesIn
      <3> QED
        BY <1>3, <2>1, <3>1, ListedPairs DEF ClaimsInv
    <2> QED
      BY <1>3, <2>1, <2>2, CoveredStays
  <1>4. CASE cr'.status = EmptyStatus
    BY <1>4, KindFacts DEF Recorded, Assignments
  <1>5. CASE /\ ~Delete /\ pc = "persist" /\ cr = obj /\ cr # None
             /\ cr'.status = st /\ cr'.deleting = cr.deleting
    <2>1. /\ Recorded' = Assignments(st) /\ Assignments(st) \subseteq Covered
      BY <1>5 DEF Recorded, Assignments, ClaimsInv, WritesWhatIsLabelled
    <2>2. st \in Statuses /\ st.assets \subseteq Seen
      <3>1. st # None
        BY <1>1, <1>5 DEF LifecycleInv, StepFitsObject
      <3> QED
        BY <3>1 DEF ClaimsInv, ListsWhatWasSeen, StatusesIn
    <2> QED
      BY <1>5, <2>1, <2>2, ListedPairs, CoveredStays
  <1>6. cr' = cr => cr # None /\ cr'.status = cr.status /\ ~cr.deleting
    OBVIOUS
  <1>7. cr' # cr =>
          \/ cr'.status = EmptyStatus
          \/ cr # None /\ cr'.status = cr.status /\ ~cr.deleting
          \/ /\ pc = "persist" /\ cr = obj /\ cr # None
             /\ cr'.status = st /\ cr'.deleting = cr.deleting
    BY <1>1, StoredByStep
  <1> QED
    BY <1>2, <1>3, <1>4, <1>5, <1>6, <1>7

(* What is found and to be added, or listed already, after an addition.    *)
LEMMA NextAdded ==
  ASSUME IInv, ClaimsInv, [Next]_vars
  PROVE  AddedIsLabelled'
  <1>1. TypeOK /\ LifecycleInv /\ StatusesIn(Proper)
    BY DEF IInv
  <1> DEFINE tag == TagOf[obj.spec]
  <1>2. SUFFICES ASSUME pc' = "remove"
                 PROVE  (ToAdd \X {tag})' \subseteq Covered'
    BY DEF AddedIsLabelled
  <1>3. CASE UNCHANGED <<pc, obj, st>>
    <2>1. pc = "remove" /\ ~Delete /\ ~Persist /\ UNCHANGED matched
      BY <1>1, <1>2, <1>3, StepKinds, OthersElsewhere, WaysOut
         DEF HandlerSteps, Observe, Search, SearchMisses, BulkAdd, BulkRemove,
             Delete, Failed, Goto, GotoPersist, Persist, SetConditionAndPersist,
             CrashAndRestart, Crash, vars, tagVars
    <2>2. (ToAdd \X {tag})' = ToAdd \X {tag}
      BY <1>3, <2>1 DEF ToAdd, Renaming
    <2>3. ToAdd \X {tag} \subseteq Covered
      BY <2>1 DEF ClaimsInv, AddedIsLabelled
    <2>4. \A l \in ToAdd \X {tag} : l[1] \in Seen
      BY <1>1, <2>1, PlanTypes DEF ClaimsInv, ListsWhatWasSeen
    <2> HIDE DEF tag
    <2> QED
      BY <2>1, <2>2, <2>3, <2>4, CoveredStays
  <1>4. CASE BulkAdd /\ UNCHANGED obj
    <2>1. /\ pc = "add" /\ UNCHANGED <<catalog, tags, matched>>
          /\ labels' = labels \cup Labelled(ToAdd, tag)
      BY <1>2, <1>4 DEF BulkAdd, Failed, GotoPersist
    <2>2. (ToAdd \X {tag})' = ToAdd \X {tag}
      BY <1>4, <2>1 DEF ToAdd, Renaming
    <2>3. ToAdd \subseteq Assets /\ tag \in Tags
      BY <1>1, <2>1, PlanTypes, InFlight DEF TypeOK
    <2>4. \A l \in ToAdd \X {tag} : l[1] \in Present' => l \in labels'
      BY <2>1 DEF Labelled, Present
    <2> QED
      BY <2>2, <2>3, <2>4 DEF Covered
  <1> QED
    BY <1>1, <1>2, <1>3, <1>4, ReconciliationByStep DEF Dequeue, FirstStep

(* What a removal leaves for the write: everything found is in force,      *)
(* whether it was added now or listed before.                              *)
LEMMA FoundIsCovered ==
  ASSUME IInv, ClaimsInv, pc = "remove", cr = obj
  PROVE  Assignments(Applied) \subseteq Covered
  <1>1. TypeOK /\ LifecycleInv /\ StatusesIn(Proper)
    BY DEF IInv
  <1>2. Assignments(Applied) = matched \X {TagOf[obj.spec]}
    BY <1>1, AppliedStatus
  <1>3. ToAdd \X {TagOf[obj.spec]} \subseteq Covered
    BY DEF ClaimsInv, AddedIsLabelled
  <1>4. (matched \ ToAdd) \X {TagOf[obj.spec]} \subseteq Recorded
    BY <1>1, InFlight, PlanTypes DEF Recorded
  <1>5. Recorded \subseteq Covered
    BY <1>1, InFlight DEF ClaimsInv
  <1> QED
    BY <1>2, <1>3, <1>4, <1>5

(* The claims of the status write in flight.                               *)
LEMMA NextWrites ==
  ASSUME IInv, ClaimsInv, [Next]_vars
  PROVE  WritesWhatIsLabelled'
  <1>1. TypeOK /\ LifecycleInv /\ StatusesIn(Proper)
    BY DEF IInv
  <1>2. SUFFICES ASSUME pc' = "persist", cr' = obj', ~obj'.deleting
                 PROVE  Assignments(st') \subseteq Covered'
    BY DEF WritesWhatIsLabelled, Assignments
  <1>3. ASSUME NEW s \in Statuses, s.assets \subseteq Seen,
               Assignments(s) \subseteq Covered, ~Delete, ~Persist
        PROVE  Assignments(s) \subseteq Covered'
    BY <1>3, ListedPairs, CoveredStays
  <1>4. CASE UNCHANGED <<pc, obj, st>>
    <2>1. pc = "persist" /\ ~Delete /\ ~Persist
      BY <1>2, <1>4 DEF Delete, Persist, SetConditionAndPersist, Return
    <2>2. cr = obj
      BY <1>2, <1>4, <2>1, StaleForGood
    <2>3. /\ st \in Statuses /\ st.assets \subseteq Seen
          /\ Assignments(st) \subseteq Covered
      BY <1>1, <1>2, <1>4, <2>1, <2>2, InFlight
         DEF ClaimsInv, WritesWhatIsLabelled, ListsWhatWasSeen, StatusesIn
    <2> QED
      BY <1>3, <1>4, <2>1, <2>3
  <1>5. CASE /\ HandlerSteps /\ UNCHANGED obj
             /\ st' = NotReady \/ (BulkRemove /\ st' = Applied)
    <2>1. /\ pc \notin {"idle", "persist"} /\ cr = obj /\ cr # None
          /\ ~Delete /\ ~Persist /\ ~cr.deleting
      BY <1>1, <1>2, <1>5, WaysOut, InFlight
         DEF Delete, Persist, SetConditionAndPersist
    <2>2. CASE st' = NotReady
      <3>1. /\ st = obj.status /\ st \in Statuses
            /\ Assignments(NotReady) = Assignments(st)
            /\ st.assets \subseteq Seen
        BY <1>1, <2>1, InFlight, NotReadyStatus
           DEF IInv, WorkingStatus, ClaimsInv, ListsWhatWasSeen, StatusesIn
      <3>2. Assignments(st) \subseteq Covered
        BY <2>1, <3>1 DEF ClaimsInv, Recorded
      <3> QED
        BY <1>3, <2>1, <2>2, <3>1, <3>2
    <2>3. CASE BulkRemove /\ st' = Applied
      <3>1. pc = "remove"
        BY <2>3 DEF BulkRemove
      <3>2. Applied \in Statuses /\ Applied.assets \subseteq Seen
        BY <1>1, <3>1, AppliedStatus, KindFacts DEF ClaimsInv, ListsWhatWasSeen
      <3> QED
        BY <1>3, <2>1, <2>3, <3>1, <3>2, FoundIsCovered
    <2> QED
      BY <1>5, <2>2, <2>3
  <1>6. ~(pc = "idle" /\ Dequeue)
    <2>1. "persist" \notin {"idle", "addFinalizer", "observe", "delete", "release"}
      OBVIOUS
    <2> QED
      BY <1>2, <2>1 DEF Dequeue, FirstStep
  <1>7. \/ UNCHANGED <<pc, obj, st>>
        \/ /\ HandlerSteps /\ UNCHANGED obj
           /\ st' = NotReady \/ (BulkRemove /\ st' = Applied)
    BY <1>1, <1>2, <1>6, ReconciliationByStep
  <1> QED
    BY <1>4, <1>5, <1>7

(* What the status of a live resource lists is in force, unless the asset  *)
(* or the tag is gone, others took the label away, or the operator did and *)
(* has not recorded that: no reconciliation from a stale status, and none  *)
(* that failed half-way, lists what it did not apply.                      *)
THEOREM ListedIsInForce == Spec => []RecordedIsLabelled
  <1>1. Init => ClaimsInv
    BY DEF Init, LifecycleInit, ClaimsInv, ListsWhatWasSeen, StatusesIn,
           OneIncarnation, AddedIsLabelled, WritesWhatIsLabelled
  <1>2. IInv /\ ClaimsInv /\ [Next]_vars => ClaimsInv'
    BY NextListsWhatWasSeen, NextOneIncarnation, NextRecorded, NextAdded,
       NextWrites DEF ClaimsInv
  <1>3. ClaimsInv => RecordedIsLabelled
    BY DEF ClaimsInv, RecordedIsLabelled, Covered
  <1> QED
    BY <1>1, <1>2, <1>3, InductiveInvariant, PTL DEF Spec

=============================================================================
