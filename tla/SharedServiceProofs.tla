------------------------- MODULE SharedServiceProofs -------------------------
(***************************************************************************)
(* Proofs about SharedService, for all specs, edits, re-creations and      *)
(* failures of either resource.  Each of the two keeps the invariants that *)
(* ServiceProofs shows for one resource on its own: its own steps do as    *)
(* they did there, and the steps of the other one, which come while it has *)
(* no reconciliation in flight, keep to the rules of OpenMetadata.         *)
(***************************************************************************)
EXTENDS SharedService, TLAPS

PA == INSTANCE ServiceProofs WITH
  Locations <- {db}, LocationOf <- [s \in Specs |-> db], BadOwners <- {},
  MaxUid <- MaxUidA,
  ExternalOps <- {}, MaxExternal <- 0, external <- 0,
  cr <- crA, cached <- cachedA, queued <- queuedA, timer <- timerA, pc <- pcA,
  obj <- objA, st <- stA, res <- resA, lastUid <- lastUidA, want <- wantA,
  lost <- lostA

PB == INSTANCE ServiceProofs WITH
  Locations <- {db}, LocationOf <- [s \in Specs |-> db], BadOwners <- {},
  MaxUid <- MaxUidB,
  ExternalOps <- {}, MaxExternal <- 0, external <- 0,
  cr <- crB, cached <- cachedB, queued <- queuedB, timer <- timerB, pc <- pcB,
  obj <- objB, st <- stB, res <- resB, lastUid <- lastUidB, want <- wantB,
  lost <- lostB

(* One worker: it reconciles one of the two at a time.                     *)
OneAtATime == pcA = "idle" \/ pcB = "idle"

(* The service that is there is known to one of them.                      *)
OneKnows ==
  remote[db] # None => PA!Knows(remote[db].id) \/ PB!Knows(remote[db].id)

IInv ==
  /\ PA!SharedInv
  /\ PB!SharedInv
  /\ OneAtATime
  /\ OneKnows

-----------------------------------------------------------------------------
(* The constants of either resource are as its proofs assume.              *)
LEMMA Assumptions ==
  /\ PA!BoundsAssumption /\ PA!SpecsAssumption /\ PA!NoneAssumption
  /\ PB!BoundsAssumption /\ PB!SpecsAssumption /\ PB!NoneAssumption
  <1>1. PA!BoundsAssumption /\ PB!BoundsAssumption
    BY SharedAssumption
       DEF A!BoundsAssumption, PA!BoundsAssumption, B!BoundsAssumption,
           PB!BoundsAssumption
  <1>2. PA!SpecsAssumption /\ PB!SpecsAssumption
    BY DEF PA!SpecsAssumption, PB!SpecsAssumption
  <1>3. PA!NoneAssumption
    BY SharedAssumption
       DEF A!NoneAssumption, A!Objects, A!Statuses, A!Entities, A!Contents,
           A!Ids, PA!NoneAssumption, PA!Objects, PA!Statuses, PA!Entities,
           PA!Contents, PA!Ids
  <1>4. PB!NoneAssumption
    BY SharedAssumption
       DEF B!NoneAssumption, B!Objects, B!Statuses, B!Entities, B!Contents,
           B!Ids, PB!NoneAssumption, PB!Objects, PB!Statuses, PB!Entities,
           PB!Contents, PB!Ids
  <1> QED
    BY <1>1, <1>2, <1>3, <1>4

(* A step of one is a step of the Service that ServiceProofs is about.     *)
LEMMA WorkerA ==
  A!Worker => PA!Worker /\ UNCHANGED secret
  <1>1. A!Dequeue <=> PA!Dequeue
    BY DEF A!Dequeue, A!FirstStep, PA!Dequeue, PA!FirstStep
  <1>2. A!EnsurePresent <=> PA!EnsurePresent
    BY DEF A!EnsurePresent, A!Accepted, A!Refused, A!Return, A!Fault,
        PA!EnsurePresent, PA!Accepted, PA!Refused, PA!Return, PA!Fault
  <1>3. A!Observe <=> PA!Observe
    BY DEF A!Observe, A!Content, A!Goto, A!GotoPersist, A!NotReady, PA!Observe,
        PA!Content, PA!Goto, PA!GotoPersist, PA!NotReady
  <1>4. A!Query <=> PA!Query
    BY DEF A!Query, A!InSync, A!Fault, A!Goto, A!GotoPersist, A!NotReady,
        A!serviceVars, PA!Query, PA!InSync, PA!Fault, PA!Goto, PA!GotoPersist,
        PA!NotReady, PA!serviceVars
  <1>5. A!Upsert <=> PA!Upsert
    BY DEF A!Upsert, A!AfterPut, A!NewEntity, A!Changed, A!IdsAfterPut,
        A!Registered, A!NotReady, A!Fault, A!GotoPersist, PA!Upsert,
        PA!AfterPut, PA!NewEntity, PA!Changed, PA!IdsAfterPut, PA!Registered,
        PA!NotReady, PA!Fault, PA!GotoPersist
  <1>6. A!Persist <=> PA!Persist
    BY DEF A!Persist, A!SetConditionAndPersist, A!Accepted, A!Refused,
        A!Return, A!Fault, A!Unrecorded, PA!Persist, PA!SetConditionAndPersist,
        PA!Accepted, PA!Refused, PA!Return, PA!Fault, PA!Unrecorded
  <1>7. A!Delete <=> PA!Delete
    BY DEF A!Delete, A!AfterDelete, A!Goto, A!Return, A!GotoPersist, A!Fault,
        A!NotReady, PA!Delete, PA!AfterDelete, PA!Goto, PA!Return,
        PA!GotoPersist, PA!Fault, PA!NotReady
  <1>8. A!EnsureAbsent <=> PA!EnsureAbsent
    BY DEF A!EnsureAbsent, A!Accepted, A!Refused, A!Return, A!Fault,
        PA!EnsureAbsent, PA!Accepted, PA!Refused, PA!Return, PA!Fault
  <1>9. A!Worker => UNCHANGED secret
    BY DEF A!Worker, A!serviceVars, A!Observe, A!Query, A!Upsert, A!Persist,
        A!Delete
  <1> QED
    BY <1>1, <1>2, <1>3, <1>4, <1>5, <1>6, <1>7, <1>8, <1>9 DEF A!Worker,
        PA!Worker, A!serviceVars, PA!serviceVars

LEMMA WorkerB ==
  B!Worker => PB!Worker /\ UNCHANGED secret
  <1>1. B!Dequeue <=> PB!Dequeue
    BY DEF B!Dequeue, B!FirstStep, PB!Dequeue, PB!FirstStep
  <1>2. B!EnsurePresent <=> PB!EnsurePresent
    BY DEF B!EnsurePresent, B!Accepted, B!Refused, B!Return, B!Fault,
        PB!EnsurePresent, PB!Accepted, PB!Refused, PB!Return, PB!Fault
  <1>3. B!Observe <=> PB!Observe
    BY DEF B!Observe, B!Content, B!Goto, B!GotoPersist, B!NotReady, PB!Observe,
        PB!Content, PB!Goto, PB!GotoPersist, PB!NotReady
  <1>4. B!Query <=> PB!Query
    BY DEF B!Query, B!InSync, B!Fault, B!Goto, B!GotoPersist, B!NotReady,
        B!serviceVars, PB!Query, PB!InSync, PB!Fault, PB!Goto, PB!GotoPersist,
        PB!NotReady, PB!serviceVars
  <1>5. B!Upsert <=> PB!Upsert
    BY DEF B!Upsert, B!AfterPut, B!NewEntity, B!Changed, B!IdsAfterPut,
        B!Registered, B!NotReady, B!Fault, B!GotoPersist, PB!Upsert,
        PB!AfterPut, PB!NewEntity, PB!Changed, PB!IdsAfterPut, PB!Registered,
        PB!NotReady, PB!Fault, PB!GotoPersist
  <1>6. B!Persist <=> PB!Persist
    BY DEF B!Persist, B!SetConditionAndPersist, B!Accepted, B!Refused,
        B!Return, B!Fault, B!Unrecorded, PB!Persist, PB!SetConditionAndPersist,
        PB!Accepted, PB!Refused, PB!Return, PB!Fault, PB!Unrecorded
  <1>7. B!Delete <=> PB!Delete
    BY DEF B!Delete, B!AfterDelete, B!Goto, B!Return, B!GotoPersist, B!Fault,
        B!NotReady, PB!Delete, PB!AfterDelete, PB!Goto, PB!Return,
        PB!GotoPersist, PB!Fault, PB!NotReady
  <1>8. B!EnsureAbsent <=> PB!EnsureAbsent
    BY DEF B!EnsureAbsent, B!Accepted, B!Refused, B!Return, B!Fault,
        PB!EnsureAbsent, PB!Accepted, PB!Refused, PB!Return, PB!Fault
  <1>9. B!Worker => UNCHANGED secret
    BY DEF B!Worker, B!serviceVars, B!Observe, B!Query, B!Upsert, B!Persist,
        B!Delete
  <1> QED
    BY <1>1, <1>2, <1>3, <1>4, <1>5, <1>6, <1>7, <1>8, <1>9 DEF B!Worker,
        PB!Worker, B!serviceVars, PB!serviceVars

-----------------------------------------------------------------------------
(* A step of one of the two, seen from both.                               *)

OwnStepOfA ==
  /\ PA!Next
  /\ UNCHANGED ofB
  /\ UNCHANGED secret
  /\ pcB # "idle" => pcA' = "idle" /\ UNCHANGED remote

OwnStepOfB ==
  /\ PB!Next
  /\ UNCHANGED ofA
  /\ UNCHANGED secret
  /\ pcA # "idle" => pcB' = "idle" /\ UNCHANGED remote

LEMMA OwnStepsOfA ==
  ASSUME OneAtATime,
         StartA \/ WorkA \/ UsersA \/ SyncA \/ TimerA \/ Restored
  PROVE  OwnStepOfA
  <1>1. CASE StartA
    <2>1. PA!Dequeue /\ UNCHANGED PA!serviceVars
      BY <1>1 DEF StartA, othersA, A!Dequeue, A!FirstStep, PA!Dequeue,
                  PA!FirstStep, PA!serviceVars
    <2> QED
      BY <1>1, <2>1 DEF StartA, othersA, PA!Next, PA!Worker, OwnStepOfA
  <1>2. CASE WorkA
    BY <1>2, WorkerA DEF WorkA, OneAtATime, PA!Next, OwnStepOfA
  <1>3. CASE UsersA
    <2>1. A!EmptyStatus = PA!EmptyStatus
      BY DEF A!EmptyStatus, PA!EmptyStatus
    <2>2. PA!Users /\ UNCHANGED PA!serviceVars
      BY <1>3, <2>1
         DEF UsersA, othersA, A!Users, A!UserCreate, A!UserEdit, A!UserDelete,
             A!PrereqsLost, A!Fault, PA!Users, PA!UserCreate, PA!UserEdit,
             PA!UserDelete, PA!PrereqsLost, PA!Fault, PA!serviceVars
    <2>3. UNCHANGED <<pcA, remote, secret>> /\ UNCHANGED ofB
      BY <1>3 DEF UsersA, othersA, A!Users, A!UserCreate, A!UserEdit,
                  A!UserDelete, A!PrereqsLost
    <2> QED
      BY <2>2, <2>3 DEF PA!Next, OneAtATime, OwnStepOfA
  <1>4. CASE SyncA \/ TimerA \/ Restored
    <2>1. /\ PA!CacheSync \/ PA!TimerFires \/ PA!PrereqsRestored
          /\ UNCHANGED PA!serviceVars
      BY <1>4 DEF SyncA, TimerA, Restored, othersA, A!CacheSync, A!TimerFires,
                  A!PrereqsRestored, PA!CacheSync, PA!TimerFires,
                  PA!PrereqsRestored, PA!serviceVars
    <2>2. UNCHANGED <<pcA, remote, secret>> /\ UNCHANGED ofB
      BY <1>4 DEF SyncA, TimerA, Restored, othersA, A!CacheSync, A!TimerFires,
                  A!PrereqsRestored
    <2> QED
      BY <2>1, <2>2 DEF PA!Next, OneAtATime, OwnStepOfA
  <1> QED
    BY <1>1, <1>2, <1>3, <1>4

LEMMA OwnStepsOfB ==
  ASSUME OneAtATime,
         StartB \/ WorkB \/ UsersB \/ SyncB \/ TimerB
  PROVE  OwnStepOfB
  <1>1. CASE StartB
    <2>1. PB!Dequeue /\ UNCHANGED PB!serviceVars
      BY <1>1 DEF StartB, othersB, B!Dequeue, B!FirstStep, PB!Dequeue,
                  PB!FirstStep, PB!serviceVars
    <2> QED
      BY <1>1, <2>1 DEF StartB, othersB, PB!Next, PB!Worker, OwnStepOfB
  <1>2. CASE WorkB
    BY <1>2, WorkerB DEF WorkB, OneAtATime, PB!Next, OwnStepOfB
  <1>3. CASE UsersB
    <2>1. B!EmptyStatus = PB!EmptyStatus
      BY DEF B!EmptyStatus, PB!EmptyStatus
    <2>2. PB!Users /\ UNCHANGED PB!serviceVars
      BY <1>3, <2>1
         DEF UsersB, othersB, B!Users, B!UserCreate, B!UserEdit, B!UserDelete,
             B!PrereqsLost, B!Fault, PB!Users, PB!UserCreate, PB!UserEdit,
             PB!UserDelete, PB!PrereqsLost, PB!Fault, PB!serviceVars
    <2>3. UNCHANGED <<pcB, remote, secret>> /\ UNCHANGED ofA
      BY <1>3 DEF UsersB, othersB, B!Users, B!UserCreate, B!UserEdit,
                  B!UserDelete, B!PrereqsLost
    <2> QED
      BY <2>2, <2>3 DEF PB!Next, OneAtATime, OwnStepOfB
  <1>4. CASE SyncB \/ TimerB
    <2>1. /\ PB!CacheSync \/ PB!TimerFires
          /\ UNCHANGED PB!serviceVars
      BY <1>4 DEF SyncB, TimerB, othersB, B!CacheSync, B!TimerFires,
                  PB!CacheSync, PB!TimerFires, PB!serviceVars
    <2>2. UNCHANGED <<pcB, remote, secret>> /\ UNCHANGED ofA
      BY <1>4 DEF SyncB, TimerB, othersB, B!CacheSync, B!TimerFires
    <2> QED
      BY <2>1, <2>2 DEF PB!Next, OneAtATime, OwnStepOfB
  <1> QED
    BY <1>1, <1>2, <1>3, <1>4

-----------------------------------------------------------------------------
(* Each of the two keeps its invariants.                                   *)

LEMMA TypesBesideA ==
  ASSUME PA!TypeOK', PB!TypeOK, UNCHANGED ofB
  PROVE  PB!TypeOK'
  BY DEF ofB, PA!TypeOK, PA!LifecycleTypeOK, PA!Statuses, PA!Entities,
         PA!Contents, PA!Ids, PB!TypeOK, PB!LifecycleTypeOK, PB!Objects,
         PB!Statuses, PB!Entities, PB!Contents, PB!Ids, PB!Results, PB!Steps

LEMMA StepOfAKeepsInv ==
  ASSUME IInv, OwnStepOfA
  PROVE  PA!SharedInv' /\ PB!SharedInv'
  <1>1. PA!SharedInv /\ PB!SharedInv /\ PA!Next
    BY DEF IInv, OwnStepOfA
  <1>2. PA!SharedInv'
    BY <1>1, PA!NextSharedInv, Assumptions
  <1>3. /\ lastId' \in Nat /\ lastId <= lastId'
        /\ PA!Evolved(db)
        /\ remote'[db] # None => remote'[db].id <= lastId'
    BY <1>1, PA!NextKeepsToTheRules, Assumptions
  <1>4. PB!Aside
    <2>1. PB!Evolved(db)
      BY <1>3 DEF PA!Evolved, PB!Evolved
    <2>2. \A l \in {db} : l = db
      OBVIOUS
    <2> QED
      BY <1>3, <2>1, <2>2 DEF PB!Aside, OwnStepOfA, ofB
  <1>5. PB!TypeOK'
    BY <1>1, <1>2, TypesBesideA
       DEF PA!SharedInv, PA!CustodyInv, PA!IInv, PB!SharedInv, PB!CustodyInv,
           PB!IInv, OwnStepOfA
  <1> QED
    BY <1>1, <1>2, <1>4, <1>5, PB!AsideKeepsInv, Assumptions

LEMMA TypesBesideB ==
  ASSUME PB!TypeOK', PA!TypeOK, UNCHANGED ofA
  PROVE  PA!TypeOK'
  BY DEF ofA, PB!TypeOK, PB!LifecycleTypeOK, PB!Statuses, PB!Entities,
         PB!Contents, PB!Ids, PA!TypeOK, PA!LifecycleTypeOK, PA!Objects,
         PA!Statuses, PA!Entities, PA!Contents, PA!Ids, PA!Results, PA!Steps

LEMMA StepOfBKeepsInv ==
  ASSUME IInv, OwnStepOfB
  PROVE  PB!SharedInv' /\ PA!SharedInv'
  <1>1. PB!SharedInv /\ PA!SharedInv /\ PB!Next
    BY DEF IInv, OwnStepOfB
  <1>2. PB!SharedInv'
    BY <1>1, PB!NextSharedInv, Assumptions
  <1>3. /\ lastId' \in Nat /\ lastId <= lastId'
        /\ PB!Evolved(db)
        /\ remote'[db] # None => remote'[db].id <= lastId'
    BY <1>1, PB!NextKeepsToTheRules, Assumptions
  <1>4. PA!Aside
    <2>1. PA!Evolved(db)
      BY <1>3 DEF PB!Evolved, PA!Evolved
    <2>2. \A l \in {db} : l = db
      OBVIOUS
    <2> QED
      BY <1>3, <2>1, <2>2 DEF PA!Aside, OwnStepOfB, ofA
  <1>5. PA!TypeOK'
    BY <1>1, <1>2, TypesBesideB
       DEF PB!SharedInv, PB!CustodyInv, PB!IInv, PA!SharedInv, PA!CustodyInv,
           PA!IInv, OwnStepOfB
  <1> QED
    BY <1>1, <1>2, <1>4, <1>5, PA!AsideKeepsInv, Assumptions

-----------------------------------------------------------------------------
(* Of the service that is there after a step of one of the two: either     *)
(* that one accounts for it, or it was there before and the other one knew.*)
LEMMA StepOfAIsKnown ==
  ASSUME IInv, OwnStepOfA
  PROVE  OneKnows'
  <1>1. /\ PA!CustodyInv /\ PA!Next /\ PA!TypeOK'
        /\ PA!WritesWhatIsThere /\ OneKnows
    BY StepOfAKeepsInv
       DEF IInv, OwnStepOfA, PA!SharedInv, PA!CustodyInv, PA!IInv
  <1> SUFFICES ASSUME NEW id \in PA!Ids, remote'[db] # None,
                      remote'[db].id = id
               PROVE  PA!Knows(id)' \/ PB!Knows(id)'
    <2>1. remote'[db] # None => remote'[db].id \in PA!Ids
      BY <1>1 DEF PA!TypeOK, PA!Entities
    <2> QED
      BY <2>1 DEF OneKnows
  <1>2. CASE PA!AccountOf(id)
    <2>1. ~PA!Others
      BY DEF PA!Others, PA!ExternalEdit, PA!ExternalDelete,
             PA!ExternalCreate, PA!RotateSecret, PA!External
    <2>2. PA!AccountOf(id)'
      BY <1>1, <1>2, <2>1, PA!NextAccountOf, Assumptions
    <2>3. id \in PA!CustodyEntities'
      BY DEF PA!CustodyEntities
    <2> QED
      BY <2>2, <2>3 DEF PA!AccountOf
  <1>3. CASE ~PA!AccountOf(id)
    <2>1. remote[db] # None /\ remote[db].id = id
      BY <1>3 DEF PA!AccountOf, PA!CustodyEntities
    <2>2. PA!Unrecorded \subseteq {id}
      BY <1>1, <2>1 DEF PA!WritesWhatIsThere, PA!Unrecorded
    <2>3. ~PA!Knows(id)
      BY <1>3, <2>2 DEF PA!AccountOf
    <2>4. PB!Knows(id)
      BY <1>1, <2>1, <2>3 DEF OneKnows
    <2>5. PB!Knows(id)'
      BY <2>4 DEF OwnStepOfA, ofB, PB!Knows, PB!Unrecorded
    <2> QED
      BY <2>5
  <1> QED
    BY <1>2, <1>3

LEMMA StepOfBIsKnown ==
  ASSUME IInv, OwnStepOfB
  PROVE  OneKnows'
  <1>1. /\ PB!CustodyInv /\ PB!Next /\ PB!TypeOK'
        /\ PB!WritesWhatIsThere /\ OneKnows
    BY StepOfBKeepsInv
       DEF IInv, OwnStepOfB, PB!SharedInv, PB!CustodyInv, PB!IInv
  <1> SUFFICES ASSUME NEW id \in PB!Ids, remote'[db] # None,
                      remote'[db].id = id
               PROVE  PB!Knows(id)' \/ PA!Knows(id)'
    <2>1. remote'[db] # None => remote'[db].id \in PB!Ids
      BY <1>1 DEF PB!TypeOK, PB!Entities
    <2> QED
      BY <2>1 DEF OneKnows
  <1>2. CASE PB!AccountOf(id)
    <2>1. ~PB!Others
      BY DEF PB!Others, PB!ExternalEdit, PB!ExternalDelete,
             PB!ExternalCreate, PB!RotateSecret, PB!External
    <2>2. PB!AccountOf(id)'
      BY <1>1, <1>2, <2>1, PB!NextAccountOf, Assumptions
    <2>3. id \in PB!CustodyEntities'
      BY DEF PB!CustodyEntities
    <2> QED
      BY <2>2, <2>3 DEF PB!AccountOf
  <1>3. CASE ~PB!AccountOf(id)
    <2>1. remote[db] # None /\ remote[db].id = id
      BY <1>3 DEF PB!AccountOf, PB!CustodyEntities
    <2>2. PB!Unrecorded \subseteq {id}
      BY <1>1, <2>1 DEF PB!WritesWhatIsThere, PB!Unrecorded
    <2>3. ~PB!Knows(id)
      BY <1>3, <2>2 DEF PB!AccountOf
    <2>4. PA!Knows(id)
      BY <1>1, <2>1, <2>3 DEF OneKnows
    <2>5. PA!Knows(id)'
      BY <2>4 DEF OwnStepOfB, ofA, PA!Knows, PA!Unrecorded
    <2> QED
      BY <2>5
  <1> QED
    BY <1>2, <1>3

-----------------------------------------------------------------------------
(* The invariant of both.                                                  *)

(* A restart ends the one reconciliation in flight; what it was about to   *)
(* record is lost, but known to be.                                        *)
LEMMA RestartKeepsInv ==
  ASSUME IInv, Restart
  PROVE  IInv'
  <1>1. PA!CrashAndRestart /\ PB!CrashAndRestart
    BY DEF Restart, A!CrashAndRestart, A!Crash, A!Fault, A!Unrecorded,
           PA!CrashAndRestart, PA!Crash, PA!Fault, PA!Unrecorded,
           B!CrashAndRestart, B!Crash, B!Fault, B!Unrecorded,
           PB!CrashAndRestart, PB!Crash, PB!Fault, PB!Unrecorded
  <1>2. PA!SharedInv' /\ PB!SharedInv'
    <2>1. PA!Next /\ PB!Next
      BY <1>1 DEF PA!Next, PB!Next
    <2> QED
      BY <2>1, PA!NextSharedInv, PB!NextSharedInv, Assumptions DEF IInv
  <1>3. OneAtATime'
    BY <1>1 DEF PA!CrashAndRestart, PA!Crash, OneAtATime
  <1>4. OneKnows'
    BY <1>1
       DEF IInv, OneKnows, PA!CrashAndRestart, PA!Crash, PA!Knows,
           PA!Unrecorded, PB!CrashAndRestart, PB!Crash, PB!Knows,
           PB!Unrecorded
  <1> QED
    BY <1>2, <1>3, <1>4 DEF IInv

LEMMA NextKeepsInv ==
  ASSUME IInv, [Next]_vars
  PROVE  IInv'
  <1>1. CASE StartA \/ WorkA \/ UsersA \/ SyncA \/ TimerA \/ Restored
    <2>1. OwnStepOfA
      BY <1>1, OwnStepsOfA DEF IInv
    <2>2. OneAtATime'
      BY <2>1 DEF OwnStepOfA, OneAtATime, ofB
    <2> QED
      BY <2>1, <2>2, StepOfAKeepsInv, StepOfAIsKnown DEF IInv
  <1>2. CASE StartB \/ WorkB \/ UsersB \/ SyncB \/ TimerB
    <2>1. OwnStepOfB
      BY <1>2, OwnStepsOfB DEF IInv
    <2>2. OneAtATime'
      BY <2>1 DEF OwnStepOfB, OneAtATime, ofA
    <2> QED
      BY <2>1, <2>2, StepOfBKeepsInv, StepOfBIsKnown DEF IInv
  <1>3. CASE Restart
    BY <1>3, RestartKeepsInv
  <1>4. CASE UNCHANGED vars
    <2>1. UNCHANGED PA!vars /\ UNCHANGED PB!vars
      BY <1>4 DEF vars, ofA, ofB, PA!vars, PA!lifecycleVars, PA!serviceVars,
                  PB!vars, PB!lifecycleVars, PB!serviceVars
    <2>2. PA!SharedInv' /\ PB!SharedInv'
      BY <2>1, PA!NextSharedInv, PB!NextSharedInv, Assumptions DEF IInv
    <2>3. OneAtATime' /\ OneKnows'
      BY <1>4 DEF IInv, vars, ofA, ofB, OneAtATime, OneKnows, PA!Knows,
                  PA!Unrecorded, PB!Knows, PB!Unrecorded
    <2> QED
      BY <2>2, <2>3 DEF IInv
  <1> QED
    BY <1>1, <1>2, <1>3, <1>4 DEF Next

LEMMA InitKeepsInv ==
  Init => IInv
  <1> SUFFICES ASSUME Init PROVE IInv
    OBVIOUS
  <1>1. PA!Init /\ PB!Init
    BY DEF Init, A!Init, A!LifecycleInit, PA!Init, PA!LifecycleInit, B!Init,
           B!LifecycleInit, PB!Init, PB!LifecycleInit
  <1>2. PA!CustodyInv /\ PB!CustodyInv
    BY <1>1, PA!InitCustody, PB!InitCustody, Assumptions
  <1>3. PA!VersionsIdentify /\ PA!WantIsResolved
    BY <1>1 DEF PA!Init, PA!LifecycleInit, PA!VersionsIdentify,
                PA!WantIsResolved
  <1>4. PB!VersionsIdentify /\ PB!WantIsResolved
    BY <1>1 DEF PB!Init, PB!LifecycleInit, PB!VersionsIdentify,
                PB!WantIsResolved
  <1>5. OneAtATime /\ OneKnows
    BY <1>1 DEF PA!Init, PA!LifecycleInit, OneAtATime, OneKnows
  <1> QED
    BY <1>2, <1>3, <1>4, <1>5 DEF IInv, PA!SharedInv, PB!SharedInv

(* The two keep, together, to what each keeps to on its own; the worker    *)
(* reconciles one at a time; and one of them knows the service they share. *)
THEOREM InductiveInvariant == Spec => []IInv
  BY InitKeepsInv, NextKeepsInv, PTL DEF Spec

-----------------------------------------------------------------------------
(* No deletion, re-creation, failure or restart of either resource leaves  *)
(* a service in OpenMetadata that neither records, is about to record, or  *)
(* failed to record - although each deletes and creates it under the       *)
(* other's feet.                                                           *)
THEOREM EveryServiceAccounted == Spec => []EveryServiceAccountedFor
  <1>1. IInv => EveryServiceAccountedFor
    BY DEF IInv, OneKnows, PA!Knows, PA!Unrecorded, PB!Knows, PB!Unrecorded,
           EveryServiceAccountedFor
  <1> QED
    BY <1>1, InductiveInvariant, PTL

(* A copy of either resource that records the service that is there, and   *)
(* its version, is not taken in by what the other wrote to it: the service *)
(* has the content of that copy's own spec.                                *)
THEOREM NoneTakesTheOthers == Spec => []NoneTakesTheOthersForItsOwn
  <1>1. IInv => NoneTakesTheOthersForItsOwn
    <2> SUFFICES ASSUME IInv PROVE NoneTakesTheOthersForItsOwn
      OBVIOUS
    <2> DEFINE e == remote[db]
               Own(o) == e # None /\ e.id = o.status.id
    <2>1. e # None => e.ver \in Nat
      BY DEF IInv, PA!SharedInv, PA!CustodyInv, PA!IInv, PA!TypeOK,
             PA!Entities, PA!Ids
    <2>2. ASSUME NEW o \in {crA, cachedA, objA} \ {None}, Own(o),
                 A!InSync(o, e)
          PROVE  A!HasContentOf(e, o.spec)
      <3>1. PA!Sound(remote, secret, o.spec, o.gen, o.status)
        BY <2>2 DEF IInv, PA!SharedInv, PA!VersionsIdentify
      <3>2. o.spec \in Specs
        <4>1. o \in PA!Objects(PA!Statuses)
          BY <2>2 DEF IInv, PA!SharedInv, PA!CustodyInv, PA!IInv, PA!TypeOK,
                      PA!LifecycleTypeOK
        <4> QED
          BY <4>1 DEF PA!Objects
      <3> QED
        BY <2>1, <2>2, <3>1, <3>2
           DEF A!InSync, A!HasContentOf, A!Content, PA!Sound, PA!Content
    <2>3. ASSUME NEW o \in {crB, cachedB, objB} \ {None}, Own(o),
                 B!InSync(o, e)
          PROVE  B!HasContentOf(e, o.spec)
      <3>1. PB!Sound(remote, secret, o.spec, o.gen, o.status)
        BY <2>3 DEF IInv, PB!SharedInv, PB!VersionsIdentify
      <3>2. o.spec \in Specs
        <4>1. o \in PB!Objects(PB!Statuses)
          BY <2>3 DEF IInv, PB!SharedInv, PB!CustodyInv, PB!IInv, PB!TypeOK,
                      PB!LifecycleTypeOK
        <4> QED
          BY <4>1 DEF PB!Objects
      <3> QED
        BY <2>1, <2>3, <3>1, <3>2
           DEF B!InSync, B!HasContentOf, B!Content, PB!Sound, PB!Content
    <2> QED
      BY <2>2, <2>3 DEF NoneTakesTheOthersForItsOwn
  <1> QED
    BY <1>1, InductiveInvariant, PTL

(* What holds of a resource on its own holds of each beside the other: a   *)
(* service is PUT only for an object that is there and has the finalizer,  *)
(* and an idle controller forgets neither of the two names, although the   *)
(* reconciliation of one keeps the other waiting.                          *)
THEOREM EachIsServed ==
  Spec => [](/\ PA!FinalizerGuardsUpsert /\ PB!FinalizerGuardsUpsert
             /\ PA!NeverForgotten /\ PB!NeverForgotten)
  <1>1. PA!IInv => PA!FinalizerGuardsUpsert /\ PA!NeverForgotten
    BY DEF PA!IInv, PA!LifecycleInv, PA!StepFitsObject, PA!Follows,
           PA!FinalizerGuardsUpsert, PA!FinalizerGuards
  <1>2. PB!IInv => PB!FinalizerGuardsUpsert /\ PB!NeverForgotten
    BY DEF PB!IInv, PB!LifecycleInv, PB!StepFitsObject, PB!Follows,
           PB!FinalizerGuardsUpsert, PB!FinalizerGuards
  <1>3. IInv => PA!IInv /\ PB!IInv
    BY DEF IInv, PA!SharedInv, PA!CustodyInv, PB!SharedInv, PB!CustodyInv
  <1> QED
    BY <1>1, <1>2, <1>3, InductiveInvariant, PTL

=============================================================================
