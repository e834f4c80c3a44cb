--------------------------- MODULE ManagedResource ---------------------------
(***************************************************************************)
(* What every kind of custom resource of the operator goes through,        *)
(* whatever it stands for in OpenMetadata: its object in the Kubernetes    *)
(* API server, the informer cache the operator reads it from, the work     *)
(* queue, and the common part of a reconciliation: the Reconcile method of *)
(* the controller, the finalizer, and the one status write that ends it.   *)
(*                                                                         *)
(* The module follows ONE custom resource (one name in one namespace),     *)
(* through any number of deletions and re-creations.  A controller runs    *)
(* one worker and the work queue never hands a name to two workers, so at  *)
(* most one reconciliation of the resource is in flight.                   *)
(*                                                                         *)
(* A module for one kind EXTENDS this one, adds the state of OpenMetadata  *)
(* that the kind manages and the steps of its handler, and closes the      *)
(* next-state relation.                                                    *)
(***************************************************************************)
EXTENDS Integers

CONSTANTS
  Specs,      \* the specs a user may give the resource
  None,       \* "there is no such thing" (no object, no entity, no ID)
  MaxUid,     \* bound: how often the resource is created
  MaxGen,     \* bound: generations of one incarnation (edits + 1)
  MaxFaults   \* bound: failures of calls, crashes, missing prerequisites

ASSUME BoundsAssumption ==
  /\ MaxUid \in Nat
  /\ MaxGen \in Nat \ {0}
  /\ MaxFaults \in Nat

VARIABLES
  cr,        \* the object as the API server stores it, or None
  cached,    \* the copy in the operator's informer cache, possibly stale
  queued,    \* is the name in the work queue?
  timer,     \* is a delayed requeue (Result.RequeueAfter) pending?
  pc,        \* where the reconciliation in flight stands; "idle": none
  obj,       \* the object it read, i.e. the revision its writes are based on
  st,        \* the status it is going to write
  res,       \* what it returns after that write: "error", "requeue", "done"
  prereqs,   \* can the connection, the auth token and the secrets be read?
  lastUid,   \* incarnations so far
  faults     \* failures so far

lifecycleVars ==
  <<cr, cached, queued, timer, pc, obj, st, res, prereqs, lastUid, faults>>

(* The metadata and the status of a custom resource.  The status depends   *)
(* on the kind, hence the parameter.  The resourceVersion is left out: two *)
(* snapshots of one object with the same value are interchangeable, and    *)
(* uid tells incarnations apart, so "based on the stored revision" is      *)
(* equality with the stored object.                                        *)
Objects(Statuses) ==
  [uid : 1..MaxUid, gen : 1..MaxGen, deleting : BOOLEAN,
   finalizer : BOOLEAN, spec : Specs, status : Statuses]

Results == {"error", "requeue", "done"}

LifecycleTypeOK(Statuses, Steps) ==
  /\ cr \in Objects(Statuses) \cup {None}
  /\ cached \in Objects(Statuses) \cup {None}
  /\ obj \in Objects(Statuses) \cup {None}
  /\ st \in Statuses \cup {None}
  /\ queued \in BOOLEAN
  /\ timer \in BOOLEAN
  /\ pc \in Steps
  /\ res \in Results
  /\ prereqs \in BOOLEAN
  /\ lastUid \in 0..MaxUid
  /\ faults \in 0..MaxFaults

LifecycleInit ==
  /\ cr = None
  /\ cached = None
  /\ queued = FALSE
  /\ timer = FALSE
  /\ pc = "idle"
  /\ obj = None
  /\ st = None
  /\ res = "done"
  /\ prereqs = TRUE
  /\ lastUid = 0
  /\ faults = 0

Fault == faults < MaxFaults /\ faults' = faults + 1

-----------------------------------------------------------------------------
(* The users of the Kubernetes API.                                        *)

UserCreate(spec, emptyStatus) ==
  /\ cr = None
  /\ lastUid < MaxUid
  /\ lastUid' = lastUid + 1
  /\ cr' = [uid |-> lastUid + 1, gen |-> 1, deleting |-> FALSE,
            finalizer |-> FALSE, spec |-> spec, status |-> emptyStatus]
  /\ UNCHANGED <<cached, queued, timer, pc, obj, st, res, prereqs, faults>>

(* Kubernetes accepts a new spec while the object waits for its finalizer. *)
UserEdit(spec) ==
  /\ cr # None
  /\ spec # cr.spec
  /\ cr.gen < MaxGen
  /\ cr' = [cr EXCEPT !.spec = spec, !.gen = @ + 1]
  /\ UNCHANGED <<cached, queued, timer, pc, obj, st, res, prereqs, lastUid,
                 faults>>

(* With a finalizer the object is only marked; without one it goes.        *)
UserDelete ==
  /\ cr # None
  /\ ~cr.deleting
  /\ cr' = IF cr.finalizer THEN [cr EXCEPT !.deleting = TRUE] ELSE None
  /\ UNCHANGED <<cached, queued, timer, pc, obj, st, res, prereqs, lastUid,
                 faults>>

(* The OpenMetadataConnection, the auth secret and the secrets a spec      *)
(* refers to are separate objects that nothing protects from deletion.     *)
PrereqsLost ==
  /\ prereqs
  /\ prereqs' = FALSE
  /\ Fault
  /\ UNCHANGED <<cr, cached, queued, timer, pc, obj, st, res, lastUid>>

PrereqsRestored ==
  /\ ~prereqs
  /\ prereqs' = TRUE
  /\ UNCHANGED <<cr, cached, queued, timer, pc, obj, st, res, lastUid, faults>>

-----------------------------------------------------------------------------
(* Informer, work queue, process.                                          *)

(* A watch event arrives.  The controllers register For(...) without a     *)
(* predicate: every change of the object, its status included, enqueues    *)
(* its name.                                                               *)
CacheSync ==
  /\ cached # cr
  /\ cached' = cr
  /\ queued' = TRUE
  /\ UNCHANGED <<cr, timer, pc, obj, st, res, prereqs, lastUid, faults>>

TimerFires ==
  /\ timer
  /\ timer' = FALSE
  /\ queued' = TRUE
  /\ UNCHANGED <<cr, cached, pc, obj, st, res, prereqs, lastUid, faults>>

(* The process dies anywhere in a reconciliation; its successor lists the  *)
(* objects before it starts workers and enqueues each of them.             *)
Crash ==
  /\ Fault
  /\ pc' = "idle"
  /\ obj' = None
  /\ st' = None
  /\ res' = "done"
  /\ cached' = cr
  /\ queued' = (cr # None)
  /\ timer' = FALSE
  /\ UNCHANGED <<cr, prereqs, lastUid>>

-----------------------------------------------------------------------------
(* The common part of a reconciliation.                                    *)

(* Mutants of Return, for the runs that check what it is for: errors are   *)
(* swallowed; the periodic requeue is forgotten.                           *)
ReturnWithoutRetry(result) ==
  /\ pc' = "idle"
  /\ obj' = None
  /\ st' = None
  /\ res' = "done"
  /\ queued' = queued
  /\ timer' = (timer \/ result = "requeue")

ReturnWithoutTimer(result) ==
  /\ pc' = "idle"
  /\ obj' = None
  /\ st' = None
  /\ res' = "done"
  /\ queued' = (queued \/ result = "error")
  /\ timer' = timer

(* Reconcile returns and the controller acts on what it returned.  A       *)
(* delayed requeue does not cancel one that is already pending.            *)
Return(result) ==
  /\ pc' = "idle"
  /\ obj' = None
  /\ st' = None
  /\ res' = "done"
  /\ queued' = (queued \/ result = "error")
  /\ timer' = (timer \/ result = "requeue")

Goto(step) ==
  /\ pc' = step
  /\ UNCHANGED <<queued, timer, obj, st, res>>

(* Every path of a handler that writes the status writes it once, last.    *)
GotoPersist(status, result) ==
  /\ pc' = "persist"
  /\ st' = status
  /\ res' = result
  /\ UNCHANGED <<queued, timer, obj>>

(* An update is accepted if it is based on the stored revision, and        *)
(* refused on a conflict, on a missing object, or because the call fails.  *)
Accepted(new) ==
  /\ cr = obj
  /\ cr' = new
  /\ UNCHANGED faults

Refused ==
  /\ UNCHANGED cr
  /\ \/ cr # obj /\ UNCHANGED faults
     \/ cr = obj /\ Fault

(* Mutants of FirstStep: business logic before the finalizer is stored;    *)
(* the finalizer released before the cleanup.                              *)
FirstStepWithoutFinalizer(o) ==
  IF o.deleting
  THEN IF o.finalizer THEN "delete" ELSE "idle"
  ELSE "observe"

FirstStepWithoutCleanup(o) ==
  IF o.deleting
  THEN IF o.finalizer THEN "release" ELSE "idle"
  ELSE IF o.finalizer THEN "observe" ELSE "addFinalizer"

(* Where the reconciliation of the object read begins.                     *)
FirstStep(o) ==
  IF o.deleting
  THEN IF o.finalizer THEN "delete" ELSE "idle"
  ELSE IF o.finalizer THEN "observe" ELSE "addFinalizer"

(* The worker takes the name and reads the object from the cache.          *)
Dequeue ==
  /\ pc = "idle"
  /\ queued
  /\ queued' = FALSE
  /\ IF cached = None \/ FirstStep(cached) = "idle"
     THEN UNCHANGED <<pc, obj, st>>
     ELSE /\ pc' = FirstStep(cached)
          /\ obj' = cached
          /\ st' = cached.status
  /\ UNCHANGED <<cr, cached, timer, res, prereqs, lastUid, faults>>

(* After the finalizer is stored Reconcile just returns: the watch event   *)
(* of that very update brings the name back.                               *)
EnsurePresent ==
  /\ pc = "addFinalizer"
  /\ \/ Accepted([cr EXCEPT !.finalizer = TRUE]) /\ Return("done")
     \/ Refused /\ Return("error")
  /\ UNCHANGED <<cached, prereqs, lastUid>>

(* The status write that ends a reconciliation.  Its error is logged and   *)
(* dropped: what Reconcile returns was decided before.                     *)
SetConditionAndPersist ==
  /\ pc = "persist"
  /\ \/ Accepted([cr EXCEPT !.status = st])
     \/ Refused
  /\ Return(res)
  /\ UNCHANGED <<cached, prereqs, lastUid>>

(* Removing the last finalizer of a deleted object makes it go.            *)
EnsureAbsent ==
  /\ pc = "release"
  /\ \/ Accepted(None) /\ Return("done")
     \/ Refused /\ Return("error")
  /\ UNCHANGED <<cached, prereqs, lastUid>>

-----------------------------------------------------------------------------
(* Whether an object exists, is guarded by the finalizer, or waits for it. *)
ObjectPhase(o) ==
  IF o = None THEN "none"
  ELSE IF ~o.finalizer THEN "bare"
  ELSE IF o.deleting THEN "doomed"
  ELSE "kept"

-----------------------------------------------------------------------------
(* What always relates the stored object, its stale copies and the         *)
(* reconciliation in flight, whatever the kind.                            *)

(* A copy was once the stored object: it never runs ahead of it, and a     *)
(* copy that shows a live, finalized object is right about that.           *)
Follows(o) ==
  /\ o.uid <= lastUid
  /\ cr # None /\ cr.uid = o.uid =>
       /\ o.gen <= cr.gen
       /\ o.deleting => cr.deleting
       /\ o.finalizer => cr.finalizer
  /\ o.finalizer /\ ~o.deleting => cr # None /\ cr.uid = o.uid

(* Each step of a reconciliation works on an object it is meant for.       *)
StepFitsObject ==
  /\ pc = "idle" => obj = None /\ st = None
  /\ pc # "idle" => obj # None /\ st # None
  /\ pc = "addFinalizer" => ~obj.deleting /\ ~obj.finalizer
  /\ pc \notin {"idle", "addFinalizer"} => obj.finalizer
  /\ pc \in {"delete", "release"} => obj.deleting
  /\ pc \notin {"idle", "addFinalizer", "persist", "delete", "release"} =>
       ~obj.deleting

LifecycleInv ==
  /\ StepFitsObject
  /\ cr # None => cr.uid = lastUid /\ (cr.deleting => cr.finalizer)
  /\ cached # None => Follows(cached)
  /\ obj # None => Follows(obj)
  /\ obj # None /\ obj.deleting /\ cached # None /\ cached.uid = obj.uid =>
       cached.deleting
  /\ pc # "idle" => queued \/ cached = obj

-----------------------------------------------------------------------------
(* What the properties of several kinds say.                               *)

(* While the reconciliation in flight is at one of the steps, the very     *)
(* incarnation it read exists and carries the finalizer.                   *)
FinalizerGuards(steps) ==
  pc \in steps => cr # None /\ cr.uid = obj.uid /\ cr.finalizer

(* As long as the object exists, and has to go or has none of the hopeless *)
(* specs, an idle controller has the name queued, a requeue pending, or a  *)
(* watch event on its way.                                                 *)
Awake(hopeless) ==
  pc = "idle" /\ cr # None /\ (cr.deleting \/ cr.spec \notin hopeless) =>
    queued \/ timer \/ cached # cr

=============================================================================
