------------------------------- MODULE EntityTag -------------------------------
(***************************************************************************)
(* The OpenMetadataEntityTag controller: one custom resource, its          *)
(* reconciliation by EntityTagHandler, and the labels it puts on entities  *)
(* of OpenMetadata that ingestion brought there (assets).                  *)
(*                                                                         *)
(* The status lists the assets that the resource labelled and with which   *)
(* tag.  What to add and to remove follows from that list and from a       *)
(* search; the labels themselves are never read.                           *)
(***************************************************************************)
EXTENDS ManagedResource

CONSTANTS
  Assets,       \* the entities that ingestion may bring
  Ingested,     \* those of them that are there from the start
  Tags,         \* the tags the specs name
  TagOf,        \* the tag each spec names
  MatchOf,      \* the assets that each spec's patterns match
  ExternalOps,  \* what others do: subset of {"ingest", "drop", "untag",
                \* "dropTag", "churn"}
  MaxExternal   \* bound: how often they do it

ASSUME SpecsAssumption ==
  /\ TagOf \in [Specs -> Tags]
  /\ MatchOf \in [Specs -> SUBSET Assets]
  /\ Ingested \subseteq Assets
  /\ MaxExternal \in Nat

VARIABLES
  catalog,   \* which assets are in OpenMetadata; an entity that is gone never
             \* comes back under its ID
  tags,      \* the tags that exist in OpenMetadata
  labels,    \* the labels this resource put on assets: pairs of asset and tag
  matched,   \* the search result of the reconciliation in flight
  external,  \* what others did so far, counted
  lost,      \* history: labels whose recording in status failed
  torn       \* history: labels taken away by others, alone or with their
             \* tag, or by a removal whose outcome is not (yet) recorded

tagVars == <<catalog, tags, labels, matched, external, lost, torn>>
vars == <<lifecycleVars, tagVars>>

Labels == Assets \X Tags

Statuses ==
  [tag : Tags \cup {None}, assets : SUBSET Assets, observed : 0..MaxGen,
   ready : {"Unknown", "True", "False"}]

EmptyStatus ==
  [tag |-> None, assets |-> {}, observed |-> 0, ready |-> "Unknown"]

ASSUME NoneAssumption ==
  None \notin Objects(Statuses) \cup Statuses \cup Tags

Steps == {"idle", "addFinalizer", "observe", "search", "add", "remove",
          "persist", "delete", "release"}

TypeOK ==
  /\ LifecycleTypeOK(Statuses, Steps)
  /\ catalog \in [Assets -> {"absent", "present", "gone"}]
  /\ tags \subseteq Tags
  /\ labels \subseteq Labels
  /\ matched \subseteq Assets
  /\ external \in 0..MaxExternal
  /\ lost \subseteq Labels
  /\ torn \subseteq Labels

Init ==
  /\ LifecycleInit
  /\ catalog = [a \in Assets |-> IF a \in Ingested THEN "present" ELSE "absent"]
  /\ tags = Tags
  /\ labels = {}
  /\ matched = {}
  /\ external = 0
  /\ lost = {}
  /\ torn = {}

-----------------------------------------------------------------------------
(* OpenMetadata.                                                           *)

Present == {a \in Assets : catalog[a] = "present"}

(* What the search answers for the includes and excludes of a spec.        *)
SearchEntities(spec) == MatchOf[spec] \cap Present

(* A bulk call that succeeds labels every asset that is still there.       *)
Labelled(assets, tag) == (assets \cap Present) \X {tag}

(* The labels that a status records.                                       *)
Assignments(status) == status.assets \X {status.tag}

External(op) ==
  /\ op \in ExternalOps
  /\ external < MaxExternal
  /\ external' = external + 1
  /\ UNCHANGED <<lifecycleVars, matched, lost>>

Ingest(a) ==
  /\ External("ingest")
  /\ catalog[a] = "absent"
  /\ catalog' = [catalog EXCEPT ![a] = "present"]
  /\ UNCHANGED <<tags, labels, torn>>

Drop(a) ==
  /\ External("drop")
  /\ catalog[a] = "present"
  /\ catalog' = [catalog EXCEPT ![a] = "gone"]
  /\ labels' = {l \in labels : l[1] # a}
  /\ UNCHANGED <<tags, torn>>

Untag(l) ==
  /\ External("untag")
  /\ l \in labels
  /\ labels' = labels \ {l}
  /\ torn' = torn \cup {l}
  /\ UNCHANGED <<catalog, tags>>

(* Deleting a tag takes its labels along.                                  *)
DropTag(t) ==
  /\ External("dropTag")
  /\ t \in tags
  /\ tags' = tags \ {t}
  /\ labels' = {l \in labels : l[2] # t}
  /\ torn' = torn \cup (labels \ labels')
  /\ UNCHANGED catalog

(* A tag of the same name is created again, with no labels.  What a        *)
(* reconciliation in flight has looked up is the ID of the one deleted:    *)
(* for it the tag stays gone, so the new one is let in when it has ended.  *)
RestoreTag(t) ==
  /\ t \in Tags \ tags
  /\ pc \in {"search", "add", "remove"} => t # TagOf[obj.spec]
  /\ tags' = tags \cup {t}
  /\ UNCHANGED <<lifecycleVars, catalog, labels, matched, external, lost, torn>>

-----------------------------------------------------------------------------
(* EntityTagHandler.Reconcile.                                             *)

NotReady == [st EXCEPT !.ready = "False"]

Failed == GotoPersist(NotReady, "error") /\ matched' = {}

(* Resolve the connection, the auth token and the tag.  The CRD schema     *)
(* admits no entity type without a search index.                           *)
Observe ==
  /\ pc = "observe"
  /\ \/ /\ prereqs
        /\ TagOf[obj.spec] \in tags
        /\ Goto("search")
        /\ UNCHANGED <<faults, matched>>
     \/ /\ ~prereqs \/ TagOf[obj.spec] \notin tags
        /\ Failed
        /\ UNCHANGED faults
     \/ /\ Fault
        /\ Failed
  /\ UNCHANGED <<cr, cached, prereqs, lastUid, catalog, tags, labels, external,
                 lost, torn>>

Search ==
  /\ pc = "search"
  /\ \/ /\ matched' = SearchEntities(obj.spec)
        /\ Goto("add")
        /\ UNCHANGED faults
     \/ /\ Fault
        /\ Failed
  /\ UNCHANGED <<cr, cached, prereqs, lastUid, catalog, tags, labels, external,
                 lost, torn>>

(* Others change the index while the search pages over it, and an entity   *)
(* is missed (see EntitySearch).                                           *)
SearchMisses ==
  /\ pc = "search"
  /\ "churn" \in ExternalOps
  /\ external < MaxExternal
  /\ external' = external + 1
  /\ \E a \in SearchEntities(obj.spec) :
       matched' = SearchEntities(obj.spec) \ {a}
  /\ Goto("add")
  /\ UNCHANGED <<cr, cached, prereqs, lastUid, faults, catalog, tags, labels,
                 lost, torn>>

(* The status records another tag than the spec names.                     *)
Renaming == obj.status.assets # {} /\ obj.status.tag # TagOf[obj.spec]

(* Mutant of ToAdd: a rename adds the new tag to newcomers only.           *)
ToAddNewcomers == matched \ obj.status.assets

ToAdd == IF Renaming THEN matched ELSE matched \ obj.status.assets

(* Mutant of ToRemove: a rename keeps the old tag where the spec matches.  *)
ToRemoveUnmatched == obj.status.assets \ matched

ToRemove ==
  IF Renaming THEN obj.status.assets ELSE obj.status.assets \ matched

OldTag == IF Renaming THEN obj.status.tag ELSE TagOf[obj.spec]

(* BulkAddTagToAssets, if there is anything to add.  It may fail with any  *)
(* part of its effect; then nothing of it is recorded.                     *)
BulkAdd ==
  /\ pc = "add"
  /\ LET tag == TagOf[obj.spec]
     IN  \/ /\ ToAdd = {} \/ tag \in tags
            /\ labels' = labels \cup Labelled(ToAdd, tag)
            /\ torn' = torn \ Labelled(ToAdd, tag)
            /\ Goto("remove")
            /\ UNCHANGED <<faults, matched, lost>>
         \/ /\ ToAdd # {}
            /\ tag \notin tags
            /\ Failed
            /\ UNCHANGED <<labels, faults, lost, torn>>
         \/ /\ ToAdd # {}
            /\ tag \in tags
            /\ Fault
            /\ \E part \in SUBSET Labelled(ToAdd, tag) :
                 /\ labels' = labels \cup part
                 /\ torn' = torn \ part
                 /\ lost' = lost \cup part
            /\ Failed
  /\ UNCHANGED <<cr, cached, prereqs, lastUid, catalog, tags, external>>

(* Mutant of Applied: the generation is off by one.                        *)
AppliedAhead ==
  [st EXCEPT !.tag = IF matched = {} THEN None ELSE TagOf[obj.spec],
             !.assets = matched,
             !.observed = obj.gen + 1,
             !.ready = "True"]

(* What a reconciliation that got through leaves in status.                *)
Applied ==
  [st EXCEPT !.tag = IF matched = {} THEN None ELSE TagOf[obj.spec],
             !.assets = matched,
             !.observed = obj.gen,
             !.ready = "True"]

(* BulkRemoveTagFromAssets, if there is anything to remove.  In a rename   *)
(* the old tag is looked up first, and nothing is to be done if it is      *)
(* gone; otherwise the tag looked up at the start is used.                 *)
BulkRemove ==
  /\ pc = "remove"
  /\ LET removed == ToRemove \X {OldTag}
     IN  \/ /\ ToRemove = {} \/ OldTag \in tags \/ Renaming
            /\ labels' = labels \ removed
            /\ torn' = torn \cup removed
            /\ GotoPersist(Applied, "requeue")
            /\ matched' = {}
            /\ UNCHANGED <<faults, lost>>
         \/ /\ ToRemove # {}
            /\ \/ /\ OldTag \notin tags
                  /\ ~Renaming
                  /\ UNCHANGED <<labels, faults, torn>>
               \/ /\ Fault
                  /\ \E part \in SUBSET removed :
                       /\ labels' = labels \ part
                       /\ torn' = torn \cup part
            /\ lost' = lost \cup Labelled(ToAdd, TagOf[obj.spec])
            /\ Failed
  /\ UNCHANGED <<cr, cached, prereqs, lastUid, catalog, tags, external>>

(* The labels that a status write not accepted leaves unrecorded.          *)
Unrecorded ==
  CASE pc = "remove"  -> Labelled(ToAdd, TagOf[obj.spec])
    [] pc = "persist" -> Assignments(st)
    [] OTHER          -> {}

Recorded == IF cr = None THEN {} ELSE Assignments(cr.status)

Persist ==
  /\ SetConditionAndPersist
  /\ lost' = (lost \cup Unrecorded) \ Recorded'
  /\ torn' = torn \cap Recorded'
  /\ UNCHANGED <<catalog, tags, labels, matched, external>>

-----------------------------------------------------------------------------
(* EntityTagHandler.HandleDeletion: one bulk removal of the recorded tag   *)
(* from the recorded assets, if any; a tag that is gone took its labels    *)
(* along and leaves nothing to remove.  Connection errors, which come      *)
(* first, and a failing removal are written to the status, a failing       *)
(* lookup of the tag is not.                                               *)
Delete ==
  /\ pc = "delete"
  /\ \/ /\ st.assets = {}
        /\ Goto("release")
        /\ UNCHANGED <<labels, matched, faults>>
     \/ /\ st.assets # {}
        /\ ~prereqs
        /\ Failed
        /\ UNCHANGED <<labels, faults>>
     \/ /\ st.assets # {}
        /\ prereqs
        /\ labels' = labels \ Assignments(st)
        /\ Goto("release")
        /\ UNCHANGED <<matched, faults>>
     \/ /\ st.assets # {}
        /\ prereqs
        /\ Fault
        /\ \/ Return("error") /\ UNCHANGED <<labels, matched>>
           \/ /\ \E part \in SUBSET Assignments(st) : labels' = labels \ part
              /\ Failed
  /\ UNCHANGED <<cr, cached, prereqs, lastUid, catalog, tags, external, lost,
                 torn>>

-----------------------------------------------------------------------------
(* The whole system.                                                       *)

Users ==
  \/ \E s \in Specs : UserCreate(s, EmptyStatus) \/ UserEdit(s)
  \/ UserDelete
  \/ PrereqsLost

Others ==
  \/ \E a \in Assets : Ingest(a) \/ Drop(a)
  \/ \E l \in Labels : Untag(l)
  \/ \E t \in Tags : DropTag(t) \/ RestoreTag(t)

CrashAndRestart ==
  /\ Crash
  /\ matched' = {}
  /\ lost' = (lost \cup Unrecorded) \ Recorded
  /\ UNCHANGED <<catalog, tags, labels, external, torn>>

Worker ==
  \/ Dequeue /\ UNCHANGED tagVars
  \/ EnsurePresent /\ UNCHANGED tagVars
  \/ Observe
  \/ Search
  \/ SearchMisses
  \/ BulkAdd
  \/ BulkRemove
  \/ Persist
  \/ Delete
  \/ EnsureAbsent /\ UNCHANGED tagVars

Next ==
  \/ Users /\ UNCHANGED tagVars
  \/ Others
  \/ PrereqsRestored /\ UNCHANGED tagVars
  \/ CacheSync /\ UNCHANGED tagVars
  \/ TimerFires /\ UNCHANGED tagVars
  \/ CrashAndRestart
  \/ Worker

Spec == Init /\ [][Next]_vars

Fairness ==
  /\ WF_vars(CacheSync /\ UNCHANGED tagVars)
  /\ WF_vars(TimerFires /\ UNCHANGED tagVars)
  /\ WF_vars(PrereqsRestored /\ UNCHANGED tagVars)
  /\ WF_vars(Worker)

FairSpec == Spec /\ Fairness

-----------------------------------------------------------------------------
(* Properties.                                                             *)

(* Every label the operator put on an asset is recorded in the status,     *)
(* about to be recorded by the reconciliation in flight, or one whose      *)
(* recording failed: renames, narrowed patterns and vanishing assets leave *)
(* nothing behind that a deletion would not find; only bulk calls that     *)
(* fail, status writes that are refused and crashes do.                    *)
EveryLabelAccountedFor == labels \subseteq Recorded \cup Unrecorded \cup lost

(* Every assignment the status of a live resource records is there, unless *)
(* the asset is gone, others removed the label or its tag, or the operator *)
(* itself did and could not record that: a reconciliation from a stale     *)
(* status, or one that failed half-way, adds nothing to the list that it   *)
(* did not apply.                                                          *)
RecordedIsLabelled ==
  cr # None /\ ~cr.deleting =>
    \A l \in Recorded : l[1] \in Present => l \in labels \cup torn

(* The object never goes while one of the labels it records is there.      *)
ReleaseAfterCleanup ==
  [][cr # None /\ cr' # cr /\ (cr' = None \/ cr'.uid # cr.uid) =>
       labels \cap Recorded = {}]_vars

Live == cr # None /\ ~cr.deleting /\ TagOf[cr.spec] \in tags

Wanted == SearchEntities(cr.spec) \X {TagOf[cr.spec]}

(* Once users and others leave it alone, the status lists what the spec    *)
(* matches, and what it lists is labelled, except for labels taken away    *)
(* by others, alone or with a tag that is back since, or by a removal      *)
(* whose outcome was not recorded (see TagsStayApplied).                   *)
Settled ==
  Live => /\ Recorded = Wanted
          /\ Wanted \subseteq labels \cup torn
          /\ cr.status.observed = cr.gen
          /\ cr.status.ready = "True"

Converges == <>[]Settled

(* A deleted resource goes once prerequisites are back and calls succeed.  *)
DeletionCompletes ==
  []<>(cr = None \/ ~cr.deleting)

(* The same without the exception: "we just add the tag to matched         *)
(* entities that don't have it yet" (entitytag_handler.go:54-55).  In the  *)
(* end every matched entity has the tag.                                   *)
TagsStayApplied == <>[](Live => Wanted \subseteq labels)

=============================================================================
