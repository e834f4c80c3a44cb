------------------------------- MODULE Custody -------------------------------
(***************************************************************************)
(* What a managed resource promises about the entities it stands for,      *)
(* whatever their kind and however its controller goes about it: the       *)
(* operator makes entities only in the custody of an object that cannot    *)
(* go unnoticed, it removes none but the recorded one of an object that is *)
(* to go, and the object goes only when that one is not there any more.    *)
(*                                                                         *)
(* No cache, no queue, no calls, no failures: those are the business of    *)
(* the modules that implement this one.                                    *)
(***************************************************************************)
EXTENDS Naturals

CONSTANT None

VARIABLES
  object,    \* "none", "bare", "kept" (it has the finalizer), "doomed" (it
             \* has the finalizer and is to be deleted)
  record,    \* the ID that its status records, or None
  entities,  \* the IDs of the entities that exist
  meddling   \* how often others have interfered with the entities

custodyVars == <<object, record, entities, meddling>>

Init ==
  /\ object = "none"
  /\ record = None
  /\ entities = {}
  /\ meddling = 0

-----------------------------------------------------------------------------
(* The user's side.                                                        *)

Want ==
  /\ object = "none"
  /\ object' = "bare"
  /\ UNCHANGED <<record, entities, meddling>>

Withdraw ==
  /\ \/ object = "bare" /\ object' = "none"
     \/ object = "kept" /\ object' = "doomed"
  /\ UNCHANGED <<record, entities, meddling>>

(* Others make and remove entities as they like.                           *)
Meddle ==
  /\ meddling' = meddling + 1
  /\ \/ UNCHANGED entities
     \/ \E id \in entities' : entities' = entities \cup {id}
     \/ \E id \in entities : entities' = entities \ {id}
  /\ UNCHANGED <<object, record>>

-----------------------------------------------------------------------------
(* The operator's side.                                                    *)

Keep ==
  /\ object = "bare"
  /\ object' = "kept"
  /\ UNCHANGED <<record, entities, meddling>>

(* An entity may still arrive when the deletion of the object has been     *)
(* asked for, never for an object that is not kept.                        *)
Make ==
  /\ object \in {"kept", "doomed"}
  /\ \E id \in entities' \ entities : entities' = entities \cup {id}
  /\ UNCHANGED <<object, record, meddling>>

(* What is recorded is there, unless others took it away since.            *)
Record ==
  /\ object = "kept"
  /\ record' # None
  /\ record' \in entities \/ meddling > 0
  /\ UNCHANGED <<object, entities, meddling>>

Remove ==
  /\ object = "doomed"
  /\ record \in entities
  /\ entities' = entities \ {record}
  /\ UNCHANGED <<object, record, meddling>>

Release ==
  /\ object = "doomed"
  /\ record \notin entities
  /\ object' = "none"
  /\ record' = None
  /\ UNCHANGED <<entities, meddling>>

Next ==
  \/ Want \/ Withdraw \/ Meddle
  \/ Keep \/ Make \/ Record \/ Remove \/ Release

Spec == Init /\ [][Next]_custodyVars

-----------------------------------------------------------------------------
(* What that amounts to.                                                   *)

(* Only a guarded object records anything, and what a live one records is  *)
(* there as long as others keep their hands off.                           *)
RecordIsThere ==
  /\ record # None => object \in {"kept", "doomed"}
  /\ meddling = 0 /\ object = "kept" /\ record # None => record \in entities

=============================================================================
