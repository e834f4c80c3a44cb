----------------------------- MODULE EntitySearch -----------------------------
(***************************************************************************)
(* SearchEntities of the OpenMetadata client: the entities whose names     *)
(* match a pattern of the includes and none of the excludes, fetched page  *)
(* by page from an index that ingestion and others change meanwhile.       *)
(*                                                                         *)
(* A page is asked for by its offset among the hits, so a hit that comes   *)
(* or goes in front of it shifts what the page holds.  What the loop makes *)
(* of that is the subject of this module; EntityTag has the consequences.  *)
(***************************************************************************)
EXTENDS SequencesExt

CONSTANTS
  Entities,    \* the entities of the type searched for
  Listings,    \* what the index may list as hits when the search starts
  Patterns,    \* the patterns a resource may name
  Matches,     \* the entities each pattern matches
  PageSize,    \* searchPageSize
  MaxChanges   \* bound: how often others change the index during the search

ASSUME SearchAssumption ==
  /\ \A s \in Listings : s \in Seq(Entities) /\ IsInjective(s)
  /\ Matches \in [Patterns -> SUBSET Entities]
  /\ PageSize \in Nat \ {0}
  /\ MaxChanges \in Nat

VARIABLES
  includes, excludes,  \* the arguments: sets of patterns
  hits,                \* what the query matches now, in the order of the index
  pc,                  \* "start", "fetch", "done" or "failed"
  from,                \* offset of the next page
  out,                 \* the entities collected so far: the result
  steady,              \* history: hits from the start on, never gone since
  initially,           \* history: number of hits at the start
  inserted, removed    \* history: hits that came and that went since

query == <<includes, excludes>>
history == <<steady, initially, inserted, removed>>
vars == <<query, hits, pc, from, out, history>>

(* (include OR ... OR include) AND NOT (exclude OR ... OR exclude).        *)
Selected ==
  (UNION {Matches[p] : p \in includes}) \ (UNION {Matches[p] : p \in excludes})

TypeOK ==
  /\ includes \subseteq Patterns
  /\ excludes \subseteq Patterns
  /\ hits \in Seq(Selected)
  /\ IsInjective(hits)
  /\ pc \in {"start", "fetch", "done", "failed"}
  /\ from \in Nat
  /\ \E n \in 0..from : from = PageSize * n
  /\ out \in Seq(Entities)
  /\ steady \subseteq ToSet(hits)
  /\ {initially, inserted, removed} \subseteq Nat
  /\ inserted + removed <= 2 * MaxChanges

Init ==
  /\ includes \in SUBSET Patterns
  /\ excludes \in SUBSET Patterns
  /\ hits \in Listings
  /\ ToSet(hits) \subseteq Selected
  /\ pc = "start"
  /\ from = 0
  /\ out = <<>>
  /\ steady = ToSet(hits)
  /\ initially = Len(hits)
  /\ inserted = 0
  /\ removed = 0

-----------------------------------------------------------------------------
(* The search.                                                             *)

(* Nothing is asked for without a pattern to include.                      *)
Begin ==
  /\ pc = "start"
  /\ pc' = IF includes = {} THEN "done" ELSE "fetch"
  /\ UNCHANGED <<query, hits, from, out, history>>

(* The answer to a request for size hits from an offset on.                *)
Page(offset) ==
  SubSeq(hits, offset + 1,
         IF offset + PageSize < Len(hits) THEN offset + PageSize ELSE Len(hits))

(* Mutants of IsLast: a full page is the last; only an empty one is.       *)
IsLastIfFull(page) == Len(page) <= PageSize
IsLastIfEmpty(page) == page = <<>>

IsLast(page) == Len(page) < PageSize

(* Mutant of NextOffset: the last hit of a page is asked for again.        *)
NextOffsetOverlapping == from + PageSize - 1

NextOffset == from + PageSize

FetchPage ==
  /\ pc = "fetch"
  /\ LET page == Page(from)
     IN  /\ out' = out \o page
         /\ IF IsLast(page)
            THEN pc' = "done" /\ UNCHANGED from
            ELSE from' = NextOffset /\ UNCHANGED pc
  /\ UNCHANGED <<query, hits, history>>

(* Mutant of FetchFails: the search starts again.                          *)
FetchFailsRetried ==
  /\ pc = "fetch"
  /\ from' = 0
  /\ out' = <<>>
  /\ UNCHANGED <<query, hits, pc, history>>

(* One request fails: nothing of what was collected is returned.           *)
FetchFails ==
  /\ pc = "fetch"
  /\ pc' = "failed"
  /\ out' = <<>>
  /\ UNCHANGED <<query, hits, from, history>>

-----------------------------------------------------------------------------
(* Others, while the search is under way.                                  *)

Shift == pc = "fetch" /\ UNCHANGED <<query, pc, from, out, initially>>

Added(e, i) ==
  /\ Shift
  /\ inserted + removed < MaxChanges
  /\ e \in Selected \ ToSet(hits)
  /\ hits' = InsertAt(hits, i, e)
  /\ inserted' = inserted + 1
  /\ UNCHANGED <<steady, removed>>

Dropped(i) ==
  /\ Shift
  /\ inserted + removed < MaxChanges
  /\ hits' = RemoveAt(hits, i)
  /\ steady' = steady \ {hits[i]}
  /\ removed' = removed + 1
  /\ UNCHANGED inserted

(* A change of an entity moves it in the index: it goes from one place and *)
(* comes at another, without having been gone.                             *)
Reindexed(i, j) ==
  /\ Shift
  /\ inserted + removed < MaxChanges
  /\ i # j
  /\ hits' = InsertAt(RemoveAt(hits, i), j, hits[i])
  /\ inserted' = inserted + 1
  /\ removed' = removed + 1
  /\ UNCHANGED steady

Others ==
  \/ \E e \in Entities, i \in 1..Len(hits) + 1 : Added(e, i)
  \/ \E i \in 1..Len(hits) : Dropped(i)
  \/ \E i, j \in 1..Len(hits) : Reindexed(i, j)

Next == Begin \/ FetchPage \/ FetchFails \/ Others

Spec == Init /\ [][Next]_vars

(* Every request is answered or runs into the timeout of the HTTP client;  *)
(* others need not do anything.                                            *)
Fairness == WF_vars(Begin) /\ WF_vars(FetchPage \/ FetchFails)

FairSpec == Spec /\ Fairness

-----------------------------------------------------------------------------
(* Properties.                                                             *)

(* "SearchEntities returns every entity" (entitytag.go:45): of the         *)
(* entities that match during the whole search, no more are missing from   *)
(* the result than there were hits that went meanwhile.  So none is, if    *)
(* none went, whatever is inserted; and an index that leaves the search    *)
(* alone is returned completely, whatever its size is to the page's.       *)
MissesOnlyWhatShifted ==
  pc = "done" => Cardinality(steady \ ToSet(out)) <= removed

(* Nothing is returned twice but for the hits that came meanwhile.         *)
RepeatsOnlyWhatShifted ==
  Len(out) - Cardinality(ToSet(out)) <= inserted

(* No page is asked for beyond the hits there ever were, be their number a *)
(* multiple of the page size or not.                                       *)
OffsetWithinHits == from <= initially + inserted

(* The reconciliation that searches gets an answer: whatever the size of   *)
(* the index is to the page's, wherever hits come and go in front of the   *)
(* offset and whichever request fails, the search ends once the index is   *)
(* left alone.  The one worker of the controller has nobody to take over a *)
(* loop without end.                                                       *)
SearchEnds == <>(pc \in {"done", "failed"})

=============================================================================
