--------------------------- MODULE MCEntitySearch ---------------------------
(* A small instance of EntitySearch for TLC.                               *)
EXTENDS EntitySearch

CONSTANTS e1, e2, e3, e4, e5, all, one

MCListing == <<e1, e2, e3, e4, e5>>

(* The first entities of the listing that either pattern, or the one       *)
(* without the other, selects: any number of them.                         *)
MCListings ==
  {SelectSeq(SubSeq(MCListing, 1, n), LAMBDA e : e \in S) :
     n \in 0..Len(MCListing), S \in {Entities, {e3}, Entities \ {e3}}}

(* One pattern matches all entities, the other only one of them.           *)
MCMatches == [p \in Patterns |-> IF p = all THEN Entities ELSE {e3}]
=============================================================================
