----------------------------- MODULE MCEntityTag -----------------------------
(* Small instances of EntityTag for TLC.                                   *)
EXTENDS EntityTag

CONSTANTS s1, s2, s3, a1, a2, t1, t2

(* s1 matches both assets, s2 only one, s3 names another tag.              *)
MCTagOf == [s \in Specs |-> IF s = s3 THEN t2 ELSE t1]

MCMatchOf == [s \in Specs |-> IF s = s2 THEN {a1} ELSE Assets]
=============================================================================
