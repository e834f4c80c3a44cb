----------------------------- MODULE MCService -----------------------------
(* Small instances of Service for TLC.                                     *)
EXTENDS Service

CONSTANTS s1, s2, s3, db

(* One location; two specs that differ in content, one with a bad owner.   *)
OneLocation == [s \in Specs |-> db]
=============================================================================
