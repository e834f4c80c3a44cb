----------------------------- MODULE MCTestCase -----------------------------
(* Small instances of TestCase for TLC.                                    *)
EXTENDS TestCase

CONSTANTS s1, s2, s3, f1, f2

(* s2 tests another entity than the rest.                                  *)
TwoFqns == [s \in Specs |-> IF s = s2 THEN f2 ELSE f1]
=============================================================================
