----------------------------- MODULE MCPipeline -----------------------------
(* Small instances of Pipeline for TLC.                                    *)
EXTENDS Pipeline

CONSTANTS s1, s2, s3, s4, f1, f2

(* The specs name one service.                                             *)
OneFqn == [s \in Specs |-> f1]

(* s4 names another service than the rest.                                 *)
TwoFqns == [s \in Specs |-> IF s = s4 THEN f2 ELSE f1]
=============================================================================
