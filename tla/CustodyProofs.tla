---------------------------- MODULE CustodyProofs ----------------------------
(* What follows from Custody, and so for whatever implements it.           *)
EXTENDS Custody, TLAPS

(* Whatever order users, others and the operator act in, the recorded      *)
(* entity of a live object exists unless others interfered.                *)
THEOREM RecordIsAlwaysThere == Spec => [](meddling \in Nat /\ RecordIsThere)
  <1> DEFINE Inv == meddling \in Nat /\ RecordIsThere
  <1>1. Init => Inv
    BY DEF Init, RecordIsThere
  <1>2. Inv /\ [Next]_custodyVars => Inv'
    <2> SUFFICES ASSUME Inv, [Next]_custodyVars
                 PROVE  Inv'
      OBVIOUS
    <2>1. CASE Want \/ Withdraw \/ Keep
      BY <2>1 DEF Want, Withdraw, Keep, RecordIsThere
    <2>2. CASE Meddle
      BY <2>2 DEF Meddle, RecordIsThere
    <2>3. CASE Make
      BY <2>3 DEF Make, RecordIsThere
    <2>4. CASE Record
      BY <2>4 DEF Record, RecordIsThere
    <2>5. CASE Remove \/ Release
      BY <2>5 DEF Remove, Release, RecordIsThere
    <2>6. CASE UNCHANGED custodyVars
      BY <2>6 DEF custodyVars, RecordIsThere
    <2> QED
      BY <2>1, <2>2, <2>3, <2>4, <2>5, <2>6 DEF Next
  <1> QED
    BY <1>1, <1>2, PTL DEF Spec

=============================================================================
