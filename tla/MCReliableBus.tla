--------------------------- MODULE MCReliableBus ---------------------------
(* Instances of ReliableBus for TLC: two requests, the first with two      *)
(* responses, and two threads that notify.                                 *)
EXTENDS ReliableBus

CONSTANTS q1, q2, r1, r1b, r2, n1, n2

MCCorr == [v \in {r1, r1b, r2} |-> IF v = r2 THEN q2 ELSE q1]
=============================================================================
