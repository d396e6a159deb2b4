----------------------------- MODULE MCEvidence -----------------------------
(***************************************************************************)
(* Two detection modules, one time window, one flow.  e1 and e2 together   *)
(* reach the threshold; e3 is whitelisted, e4 is done by somebody else.    *)
(***************************************************************************)
EXTENDS Evidence, TLC

CONSTANTS e1, e2, e3, e4, m1, m2, w1, u1

MCSetterOf == [e \in Evidence |-> IF e \in {e1, e4} THEN m1 ELSE m2]
MCWindowOf == [e \in Evidence |-> w1]
MCUidsOf == [e \in Evidence |-> {u1}]
MCThreat == [e \in Evidence |-> 1]
MCLevel == [e \in Evidence |-> IF e = e2 THEN 2 ELSE 1]
=============================================================================
