------------------------------- MODULE MCClaims -------------------------------
(* An instance of Claims for TLC: the first creator has all jobs but one, and    *)
(* that one is over where rows are deleted and the queue page is open.           *)
EXTENDS Claims

CONSTANTS c1, c2, j1, j2, j3

TwoCreators == [j \in Jobs |-> IF j = j1 THEN c2 ELSE c1]

MCInit == Init /\ (busy => job[j1].at = "ended")
MCSpec == MCInit /\ [][Next]_vars /\ Fairness
===============================================================================
