----------------------------- MODULE MCScanQueue ------------------------------
(* An instance of ScanQueue for TLC: two creators and a caller, on the event      *)
(* loop as the scheduler is or an API thread, or one creator and both.            *)
EXTENDS ScanQueue

CONSTANTS a, b, t1, t2

MCInit ==
  /\ Init
  /\ scene \in {[creators |-> {a, b}, callers |-> {t1}], [creators |-> {a, b}, callers |-> {t2}],
                [creators |-> {a}, callers |-> {t1, t2}]}

MCSpec == MCInit /\ [][Next]_vars /\ Fairness
===============================================================================
