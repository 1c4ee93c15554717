------------------------- MODULE MCServiceRebalance -------------------------
(* ServiceRebalance with a small history of changes: a rebalance that keeps *)
(* two nodes, one that keeps one, and a failover.                           *)
EXTENDS ServiceRebalance

MCType == [i \in Ids |-> IF i = 3 THEN "failover" ELSE "rebalance"]
MCKeep == [i \in Ids |-> IF i = 2 THEN 1 ELSE 2]
=============================================================================
