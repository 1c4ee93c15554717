---------------------------- MODULE MCVbPlanner ----------------------------
(* An instance of VbPlanner: one change of three nodes, or two changes of   *)
(* two, of which the second may overtake the planning for the first.        *)
EXTENDS VbPlanner

MCBudgets ==
  {[changes |-> 1, faults |-> 1, nodes |-> Nodes],
   [changes |-> 2, faults |-> 1, nodes |-> {1, 2}]}
=============================================================================
