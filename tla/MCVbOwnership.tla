--------------------------- MODULE MCVbOwnership ---------------------------
(* Instances of VbOwnership: the first owner, and how often each kind of    *)
(* outside event may happen in a run.                                       *)
EXTENDS VbOwnership

CONSTANTS n1, w1

FirstConsumer == <<n1, w1>>

Happens(kinds) == [k \in Outside |-> IF k \in kinds THEN 1 ELSE 0]

EndRefusal == Happens({"ends", "refusals", "checkpoints"})
Restart == Happens({"restarts", "checkpoints"})
PlanDeath == Happens({"plans", "deaths"})
PlanDeathCheckpoints == Happens({"plans", "deaths", "checkpoints"})
PlanRestart == Happens({"plans", "restarts"})
PlanRespawn == Happens({"plans", "respawns"})
PlanEnd == Happens({"plans", "ends"})
PlanStop == Happens({"plans", "stops"})
Failover == Happens({"failovers", "checkpoints"})
FailoverRefusal == Happens({"failovers", "refusals", "checkpoints"})
End == Happens({"ends", "checkpoints"})

OneEnd == {End}
OneFailover == {Failover}
StreamFaults == {EndRefusal, Restart}
Handovers == {PlanDeathCheckpoints}
Rebalances == {PlanEnd, PlanStop, PlanRestart, PlanRespawn}
Losses == {PlanDeath, FailoverRefusal}
=============================================================================
