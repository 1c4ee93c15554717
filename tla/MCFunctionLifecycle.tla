------------------------ MODULE MCFunctionLifecycle ------------------------
EXTENDS FunctionLifecycle
CONSTANTS f1, src, meta, p1, p2, w1, w2

MCSource == [f \in Fns |-> src]
MCMeta == [f \in Fns |-> meta]
MCTwin == [p \in Prods |-> IF p = p1 THEN w1 ELSE w2]

Upto(deploys, pauses, undeploys, overlaps, events, rebalances, meetings) ==
  [deployed |-> deploys, paused |-> pauses, undeployed |-> undeploys,
   overlap |-> overlaps, event |-> events, rebalance |-> rebalances, meeting |-> meetings]

\* Without meetings: all requests with an event and a rebalance between
\* them, and requests that pile up. With one: deploy, pause and resume, or
\* deploy and undeploy, and a rebalance at any moment; deploy and undeploy,
\* and a drop, a crash or a failing call at any moment.
MCBudgets == {Upto(2, 1, 1, 0, 1, 0, 0), Upto(2, 1, 1, 1, 0, 1, 0), Upto(1, 1, 1, 1, 1, 1, 0),
              Upto(2, 2, 0, 1, 0, 1, 1), Upto(1, 0, 1, 0, 0, 1, 1), Upto(1, 0, 1, 0, 1, 0, 1)}
=============================================================================
