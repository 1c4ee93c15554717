----------------------------- MODULE VbPlanner -----------------------------
(***************************************************************************)
(* The static planner: how every producer of a function shares out the     *)
(* vbuckets among the eventing nodes and then among its own workers        *)
(* (producer/vbucket_node_assignment.go, and the planner part of Serve in  *)
(* producer/producer.go).  No node is told its share.  Each computes the   *)
(* whole plan from keepNodes in metakv, the nodes ns_server lists and the  *)
(* uuids those nodes publish, so the plans agree only if the inputs do.    *)
(*                                                                         *)
(* A node is a number, and numbers are in the order of the addresses.      *)
(***************************************************************************)
EXTENDS Integers, FiniteSets

CONSTANTS
  Nodes,         \* eventing nodes
  NumVbuckets,   \* numVbuckets
  WorkerCount,   \* handlerConfig.WorkerCount
  Budgets        \* bounds, one of which a behaviour has: the topology changes, the
                 \* failed requests and stale reads, the nodes that may join

ASSUME NodesAssumption == IsFiniteSet(Nodes) /\ Nodes \subseteq Nat \ {0}
ASSUME CountsAssumption == NumVbuckets \in Nat /\ WorkerCount \in Nat \ {0}

BudgetType == [changes : Nat, faults : Nat, nodes : SUBSET Nodes]

ASSUME BudgetsAssumption == Budgets \subseteq BudgetType

Vbs == 0..(NumVbuckets - 1)
Workers == 1..WorkerCount

Unknown == 0         \* the address "" of a uuid that no listed node has published
NoEntry == -1        \* a key that is not in the map
Owners == Nodes \cup {Unknown, NoEntry}

VARIABLES
  cluster,   \* metakvConfigKeepNodes after the last topology change (keep), and the
             \* eventing nodes ns_server lists (listed)
  old,       \* the same before that change: what a node that lags may still read
  inbox,     \* per node: messages in topologyChangeCh
  p,         \* per node: its producer
  budget     \* what is left of the budget of this behaviour

vars == <<cluster, old, inbox, p, budget>>

-----------------------------------------------------------------------------
(* Sharing out total things among parts.  The code fills vbCountPerNode     *)
(* with total / parts, adds one to the first total % parts entries, and     *)
(* deals the things out in order.                                           *)

Share(total, parts, i) ==
  total \div parts + IF i <= total % parts THEN 1 ELSE 0

\* where part i begins: what the parts before it have used up
StartOf(total, parts, i) ==
  (i - 1) * (total \div parts) + IF i - 1 <= total % parts THEN i - 1 ELSE total % parts

\* Mutant: the remainder goes to the first part
SliceLumped(total, parts, i) ==
  LET q == total \div parts
      r == total % parts
  IN IF i = 1 THEN 0..(q + r - 1) ELSE ((i - 1) * q + r)..(i * q + r - 1)

Slice(total, parts, i) ==
  StartOf(total, parts, i)..(StartOf(total, parts, i) + Share(total, parts, i) - 1)

-----------------------------------------------------------------------------
(* vbEventingNodeAssign: the addresses of keepNodes are sorted, and node i  *)
(* of them gets the i-th slice.                                             *)

Address(n, listed) == IF n \in listed THEN n ELSE Unknown

\* n comes before m in the sorted addresses (equal addresses in any fixed order)
AddressBefore(n, m, listed) ==
  \/ Address(n, listed) < Address(m, listed)
  \/ Address(n, listed) = Address(m, listed) /\ n < m

AddressIndex(n, c) == 1 + Cardinality({m \in c.keep : AddressBefore(m, n, c.listed)})

\* Mutant: the remainder goes to the first node
OwnerNodeLumped(vb, c) ==
  CHOOSE n \in c.keep : vb \in SliceLumped(NumVbuckets, Cardinality(c.keep), AddressIndex(n, c))

OwnerNode(vb, c) ==
  CHOOSE n \in c.keep : vb \in Slice(NumVbuckets, Cardinality(c.keep), AddressIndex(n, c))

\* The map is emptied before keepNodes is looked at, and stays empty without it
Assignment(c) ==
  [vb \in Vbs |-> IF c.keep = {} THEN NoEntry ELSE Address(OwnerNode(vb, c), c.listed)]

\* The vbuckets a map gives to an address, and the part of them that a worker gets
VbsOf(assign, addr) == {vb \in Vbs : assign[vb] = addr}

\* where vb is when S is sorted
IndexIn(S, vb) == Cardinality({v \in S : v < vb})

\* Mutant: a worker goes on to the first vbucket of the next one
WorkerSliceOverlap(S, w) ==
  {vb \in S : IndexIn(S, vb) \in Slice(Cardinality(S), WorkerCount, w)
                \/ IndexIn(S, vb) - 1 \in Slice(Cardinality(S), WorkerCount, w)}

WorkerSlice(S, w) ==
  {vb \in S : IndexIn(S, vb) \in Slice(Cardinality(S), WorkerCount, w)}

\* Mutant: one worker too many is counted
NodeWorkerMapMore(assign) ==
  [vb \in Vbs |-> {w \in Workers :
     IndexIn(VbsOf(assign, assign[vb]), vb)
       \in Slice(Cardinality(VbsOf(assign, assign[vb])), WorkerCount + 1, w)}]

\* Mutant: the workers are numbered from 0
NodeWorkerMapZero(assign) ==
  [vb \in Vbs |-> {w \in 0..(WorkerCount - 1) :
     vb \in WorkerSlice(VbsOf(assign, assign[vb]), w + 1)}]

\* vbNodeWorkerMap, the worker part: the worker of every vbucket, of whatever node
NodeWorkerMap(assign) ==
  [vb \in Vbs |-> IF assign[vb] = NoEntry THEN {}
                  ELSE {w \in Workers : vb \in WorkerSlice(VbsOf(assign, assign[vb]), w)}]

-----------------------------------------------------------------------------
NotRead == [keep |-> {}, listed |-> {}]

Fresh ==
  [ pc |-> "down",                          \* down, boot, idle, plan, assigned, mapped
    served |-> "booting",                   \* or "booted": Serve is in its message loop
    err |-> "nil",                          \* what vbEventingNodeAssign returned, or "failed"
    read |-> NotRead,                       \* what assign was made from
    home |-> NoEntry,                       \* what CurrentEventingNodeAddress returned
    assign |-> [vb \in Vbs |-> NoEntry],    \* vbEventingNodeAssignMap
    mapping |-> [vb \in Vbs |-> {}],        \* vbMapping
    workers |-> [w \in Workers |-> {}] ]    \* workerVbucketMap

Init ==
  /\ budget \in Budgets
  /\ \E keep \in (SUBSET budget.nodes) \ {{}} :
       /\ cluster = [keep |-> keep, listed |-> keep]
       /\ old = cluster
       /\ inbox = [n \in Nodes |-> 0]
       /\ p = [n \in Nodes |-> IF n \in keep THEN [Fresh EXCEPT !.pc = "boot"] ELSE Fresh]

Up(n) == p[n].pc # "down"
Planned(n) == p[n].pc = "idle" /\ inbox[n] = 0
Change == budget.changes > 0 /\ budget' = [budget EXCEPT !.changes = @ - 1]
Fault == budget.faults > 0 /\ budget' = [budget EXCEPT !.faults = @ - 1]
Becomes(n, r) == p' = [p EXCEPT ![n] = r] /\ UNCHANGED <<cluster, old>>

\* The leader of a rebalance stores keepNodes, which may be empty, and the change
\* token; every node that is up, or added now, gets a message.  The one before may
\* have been cancelled or have failed, so nobody need have planned for it.
Rebalance ==
  /\ Change
  /\ \E keep \in SUBSET budget.nodes :
       /\ cluster' = [keep |-> keep, listed |-> cluster.listed \cup keep]
       /\ inbox' = [n \in Nodes |-> IF n \in cluster'.listed THEN inbox[n] + 1 ELSE inbox[n]]
       /\ p' = [n \in Nodes |-> IF n \in keep /\ ~Up(n) THEN [Fresh EXCEPT !.pc = "boot"] ELSE p[n]]
  /\ old' = cluster

\* Nodes are failed over: they are gone at once, also from what ns_server lists
Failover ==
  /\ Change
  /\ \E gone \in (SUBSET cluster.listed) \ {{}} :
       /\ cluster.keep \ gone # {}
       /\ cluster' = [keep |-> cluster.keep \ gone, listed |-> cluster.listed \ gone]
       /\ inbox' = [n \in Nodes |-> IF n \in gone THEN 0
                                    ELSE IF n \in cluster.listed THEN inbox[n] + 1 ELSE inbox[n]]
       /\ p' = [n \in Nodes |-> IF n \in gone THEN Fresh ELSE p[n]]
  /\ old' = cluster

\* After the rebalance ns_server ejects the nodes that are not kept
Eject ==
  /\ \A n \in cluster.listed : Planned(n)
  /\ cluster.listed # cluster.keep
  /\ cluster' = [cluster EXCEPT !.listed = cluster.keep]
  /\ p' = [n \in Nodes |-> IF n \in cluster.keep THEN p[n] ELSE Fresh]
  /\ UNCHANGED <<old, inbox, budget>>

\* Serve takes a message of type StartRebalanceCType or StartFailoverCType
TopologyChange(n) ==
  /\ p[n].pc = "idle" /\ inbox[n] > 0
  /\ inbox' = [inbox EXCEPT ![n] = @ - 1]
  /\ Becomes(n, [p[n] EXCEPT !.pc = "plan"])
  /\ UNCHANGED budget

\* What a node reads: keepNodes from metakv and the list from ns_server, each as
\* it is now or as it was
Inputs == {[keep |-> k.keep, listed |-> l.listed] : k, l \in {cluster, old}}

\* Mutant: the nodes that are listed share the vbuckets, also those to be ejected
VbEventingNodeAssignListed(n) ==
  /\ p[n].pc \in {"boot", "plan"}
  /\ Becomes(n, [p[n] EXCEPT !.pc = "assigned", !.err = "nil", !.read = cluster,
                   !.assign = Assignment([cluster EXCEPT !.keep = cluster.listed])])
  /\ UNCHANGED <<inbox, budget>>

VbEventingNodeAssign(n) ==
  /\ p[n].pc \in {"boot", "plan"}
  /\ \E c \in Inputs :
       /\ c.listed # {}
       /\ Becomes(n, [p[n] EXCEPT !.pc = "assigned",
                                  !.err = IF c.keep = {} THEN "failed" ELSE "nil",
                                  !.read = c, !.assign = Assignment(c)])
       /\ IF c = cluster THEN UNCHANGED budget ELSE Fault
  /\ UNCHANGED inbox

\* no node is listed, a listed one does not answer /uuid, or keepNodes cannot be
\* read: the old map stays, and the caller goes on unless the retries timed out
VbEventingNodeAssignFails(n) ==
  /\ p[n].pc \in {"boot", "plan"} /\ Fault
  /\ Becomes(n, [p[n] EXCEPT !.pc = "assigned", !.err = "failed"])
  /\ UNCHANGED inbox

VbNodeWorkerMap(n) ==
  /\ p[n].pc = "assigned"
  /\ Becomes(n, [p[n] EXCEPT !.pc = "mapped",
                             !.mapping = NodeWorkerMap(p[n].assign)])
  /\ UNCHANGED <<inbox, budget>>

\* initWorkerVbMap, and what follows it: at boot a failed assignment ends Serve,
\* which its supervisor starts again; in a rebalance it is not looked at
InitWorkerVbMap(n) ==
  /\ p[n].pc = "mapped"
  /\ \E addr \in {n, Unknown} :
       /\ Becomes(n, [p[n] EXCEPT
            !.workers = [w \in Workers |-> WorkerSlice(VbsOf(p[n].assign, addr), w)],
            !.home = addr,
            !.pc = IF p[n].served = "booting" /\ p[n].err # "nil" THEN "boot" ELSE "idle",
            !.served = IF p[n].err = "nil" THEN "booted" ELSE @])
       /\ IF addr = n THEN UNCHANGED budget ELSE Fault
  /\ UNCHANGED inbox

Planner(n) ==
  \/ TopologyChange(n) \/ VbEventingNodeAssign(n) \/ VbEventingNodeAssignFails(n)
  \/ VbNodeWorkerMap(n) \/ InitWorkerVbMap(n)

Next == Rebalance \/ Failover \/ Eject \/ \E n \in Nodes : Planner(n)

Spec == Init /\ [][Next]_vars

-----------------------------------------------------------------------------
(* Properties                                                               *)

View == [keep : SUBSET Nodes, listed : SUBSET Nodes]
ProducerType ==
  [pc : {"down", "boot", "idle", "plan", "assigned", "mapped"},
   served : {"booting", "booted"}, err : {"nil", "failed"}, read : View, home : Owners,
   assign : [Vbs -> Owners], mapping : [Vbs -> SUBSET Workers],
   workers : [Workers -> SUBSET Vbs]]

\* Owners are nodes or one of the two ways of not having an address, and every
\* map of a producer is total on the vbuckets or the workers.
TypeOK ==
  /\ cluster \in View /\ old \in View
  /\ inbox \in [Nodes -> Nat] /\ budget \in BudgetType
  /\ p \in [Nodes -> ProducerType]

\* The node has worked off its messages and made its plan from the present inputs
Agreed(n) ==
  /\ Planned(n) /\ p[n].home = n
  /\ p[n].read.keep = cluster.keep /\ cluster.keep \subseteq p[n].read.listed

\* Two consumers never hold the same vbucket in workerVbucketMap, on the same node
\* or on two, when their nodes planned from the present keepNodes; however the
\* rest of the cluster is doing (vbEventingNodeAssign, initWorkerVbMap).
NoDoubleClaim ==
  \A n, m \in Nodes : Agreed(n) /\ Agreed(m) =>
    \A v, w \in Workers :
      <<n, v>> # <<m, w>> => p[n].workers[v] \cap p[m].workers[w] = {}

\* When every listed node has planned, and one is kept, no vbucket is left without a
\* consumer: the rounding of both divisions and the nodes about to be ejected lose
\* none.
AllClaimed ==
  cluster.keep # {} /\ (\A n \in cluster.listed : Agreed(n)) =>
    \A vb \in Vbs : \E n \in cluster.keep, w \in Workers : vb \in p[n].workers[w]

\* The kept nodes, and the workers of one node, differ by one vbucket at most.
FairShares ==
  \A n \in cluster.keep : Agreed(n) =>
    /\ \A v, w \in Workers : Cardinality(p[n].workers[v]) <= Cardinality(p[n].workers[w]) + 1
    /\ \A m \in cluster.keep : Agreed(m) =>
         Cardinality(UNION {p[n].workers[w] : w \in Workers})
           <= Cardinality(UNION {p[m].workers[w] : w \in Workers}) + 1

\* vbMapping, which answers who owns a vbucket, and workerVbucketMap, which the
\* consumers act on, are computed apart from each other and say the same of the
\* node's own vbuckets, also after failed and stale reads.
MappingAgrees ==
  \A n \in Nodes : Planned(n) /\ p[n].home = n =>
    \A vb \in Vbs, w \in Workers :
      vb \in p[n].workers[w] <=> p[n].assign[vb] = n /\ p[n].mapping[vb] = {w}
=============================================================================
