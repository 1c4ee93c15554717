-------------------------- MODULE ServiceRebalance --------------------------
(***************************************************************************)
(* The service manager of the node that leads a rebalance: the calls that  *)
(* ns_server makes (service_manager.go), the state they share under        *)
(* ServiceMgr.mu (manager.go), and the goroutine that watches the progress *)
(* of a rebalance and reports it through callbacks (rebalancer.go).        *)
(*                                                                         *)
(* Every call holds mu from beginning to end, so a call is one step up to  *)
(* where it may block with mu held: at rebalancerMutex.Lock, or in         *)
(* rebalancer.cancel, which waits for the goroutine to return.             *)
(***************************************************************************)
EXTENDS Naturals

CONSTANTS
  Ids,           \* change ids, a set of numbers; ns_server uses them in this order
  Type,          \* per change: "rebalance" or "failover"
  Keep,          \* per change: how many nodes it keeps
  Staleness,     \* rebalanceStalenessCounter
  MaxAttempts,   \* attempts to get the first progress
  MaxVbs,        \* bound on the vbuckets that remain to be moved
  MaxCalls,      \* bound on the calls of ns_server that succeed
  MaxMoves,      \* bound on the changes of what remains
  MaxFaults      \* bound on failed calls, requests and metakv operations

ASSUME IdsAssumption == Ids \subseteq Nat \ {0}
ASSUME ChangeAssumption ==
  Type \in [Ids -> {"rebalance", "failover"}] /\ Keep \in [Ids -> Nat \ {0}]
ASSUME BoundsAssumption ==
  /\ Staleness \in Nat \ {0} /\ MaxAttempts \in Nat \ {0} /\ MaxVbs \in Nat \ {0}
  /\ MaxCalls \in Nat /\ MaxMoves \in Nat /\ MaxFaults \in Nat

None == 0

VARIABLES
  m,            \* the state ns_server sees: rev, rebalanceID (id), the rebalance
                \* task, servers (as the change that set them) and isBalanced
  ctx,          \* rebalanceCtx, as the id of its change
  rebalancer,   \* m.rebalancer, as the id of its change
  leaked,       \* read locks of rebalancerMutex that are never released; those of
                \* the stats requests are, and are left out
  call,         \* the call that holds mu: where it blocks
  reb,          \* per change: its rebalancer goroutine
  cbs,          \* the goroutines started by runRebalanceCallback
  kv,           \* metakv: keepNodes, the rebalance token, the progress document
  poll,         \* ns_server's long poll of the topology, and what it last got
  env           \* vbuckets that remain to be moved, and what is left of the bounds

vars == <<m, ctx, rebalancer, leaked, call, reb, cbs, kv, poll, env>>

NoTask == [status |-> "none", id |-> None]
NoToken == [id |-> None, value |-> "none"]
Zero == <<1, 1>>     \* progress 0: one minus one of one to be moved
Idle == [pc |-> "idle", id |-> None]

Init ==
  /\ m = [rev |-> 0, id |-> None, task |-> NoTask, servers |-> None, balanced |-> "yes"]
  /\ ctx = None /\ rebalancer = None
  /\ leaked = 0
  /\ call = Idle
  /\ reb = [i \in Ids |-> [pc |-> "none", next |-> "none", n |-> 0, progress |-> Zero,
                           c |-> "open", done |-> "open", result |-> "none"]]
  /\ cbs = {}
  /\ kv = [keepNodes |-> None, token |-> NoToken, total |-> 0]
  /\ poll = [pc |-> "new", rev |-> 0, task |-> NoTask, servers |-> None, balanced |-> "yes"]
  /\ env = [vbs |-> 0, calls |-> MaxCalls, moves |-> MaxMoves, faults |-> MaxFaults]

\* mu can be locked; rebalancerMutex can be locked for writing
Free == call.pc = "idle" /\ \A k \in cbs : k.at = "waiting"
NoReaders == leaked = 0

Spend(what) == env[what] > 0 /\ env' = [env EXCEPT ![what] = @ - 1]

\* updateStateLocked: the new state gets a rev and goes to the waiter, if any
UpdateState(s) ==
  /\ m' = [s EXCEPT !.rev = m.rev + 1]
  /\ poll' = IF poll.pc = "waiting"
             THEN [poll EXCEPT !.pc = "got", !.rev = m.rev + 1, !.task = s.task]
             ELSE poll

\* Mutant: the tokens are not cleaned up
OnRebalanceDoneKeepsToken(task, balanced, tok) ==
  /\ NoReaders
  /\ rebalancer' = None /\ ctx' = None
  /\ UpdateState([m EXCEPT !.task = task, !.id = None, !.balanced = balanced])
  /\ UNCHANGED kv

\* onRebalanceDoneLocked, from rebalancerMutex.Lock on; tok is the token afterwards
OnRebalanceDone(task, balanced, tok) ==
  /\ NoReaders
  /\ rebalancer' = None /\ ctx' = None
  /\ kv' = [kv EXCEPT !.token = tok]
  /\ UpdateState([m EXCEPT !.task = task, !.id = None, !.balanced = balanced])

-----------------------------------------------------------------------------
(* The calls of ns_server.                                                  *)

\* Mutant: the servers are set without a new rev
PrepareTopologyChangeQuiet(i) ==
  /\ Free /\ Spend("calls")
  /\ m.servers < i
  /\ m' = [m EXCEPT !.id = i, !.servers = i, !.balanced = "yes"]
  /\ UNCHANGED <<ctx, rebalancer, leaked, call, reb, cbs, kv, poll>>

\* ns_server prepares every change once, whatever has become of the one before
PrepareTopologyChange(i) ==
  /\ Free /\ Spend("calls")
  /\ m.servers < i
  /\ UpdateState([m EXCEPT !.id = i, !.servers = i, !.balanced = "yes"])
  /\ UNCHANGED <<ctx, rebalancer, leaked, call, reb, cbs, kv>>

\* OptimiseLoadingCIC fails, before mu is locked, or the node is not ready
PrepareTopologyChangeFails ==
  /\ Spend("faults")
  /\ m' = [m EXCEPT !.balanced = "no"]
  /\ UNCHANGED <<ctx, rebalancer, leaked, call, reb, cbs, kv, poll>>

\* The change is not the one prepared, or a rebalance runs: ErrConflict, and the
\* read lock taken for the comparison is kept
StartTopologyChangeConflict(i) ==
  /\ Free /\ Spend("faults")
  /\ m.id # i \/ rebalancer # None
  /\ leaked' = leaked + 1
  /\ UNCHANGED <<m, ctx, rebalancer, call, reb, cbs, kv, poll>>

StartTopologyChangeFailover(i) ==
  /\ Free /\ Spend("calls")
  /\ m.id = i /\ rebalancer = None /\ Type[i] = "failover"
  /\ ctx' = i
  /\ kv' = [kv EXCEPT !.keepNodes = m.servers]
  /\ UNCHANGED <<m, rebalancer, leaked, call, reb, cbs, poll>>

\* startRebalance and newRebalancer; some vbuckets are to be moved from now on
StartTopologyChangeRebalance(i) ==
  /\ Free /\ Spend("calls")
  /\ m.id = i /\ rebalancer = None /\ Type[i] = "rebalance"
  /\ ctx' = i
  /\ kv' = [kv EXCEPT !.keepNodes = m.servers, !.token = [id |-> i, value |-> "start"]]
  /\ UpdateState([m EXCEPT !.task = [status |-> "running", id |-> i]])
  /\ \E first \in {"apps", "first"} : reb' = [reb EXCEPT ![i].pc = first]
  /\ call' = [pc |-> "lock", id |-> i]
  /\ UNCHANGED <<rebalancer, leaked, cbs>>

StartTopologyChangeLocks ==
  /\ call.pc = "lock" /\ NoReaders
  /\ rebalancer' = call.id
  /\ call' = Idle
  /\ UNCHANGED <<m, ctx, leaked, reb, cbs, kv, poll, env>>

\* CancelTask of the task that ns_server saw last; it closes r.c ...
CancelTaskRunning ==
  /\ Free /\ Spend("calls")
  /\ m.task.status = "running" /\ m.task = poll.task
  /\ reb' = [reb EXCEPT ![rebalancer].c = "closed"]
  /\ call' = [pc |-> "join", id |-> m.task.id]
  /\ UNCHANGED <<m, ctx, rebalancer, leaked, cbs, kv, poll>>

\* Mutant: cancel does not wait for r.done
CancelTaskJoinsEarly ==
  /\ call.pc = "join"
  /\ OnRebalanceDone(NoTask, "no", [id |-> call.id, value |-> "stop"])
  /\ reb' = [reb EXCEPT ![rebalancer].result = "cancelled"]
  /\ call' = Idle
  /\ UNCHANGED <<leaked, cbs, env>>

\* Mutant: onRebalanceDoneLocked is not told of the cancellation
CancelTaskJoinsBalanced ==
  /\ call.pc = "join" /\ reb[rebalancer].done = "closed"
  /\ OnRebalanceDone(NoTask, "yes", [id |-> call.id, value |-> "stop"])
  /\ reb' = [reb EXCEPT ![rebalancer].result = "cancelled"]
  /\ call' = Idle
  /\ UNCHANGED <<leaked, cbs, env>>

\* ... waits for r.done, cleans up, and leaves a stop token
CancelTaskJoins ==
  /\ call.pc = "join" /\ reb[rebalancer].done = "closed"
  /\ OnRebalanceDone(NoTask, "no", [id |-> call.id, value |-> "stop"])
  /\ reb' = [reb EXCEPT ![rebalancer].result = "cancelled"]
  /\ call' = Idle
  /\ UNCHANGED <<leaked, cbs, env>>

CancelTaskFailed ==
  /\ Free /\ Spend("calls")
  /\ m.task.status = "failed" /\ m.task = poll.task
  /\ UpdateState([m EXCEPT !.task = NoTask])
  /\ UNCHANGED <<ctx, rebalancer, leaked, call, reb, cbs, kv>>

\* Mutant: the revs are not compared
WaitAlways ==
  /\ Free /\ poll.pc \in {"new", "idle"}
  /\ poll' = [poll EXCEPT !.pc = "waiting"]
  /\ UNCHANGED <<m, ctx, rebalancer, leaked, call, reb, cbs, kv, env>>

\* wait: at once if ns_server has another rev, else as a waiter
Wait ==
  /\ Free /\ poll.pc \in {"new", "idle"}
  /\ poll' = IF poll.pc = "new" \/ poll.rev # m.rev
             THEN [poll EXCEPT !.pc = "got", !.rev = m.rev, !.task = m.task]
             ELSE [poll EXCEPT !.pc = "waiting"]
  /\ UNCHANGED <<m, ctx, rebalancer, leaked, call, reb, cbs, kv, env>>

WaitCanceled ==
  /\ poll.pc = "waiting"
  /\ poll' = [poll EXCEPT !.pc = "idle"]
  /\ UNCHANGED <<m, ctx, rebalancer, leaked, call, reb, cbs, kv, env>>

\* stateToTopology locks mu again: rev is of the state that wait returned, the
\* rest of what is there now
StateToTopology ==
  /\ Free /\ poll.pc = "got"
  /\ poll' = [poll EXCEPT !.pc = "idle", !.servers = m.servers, !.balanced = m.balanced]
  /\ UNCHANGED <<m, ctx, rebalancer, leaked, call, reb, cbs, kv, env>>

-----------------------------------------------------------------------------
(* runRebalanceCallback: a goroutine that locks mu and, unless the channel  *)
(* given as cancel is closed, runs the callback; the rebalancer waits for   *)
(* it or for that channel.                                                  *)

\* The failure paths pass r.done for cancel, the others r.c
Cancelled(k) ==
  IF k.what = "failed" THEN reb[k.reb].done = "closed" ELSE reb[k.reb].c = "closed"

CallbackSkips(k) ==
  /\ Free /\ Cancelled(k)
  /\ cbs' = cbs \ {k}
  /\ UNCHANGED <<m, ctx, rebalancer, leaked, call, reb, kv, poll, env>>

\* rebalanceProgressCallback
CallbackProgress(k) ==
  /\ Free /\ ~Cancelled(k) /\ k.what = "progress"
  /\ UpdateState([m EXCEPT !.task = [status |-> "running", id |-> ctx]])
  /\ cbs' = cbs \ {k}
  /\ UNCHANGED <<ctx, rebalancer, leaked, call, reb, kv, env>>

\* rebalanceDoneCallback has mu, and then rebalancerMutex
CallbackDoneLocks(k) ==
  /\ Free /\ ~Cancelled(k) /\ k.what # "progress"
  /\ cbs' = (cbs \ {k}) \cup {[k EXCEPT !.at = "locked"]}
  /\ UNCHANGED <<m, ctx, rebalancer, leaked, call, reb, kv, poll, env>>

CallbackDone(k) ==
  /\ k.at = "locked"
  /\ IF k.what = "failed"
     THEN OnRebalanceDone([status |-> "failed", id |-> ctx], "no", NoToken)
     ELSE OnRebalanceDone(NoTask, "yes", NoToken)
  /\ reb' = [reb EXCEPT ![k.reb].result = k.what]
  /\ cbs' = cbs \ {k}
  /\ UNCHANGED <<leaked, call, env>>

-----------------------------------------------------------------------------
(* gatherProgress, the goroutine of the rebalancer of change i.             *)

\* The goroutine calls cb.progress or cb.done and goes on at next
Callback(i, r, what, next) ==
  /\ reb' = [reb EXCEPT ![i] = [r EXCEPT !.pc = "wait", !.next = next]]
  /\ cbs' = cbs \cup {[reb |-> i, what |-> what, at |-> "waiting"]}

\* Mutant: cb.done is not called
FailSilently(i) ==
  /\ kv' = [kv EXCEPT !.token = [id |-> i, value |-> "stop"]]
  /\ reb' = [reb EXCEPT ![i].pc = "returned", ![i].done = "closed"]
  /\ UNCHANGED cbs

\* stopRebalanceCallback, then cb.done with an error
Fail(i) ==
  /\ kv' = [kv EXCEPT !.token = [id |-> i, value |-> "stop"]]
  /\ Callback(i, reb[i], "failed", "return")

Mine == <<m, ctx, rebalancer, leaked, call, poll>>      \* what the goroutine leaves alone

\* The aggregated progress: the request goes to this node only, which asks the
\* others; with one kept node an error passes for completion
GetProgressOK == UNCHANGED env
GetProgressFails == Spend("faults")

\* no function is deployed here, so there may be nothing to move
GatherNoApps(i) ==
  /\ reb[i].pc = "apps"
  /\ \/ GetProgressOK /\ env.vbs = 0 /\ Callback(i, reb[i], "progress", "finish")
     \/ GetProgressFails /\ Keep[i] = 1 /\ Callback(i, reb[i], "progress", "finish")
     \/ /\ (GetProgressOK /\ env.vbs > 0) \/ (GetProgressFails /\ Keep[i] > 1)
        /\ reb' = [reb EXCEPT ![i].pc = "first"] /\ UNCHANGED cbs
  /\ UNCHANGED <<kv, Mine>>

\* retryRebProgress: the first progress is stored as the total
GatherFirst(i) ==
  /\ reb[i].pc = "first" /\ GetProgressOK
  /\ kv' = [kv EXCEPT !.total = env.vbs]
  /\ reb' = [reb EXCEPT ![i].pc = "loop", ![i].n = 0]
  /\ UNCHANGED <<cbs, Mine>>

GatherFirstFails(i) ==
  /\ reb[i].pc = "first"
  /\ \/ /\ Keep[i] > 1 /\ reb[i].n + 1 < MaxAttempts /\ UNCHANGED env
        /\ reb' = [reb EXCEPT ![i].n = @ + 1] /\ UNCHANGED <<kv, cbs>>
     \/ Keep[i] > 1 /\ reb[i].n + 1 >= MaxAttempts /\ GetProgressFails /\ Fail(i)
     \/ Keep[i] = 1 /\ GetProgressFails /\ Callback(i, reb[i], "progress", "finish")
        /\ UNCHANGED kv
  /\ UNCHANGED Mine

\* storeRebalanceProgress fails, the first time or when the total has grown
GatherStoreFails(i) ==
  /\ reb[i].pc = "first" \/ (reb[i].pc = "loop" /\ env.vbs > kv.total)
  /\ Spend("faults") /\ Fail(i)
  /\ UNCHANGED Mine

\* A tick: all is moved
GatherFinished(i) ==
  /\ reb[i].pc = "loop" /\ GetProgressOK /\ env.vbs = 0
  /\ Callback(i, reb[i], "progress", "finish")
  /\ UNCHANGED <<kv, Mine>>

Same(p, q) == p[1] * q[2] = q[1] * p[2]

\* Mutant: the total is not raised to what remains
GatherTickTotalKept(i) ==
  /\ reb[i].pc = "loop" /\ GetProgressOK /\ env.vbs > 0
  /\ Callback(i, [reb[i] EXCEPT !.progress = <<env.vbs, kv.total>>], "progress", "loop")
  /\ UNCHANGED <<kv, Mine>>

\* A tick: some remain; the progress is one minus their share of the total.  As the
\* other ticks it may come with r.c closed: it was under way when r.c was closed, or
\* select found both and took it
GatherTick(i) ==
  LET total == IF env.vbs > kv.total THEN env.vbs ELSE kv.total
      progress == <<env.vbs, total>>
      n == IF Same(progress, reb[i].progress) THEN reb[i].n + 1 ELSE 0
      r == [reb[i] EXCEPT !.n = n, !.progress = progress]
  IN /\ reb[i].pc = "loop" /\ GetProgressOK /\ env.vbs > 0
     /\ \/ /\ n = Staleness
           /\ kv' = [kv EXCEPT !.total = total, !.token = [id |-> i, value |-> "stop"]]
           /\ Callback(i, r, "failed", "return")
        \/ /\ n # Staleness
           /\ kv' = [kv EXCEPT !.total = total]
           /\ Callback(i, r, "progress", "loop")
     /\ UNCHANGED Mine

\* A tick on which the request or the read of metakv fails: the loop goes on.
\* The branch for errors from all nodes needs as many errors as kept nodes, at
\* least two, and the one request gives one at most.
GatherTickFails(i) ==
  /\ reb[i].pc = "loop" /\ Spend("faults")
  /\ UNCHANGED <<reb, cbs, kv, Mine>>

\* Mutant: r.done is not closed
GatherCancelledOpen(i) ==
  /\ reb[i].pc = "loop" /\ reb[i].c = "closed"
  /\ reb' = [reb EXCEPT ![i].pc = "returned"]
  /\ UNCHANGED <<cbs, kv, env, Mine>>

GatherCancelled(i) ==
  /\ reb[i].pc = "loop" /\ reb[i].c = "closed"
  /\ reb' = [reb EXCEPT ![i].pc = "returned", ![i].done = "closed"]
  /\ UNCHANGED <<cbs, kv, env, Mine>>

\* runRebalanceCallback returns: the callback has run, or the channel is closed
Waited(i) == \A k \in cbs : k.reb = i => Cancelled(k)

GatherGoesOn(i) ==
  /\ reb[i].pc = "wait" /\ Waited(i)
  /\ \/ /\ reb[i].next = "loop"
        /\ reb' = [reb EXCEPT ![i].pc = "loop"] /\ UNCHANGED cbs
     \/ reb[i].next = "finish" /\ Callback(i, reb[i], "finished", "return")
     \/ /\ reb[i].next = "return"
        /\ reb' = [reb EXCEPT ![i].pc = "returned", ![i].done = "closed"] /\ UNCHANGED cbs
  /\ UNCHANGED <<kv, env, Mine>>

\* The nodes move vbuckets, or find more of them to move
VbsMove ==
  /\ env.moves > 0
  /\ \E v \in 0..MaxVbs \ {env.vbs} : env' = [env EXCEPT !.moves = @ - 1, !.vbs = v]
  /\ UNCHANGED <<m, ctx, rebalancer, leaked, call, reb, cbs, kv, poll>>

Rebalancer(i) ==
  \/ GatherNoApps(i) \/ GatherFirst(i) \/ GatherFirstFails(i) \/ GatherStoreFails(i)
  \/ GatherFinished(i) \/ GatherTick(i) \/ GatherTickFails(i) \/ GatherCancelled(i)
  \/ GatherGoesOn(i)

CallbackRuns(k) ==
  CallbackSkips(k) \/ CallbackProgress(k) \/ CallbackDoneLocks(k) \/ CallbackDone(k)

NsServer ==
  \/ \E i \in Ids : PrepareTopologyChange(i) \/ StartTopologyChangeConflict(i)
                    \/ StartTopologyChangeFailover(i) \/ StartTopologyChangeRebalance(i)
  \/ PrepareTopologyChangeFails \/ CancelTaskRunning \/ CancelTaskFailed
  \/ WaitCanceled \/ VbsMove

\* What goes on by itself once begun
Goes ==
  \/ StartTopologyChangeLocks \/ CancelTaskJoins \/ Wait \/ StateToTopology
  \/ (\E k \in cbs : CallbackRuns(k)) \/ (\E i \in Ids : Rebalancer(i))

Next == NsServer \/ Goes

Spec == Init /\ [][Next]_vars

\* Goroutines are scheduled, and a mutex is not withheld for ever from one that
\* waits for it.
FairSpec ==
  /\ Spec
  /\ WF_vars(StartTopologyChangeLocks) /\ WF_vars(CancelTaskJoins)
  /\ WF_vars(\E k \in cbs : CallbackRuns(k))
  /\ \A i \in Ids : WF_vars(Rebalancer(i))

-----------------------------------------------------------------------------
(* Properties                                                               *)

Statuses == {"none", "running", "failed"}
IdOrNone == Ids \cup {None}
Tasks == [status : Statuses, id : IdOrNone]

\* Ids name changes, counters stay within their bounds, and the total by which the
\* progress is divided is never zero.
TypeOK ==
  /\ m \in [rev : Nat, id : IdOrNone, task : Tasks, servers : IdOrNone, balanced : {"yes", "no"}]
  /\ ctx \in IdOrNone /\ rebalancer \in IdOrNone
  /\ leaked \in Nat
  /\ call \in [pc : {"idle", "lock", "join"}, id : IdOrNone]
  /\ reb \in [Ids -> [pc : {"none", "apps", "first", "loop", "wait", "returned"},
                      next : {"none", "loop", "finish", "return"}, n : Nat,
                      progress : (0..MaxVbs) \X (1..MaxVbs), c : {"open", "closed"},
                      done : {"open", "closed"},
                      result : {"none", "finished", "failed", "cancelled"}]]
  /\ cbs \subseteq [reb : Ids, what : {"progress", "finished", "failed"},
                   at : {"waiting", "locked"}]
  /\ kv \in [keepNodes : IdOrNone, total : 0..MaxVbs,
            token : [id : IdOrNone, value : {"none", "start", "stop"}]]
  /\ poll \in [pc : {"new", "idle", "waiting", "got"}, rev : Nat, task : Tasks,
              servers : IdOrNone, balanced : {"yes", "no"}]
  /\ env \in [vbs : 0..MaxVbs, calls : 0..MaxCalls, moves : 0..MaxMoves, faults : 0..MaxFaults]

\* While mu is free, the task list shows a running rebalance exactly when there is
\* a rebalancer to cancel: CancelTask does not follow a nil pointer, the context is
\* the one of that rebalancer, and its goroutine has not ended without a report.
TaskBacked ==
  Free =>
    /\ m.task.status = "running" <=> rebalancer # None
    /\ rebalancer # None =>
         /\ m.task.id = rebalancer /\ ctx = rebalancer
         /\ reb[rebalancer].c = "open" /\ reb[rebalancer].done = "open"

\* A callback that can still take effect is one of the present rebalancer, so that
\* a report which comes late never ends or revives another rebalance.
CallbackOfCurrent ==
  \A k \in cbs : ~Cancelled(k) => rebalancer = k.reb \/ call = [pc |-> "lock", id |-> k.reb]

\* The token of a running rebalance stays in metakv: nothing that ends another
\* rebalance removes it. When none runs, at most a stop token is left.
TokenOfRunning ==
  Free => IF rebalancer # None THEN kv.token.id = rebalancer ELSE kv.token.value # "start"

Started == {i \in Ids : reb[i].pc # "none"}
Last == CHOOSE i \in Started : \A j \in Started : j <= i

\* With no change under way, isBalanced says that the last rebalance was finished:
\* neither a cancelled nor a failed one passes for balanced.
BalancedMeansFinished ==
  (Free /\ m.id = None /\ m.balanced = "yes" /\ Started # {}) => reb[Last].result = "finished"

\* No wake-up is lost between the comparison of revs and the registration of the
\* waiter: whoever waits has the present rev.
WaiterUpToDate == poll.pc = "waiting" => poll.rev = m.rev

\* Whoever has the present rev has the present servers, although rev and servers
\* are read under two locks.
TopologySeen ==
  (Free /\ poll.pc \in {"idle", "waiting"} /\ poll.rev = m.rev) => poll.servers = m.servers

\* rebalancerMutex was left locked, or CancelTask waits for a goroutine that waits
\* for mu
Wedged ==
  \/ leaked > 0
  \/ call.pc = "join" /\ \E k \in cbs : k.reb = rebalancer /\ k.what = "failed"

\* A rebalance ends: it is finished, failed or cancelled, however the vbuckets move
\* or do not move, unless the locks above are stuck.
RebalanceEnds == m.task.status = "running" ~> (m.task.status # "running" \/ Wedged)

\* CancelTask returns: a rebalance that its task calls cancelable can be cancelled.
CancelReturns == call.pc = "join" ~> call.pc = "idle"

\* The same, apart from the two ways of getting stuck.
LocksReleased == ~Free ~> (Free \/ Wedged)
=============================================================================
