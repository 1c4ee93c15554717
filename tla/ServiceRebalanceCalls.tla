----------------------- MODULE ServiceRebalanceCalls ------------------------
(***************************************************************************)
(* The inductive invariant of ServiceRebalance, and that the calls of      *)
(* ns_server and the callbacks of a rebalancer keep it.                    *)
(***************************************************************************)
EXTENDS ServiceRebalance, TLAPS

\* The rebalance of change i has been announced and not been ended: its rebalancer
\* is installed, or StartTopologyChange is about to install it.
Active(i) == rebalancer = i \/ (call.pc = "lock" /\ call.id = i)

RebType ==
  [pc : {"none", "apps", "first", "loop", "wait", "returned"},
   next : {"none", "loop", "finish", "return"}, n : Nat,
   progress : Nat \X Nat, c : {"open", "closed"}, done : {"open", "closed"},
   result : {"none", "finished", "failed", "cancelled"}]
CbType == [reb : Ids, what : {"progress", "finished", "failed"}, at : {"waiting", "locked"}]
MType == [rev : Nat, id : IdOrNone, task : Tasks, servers : IdOrNone, balanced : {"yes", "no"}]
PollType == [pc : {"new", "idle", "waiting", "got"}, rev : Nat, task : Tasks,
             servers : IdOrNone, balanced : {"yes", "no"}]
KvType == [keepNodes : IdOrNone, total : Nat,
           token : [id : IdOrNone, value : {"none", "start", "stop"}]]
EnvType == [vbs : Nat, calls : Nat, moves : Nat, faults : Nat]
Types ==
  /\ m \in MType /\ poll \in PollType /\ kv \in KvType
  /\ ctx \in IdOrNone /\ rebalancer \in IdOrNone
  /\ call \in [pc : {"idle", "lock", "join"}, id : IdOrNone]
  /\ reb \in [Ids -> RebType]
  /\ cbs \in SUBSET CbType
  /\ env \in EnvType

\* mu has one holder
Mutex ==
  /\ call.pc # "idle" => \A k \in cbs : k.at = "waiting"
  /\ call.pc = "lock" => rebalancer = None /\ call.id \in Ids
  /\ call.pc = "join" => rebalancer \in Ids /\ call.id = rebalancer
  /\ \A k, l \in cbs : k.at = "locked" /\ l.at = "locked" => k = l

\* A goroutine that is at work belongs to the active rebalance
Goroutine(i) ==
  /\ reb[i].pc = "none" => reb[i].c = "open" /\ ~Active(i)
  /\ reb[i].done = "closed" <=> reb[i].pc = "returned"
  /\ reb[i].pc \in {"apps", "first", "loop"} => Active(i)
  /\ reb[i].pc = "wait" /\ reb[i].next # "return" => Active(i)
  /\ reb[i].c = "closed" => \/ call.pc = "join" /\ rebalancer = i
                            \/ reb[i].pc = "returned" /\ ~Active(i)
  /\ Active(i) /\ reb[i].pc = "returned" => reb[i].c = "closed"
  /\ Active(i) /\ reb[i].pc = "wait" /\ reb[i].next = "return" /\ reb[i].c = "open" =>
       \E k \in cbs : k.reb = i
Goroutines == \A i \in Ids : Goroutine(i)

\* The callbacks of a rebalancer, of which only one counts
CallbackOK(k) ==
  /\ reb[k.reb].pc # "none"
  /\ k.what # "progress" => /\ reb[k.reb].next = "return"
                            /\ reb[k.reb].pc \in {"wait", "returned"}
  /\ reb[k.reb].c = "open" => reb[k.reb].pc = "wait"
  /\ k.what = "failed" => reb[k.reb].pc = "wait"
  /\ k.what = "progress" /\ reb[k.reb].c = "open" => reb[k.reb].next # "return"
  /\ k.at = "locked" => ~Cancelled(k) /\ k.what # "progress"
Callbacks ==
  /\ \A k \in cbs : CallbackOK(k)
  /\ \A k, l \in cbs : k.reb = l.reb /\ reb[k.reb].c = "open" => k = l
  /\ CallbackOfCurrent

\* What ns_server is told of the active rebalance
Announced ==
  /\ \A i \in Ids : Active(i) => /\ m.task.status = "running" /\ m.task.id = i
                                 /\ ctx = i /\ kv.token.id = i
  /\ m.task.status = "running" => \E i \in Ids : Active(i)
  /\ kv.token.value = "start" => \E i \in Ids : Active(i)

\* The active rebalance is the last one started; changes are used in order
Ordered ==
  /\ m.id \in {None, m.servers}
  /\ \A i \in Ids : reb[i].pc # "none" => i <= m.servers
  /\ \A i \in Ids : reb[i].pc # "none" /\ m.id = i => Active(i)
  /\ \A i, j \in Ids : Active(i) /\ reb[j].pc # "none" => j <= i
  /\ m.id = None => \A i \in Ids : ~Active(i)
  /\ Started # {} => \E i \in Started : \A j \in Started : j <= i
  /\ m.id = None /\ m.balanced = "yes" =>
       \A i \in Ids : reb[i].pc # "none" /\ (\A j \in Ids : reb[j].pc # "none" => j <= i)
                        => reb[i].result = "finished"

\* What ns_server holds is never ahead of the state
Polled ==
  /\ poll.rev <= m.rev
  /\ WaiterUpToDate
  /\ poll.pc \in {"idle", "waiting"} /\ poll.rev = m.rev => poll.servers = m.servers

IInv == Types /\ Mutex /\ Goroutines /\ Callbacks /\ Announced /\ Ordered /\ Polled

-----------------------------------------------------------------------------
\* Before the first call of ns_server there is no task, goroutine, token or poll
LEMMA InitIInv == Init => IInv
<1> SUFFICES ASSUME Init PROVE IInv
  OBVIOUS
<1> USE DEF None, NoTask, NoToken, Idle, Zero, IdOrNone
<1>1. Types
  BY BoundsAssumption DEF Init, Types, EnvType, MType, PollType, KvType, RebType, CbType, Tasks, Statuses
<1>2. Mutex
  BY DEF Init, Mutex
<1>3. Goroutines
  BY IdsAssumption DEF Init, Goroutines, Goroutine, Active
<1>4. Callbacks
  BY DEF Init, Callbacks, CallbackOK, CallbackOfCurrent
<1>5. Announced
  BY IdsAssumption DEF Init, Announced, Active
<1>6. Ordered
  BY IdsAssumption DEF Init, Ordered, Active, Started
<1>7. Polled
  BY DEF Init, Polled, WaiterUpToDate
<1> QED
  BY <1>1, <1>2, <1>3, <1>4, <1>5, <1>6, <1>7 DEF IInv

\* A poll that found another rev takes that rev and the task list with it
LEMMA GotType ==
  ASSUME NEW q \in PollType, NEW rev \in Nat, NEW t \in Tasks,
         NEW p, p = [q EXCEPT !.pc = "got", !.rev = rev, !.task = t]
  PROVE  p \in PollType /\ p.pc = "got" /\ p.rev = rev
BY Zenon DEF PollType

\* updateStateLocked leaves ns_server with an older rev, or wakes it up
LEMMA Updates ==
  ASSUME Types, Polled, NEW s \in MType, UpdateState(s)
  PROVE  /\ m' \in MType /\ poll' \in PollType
         /\ m'.id = s.id /\ m'.task = s.task /\ m'.servers = s.servers
         /\ m'.balanced = s.balanced
         /\ Polled'
<1>1. m' = [s EXCEPT !.rev = m.rev + 1] /\ m.rev \in Nat
  BY DEF UpdateState, Types, MType
<1>2. /\ m' \in MType /\ m'.rev = m.rev + 1 /\ m'.id = s.id /\ m'.task = s.task
      /\ m'.servers = s.servers /\ m'.balanced = s.balanced
  BY <1>1 DEF MType
<1>3. CASE poll.pc = "waiting"
  <2>1. poll' = [poll EXCEPT !.pc = "got", !.rev = m.rev + 1, !.task = s.task]
    BY <1>3 DEF UpdateState
  <2>2. poll' \in PollType /\ poll'.pc = "got" /\ poll'.rev = m.rev + 1
    <3>1. poll \in PollType /\ m.rev + 1 \in Nat /\ s.task \in Tasks
      BY <1>1 DEF Types, MType
    <3> DEFINE rev == m.rev + 1
    <3> DEFINE t == s.task
    <3>2. /\ rev \in Nat /\ t \in Tasks
          /\ poll' = [poll EXCEPT !.pc = "got", !.rev = rev, !.task = t]
      BY <2>1, <3>1
    <3> HIDE DEF rev, t
    <3>3. poll' \in PollType /\ poll'.pc = "got" /\ poll'.rev = rev
      BY <3>1, <3>2, Zenon DEF PollType
    <3> QED
      BY <3>3 DEF rev
  <2> QED
    BY <1>1, <1>2, <2>2 DEF Polled, WaiterUpToDate
<1>4. CASE poll.pc # "waiting"
  <2>1. poll' = poll
    BY <1>4 DEF UpdateState
  <2> QED
    BY <1>1, <1>2, <1>4, <2>1 DEF Polled, WaiterUpToDate, Types, PollType
<1> QED
  BY <1>3, <1>4

\* A step that uses up one of ns_server's calls or of the faults stays within the bounds
LEMMA Spends ==
  ASSUME Types, NEW what \in {"calls", "faults"}, Spend(what)
  PROVE  env' \in EnvType
BY DEF Spend, Types, EnvType

\* Rebalance ids and revisions are numbers, so the code may compare them
LEMMA Numbers ==
  ASSUME Types
  PROVE  /\ m.servers \in Nat /\ Ids \subseteq Nat /\ None \notin Ids
         /\ m.servers \in IdOrNone /\ m.rev \in Nat /\ poll.rev \in Nat
<1>1. Ids \subseteq Nat /\ None \notin Ids
  BY IdsAssumption DEF None
<1>2. m.servers \in IdOrNone /\ m.rev \in Nat /\ poll.rev \in Nat
  BY DEF Types, MType, PollType
<1>3. \A x \in IdOrNone : x \in Nat
  BY IdsAssumption DEF IdOrNone, None
<1> QED
  BY <1>1, <1>2, <1>3

\* An active rebalance is the one in m.rebalancer, or the one being started under the lock
LEMMA ActiveForm ==
  ASSUME Types, NEW i \in Ids
  PROVE  Active(i) <=> rebalancer = i \/ call = [pc |-> "lock", id |-> i]
BY DEF Types, Active

\* The steps that change nothing but the poll, the bounds or a leaked lock
LEMMA QuietSteps ==
  ASSUME IInv, UNCHANGED <<m, ctx, rebalancer, call, reb, cbs, kv>>, env' \in EnvType,
         UNCHANGED poll \/ Wait \/ WaitCanceled \/ StateToTopology
  PROVE  IInv'
<1> USE DEF IInv
<1>2. Mutex'
  BY DEF Mutex
<1>3. Goroutines'
  BY DEF Goroutines, Goroutine, Active
<1>4. Callbacks'
  BY DEF Callbacks, CallbackOK, CallbackOfCurrent, Cancelled
<1>5. Announced'
  BY DEF Announced, Active
<1>6. Ordered'
  BY DEF Ordered, Active, Started
<1>7. poll' \in PollType /\ Polled'
  <2> USE DEF Types, MType, PollType, Polled, WaiterUpToDate
  <2>1. CASE UNCHANGED poll
    BY <2>1
  <2>2. CASE Wait /\ (poll.pc = "new" \/ poll.rev # m.rev)
    <3>1. poll' = [poll EXCEPT !.pc = "got", !.rev = m.rev, !.task = m.task]
      BY <2>2 DEF Wait
    <3>2. poll \in PollType /\ m.rev \in Nat /\ m.task \in Tasks
      BY Zenon
    <3>3. poll' \in PollType /\ poll'.pc = "got" /\ poll'.rev = m.rev
      BY <3>1, <3>2, GotType, Zenon
    <3> QED
      BY <3>2, <3>3
  <2>3. CASE Wait /\ ~(poll.pc = "new" \/ poll.rev # m.rev)
    <3>1. poll' = [poll EXCEPT !.pc = "waiting"] /\ poll.pc = "idle" /\ poll.rev = m.rev
      BY <2>3 DEF Wait
    <3> QED
      BY <3>1
  <2>4. CASE WaitCanceled
    <3>1. poll' = [poll EXCEPT !.pc = "idle"] /\ poll.pc = "waiting"
      BY <2>4 DEF WaitCanceled
    <3> QED
      BY <3>1
  <2>5. CASE StateToTopology
    <3>1. poll' = [poll EXCEPT !.pc = "idle", !.servers = m.servers, !.balanced = m.balanced]
      BY <2>5 DEF StateToTopology
    <3> QED
      BY <3>1, Zenon
  <2> QED
    BY <2>1, <2>2, <2>3, <2>4, <2>5
<1>1. Types'
  BY <1>7 DEF Types
<1> QED
  BY <1>1, <1>2, <1>3, <1>4, <1>5, <1>6, <1>7

-----------------------------------------------------------------------------
(* The calls of ns_server                                                   *)

\* PrepareTopologyChange: updateStateLocked with the new id and servers
LEMMA Prepare ==
  ASSUME IInv, NEW i \in Ids, PrepareTopologyChange(i)
  PROVE  IInv'
<1> DEFINE s == [m EXCEPT !.id = i, !.servers = i, !.balanced = "yes"]
<1>a. /\ Spend("calls") /\ m.servers < i /\ UpdateState(s)
      /\ UNCHANGED <<ctx, rebalancer, leaked, call, reb, cbs, kv>>
  BY DEF PrepareTopologyChange
<1>b. s \in MType /\ s.id = i /\ s.servers = i /\ s.task = m.task
  BY Zenon DEF IInv, Types, MType, IdOrNone
<1> HIDE DEF s
<1>c. /\ m' \in MType /\ poll' \in PollType /\ Polled'
      /\ m'.id = i /\ m'.servers = i /\ m'.task = m.task
  BY <1>a, <1>b, Updates DEF IInv
<1>d. env' \in EnvType
  BY <1>a, Spends DEF IInv
<1>1. Types'
  BY <1>a, <1>c, <1>d DEF IInv, Types
<1>2. Mutex'
  BY <1>a DEF IInv, Mutex
<1>3. Goroutines'
  BY <1>a DEF IInv, Goroutines, Goroutine, Active
<1>4. Callbacks'
  BY <1>a DEF IInv, Callbacks, CallbackOK, CallbackOfCurrent, Cancelled
<1>5. Announced'
  BY <1>a, <1>c DEF IInv, Announced, Active
<1>6. Ordered'
  <2>1. m.servers \in Nat /\ m.servers < i /\ i \in Nat /\ i # None /\ Ids \subseteq Nat
    BY <1>a, Numbers DEF IInv
  <2>2. /\ \A j \in Ids : reb'[j].pc = reb[j].pc
        /\ \A j \in Ids : Active(j)' <=> Active(j)
    BY <1>a DEF Active
  <2>3. \A j \in Ids : reb[j].pc # "none" => j <= m.servers
    BY DEF IInv, Ordered
  <2>4. \A j \in Ids : reb[j].pc # "none" => j < i
    BY <2>1, <2>3
  <2>5. \A j, k \in Ids : Active(j) /\ reb[k].pc # "none" => k <= j
    BY DEF IInv, Ordered
  <2>6. Started' # {} => \E j \in Started' : \A k \in Started' : k <= j
    BY <1>a DEF IInv, Ordered, Started
  <2> QED
    BY <1>c, <2>1, <2>2, <2>4, <2>5, <2>6 DEF Ordered
<1> QED
  BY <1>1, <1>2, <1>3, <1>4, <1>5, <1>6, <1>c DEF IInv

\* PrepareTopologyChange answering an error: only isBalanced changes
LEMMA PrepareFails ==
  ASSUME IInv, PrepareTopologyChangeFails
  PROVE  IInv'
<1>a. /\ Spend("faults") /\ m' = [m EXCEPT !.balanced = "no"]
      /\ UNCHANGED <<ctx, rebalancer, leaked, call, reb, cbs, kv, poll>>
  BY DEF PrepareTopologyChangeFails
<1>b. /\ m' \in MType /\ m'.balanced = "no" /\ m'.rev = m.rev /\ m'.id = m.id
      /\ m'.servers = m.servers /\ m'.task = m.task
  BY <1>a DEF IInv, Types, MType
<1>c. env' \in EnvType
  BY <1>a, Spends DEF IInv
<1>1. Types'
  BY <1>a, <1>b, <1>c DEF IInv, Types
<1>2. Mutex'
  BY <1>a DEF IInv, Mutex
<1>3. Goroutines'
  BY <1>a DEF IInv, Goroutines, Goroutine, Active
<1>4. Callbacks'
  BY <1>a DEF IInv, Callbacks, CallbackOK, CallbackOfCurrent, Cancelled
<1>5. Announced'
  BY <1>a, <1>b DEF IInv, Announced, Active
<1>6. Ordered'
  BY <1>a, <1>b DEF IInv, Ordered, Active, Started
<1>7. Polled'
  BY <1>a, <1>b DEF IInv, Polled, WaiterUpToDate
<1> QED
  BY <1>1, <1>2, <1>3, <1>4, <1>5, <1>6, <1>7 DEF IInv

\* No rebalance is active: StartTopologyChange of a failover finds none
LEMMA StartFailover ==
  ASSUME IInv, NEW i \in Ids, StartTopologyChangeFailover(i)
  PROVE  IInv'
<1>a. /\ Free /\ Spend("calls") /\ rebalancer = None /\ ctx' = i
      /\ kv' = [kv EXCEPT !.keepNodes = m.servers]
      /\ UNCHANGED <<m, rebalancer, leaked, call, reb, cbs, poll>>
  BY DEF StartTopologyChangeFailover
<1>b. kv' \in KvType /\ kv'.token = kv.token
  BY <1>a DEF IInv, Types, KvType, MType
<1>c. env' \in EnvType
  BY <1>a, Spends DEF IInv
<1>d. \A j \in Ids : ~Active(j) /\ ~Active(j)'
  BY <1>a, IdsAssumption DEF Active, Free, None
<1>1. Types'
  BY <1>a, <1>b, <1>c DEF IInv, Types, IdOrNone
<1>2. Mutex'
  BY <1>a DEF IInv, Mutex
<1>3. Goroutines'
  BY <1>a DEF IInv, Goroutines, Goroutine, Active
<1>4. Callbacks'
  BY <1>a DEF IInv, Callbacks, CallbackOK, CallbackOfCurrent, Cancelled
<1>5. Announced'
  BY <1>a, <1>b, <1>d DEF IInv, Announced
<1>6. Ordered'
  BY <1>a, <1>d DEF IInv, Ordered, Started
<1>7. Polled'
  BY <1>a DEF IInv, Polled, WaiterUpToDate
<1> QED
  BY <1>1, <1>2, <1>3, <1>4, <1>5, <1>6, <1>7 DEF IInv

\* CancelTask of a task that has already failed removes it from the list
LEMMA CancelFailed ==
  ASSUME IInv, CancelTaskFailed
  PROVE  IInv'
<1> DEFINE s == [m EXCEPT !.task = NoTask]
<1>a. /\ Spend("calls") /\ m.task.status = "failed" /\ UpdateState(s)
      /\ UNCHANGED <<ctx, rebalancer, leaked, call, reb, cbs, kv>>
  BY DEF CancelTaskFailed
<1>b. /\ s \in MType /\ s.id = m.id /\ s.servers = m.servers /\ s.task = NoTask
      /\ s.balanced = m.balanced
  BY DEF IInv, Types, MType, IdOrNone, Tasks, Statuses, NoTask
<1> HIDE DEF s
<1>c. /\ m' \in MType /\ poll' \in PollType /\ Polled' /\ m'.balanced = m.balanced
      /\ m'.id = m.id /\ m'.servers = m.servers /\ m'.task = NoTask
  BY <1>a, <1>b, Updates DEF IInv
<1>d. env' \in EnvType
  BY <1>a, Spends DEF IInv
<1>e. \A i \in Ids : ~Active(i) /\ ~Active(i)'
  <2>1. \A i \in Ids : Active(i) => m.task.status = "running"
    BY DEF IInv, Announced
  <2>2. \A i \in Ids : Active(i)' <=> Active(i)
    BY <1>a DEF Active
  <2> QED
    BY <2>1, <2>2, <1>a
<1>1. Types'
  BY <1>a, <1>c, <1>d DEF IInv, Types
<1>2. Mutex'
  BY <1>a DEF IInv, Mutex
<1>3. Goroutines'
  BY <1>a DEF IInv, Goroutines, Goroutine, Active
<1>4. Callbacks'
  BY <1>a DEF IInv, Callbacks, CallbackOK, CallbackOfCurrent, Cancelled
<1>5. Announced'
  BY <1>a, <1>c, <1>e DEF IInv, Announced, NoTask
<1>6. Ordered'
  BY <1>a, <1>c, <1>e DEF IInv, Ordered, Started
<1> QED
  BY <1>1, <1>2, <1>3, <1>4, <1>5, <1>6, <1>c DEF IInv

\* StartTopologyChange of a rebalance: token and task are written, the goroutine
\* starts, and mu stays locked
LEMMA StartRebalance ==
  ASSUME IInv, NEW i \in Ids, StartTopologyChangeRebalance(i)
  PROVE  IInv'
<1> DEFINE s == [m EXCEPT !.task = [status |-> "running", id |-> i]]
<1> DEFINE tok == [id |-> i, value |-> "start"]
<1>a. /\ Free /\ Spend("calls") /\ m.id = i /\ rebalancer = None
      /\ ctx' = i /\ kv' = [kv EXCEPT !.keepNodes = m.servers, !.token = tok]
      /\ UpdateState(s) /\ call' = [pc |-> "lock", id |-> i]
      /\ UNCHANGED <<rebalancer, leaked, cbs>>
  BY DEF StartTopologyChangeRebalance
<1>b. PICK first \in {"apps", "first"} : reb' = [reb EXCEPT ![i].pc = first]
  BY Zenon DEF StartTopologyChangeRebalance
<1>c. /\ s \in MType /\ s.id = m.id /\ s.servers = m.servers /\ s.balanced = m.balanced
      /\ s.task.status = "running" /\ s.task.id = i
  BY DEF IInv, Types, MType, IdOrNone, Tasks, Statuses
<1> HIDE DEF s
<1>d. /\ m' \in MType /\ poll' \in PollType /\ Polled' /\ m'.balanced = m.balanced
      /\ m'.id = m.id /\ m'.servers = m.servers
      /\ m'.task.status = "running" /\ m'.task.id = i
  BY <1>a, <1>c, Updates DEF IInv
<1>e. env' \in EnvType
  BY <1>a, Spends DEF IInv
<1>f. kv' \in KvType /\ kv'.token.id = i
  BY <1>a, Zenon DEF IInv, Types, KvType, MType, IdOrNone
<1>g. call.pc = "idle" /\ (\A k \in cbs : k.at = "waiting") /\ call'.pc = "lock" /\ call'.id = i
  BY <1>a DEF Free
<1>h. /\ \A j \in Ids : ~Active(j)
      /\ \A j \in Ids : Active(j)' <=> j = i
  BY <1>a, <1>g, IdsAssumption DEF Active, None
<1>i. reb[i].pc = "none"
  BY <1>a, <1>h DEF IInv, Ordered
<1>j. /\ reb' \in [Ids -> RebType] /\ reb'[i].pc = first
      /\ \A j \in Ids : reb'[j].c = reb[j].c /\ reb'[j].done = reb[j].done
                        /\ reb'[j].next = reb[j].next /\ reb'[j].result = reb[j].result
      /\ \A j \in Ids \ {i} : reb'[j] = reb[j]
  BY <1>b DEF IInv, Types, RebType
<1>1. Types'
  BY <1>a, <1>d, <1>e, <1>f, <1>j DEF IInv, Types, IdOrNone
<1>2. Mutex'
  BY <1>a, <1>g DEF IInv, Mutex
<1>3. Goroutines'
  <2> SUFFICES ASSUME NEW j \in Ids PROVE Goroutine(j)'
    BY DEF Goroutines
  <2>1. CASE j = i
    BY <2>1, <1>h, <1>i, <1>j DEF IInv, Goroutines, Goroutine
  <2>2. CASE j # i
    BY <2>2, <1>a, <1>g, <1>h, <1>j DEF IInv, Goroutines, Goroutine
  <2> QED
    BY <2>1, <2>2
<1>4. Callbacks'
  <2>1. \A k \in cbs : k.reb \in Ids \ {i}
    BY <1>i DEF IInv, Callbacks, CallbackOK, Types, CbType
  <2>2. \A k \in cbs : Cancelled(k)' <=> Cancelled(k)
    BY <2>1, <1>j DEF Cancelled
  <2>3. \A k \in cbs : Cancelled(k)
    <3> SUFFICES ASSUME NEW k \in cbs PROVE Cancelled(k)
      OBVIOUS
    <3>1. ~Active(k.reb) /\ k.reb \in Ids
      BY <2>1, <1>h
    <3> QED
      BY <3>1, ActiveForm DEF IInv, Callbacks, CallbackOK, CallbackOfCurrent
  <2> QED
    BY <1>a, <1>j, <2>1, <2>2, <2>3 DEF IInv, Callbacks, CallbackOK, CallbackOfCurrent
<1>5. Announced'
  BY <1>a, <1>d, <1>f, <1>h DEF Announced
<1>6. Ordered'
  <2>1. m.id = m.servers /\ i = m.servers
    BY <1>a, IdsAssumption DEF IInv, Ordered, None
  <2>2. \A j \in Ids : reb'[j].pc # "none" => j <= i
    BY <1>j, <2>1, Numbers DEF IInv, Ordered
  <2>3. i \in Started' /\ \A j \in Started' : j <= i
    BY <1>j, <2>2 DEF Started
  <2> QED
    BY <1>a, <1>d, <1>h, <2>1, <2>2, <2>3, IdsAssumption DEF Ordered, None
<1> QED
  BY <1>1, <1>2, <1>3, <1>4, <1>5, <1>6, <1>d DEF IInv

\* StartTopologyChange gets rebalancerMutex and stores the rebalancer
LEMMA StartLocks ==
  ASSUME IInv, StartTopologyChangeLocks
  PROVE  IInv'
<1>a. /\ call.pc = "lock" /\ rebalancer' = call.id /\ call' = Idle
      /\ UNCHANGED <<m, ctx, leaked, reb, cbs, kv, poll, env>>
  BY DEF StartTopologyChangeLocks
<1>b. call'.pc = "idle" /\ call.id \in Ids /\ rebalancer = None
  BY <1>a DEF Idle, IInv, Mutex
<1>c. \A i \in Ids : Active(i)' <=> Active(i)
  BY <1>a, <1>b, IdsAssumption DEF Active, None
<1>1. Types'
  BY <1>a, <1>b DEF IInv, Types, IdOrNone, Idle
<1>2. Mutex'
  BY <1>a, <1>b DEF IInv, Mutex
<1>3. Goroutines'
  <2> SUFFICES ASSUME NEW i \in Ids PROVE Goroutine(i)'
    BY DEF Goroutines
  <2>1. ~(call.pc = "join" /\ rebalancer = i)
    BY <1>a
  <2> QED
    BY <1>a, <1>c, <2>1 DEF IInv, Goroutines, Goroutine
<1>4. Callbacks'
  <2>1. \A k \in cbs : Cancelled(k)' <=> Cancelled(k)
    BY <1>a DEF Cancelled
  <2>2. CallbackOfCurrent'
    <3> SUFFICES ASSUME NEW k \in cbs, ~Cancelled(k) PROVE rebalancer' = k.reb
      BY <1>a, <2>1 DEF CallbackOfCurrent
    <3>1. k.reb \in Ids /\ Active(k.reb)
      BY ActiveForm DEF IInv, Types, CbType, Callbacks, CallbackOK, CallbackOfCurrent
    <3> QED
      BY <3>1, <1>a, <1>b, IdsAssumption DEF Active, None
  <2> QED
    BY <1>a, <2>1, <2>2 DEF IInv, Callbacks, CallbackOK
<1>5. Announced'
  BY <1>a, <1>c DEF IInv, Announced
<1>6. Ordered'
  BY <1>a, <1>c DEF IInv, Ordered, Started
<1>7. Polled'
  BY <1>a DEF IInv, Polled, WaiterUpToDate
<1> QED
  BY <1>1, <1>2, <1>3, <1>4, <1>5, <1>6, <1>7 DEF IInv

\* CancelTask finds the rebalancer that its task stands for
LEMMA RunningHasRebalancer ==
  ASSUME IInv, Free, m.task.status = "running"
  PROVE  rebalancer \in Ids /\ m.task.id = rebalancer /\ call.pc = "idle"
<1>1. PICK i \in Ids : Active(i)
  BY DEF IInv, Announced
<1>2. rebalancer = i /\ call.pc = "idle"
  BY <1>1 DEF Active, Free
<1> QED
  BY <1>1, <1>2 DEF IInv, Announced

\* CancelTask of the running rebalance closes r.c and waits for the goroutine
LEMMA CancelRunning ==
  ASSUME IInv, CancelTaskRunning
  PROVE  IInv'
<1>a. /\ Free /\ Spend("calls") /\ m.task.status = "running"
      /\ reb' = [reb EXCEPT ![rebalancer].c = "closed"]
      /\ call' = [pc |-> "join", id |-> m.task.id]
      /\ UNCHANGED <<m, ctx, rebalancer, leaked, cbs, kv, poll>>
  BY DEF CancelTaskRunning
<1>b. /\ rebalancer \in Ids /\ m.task.id = rebalancer /\ call.pc = "idle"
      /\ call'.pc = "join" /\ call'.id = rebalancer /\ \A k \in cbs : k.at = "waiting"
  BY <1>a, RunningHasRebalancer DEF Free
<1>c. env' \in EnvType
  BY <1>a, Spends DEF IInv
<1>d. \A i \in Ids : Active(i)' <=> Active(i)
  BY <1>a, <1>b DEF Active
<1>e. /\ reb' \in [Ids -> RebType] /\ reb'[rebalancer].c = "closed"
      /\ \A i \in Ids : reb'[i].pc = reb[i].pc /\ reb'[i].done = reb[i].done
                        /\ reb'[i].next = reb[i].next /\ reb'[i].result = reb[i].result
      /\ \A i \in Ids \ {rebalancer} : reb'[i] = reb[i]
  BY <1>a, <1>b DEF IInv, Types, RebType
<1>1. Types'
  BY <1>a, <1>b, <1>c, <1>e DEF IInv, Types, IdOrNone
<1>2. Mutex'
  BY <1>a, <1>b DEF IInv, Mutex
<1>3. Goroutines'
  <2> SUFFICES ASSUME NEW i \in Ids PROVE Goroutine(i)'
    BY DEF Goroutines
  <2>1. CASE i = rebalancer
    BY <2>1, <1>a, <1>b, <1>d, <1>e DEF IInv, Goroutines, Goroutine, Active
  <2>2. CASE i # rebalancer
    BY <2>2, <1>a, <1>b, <1>d, <1>e DEF IInv, Goroutines, Goroutine
  <2> QED
    BY <2>1, <2>2
<1>4. Callbacks'
  <2>1. \A k \in cbs : k.reb \in Ids
    BY DEF IInv, Types, CbType
  <2>2. \A k \in cbs : ~Cancelled(k)' => ~Cancelled(k)
    BY <2>1, <1>b, <1>e DEF Cancelled
  <2>3. CallbackOfCurrent'
    <3> SUFFICES ASSUME NEW k \in cbs, ~Cancelled(k) PROVE rebalancer = k.reb
      BY <1>a, <2>2 DEF CallbackOfCurrent
    <3> QED
      BY <1>b DEF IInv, Callbacks, CallbackOK, CallbackOfCurrent
  <2>4. \A i \in Ids : reb'[i].c = "open" => reb[i].c = "open"
    BY <1>b, <1>e
  <2> QED
    BY <1>a, <1>b, <1>e, <2>1, <2>3, <2>4 DEF IInv, Callbacks, CallbackOK
<1>5. Announced'
  BY <1>a, <1>d DEF IInv, Announced
<1>6. Ordered'
  BY <1>a, <1>d, <1>e DEF IInv, Ordered, Started
<1>7. Polled'
  BY <1>a DEF IInv, Polled, WaiterUpToDate
<1> QED
  BY <1>1, <1>2, <1>3, <1>4, <1>5, <1>6, <1>7 DEF IInv

\* onRebalanceDoneLocked, when the goroutine has nothing left to report
LEMMA Ends ==
  ASSUME IInv, rebalancer \in Ids, call.pc # "lock",
         NEW task \in Tasks, task.status # "running",
         NEW balanced \in {"yes", "no"}, NEW tok \in [id : IdOrNone, value : {"none", "stop"}],
         NEW result \in {"finished", "failed", "cancelled"},
         balanced = "yes" => result = "finished",
         OnRebalanceDone(task, balanced, tok),
         reb' = [reb EXCEPT ![rebalancer].result = result],
         call' \in [pc : {"idle"}, id : IdOrNone], UNCHANGED env,
         cbs' \subseteq cbs, \A k \in cbs : k.reb # rebalancer => k \in cbs',
         \A k \in cbs' : k.at = "waiting" /\ (k.reb = rebalancer => Cancelled(k)),
         \/ reb[rebalancer].pc = "returned"
         \/ reb[rebalancer].pc = "wait" /\ reb[rebalancer].next = "return"
            /\ reb[rebalancer].c = "open"
  PROVE  IInv'
<1> DEFINE s == [m EXCEPT !.task = task, !.id = None, !.balanced = balanced]
<1>a. /\ rebalancer' = None /\ ctx' = None /\ kv' = [kv EXCEPT !.token = tok]
      /\ UpdateState(s)
  BY DEF OnRebalanceDone
<1>b. /\ s \in MType /\ s.id = None /\ s.servers = m.servers /\ s.balanced = balanced
      /\ s.task = task
  BY Zenon DEF IInv, Types, MType, IdOrNone
<1> HIDE DEF s
<1>c. /\ m' \in MType /\ poll' \in PollType /\ Polled' /\ m'.balanced = balanced
      /\ m'.id = None /\ m'.servers = m.servers /\ m'.task = task
  BY <1>a, <1>b, Updates DEF IInv
<1>d. kv' \in KvType /\ kv'.token.value # "start"
  BY <1>a DEF IInv, Types, KvType
<1>e. call'.pc = "idle" /\ call' \in [pc : {"idle", "lock", "join"}, id : IdOrNone]
  OBVIOUS
<1>f. Active(rebalancer) /\ \A i \in Ids : ~Active(i)' /\ (i # rebalancer => ~Active(i))
  BY <1>a, <1>e, IdsAssumption DEF Active, None
<1>g. /\ reb' \in [Ids -> RebType] /\ reb'[rebalancer].result = result
      /\ \A i \in Ids : reb'[i].pc = reb[i].pc /\ reb'[i].done = reb[i].done
                        /\ reb'[i].next = reb[i].next /\ reb'[i].c = reb[i].c
  BY DEF IInv, Types, RebType
<1>h. reb[rebalancer].pc # "none"
  OBVIOUS
<1>1. Types'
  BY <1>a, <1>c, <1>d, <1>e, <1>g DEF IInv, Types, IdOrNone
<1>2. Mutex'
  BY <1>e DEF IInv, Mutex
<1>3. Goroutines'
  <2> SUFFICES ASSUME NEW i \in Ids PROVE Goroutine(i)'
    BY DEF Goroutines
  <2>1. CASE i = rebalancer
    BY <2>1, <1>f, <1>g DEF IInv, Goroutines, Goroutine
  <2>2. CASE i # rebalancer
    BY <2>2, <1>f, <1>g DEF IInv, Goroutines, Goroutine
  <2> QED
    BY <2>1, <2>2
<1>4. Callbacks'
  <2>1. \A k \in cbs' : k.reb \in Ids
    BY DEF IInv, Types, CbType
  <2>2. \A k \in cbs' : Cancelled(k)' <=> Cancelled(k)
    BY <2>1, <1>g DEF Cancelled
  <2>3. \A k \in cbs' : Cancelled(k)
    <3> SUFFICES ASSUME NEW k \in cbs', ~Cancelled(k) PROVE FALSE
      OBVIOUS
    <3>1. k \in cbs /\ k.reb \in Ids /\ k.reb # rebalancer
      BY <2>1
    <3> QED
      BY <3>1, <1>f, ActiveForm DEF IInv, Callbacks, CallbackOK, CallbackOfCurrent
  <2> QED
    BY <1>g, <2>1, <2>2, <2>3 DEF IInv, Callbacks, CallbackOK, CallbackOfCurrent
<1>5. Announced'
  BY <1>c, <1>d, <1>f DEF Announced
<1>6. Ordered'
  <2>1. \A i \in Ids : reb[i].pc # "none" => i <= rebalancer
    BY <1>f DEF IInv, Ordered, Started
  <2>2. ASSUME NEW i \in Ids, \A j \in Ids : reb[j].pc # "none" => j <= i,
               reb[i].pc # "none"
        PROVE  i = rebalancer
    BY <2>1, <2>2, <1>h, IdsAssumption
  <2>3. ASSUME balanced = "yes", NEW i \in Ids, reb[i].pc # "none",
               \A j \in Ids : reb[j].pc # "none" => j <= i
        PROVE  reb'[i].result = "finished"
    BY <2>2, <2>3, <1>g
  <2> QED
    BY <1>c, <1>f, <1>g, <2>3, IdsAssumption DEF IInv, Ordered, None, Started
<1> QED
  BY <1>1, <1>2, <1>3, <1>4, <1>5, <1>6, <1>c DEF IInv

\* CancelTask once r.done is closed: onRebalanceDoneLocked
LEMMA CancelJoins ==
  ASSUME IInv, CancelTaskJoins
  PROVE  IInv'
<1> DEFINE tok == [id |-> call.id, value |-> "stop"]
<1>a. /\ call.pc = "join" /\ reb[rebalancer].done = "closed"
      /\ OnRebalanceDone(NoTask, "no", tok)
      /\ reb' = [reb EXCEPT ![rebalancer].result = "cancelled"]
      /\ call' = Idle /\ UNCHANGED <<leaked, cbs, env>>
  BY DEF CancelTaskJoins
<1>b. rebalancer \in Ids /\ call.id = rebalancer /\ \A k \in cbs : k.at = "waiting"
  BY <1>a DEF IInv, Mutex
<1>c. reb[rebalancer].pc = "returned" /\ reb[rebalancer].c = "closed"
  BY <1>a, <1>b DEF IInv, Goroutines, Goroutine, Active
<1>d. \A k \in cbs : k.reb = rebalancer => Cancelled(k)
  BY <1>a, <1>c DEF Cancelled
<1>e. NoTask \in Tasks /\ NoTask.status # "running"
  BY DEF NoTask, Tasks, Statuses, IdOrNone
<1>f. tok \in [id : IdOrNone, value : {"none", "stop"}]
  BY <1>b DEF IdOrNone
<1>g. call' \in [pc : {"idle"}, id : IdOrNone]
  BY <1>a DEF Idle, IdOrNone
<1> HIDE DEF tok
<1> QED
  BY <1>a, <1>b, <1>c, <1>d, <1>e, <1>f, <1>g, Ends

-----------------------------------------------------------------------------
(* The goroutines of runRebalanceCallback                                   *)

\* A callback goes that was cancelled, or that reported progress
LEMMA CallbackGoes ==
  ASSUME IInv, Free, NEW k \in cbs, cbs' = cbs \ {k}, Cancelled(k) \/ k.what = "progress",
         UNCHANGED <<ctx, rebalancer, call, reb, kv, env>>,
         m' \in MType, poll' \in PollType, Polled', m'.id = m.id, m'.servers = m.servers,
         m'.balanced = m.balanced, m'.task.status = m.task.status, m'.task.id = m.task.id
  PROVE  IInv'
<1>a. \A i \in Ids : Active(i)' <=> Active(i)
  BY DEF Active
<1>b. \A l \in cbs : Cancelled(l)' <=> Cancelled(l)
  BY DEF Cancelled
<1>c. k.reb \in Ids
  BY DEF IInv, Types, CbType
<1>1. Types'
  BY DEF IInv, Types
<1>2. Mutex'
  BY DEF IInv, Mutex
<1>3. Goroutines'
  <2> SUFFICES ASSUME NEW i \in Ids PROVE Goroutine(i)'
    BY DEF Goroutines
  <2>1. ASSUME k.reb = i, reb[i].c = "open", reb[i].pc = "wait" PROVE reb[i].next # "return"
    BY <2>1, <1>c DEF IInv, Callbacks, CallbackOK, Cancelled, Goroutines, Goroutine
  <2> QED
    BY <2>1, <1>a DEF IInv, Goroutines, Goroutine
<1>4. Callbacks'
  BY <1>b DEF IInv, Callbacks, CallbackOK, CallbackOfCurrent
<1>5. Announced'
  BY <1>a DEF IInv, Announced
<1>6. Ordered'
  BY <1>a DEF IInv, Ordered, Started
<1> QED
  BY <1>1, <1>2, <1>3, <1>4, <1>5, <1>6 DEF IInv

\* A callback that finds its channel closed leaves the state alone
LEMMA Skips ==
  ASSUME IInv, NEW k \in cbs, CallbackSkips(k)
  PROVE  IInv'
<1>1. /\ Free /\ Cancelled(k) /\ cbs' = cbs \ {k}
      /\ UNCHANGED <<m, ctx, rebalancer, leaked, call, reb, kv, poll, env>>
  BY DEF CallbackSkips
<1>2. m' \in MType /\ poll' \in PollType /\ Polled'
  BY <1>1 DEF IInv, Types, Polled, WaiterUpToDate
<1> QED
  BY <1>1, <1>2, CallbackGoes

\* A callback that is not cancelled belongs to the active rebalance, whose task runs
LEMMA CurrentFacts ==
  ASSUME IInv, call.pc = "idle", NEW k \in cbs, ~Cancelled(k)
  PROVE  /\ k.reb \in Ids /\ rebalancer = k.reb /\ Active(k.reb)
         /\ ctx = k.reb /\ m.task.status = "running" /\ m.task.id = k.reb
         /\ reb[k.reb].c = "open" /\ reb[k.reb].pc = "wait"
<1>1. k.reb \in Ids
  BY DEF IInv, Types, CbType
<1>2. Active(k.reb) /\ rebalancer = k.reb
  BY <1>1, ActiveForm DEF IInv, Callbacks, CallbackOK, CallbackOfCurrent, Active
<1>3. reb[k.reb].c = "open"
  BY <1>1, <1>2 DEF IInv, Types, RebType, Goroutines, Goroutine
<1> QED
  BY <1>1, <1>2, <1>3 DEF IInv, Announced, Callbacks, CallbackOK

\* rebalanceProgressCallback: the task of the running rebalance is written again
LEMMA Progress ==
  ASSUME IInv, NEW k \in cbs, CallbackProgress(k)
  PROVE  IInv'
<1> DEFINE s == [m EXCEPT !.task = [status |-> "running", id |-> ctx]]
<1>a. /\ Free /\ ~Cancelled(k) /\ k.what = "progress" /\ UpdateState(s)
      /\ cbs' = cbs \ {k} /\ UNCHANGED <<ctx, rebalancer, leaked, call, reb, kv, env>>
  BY DEF CallbackProgress
<1>b. ctx = m.task.id /\ m.task.status = "running"
  BY <1>a, CurrentFacts DEF Free
<1>c. /\ s \in MType /\ s.id = m.id /\ s.servers = m.servers /\ s.balanced = m.balanced
      /\ s.task.status = "running" /\ s.task.id = ctx
  BY DEF IInv, Types, MType, Tasks, Statuses
<1> HIDE DEF s
<1>d. /\ m' \in MType /\ poll' \in PollType /\ Polled' /\ m'.balanced = m.balanced
      /\ m'.id = m.id /\ m'.servers = m.servers
      /\ m'.task.status = m.task.status /\ m'.task.id = m.task.id
  BY <1>a, <1>b, <1>c, Updates DEF IInv
<1> QED
  BY <1>a, <1>d, CallbackGoes

\* rebalanceDoneCallback that has mu and waits for rebalancerMutex
LEMMA DoneLocks ==
  ASSUME IInv, NEW k \in cbs, CallbackDoneLocks(k)
  PROVE  IInv'
<1> DEFINE l == [k EXCEPT !.at = "locked"]
<1>a. /\ Free /\ ~Cancelled(k) /\ k.what # "progress" /\ cbs' = (cbs \ {k}) \cup {l}
      /\ UNCHANGED <<m, ctx, rebalancer, leaked, call, reb, kv, poll, env>>
  BY DEF CallbackDoneLocks
<1>b. call.pc = "idle" /\ (\A j \in cbs : j.at = "waiting")
  BY <1>a DEF Free
<1>c. l \in CbType /\ l.reb = k.reb /\ l.what = k.what /\ l.at = "locked"
  BY DEF IInv, Types, CbType
<1> HIDE DEF l
<1>d. \A i \in Ids : Active(i)' <=> Active(i)
  BY <1>a DEF Active
<1>e. /\ \A j \in cbs : Cancelled(j)' <=> Cancelled(j)
      /\ ~Cancelled(l)'
  BY <1>a, <1>c DEF Cancelled
<1>1. Types'
  BY <1>a, <1>c DEF IInv, Types
<1>2. Mutex'
  BY <1>a, <1>b DEF IInv, Mutex
<1>3. Goroutines'
  <2>1. \A i \in Ids : (\E j \in cbs : j.reb = i) => \E j \in cbs' : j.reb = i
    BY <1>a, <1>c
  <2> QED
    BY <1>a, <1>d, <2>1 DEF IInv, Goroutines, Goroutine
<1>4. Callbacks'
  <2>1. rebalancer = k.reb
    BY <1>a, <1>b, CurrentFacts
  <2> QED
    BY <1>a, <1>b, <1>c, <1>e, <2>1 DEF IInv, Callbacks, CallbackOK, CallbackOfCurrent
<1>5. Announced'
  BY <1>a, <1>d DEF IInv, Announced
<1>6. Ordered'
  BY <1>a, <1>d DEF IInv, Ordered, Started
<1>7. Polled'
  BY <1>a DEF IInv, Polled, WaiterUpToDate
<1> QED
  BY <1>1, <1>2, <1>3, <1>4, <1>5, <1>6, <1>7 DEF IInv

\* rebalanceDoneCallback: onRebalanceDoneLocked
LEMMA Done ==
  ASSUME IInv, NEW k \in cbs, CallbackDone(k)
  PROVE  IInv'
<1>a. /\ k.at = "locked" /\ reb' = [reb EXCEPT ![k.reb].result = k.what]
      /\ cbs' = cbs \ {k} /\ UNCHANGED <<leaked, call, env>>
  BY DEF CallbackDone
<1>b. ~Cancelled(k) /\ k.what \in {"finished", "failed"} /\ reb[k.reb].next = "return"
  BY <1>a DEF IInv, Callbacks, CallbackOK, Types, CbType
<1>c. call.pc = "idle"
  BY <1>a DEF IInv, Mutex, Types
<1>d. /\ k.reb \in Ids /\ rebalancer = k.reb /\ ctx = k.reb
      /\ reb[k.reb].c = "open" /\ reb[k.reb].pc = "wait"
  BY <1>b, <1>c, CurrentFacts
<1>e. \A j \in cbs' : j.at = "waiting" /\ j.reb # rebalancer
  BY <1>a, <1>d DEF IInv, Mutex, Callbacks, CallbackOK, Types, CbType
<1>f. call' \in [pc : {"idle"}, id : IdOrNone]
  BY <1>a, <1>c DEF IInv, Types
<1>g. NoToken \in [id : IdOrNone, value : {"none", "stop"}]
  BY DEF NoToken, IdOrNone
<1>1. CASE k.what = "failed"
  <2> DEFINE t == [status |-> "failed", id |-> ctx]
  <2>1. OnRebalanceDone(t, "no", NoToken)
    BY <1>1 DEF CallbackDone
  <2>2. t \in Tasks /\ t.status # "running"
    BY <1>d DEF Tasks, Statuses, IdOrNone
  <2> HIDE DEF t
  <2> QED
    BY <1>1, <1>a, <1>c, <1>b, <1>d, <1>e, <1>f, <1>g, <2>1, <2>2, Ends
<1>2. CASE k.what = "finished"
  <2>1. OnRebalanceDone(NoTask, "yes", NoToken)
    BY <1>2 DEF CallbackDone
  <2>2. NoTask \in Tasks /\ NoTask.status # "running"
    BY DEF NoTask, Tasks, Statuses, IdOrNone
  <2> QED
    BY <1>2, <1>a, <1>b, <1>c, <1>d, <1>e, <1>f, <1>g, <2>1, <2>2, Ends
<1> QED
  BY <1>b, <1>1, <1>2
=============================================================================
