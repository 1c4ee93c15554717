------------------------- MODULE FunctionLifecycle -------------------------
(***************************************************************************)
(* The life cycle of functions on one Eventing node: what the super        *)
(* supervisor does when the settings of a function change, when a          *)
(* rebalance begins and when a bucket disappears, together with the        *)
(* producer of each function, with which it speaks over channels.          *)
(*                                                                         *)
(* The threads of the code are                                             *)
(*   "S"  the metakv observer that runs SettingsChangeCallback;            *)
(*   "T"  the metakv observer that runs TopologyChangeNotifCallback;       *)
(*   "H"  HandleSupCmdMsg, the loop that forwards settings updates;        *)
(*   "R"  the REST handler that runs setSettings;                          *)
(*   p    undeployHandlerWait of the producer p, and Twin[p] the one that  *)
(*        Serve starts when it is run again;                               *)
(* and Serve of every producer, whose program counter is in prod[p].       *)
(* A thread stops between two steps where another thread can get in: at a  *)
(* channel, at a lock, at a call to metakv or to ns_server.                *)
(***************************************************************************)
EXTENDS Naturals, Sequences, FiniteSets

CONSTANTS
  Fns,            \* the functions of the primary store
  Prods,          \* identities for producers; one is used again when free
  Twin,           \* the second undeployHandlerWait of a producer; later ones
                  \* would do the same and are left out
  None,           \* no producer
  Buckets,        \* the buckets
  Source, Meta,   \* [Fns -> Buckets]: source and metadata bucket of a function
  Budgets,        \* bounds: how often each kind of outside event may happen
  MaxQueue        \* bound: length of setq

\* The state of a function, as its settings say.
State == {"undeployed", "deployed", "paused"}

\* Requests of users for each state, and those sent before the last one is
\* done; drops, crashes and failing calls; rebalances; and those of all these
\* that meet an operation under way.
Kinds == State \cup {"overlap", "event", "rebalance", "meeting"}
Waits == Prods \cup {Twin[p] : p \in Prods}

ASSUME LifecycleConstants ==
  /\ Source \in [Fns -> Buckets] /\ Meta \in [Fns -> Buckets]
  /\ Budgets \subseteq [Kinds -> Nat]
  /\ None \notin Prods /\ {"S", "T", "H", "R"} \cap Waits = {}
  /\ \A p, q \in Prods : Twin[p] \notin Prods /\ (Twin[p] = Twin[q] => p = q)

VARIABLES
  mkv,        \* the settings of every function in metakv
  setq,       \* changes of settings the observer has not delivered yet
  member,     \* this node is in the keepNodes of the cluster
  topology,   \* rebalance tokens the observer has not delivered yet
  exists,     \* the buckets that exist
  appState,   \* appDeploymentStatus and appProcessingStatus, as GetAppState
  running,    \* runningProducers
  lists,      \* bootstrappingApps, pausingApps, deployedApps, locallyDeployedApps
  watch,      \* <<b, f>>: function f watches bucket b
  gocb,       \* functions registered with the gocb cluster handle
  blobs,      \* functions with metadata left in the vbuckets of their metadata
              \* bucket that this node has to purge
  cmds,       \* supCmdCh: settings updates
  prod,       \* the producers and their channels
  th,         \* program counter and locals of every thread
  budget,     \* what is left of the bounded events
  met,        \* "yes": an outside event met an operation that was under way
  slips,      \* history: functions that a callback has handled on a stale look
              \* since the process started (see Overtaken, spawnApp,
              \* CleanupLookup and stopAndDeleteProducer)
  kept        \* history: functions whose last undeploy has purged nothing

vars == <<mkv, setq, member, topology, exists, appState, running, lists, watch,
          gocb, blobs, cmds, prod, th, budget, met, slips, kept>>

metakv == <<mkv, setq>>
cluster == <<member, topology, exists>>
views == <<appState, running, lists>>
handles == <<watch, gocb>>
history == <<slips, kept>>
aux == <<budget, met, slips, kept>>

Threads == {"S", "T", "H", "R"} \cup Waits
Idle == [pc |-> "idle", fn |-> None, p |-> None, st |-> "undeployed", skip |-> "no", todo |-> {}]
NoApps == [boot |-> {}, pausing |-> {}, deployed |-> {}, local |-> {}]
SupCmdCap == 10   \* capacity of supCmdCh

\* NewProducer: the channels of a producer and where its Serve is.
Unused == [fn |-> None, serve |-> "dead", next |-> "return", supervised |-> "stopped",
           token |-> "no",
           workers |-> "off", bootstrapFinish |-> 0, notifyInit |-> 0,
           stateChange |-> "none", settingsChange |-> 0, stopProducer |-> "nil",
           undeploy |-> <<>>, lazy |-> "no"]
NewProducer(f) == [Unused EXCEPT !.fn = f, !.serve = "cids", !.supervised = "yes"]

Init ==
  /\ mkv = [f \in Fns |-> "undeployed"]
  /\ setq = <<>>
  /\ member \in BOOLEAN
  /\ topology = 0
  /\ exists = Buckets
  /\ appState = [f \in Fns |-> "undeployed"]
  /\ running = [f \in Fns |-> None]
  /\ lists = NoApps
  /\ watch = {}
  /\ gocb = {}
  /\ blobs = {}
  /\ cmds = <<>>
  /\ prod = [p \in Prods |-> Unused]
  /\ th = [t \in Threads |-> Idle]
  /\ budget \in Budgets
  /\ met = "no"
  /\ slips = {} /\ kept = {}

-----------------------------------------------------------------------------
(* Vocabulary of the actions *)

At(t, pc) == th[t].pc = pc
Goto(t, pc) == th' = [th EXCEPT ![t].pc = pc]
Fn(t) == th[t].fn
Prod(t) == th[t].p
Owner(w) == CHOOSE p \in Prods : w \in {p, Twin[p]}

Listed(l) == lists[l]
addTo(l, f) == lists' = [lists EXCEPT ![l] = @ \cup {f}]
deleteFrom(l, f) == lists' = [lists EXCEPT ![l] = @ \ {f}]

KeyspacesExist(f) == {Source[f], Meta[f]} \subseteq exists
Watched(b) == \E f \in Fns : <<b, f>> \in watch
Ours(f) == {<<Source[f], f>>, <<Meta[f], f>>}

\* A producer nobody holds any more; its identity stands for a new one.
Free(p) == /\ prod[p].serve = "dead" /\ prod[p].supervised = "stopped"
           /\ At(p, "idle") /\ At(Twin[p], "idle")
           /\ \A t \in Threads : Prod(t) # p
           /\ \A f \in Fns : running[f] # p

\* util.MetakvSet of the settings of f: the observers of every node see it.
WriteSettings(f, st) == /\ Len(setq) < MaxQueue
                        /\ mkv' = [mkv EXCEPT ![f] = st]
                        /\ setq' = Append(setq, [fn |-> f, st |-> st])

\* undeployFunctionCallback posts the undeploy to this node's own REST
\* endpoint with force set, so setSettings takes it at any time.
undeployFunctionCallback(f) == WriteSettings(f, "undeployed")

\* metakv.RunObserveChildrenV2 begins with every child of the path, in any
\* order.
Orders == {o \in [1..Cardinality(Fns) -> Fns] : \A f \in Fns : \E i \in DOMAIN o : o[i] = f}
Replay(settings) == {[i \in DOMAIN o |-> [fn |-> o[i], st |-> settings[o[i]]]] : o \in Orders}

\* What thread t does once its work for a function is over: "S" takes the
\* next change, "T" the next function, undeployHandlerWait its next message.
Return(t) == [th EXCEPT ![t] = [Idle EXCEPT !.pc = CASE t = "T" -> "apps"
                                                     [] t \in Waits -> "wait"
                                                     [] OTHER -> "idle",
                                            !.todo = th[t].todo]]

\* A life-cycle operation, a rebalance or an undeploy is under way.
Busy(t) == th[t].pc \notin {"idle", "wait"}
Undeploying == \E w \in Waits : Busy(w) \/ (At(w, "wait") /\ prod[Owner(w)].undeploy # <<>>)
Vanished == \E w \in watch : w[1] \notin exists
Calm == /\ setq = <<>> /\ \A t \in {"S", "T", "R"} : ~Busy(t) /\ topology = 0
        /\ ~Undeploying /\ ~Vanished

\* Bounds: an outside event uses up the budgets of its kinds. Budgets are
\* arbitrary, so every finite behaviour is within some of them.
Spend(kinds) ==
  /\ \A k \in kinds : budget[k] > 0
  /\ budget' = [k \in Kinds |-> IF k \in kinds THEN budget[k] - 1 ELSE budget[k]]
  /\ met' = IF "meeting" \in kinds THEN "yes" ELSE met
If(condition, x) == IF condition THEN {x} ELSE {}

-----------------------------------------------------------------------------
(* The outside: users, ns_server, the operating system *)

\* BootstrapAppStatus: some worker of the running producer is bootstrapping.
BootstrapAppStatus(f) == running[f] # None /\ prod[running[f]].workers = "boot"

\* setSettings: a user deploys, pauses, resumes, updates or undeploys f.
\* Without force it is refused during a rebalance; with deployment_status set
\* it is refused while f bootstraps, and pausing needs a deployed function.
\* Requests follow each other at any distance: what the checks read may be
\* stale, since earlier changes may still be in setq.
setSettings(f, st) ==
  /\ At("R", "idle")
  /\ Spend({st} \cup If(setq # <<>> \/ Busy("S"), "overlap")
                         \cup If(Undeploying \/ Vanished, "meeting"))
  /\ st # "undeployed" => ~BootstrapAppStatus(f)
  /\ ~Busy("T") /\ topology = 0
  /\ st = "paused" => f \in Listed("deployed")
  /\ st = "deployed" => KeyspacesExist(f)
  /\ th' = [th EXCEPT !["R"] = [Idle EXCEPT !.pc = "store", !.fn = f, !.st = st]]
  /\ UNCHANGED <<metakv, cluster, views, handles, blobs, cmds, prod, history>>

\* The request has passed the checks. It is written, whatever has begun since.
StoreSettings ==
  /\ At("R", "store")
  /\ WriteSettings(Fn("R"), th["R"].st)
  /\ th' = Return("R")
  /\ UNCHANGED <<cluster, views, handles, blobs, cmds, prod, aux>>

\* PrepareTopologyChange writes keepNodes, then the rebalance token appears.
\* checkLocalTopologyChangeReadiness refuses while a function bootstraps or
\* pauses or another rebalance is under way.
BeginRebalance ==
  /\ Spend({"rebalance"} \cup If(~Calm, "meeting"))
  /\ Listed("boot") = {} /\ Listed("pausing") = {}
  /\ ~Busy("T") /\ topology = 0
  /\ member' = TRUE
  /\ topology' = topology + 1
  /\ UNCHANGED <<metakv, exists, views, handles, blobs, cmds, prod, th, history>>

\* A bucket, or the collection a function uses in it, is dropped.
DropBucket(b) ==
  /\ Spend({"event"} \cup If(~Calm, "meeting"))
  /\ b \in exists
  /\ exists' = exists \ {b}
  /\ blobs' = {f \in blobs : Meta[f] # b}
  /\ UNCHANGED <<metakv, member, topology, views, handles, cmds, prod, th, history>>

\* The eventing-producer process dies and is started again: what it held in
\* memory is gone, and its observers begin with what metakv holds.
Crash ==
  /\ Spend({"event"} \cup If(topology > 0 \/ Busy("T"), "meeting"))
  /\ setq' \in Replay(mkv)
  /\ topology' = IF Busy("T") THEN 1 ELSE topology
  /\ appState' = [f \in Fns |-> "undeployed"]
  /\ running' = [f \in Fns |-> None]
  /\ lists' = NoApps
  /\ watch' = {} /\ gocb' = {} /\ cmds' = <<>>
  /\ prod' = [p \in Prods |-> Unused]
  /\ th' = [t \in Threads |-> Idle]
  /\ slips' = {}
  /\ UNCHANGED <<mkv, member, exists, blobs, kept>>

-----------------------------------------------------------------------------
(* SettingsChangeCallback *)

\* Where the callback goes for the settings st of a function in state now.
Dispatch(st, now) ==
  CASE st = "deployed" /\ now # "deployed" -> "exist"
    [] st = "deployed" /\ now = "deployed" -> "command"
    [] st = "paused" /\ now = "deployed"   -> "pausing"
    [] st = "paused" /\ now # "deployed"   -> "lazy"
    [] OTHER                               -> "undeploy"

\* The observer delivers the next change. A node outside the cluster that
\* runs nothing ignores it.
SettingsChangeCallback ==
  /\ At("S", "idle") /\ setq # <<>>
  /\ setq' = Tail(setq)
  /\ LET c == Head(setq) IN
       IF ~member /\ \A f \in Fns : running[f] = None
         THEN UNCHANGED th
         ELSE th' = [th EXCEPT !["S"] =
                       [Idle EXCEPT !.pc = Dispatch(c.st, appState[c.fn]),
                                    !.fn = c.fn, !.st = appState[c.fn]]]
  /\ UNCHANGED <<mkv, cluster, views, handles, blobs, cmds, prod, aux>>

\* Deployed already: only the settings changed.
SendSettingsUpdate ==
  /\ At("S", "command") /\ Len(cmds) < SupCmdCap
  /\ cmds' = Append(cmds, Fn("S"))
  /\ th' = Return("S")
  /\ UNCHANGED <<metakv, cluster, views, handles, blobs, prod, aux>>

\* Pause of a deployed function, up to the lookup of its producer.
BeginPause ==
  LET f == Fn("S") IN
  /\ At("S", "pausing")
  /\ addTo("pausing", f)
  /\ appState' = [appState EXCEPT ![f] = "paused"]
  /\ th' = [th EXCEPT !["S"].pc = IF running[f] = None THEN "paused" ELSE "pauseInit",
                      !["S"].p = running[f]]
  /\ UNCHANGED <<metakv, cluster, running, handles, blobs, cmds, prod, aux>>

\* NotifyInit, then PauseProducer.
PauseProducer ==
  LET p == Prod("S") IN
  /\ At("S", "pauseInit")
  /\ prod[p].notifyInit > 0 /\ prod[p].stateChange = "none"
  /\ prod' = [prod EXCEPT ![p].notifyInit = @ - 1, ![p].stateChange = "pause"]
  /\ gocb' = gocb \cup {Fn("S")}
  /\ Goto("S", "pauseWait")
  /\ UNCHANGED <<metakv, cluster, views, watch, blobs, cmds, aux>>

EndPause ==
  /\ At("S", "paused")
  /\ deleteFrom("pausing", Fn("S"))
  /\ th' = Return("S")
  /\ UNCHANGED <<metakv, cluster, appState, running, handles, blobs, cmds, prod, aux>>

\* Paused settings for a function that is not deployed here: the process was
\* started again. The producer is spawned when the function is resumed.
PauseLazily ==
  LET f == Fn("S") IN
  /\ At("S", "lazy")
  /\ appState' = [appState EXCEPT ![f] = "paused"]
  /\ lists' = [lists EXCEPT !["deployed"] = @ \cup {f}, !["local"] = @ \cup {f}]
  /\ th' = Return("S")
  /\ UNCHANGED <<metakv, cluster, running, handles, blobs, cmds, prod, aux>>

\* Undeploy, up to the call of CleanupProducer.
BeginUndeploy ==
  LET f == Fn("S") IN
  /\ At("S", "undeploy")
  /\ appState' = [appState EXCEPT ![f] = "undeployed"]
  /\ deleteFrom("local", f)
  /\ Goto("S", "lookup")
  /\ UNCHANGED <<metakv, cluster, running, handles, blobs, cmds, prod, aux>>

-----------------------------------------------------------------------------
(* Deploy and resume: "S" in SettingsChangeCallback, "T" in               *)
(* TopologyChangeNotifCallback                                             *)

\* checkSourceAndMetadataKeyspaceExist: without its keyspaces the function is
\* undeployed; only "S" also sets the state.
CheckKeyspaces(t) ==
  LET f == Fn(t) IN
  /\ At(t, "exist")
  /\ IF KeyspacesExist(f)
       THEN Goto(t, "claim") /\ UNCHANGED <<metakv, appState>>
       ELSE /\ undeployFunctionCallback(f)
            /\ appState' = IF t = "S" THEN [appState EXCEPT ![f] = "undeployed"]
                                      ELSE appState
            /\ th' = Return(t)
  /\ UNCHANGED <<cluster, running, lists, handles, blobs, cmds, prod, aux>>

\* Mutant: the entry of bootstrappingApps is written without a look at it.
ClaimBootstrapAlways(t) ==
  /\ At(t, "claim")
  /\ addTo("boot", Fn(t)) /\ Goto(t, IF t = "S" THEN "retryPath" ELSE "spawn")
  /\ UNCHANGED <<metakv, cluster, appState, running, handles, blobs, cmds, prod, aux>>

\* bootstrappingApps under appListRWMutex: one bootstrap of a function at a
\* time. "S" drops a change that meets another bootstrap, "T" waits for it.
ClaimBootstrap(t) ==
  LET f == Fn(t) IN
  /\ At(t, "claim")
  /\ IF f \in Listed("boot")
       THEN th' = (IF t = "S" THEN Return(t) ELSE [th EXCEPT ![t].pc = "await"])
            /\ UNCHANGED lists
       ELSE addTo("boot", f) /\ Goto(t, IF t = "S" THEN "retryPath" ELSE "spawn")
  /\ UNCHANGED <<metakv, cluster, appState, running, handles, blobs, cmds, prod, aux>>

\* waitAndNotifyTopologyChange: until the other bootstrap is over, or the
\* time is up.
AwaitBootstrap ==
  /\ At("T", "await")
  /\ th' = Return("T")
  /\ UNCHANGED <<metakv, cluster, views, handles, blobs, cmds, prod, aux>>

\* MetaKvDelete of the retry path, then the choice between resume and spawn.
DeleteRetryPath ==
  LET f == Fn("S") IN
  /\ At("S", "retryPath")
  /\ th' = [th EXCEPT !["S"].pc = IF th["S"].st = "paused" /\ running[f] # None
                                    THEN "resume" ELSE "spawn",
                      !["S"].p = running[f]]
  /\ UNCHANGED <<metakv, cluster, views, handles, blobs, cmds, prod, aux>>

\* MetaKvDelete fails: the function is undeployed and the callback returns the
\* error, so that the observer starts again from what metakv holds.
RetryPathFails ==
  LET f == Fn("S") IN
  /\ At("S", "retryPath")
  /\ Spend({"event"})
  /\ mkv' = [mkv EXCEPT ![f] = "undeployed"]
  /\ setq' \in Replay(mkv')
  /\ deleteFrom("boot", f)
  /\ th' = Return("S")
  /\ UNCHANGED <<cluster, appState, running, handles, blobs, cmds, prod, history>>

\* ResumeProducer registers the handle again and sends resume.
ResumeProducer ==
  LET p == Prod("S") IN
  /\ At("S", "resume")
  /\ prod[p].stateChange = "none"
  /\ prod' = [prod EXCEPT ![p].stateChange = "resume"]
  /\ gocb' = gocb \cup {Fn("S")}
  /\ Goto("S", "resumeWait")
  /\ UNCHANGED <<metakv, cluster, views, watch, blobs, cmds, aux>>

\* watchBucket connects to a bucket nobody watches yet; watchBucketWithGocb
\* also opens it through gocb.
CanWatch(f) == (Source[f] \in exists \/ Watched(Source[f])) /\ Meta[f] \in exists

\* spawnApp up to superSup.Add, after which Serve runs. "T" may go by settings
\* that have changed since it read them.
spawnApp(t) ==
  LET f == Fn(t)
      p == CHOOSE q \in Prods : Free(q) IN
  /\ At(t, "spawn")
  /\ CanWatch(f)
  /\ \E q \in Prods : Free(q)
  /\ watch' = watch \cup Ours(f)
  /\ gocb' = gocb \cup {f}
  /\ prod' = [prod EXCEPT ![p] = NewProducer(f)]
  /\ th' = [th EXCEPT ![t].pc = "register", ![t].p = p, ![p] = [Idle EXCEPT !.pc = "wait"]]
  /\ slips' = slips \cup If(t = "T" /\ mkv[f] # "deployed", f)
  /\ UNCHANGED <<metakv, cluster, views, blobs, cmds, budget, met, kept>>

\* A bucket cannot be watched: what was watched is unwatched and the function
\* is undeployed. "S" takes the function out of bootstrappingApps, "T" goes on
\* to the next function and leaves it there.
SpawnFails(t) ==
  LET f == Fn(t) IN
  /\ At(t, "spawn")
  /\ ~CanWatch(f)
  /\ watch' = watch \ {<<Source[f], f>>}
  /\ undeployFunctionCallback(f)
  /\ IF t = "S" THEN deleteFrom("boot", f) ELSE UNCHANGED lists
  /\ th' = Return(t)
  /\ UNCHANGED <<cluster, appState, running, gocb, blobs, cmds, prod, aux>>

\* addToRunningProducers.
RegisterProducer(t) ==
  /\ At(t, "register")
  /\ running' = [running EXCEPT ![Fn(t)] = Prod(t)]
  /\ Goto(t, "token")
  /\ UNCHANGED <<metakv, cluster, appState, lists, handles, blobs, cmds, prod, aux>>

\* The last part of spawnApp: producerSupervisorTokenMap.
RecordToken(t) ==
  /\ At(t, "token")
  /\ prod' = [prod EXCEPT ![Prod(t)].token = "yes"]
  /\ Goto(t, "enable")
  /\ UNCHANGED <<metakv, cluster, views, handles, blobs, cmds, aux>>

EnableFunction(t) ==
  /\ At(t, "enable")
  /\ appState' = [appState EXCEPT ![Fn(t)] = "deployed"]
  /\ Goto(t, "find")
  /\ UNCHANGED <<metakv, cluster, running, lists, handles, blobs, cmds, prod, aux>>

\* The lookup before SignalBootstrapFinish. Without a producer "S" returns
\* with the function still in bootstrappingApps, "T" takes it out.
FindProducer(t) ==
  LET f == Fn(t) IN
  /\ At(t, "find")
  /\ th' = CASE running[f] # None -> [th EXCEPT ![t].pc = "signal", ![t].p = running[f]]
             [] running[f] = None /\ t = "T" -> [th EXCEPT ![t].pc = "release"]
             [] OTHER -> Return(t)
  /\ UNCHANGED <<metakv, cluster, views, handles, blobs, cmds, prod, aux>>

\* SignalBootstrapFinish: the producer, then each of its workers.
SignalBootstrapFinish(t) ==
  LET p == Prod(t) IN
  /\ \/ /\ At(t, "signal") /\ prod[p].bootstrapFinish > 0
        /\ prod' = [prod EXCEPT ![p].bootstrapFinish = @ - 1]
        /\ Goto(t, "workers")
     \/ /\ At(t, "workers") /\ prod[p].workers # "boot"
        /\ Goto(t, "recheck")
        /\ UNCHANGED prod
  /\ UNCHANGED <<metakv, cluster, views, handles, blobs, cmds, aux>>

\* Is the function still running? It may have been undeployed meanwhile.
Recheck(t) ==
  /\ At(t, "recheck")
  /\ Goto(t, IF running[Fn(t)] # None THEN "list" ELSE "release")
  /\ UNCHANGED <<metakv, cluster, views, handles, blobs, cmds, prod, aux>>

AddToDeployed(t) ==
  /\ At(t, "list")
  /\ lists' = [lists EXCEPT !["deployed"] = @ \cup {Fn(t)}, !["local"] = @ \cup {Fn(t)}]
  /\ Goto(t, "release")
  /\ UNCHANGED <<metakv, cluster, appState, running, handles, blobs, cmds, prod, aux>>

\* The other callback has looked at the function and is about to claim it: by
\* now its look is stale.
Overtaken(t) ==
  \E u \in {"S", "T"} \ {t} : th[u].pc \in {"exist", "claim"} /\ Fn(u) = Fn(t)

ReleaseBootstrap(t) ==
  /\ At(t, "release")
  /\ deleteFrom("boot", Fn(t))
  /\ slips' = slips \cup If(Overtaken(t), Fn(t))
  /\ th' = Return(t)
  /\ UNCHANGED <<metakv, cluster, appState, running, handles, blobs, cmds, prod, budget, met,
                 kept>>

-----------------------------------------------------------------------------
(* TopologyChangeNotifCallback *)

\* The rebalance token arrives. (What the running producers do with it is the
\* planner's and the consumers' business.)
TopologyChangeNotifCallback ==
  /\ At("T", "idle") /\ topology > 0
  /\ topology' = topology - 1
  /\ IF ~member /\ \A f \in Fns : running[f] = None
       THEN UNCHANGED th
       ELSE th' = [th EXCEPT !["T"] = [Idle EXCEPT !.pc = "apps", !.todo = Fns]]
  /\ UNCHANGED <<metakv, member, exists, views, handles, blobs, cmds, prod, aux>>

\* The loop over the primary store: read the settings of the next function.
ReadApp ==
  /\ At("T", "apps")
  /\ IF th["T"].todo = {}
       THEN th' = [th EXCEPT !["T"] = Idle]
       ELSE \E f \in th["T"].todo :
              th' = [th EXCEPT !["T"] = [Idle EXCEPT !.pc = "missing", !.fn = f,
                                                     !.st = mkv[f], !.todo = th["T"].todo \ {f}]]
  /\ UNCHANGED <<metakv, cluster, views, handles, blobs, cmds, prod, aux>>


\* Is it missing on this node? Deploy it, or take over its state.
CheckMissing ==
  LET f == Fn("T") st == th["T"].st IN
  /\ At("T", "missing")
  /\ CASE running[f] # None ->
            th' = Return("T") /\ UNCHANGED <<appState, lists>>
       [] running[f] = None /\ st = "deployed" ->
            Goto("T", "exist") /\ UNCHANGED <<appState, lists>>
       [] OTHER ->
            /\ appState' = [appState EXCEPT ![f] = st]
            /\ lists' = IF st = "paused"
                          THEN [lists EXCEPT !["deployed"] = @ \cup {f}, !["local"] = @ \cup {f}]
                          ELSE lists
            /\ th' = Return("T")
  /\ UNCHANGED <<metakv, cluster, running, handles, blobs, cmds, prod, aux>>

-----------------------------------------------------------------------------
(* HandleSupCmdMsg *)

HandleSupCmdMsg ==
  /\ At("H", "idle") /\ cmds # <<>>
  /\ cmds' = Tail(cmds)
  /\ LET f == Head(cmds) IN
       th' = IF running[f] = None THEN th
             ELSE [th EXCEPT !["H"] = [Idle EXCEPT !.pc = "send", !.p = running[f]]]
  /\ UNCHANGED <<metakv, cluster, views, handles, blobs, prod, aux>>

NotifySettingsChange ==
  LET p == Prod("H") IN
  /\ At("H", "send") /\ prod[p].settingsChange = 0
  /\ prod' = [prod EXCEPT ![p].settingsChange = 1]
  /\ th' = Return("H")
  /\ UNCHANGED <<metakv, cluster, views, handles, blobs, cmds, aux>>

-----------------------------------------------------------------------------
(* CleanupProducer: "S" undeploys on request, undeployHandlerWait of a     *)
(* producer when a bucket is gone                                          *)

CleanupLookup(t) ==
  LET f == Fn(t) IN
  /\ At(t, "lookup")
  /\ IF running[f] = None
       THEN /\ watch' = watch \ Ours(f) /\ gocb' = gocb \ {f}
            /\ kept' = kept \cup {f}
            /\ slips' = slips \cup If(Fn("T") = f, f)
            /\ Goto(t, "undeployed")
       ELSE /\ th' = [th EXCEPT ![t].pc = IF th[t].skip = "yes" THEN "forget" ELSE "init",
                                ![t].p = running[f]]
            /\ UNCHANGED <<handles, history>>
  /\ UNCHANGED <<metakv, cluster, views, blobs, cmds, prod, budget, met>>

\* NotifyInit: the producer must have finished its initialisation.
CleanupNotifyInit(t) ==
  LET p == Prod(t) IN
  /\ At(t, "init") /\ prod[p].notifyInit > 0
  /\ prod' = [prod EXCEPT ![p].notifyInit = @ - 1]
  /\ Goto(t, "forget")
  /\ UNCHANGED <<metakv, cluster, views, handles, blobs, cmds, aux>>


\* deleteFromRunningProducers, StopRunningConsumers, CleanupUDSs.
ForgetProducer(t) ==
  /\ At(t, "forget")
  /\ running' = [running EXCEPT ![Fn(t)] = None]
  /\ prod' = [prod EXCEPT ![Prod(t)].workers = "off"]
  /\ Goto(t, "purge")
  /\ UNCHANGED <<metakv, cluster, appState, lists, handles, blobs, cmds, aux>>

\* CleanupMetadataBucket unless it is skipped, then both buckets unwatched.
CleanupMetadataBucket(t) ==
  LET f == Fn(t) IN
  /\ At(t, "purge")
  /\ blobs' = IF th[t].skip = "yes" THEN blobs ELSE blobs \ {f}
  /\ watch' = watch \ Ours(f) /\ gocb' = gocb \ {f}
  /\ Goto(t, IF t = "S" THEN "stop" ELSE "metakv")
  /\ UNCHANGED <<metakv, cluster, views, cmds, prod, aux>>

\* The planner fails, or the address of this node is not known: nothing is
\* purged, and CleanupProducer does not look at the error.
CleanupMetadataFails(t) ==
  LET f == Fn(t) IN
  /\ At(t, "purge") /\ th[t].skip = "no"
  /\ Spend({"event"})
  /\ kept' = kept \cup {f}
  /\ watch' = watch \ Ours(f) /\ gocb' = gocb \ {f}
  /\ Goto(t, IF t = "S" THEN "stop" ELSE "metakv")
  /\ UNCHANGED <<metakv, cluster, views, blobs, cmds, prod, slips>>

\* updateMetakv: an undeploy nobody asked for is written to the settings.
CleanupUpdateMetakv(t) ==
  /\ At(t, "metakv")
  /\ undeployFunctionCallback(Fn(t))
  /\ Goto(t, "stop")
  /\ UNCHANGED <<cluster, views, handles, blobs, cmds, prod, aux>>

\* stopAndDeleteProducer: the supervisor calls Stop in a goroutine of its own.
\* A producer whose token is not recorded yet is not removed.
stopAndDeleteProducer(t) ==
  LET p == Prod(t)
      missed == prod[p].token = "no" /\ prod[p].supervised = "yes" IN
  /\ At(t, "stop")
  /\ prod' = [prod EXCEPT ![p].token = "no",
                          ![p].supervised = IF prod[p].token = "yes" THEN "removed" ELSE @]
  /\ slips' = slips \cup If(missed, prod[p].fn)
  /\ Goto(t, "cleanupWait")
  /\ UNCHANGED <<metakv, cluster, views, handles, blobs, cmds, budget, met, kept>>

\* Mutant: the function stays in deployedApps.
EndUndeployListed(t) ==
  /\ At(t, "undeployed")
  /\ th' = Return(t)
  /\ UNCHANGED <<metakv, cluster, views, handles, blobs, cmds, prod, aux>>

EndUndeploy(t) ==
  /\ At(t, "undeployed")
  /\ deleteFrom("deployed", Fn(t))
  /\ th' = Return(t)
  /\ UNCHANGED <<metakv, cluster, appState, running, handles, blobs, cmds, prod, aux>>

\* NotifySupervisor meets the producer on the unbuffered notifySupervisorCh.
NotifySupervisor(t) ==
  LET p == Prod(t)
      after == [pauseWait |-> "paused", resumeWait |-> "enable",
                cleanupWait |-> "undeployed"] IN
  /\ th[t].pc \in DOMAIN after
  /\ prod[p].serve = "tell"
  /\ prod' = [prod EXCEPT ![p].serve = prod[p].next]
  /\ Goto(t, after[th[t].pc])
  /\ UNCHANGED <<metakv, cluster, views, handles, blobs, cmds, aux>>

\* undeployHandlerWait: a message is taken, and lazyUndeploy is read.
undeployHandlerWait(w) ==
  LET p == Owner(w) IN
  /\ At(w, "wait") /\ prod[p].undeploy # <<>>
  /\ prod' = [prod EXCEPT ![p].undeploy = Tail(@)]
  /\ th' = IF prod[p].lazy = "yes" THEN th
           ELSE [th EXCEPT ![w] = [Idle EXCEPT !.pc = "decided", !.fn = prod[p].fn,
                                               !.skip = Head(prod[p].undeploy)]]
  /\ UNCHANGED <<metakv, cluster, views, handles, blobs, cmds, aux>>

\* It was not set: StopProducer of the super supervisor. Two goroutines of
\* one producer may both get here.
StopProducer(w) ==
  LET f == Fn(w) IN
  /\ At(w, "decided")
  /\ prod' = [prod EXCEPT ![Owner(w)].lazy = "yes"]
  /\ appState' = [appState EXCEPT ![f] = "undeployed"]
  /\ deleteFrom("local", f)
  /\ Goto(w, "lookup")
  /\ UNCHANGED <<metakv, cluster, running, handles, blobs, cmds, aux>>

StopUndeployWait(w) ==
  /\ At(w, "wait") /\ prod[Owner(w)].supervised = "stopped"
  /\ th' = [th EXCEPT ![w] = Idle]
  /\ UNCHANGED <<metakv, cluster, views, handles, blobs, cmds, prod, aux>>

-----------------------------------------------------------------------------
(* The bucket watcher *)

\* undeployFunctionsOnDeletedBkts and checkDeletedCid: for each function that
\* watches what is gone. Every refresh reports it again until it is unwatched.
undeployFunctionsOnDeletedBkts(b, f) ==
  LET p == running[f] IN
  /\ b \notin exists /\ <<b, f>> \in watch
  /\ IF p = None
       THEN undeployFunctionCallback(f) /\ UNCHANGED prod
       ELSE /\ Len(prod[p].undeploy) < 2
            /\ prod' = [prod EXCEPT ![p].undeploy =
                          Append(@, IF Meta[f] = b THEN "yes" ELSE "no")]
            /\ UNCHANGED <<metakv>>
  /\ UNCHANGED <<cluster, views, handles, blobs, cmds, th, aux>>

-----------------------------------------------------------------------------
(* Serve of a producer *)

Serve(p, pc) == prod[p].serve = pc
ServeOnly == UNCHANGED <<metakv, cluster, views, handles, cmds, th, aux>>

\* GetCollectionID of both keyspaces. The manifest of a dropped bucket may or
\* may not have been refreshed yet.
CanMiss(b) == ~Watched(b) \/ b \notin exists
MustMiss(b) == ~Watched(b)

GetCollectionIDs(p) ==
  LET s == Source[prod[p].fn] m == Meta[prod[p].fn]
      fails(skip) == /\ Len(prod[p].undeploy) < 2
                     /\ prod' = [prod EXCEPT ![p].serve = "fail1",
                                             ![p].undeploy = Append(@, skip)] IN
  /\ Serve(p, "cids")
  /\ \/ CanMiss(s) /\ fails("no")
     \/ ~MustMiss(s) /\ CanMiss(m) /\ fails("yes")
     \/ ~MustMiss(s) /\ ~MustMiss(m) /\ prod' = [prod EXCEPT ![p].serve = "assign"]
  /\ ServeOnly /\ UNCHANGED blobs

\* Another error of the lookup, openAppLog or the planner: Serve returns
\* without a word to anybody.
ServeQuits(p) ==
  /\ prod[p].serve \in {"cids", "assign"}
  /\ Spend({"event"})
  /\ prod' = [prod EXCEPT ![p].serve = "return"]
  /\ UNCHANGED <<metakv, cluster, views, handles, blobs, cmds, th, history>>

\* The deferred function of Serve after such an error.
ServeFails(p) ==
  /\ \/ /\ Serve(p, "fail1") /\ prod[p].bootstrapFinish < 1
        /\ prod' = [prod EXCEPT ![p].serve = "fail2", ![p].bootstrapFinish = @ + 1]
     \/ /\ Serve(p, "fail2") /\ prod[p].notifyInit < 2
        /\ prod' = [prod EXCEPT ![p].serve = "tell", ![p].next = "return",
                                ![p].notifyInit = @ + 1]
  /\ ServeOnly /\ UNCHANGED blobs

\* vbEventingNodeAssign and the rest of the plan; stopProducerCh is made here.
AssignVbuckets(p) ==
  /\ Serve(p, "assign")
  /\ prod' = [prod EXCEPT ![p].serve = "handle", ![p].stopProducer = "empty"]
  /\ ServeOnly /\ UNCHANGED blobs

\* updatemetadataHandle: an error ends Serve without a word to anybody.
UpdateMetadataHandle(p) ==
  /\ Serve(p, "handle")
  /\ prod' = [prod EXCEPT ![p].serve = IF prod[p].fn \in gocb THEN "start" ELSE "return"]
  /\ ServeOnly /\ UNCHANGED blobs

\* Metadata can be written as long as its bucket exists.
WriteBlobs(p) ==
  blobs' = IF Meta[prod[p].fn] \in exists THEN blobs \cup {prod[p].fn} ELSE blobs

\* startBucket: the workers are spawned and begin to write metadata.
startBucket(p) ==
  /\ Serve(p, "start")
  /\ prod' = [prod EXCEPT ![p].serve = "finish", ![p].workers = "boot"]
  /\ WriteBlobs(p)
  /\ kept' = kept \ {prod[p].fn}
  /\ UNCHANGED <<metakv, cluster, views, handles, cmds, th, budget, met, slips>>

\* The consumers go on writing their checkpoints.
Checkpoint(p) ==
  /\ prod[p].workers # "off"
  /\ WriteBlobs(p)
  /\ ServeOnly /\ UNCHANGED prod

WorkersUp(p) ==
  /\ prod[p].workers = "boot"
  /\ prod' = [prod EXCEPT ![p].workers = "on"]
  /\ ServeOnly /\ UNCHANGED blobs

\* Mutant: nothing is sent on bootstrapFinishCh.
FinishBootstrapSilent(p) ==
  /\ \/ /\ Serve(p, "finish")
        /\ prod' = [prod EXCEPT ![p].serve = "init1"]
     \/ /\ Serve(p, "init1") /\ prod[p].notifyInit < 2
        /\ prod' = [prod EXCEPT ![p].serve = "init2", ![p].notifyInit = @ + 1]
     \/ /\ Serve(p, "init2") /\ prod[p].notifyInit < 2
        /\ prod' = [prod EXCEPT ![p].serve = "loop", ![p].notifyInit = @ + 1]
  /\ ServeOnly /\ UNCHANGED blobs

\* bootstrapFinishCh, then notifyInitCh twice: one for a pause, one for an
\* undeploy.
FinishBootstrap(p) ==
  /\ \/ /\ Serve(p, "finish") /\ prod[p].bootstrapFinish < 1
        /\ prod' = [prod EXCEPT ![p].serve = "init1", ![p].bootstrapFinish = @ + 1]
     \/ /\ Serve(p, "init1") /\ prod[p].notifyInit < 2
        /\ prod' = [prod EXCEPT ![p].serve = "init2", ![p].notifyInit = @ + 1]
     \/ /\ Serve(p, "init2") /\ prod[p].notifyInit < 2
        /\ prod' = [prod EXCEPT ![p].serve = "loop", ![p].notifyInit = @ + 1]
  /\ ServeOnly /\ UNCHANGED blobs

TakeSettingsChange(p) ==
  /\ Serve(p, "loop") /\ prod[p].settingsChange > 0
  /\ prod' = [prod EXCEPT ![p].settingsChange = @ - 1]
  /\ ServeOnly /\ UNCHANGED blobs

pauseProducer(p) ==
  /\ Serve(p, "loop") /\ prod[p].stateChange = "pause"
  /\ prod' = [prod EXCEPT ![p].serve = "tell", ![p].next = "loop",
                          ![p].stateChange = "none", ![p].workers = "off"]
  /\ ServeOnly /\ UNCHANGED blobs

\* updatemetadataHandle again, then resumeProducer starts the workers ...
BeginResume(p) ==
  /\ Serve(p, "loop") /\ prod[p].stateChange = "resume"
  /\ IF prod[p].fn \in gocb
       THEN /\ prod' = [prod EXCEPT ![p].serve = "resuming", ![p].stateChange = "none",
                                    ![p].workers = "boot"]
            /\ WriteBlobs(p)
            /\ kept' = kept \ {prod[p].fn}
       ELSE /\ prod' = [prod EXCEPT ![p].serve = "return", ![p].stateChange = "none"]
            /\ UNCHANGED <<blobs, kept>>
  /\ UNCHANGED <<metakv, cluster, views, handles, cmds, th, budget, met, slips>>

\* ... unless parseDepcfg or openAppLog fails: Serve tells the supervisor, as
\* after a resume, and returns.
ResumeFails(p) ==
  /\ Serve(p, "loop") /\ prod[p].stateChange = "resume" /\ prod[p].fn \in gocb
  /\ Spend({"event"})
  /\ prod' = [prod EXCEPT ![p].serve = "tell", ![p].next = "return",
                          ![p].stateChange = "none"]
  /\ UNCHANGED <<metakv, cluster, views, handles, blobs, cmds, th, history>>

\* Mutant: two more tokens whatever notifyInitCh still holds.
resumeProducerOverfull(p) ==
  /\ Serve(p, "resuming") /\ prod[p].bootstrapFinish < 1
  /\ prod' = [prod EXCEPT ![p].serve = "tell", ![p].next = "loop",
                          ![p].bootstrapFinish = @ + 1, ![p].notifyInit = @ + 2]
  /\ ServeOnly /\ UNCHANGED blobs

\* ... signals the bootstrap and fills notifyInitCh up again.
resumeProducer(p) ==
  /\ Serve(p, "resuming") /\ prod[p].bootstrapFinish < 1
  /\ prod' = [prod EXCEPT ![p].serve = "tell", ![p].next = "loop",
                          ![p].bootstrapFinish = @ + 1, ![p].notifyInit = 2]
  /\ ServeOnly /\ UNCHANGED blobs

TakeStop(p) ==
  /\ Serve(p, "loop") /\ prod[p].stopProducer = "full"
  /\ prod' = [prod EXCEPT ![p].serve = "tell", ![p].next = "return",
                          ![p].stopProducer = "empty", ![p].workers = "off"]
  /\ ServeOnly /\ UNCHANGED blobs

\* Serve has returned: the supervisor runs it again unless it was removed, and
\* it starts another undeployHandlerWait.
ServeReturns(p) ==
  LET again == prod[p].supervised = "yes" IN
  /\ Serve(p, "return")
  /\ prod' = [prod EXCEPT ![p].serve = IF again THEN "cids" ELSE "dead"]
  /\ th' = IF again /\ At(Twin[p], "idle")
             THEN [th EXCEPT ![Twin[p]] = [Idle EXCEPT !.pc = "wait"]] ELSE th
  /\ UNCHANGED <<metakv, cluster, views, handles, blobs, cmds, aux>>

\* Stop: stopUndeployWaitCh is closed; the stop is sent only if Serve has
\* made its channel already.
Stop(p) ==
  /\ prod[p].supervised = "removed" /\ prod[p].stopProducer # "full"
  /\ prod' = [prod EXCEPT ![p].supervised = "stopped",
                          ![p].stopProducer = IF @ = "nil" THEN @ ELSE "full"]
  /\ ServeOnly /\ UNCHANGED blobs

-----------------------------------------------------------------------------
Settings == SettingsChangeCallback \/ SendSettingsUpdate \/ BeginPause \/ PauseProducer
            \/ EndPause \/ PauseLazily \/ BeginUndeploy \/ DeleteRetryPath \/ RetryPathFails
            \/ ResumeProducer
Deploy(t) == CheckKeyspaces(t) \/ ClaimBootstrap(t) \/ spawnApp(t) \/ SpawnFails(t)
             \/ RegisterProducer(t) \/ RecordToken(t) \/ EnableFunction(t)
             \/ FindProducer(t) \/ SignalBootstrapFinish(t) \/ Recheck(t)
             \/ AddToDeployed(t) \/ ReleaseBootstrap(t)
Topology == TopologyChangeNotifCallback \/ ReadApp \/ CheckMissing \/ AwaitBootstrap
Command == HandleSupCmdMsg \/ NotifySettingsChange
Cleanup(t) == CleanupLookup(t) \/ CleanupNotifyInit(t) \/ ForgetProducer(t)
              \/ CleanupMetadataBucket(t) \/ CleanupMetadataFails(t)
              \/ CleanupUpdateMetakv(t) \/ stopAndDeleteProducer(t) \/ EndUndeploy(t)
Watcher(w) == undeployHandlerWait(w) \/ StopProducer(w) \/ StopUndeployWait(w)
Producer(p) == GetCollectionIDs(p) \/ ServeQuits(p) \/ ServeFails(p) \/ AssignVbuckets(p)
               \/ UpdateMetadataHandle(p) \/ startBucket(p) \/ FinishBootstrap(p)
               \/ TakeSettingsChange(p) \/ pauseProducer(p) \/ BeginResume(p)
               \/ ResumeFails(p) \/ resumeProducer(p) \/ TakeStop(p)
Outside == \/ \E f \in Fns, st \in State : setSettings(f, st)
           \/ BeginRebalance \/ Crash
           \/ \E b \in Buckets : DropBucket(b)

Internal == \/ Settings \/ Topology \/ Command \/ StoreSettings
            \/ \E t \in {"S", "T"} : Deploy(t)
            \/ \E t \in {"S"} \cup Waits : Cleanup(t)
            \/ \E t \in {"S"} \cup Waits : NotifySupervisor(t)
            \/ \E b \in Buckets, f \in Fns : undeployFunctionsOnDeletedBkts(b, f)
            \/ \E w \in Waits : Watcher(w)
            \/ \E p \in Prods : \/ Producer(p) \/ ServeReturns(p)
                                \/ WorkersUp(p) \/ Checkpoint(p) \/ Stop(p)

Next == Outside \/ Internal

Spec == Init /\ [][Next]_vars

\* The process as a whole makes progress: as long as some goroutine can move,
\* one does. The steps of one life-cycle operation are finitely many, so no
\* fairness between goroutines is needed. Settles says nothing of behaviours
\* with a meeting, so nothing is assumed of them.
Fairness == WF_vars(met # "yes" /\ Internal)
LiveSpec == Spec /\ Fairness

-----------------------------------------------------------------------------
(* Properties *)

ProducerRecord ==
  [fn : Fns \cup {None},
   serve : {"dead", "cids", "fail1", "fail2", "assign", "handle", "start", "finish", "init1",
            "init2", "loop", "tell", "resuming", "return"},
   next : {"loop", "return"}, token : {"yes", "no"},
   supervised : {"yes", "removed", "stopped"},
   workers : {"off", "boot", "on"}, bootstrapFinish : 0..1, notifyInit : 0..2,
   stateChange : {"none", "pause", "resume"}, settingsChange : 0..1,
   stopProducer : {"nil", "empty", "full"},
   undeploy : Seq({"yes", "no"}), lazy : {"yes", "no"}]

\* Every variable keeps its type; the channels of a producer keep within the
\* capacities NewProducer gives them.
TypeOK ==
  /\ mkv \in [Fns -> State] /\ appState \in [Fns -> State]
  /\ \A i \in DOMAIN setq : setq[i].fn \in Fns /\ setq[i].st \in State
  /\ member \in BOOLEAN /\ topology \in 0..1
  /\ exists \subseteq Buckets /\ watch \subseteq Buckets \X Fns
  /\ running \in [Fns -> Prods \cup {None}]
  /\ \A l \in DOMAIN lists : lists[l] \subseteq Fns
  /\ gocb \subseteq Fns /\ blobs \subseteq Fns
  /\ \A i \in DOMAIN cmds : cmds[i] \in Fns
  /\ prod \in [Prods -> ProducerRecord] /\ \A p \in Prods : Len(prod[p].undeploy) <= 2
  /\ \A t \in Threads : th[t].fn \in Fns \cup {None} /\ th[t].p \in Prods \cup {None}

\* What the node holds for a function agrees with the settings in metakv.
Agrees(f) ==
  LET p == running[f] IN
  /\ appState[f] = mkv[f]
  /\ f \notin Listed("boot") \cup Listed("pausing")
  /\ f \in Listed("deployed") <=> mkv[f] # "undeployed"
  /\ f \in Listed("local") <=> mkv[f] # "undeployed"
  /\ mkv[f] = "deployed" => p # None /\ prod[p].workers # "off"
  /\ mkv[f] = "paused" /\ p # None => prod[p].workers = "off"
  /\ mkv[f] = "undeployed" => p = None
  /\ p # None <=> Ours(f) \subseteq watch
  /\ \A q \in Prods : prod[q].fn = f /\ q # p => prod[q].workers = "off"

\* Whenever everything has been handled, the node does what the settings in
\* metakv say: a deployed function has its producer, with workers, in every
\* list; a paused one keeps no workers; an undeployed one has left no producer,
\* no watched bucket, no entry in a list. This must hold whatever sequence of
\* deploy, pause, resume, update and undeploy led here, with process restarts,
\* failing calls, dropped buckets and a rebalance in between. It is not stated
\* for behaviours in which one of these met an operation under way, such as a
\* bucket dropped during a deployment or an undeployment by two threads: there
\* it does not hold.
SettledAgrees == member /\ Calm /\ met # "yes" => \A f \in Fns : Agrees(f)


\* bootstrappingApps keeps the two callbacks apart: they never bootstrap the
\* same function at the same time, however their steps fall.
Bootstraps(t) == th[t].pc \in {"retryPath", "resume", "resumeWait", "spawn", "register",
                              "token", "enable", "find", "signal", "workers", "recheck", "list",
                              "release"}
BootstrapExclusive == Bootstraps("S") /\ Bootstraps("T") => Fn("S") # Fn("T")


\* The callbacks never get stuck on a channel of a producer: whatever is
\* under way ends, so every change of settings is handled. Not stated where an
\* event met an operation under way: two threads that undeploy a function both
\* wait for the one message of its producer.
Settles == <>(met = "yes") \/ []<>Calm
=============================================================================
