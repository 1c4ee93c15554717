---------------------- MODULE FunctionLifecycleProofs ----------------------
(***************************************************************************)
(* bootstrappingApps is a lock: SettingsChangeCallback and                  *)
(* TopologyChangeNotifCallback never bootstrap one function at the same     *)
(* time, for any number of functions and producers and for every Budgets:   *)
(* any finite history of requests, faults and rebalances, in any order and  *)
(* at any moment of an operation under way.                                 *)
(***************************************************************************)
EXTENDS FunctionLifecycle, TLAPS

\* th and lists keep their fields, whatever values X these hold.
ThreadFields(X) == [pc : X, fn : X, p : X, st : X, skip : X, todo : X]
ListFields(X) == [boot : X, pausing : X, deployed : X, local : X]
ThShape(X) == th \in [Threads -> ThreadFields(X)]
ListShape(X) == lists \in ListFields(X)
Shape(X) == th \in [Threads -> ThreadFields(X)] /\ lists \in ListFields(X)

\* A callback that bootstraps a function has put it into bootstrappingApps.
Holds(t) == Bootstraps(t) => Fn(t) \in lists.boot

Locked == Holds("S") /\ Holds("T") /\ BootstrapExclusive

IInv == (\E X : ThShape(X)) /\ (\E X : ListShape(X)) /\ Locked

\* The threads that belong to no producer are four.
LEMMA ThreadFacts == /\ {"S", "T", "H", "R"} \subseteq Threads
                     /\ Waits \subseteq Threads /\ Prods \subseteq Waits
                     /\ \A p \in Prods : Twin[p] \in Waits
                     /\ "S" \notin Waits /\ "T" \notin Waits
  BY LifecycleConstants DEF Threads, Waits

\* At the start no callback runs and bootstrappingApps is empty.
LEMMA InitIInv == Init => IInv
<1> SUFFICES ASSUME Init PROVE IInv
  OBVIOUS
<1> DEFINE X == {"idle", None, "undeployed", "no", {}}
<1>1. ThShape(X) /\ ListShape(X)
  BY DEF Init, ThShape, ListShape, ThreadFields, ListFields, Idle, NoApps
<1>2. Locked
  BY ThreadFacts DEF Init, Locked, Holds, Bootstraps, BootstrapExclusive, Idle
<1> QED
  BY <1>1, <1>2 DEF IInv

\* The steps of SettingsChangeCallback outside a bootstrap leave
\* bootstrappingApps alone; a change is taken up at a place before the claim.
LEMMA SettingsLocked ==
  ASSUME NEW X, Shape(X), Locked, Settings
  PROVE  Locked'
<1> USE ThreadFacts DEF Shape, ThreadFields, ListFields, Locked, Holds, Bootstraps,
        BootstrapExclusive, Fn, At, Goto, Idle, Return, views, addTo, deleteFrom
<1>1. CASE SettingsChangeCallback
  <2>1. lists' = lists
    BY <1>1 DEF SettingsChangeCallback
  <2>2. th'["T"] = th["T"]
    BY <1>1 DEF SettingsChangeCallback
  <2>3. \A st, now : Dispatch(st, now) \in {"exist", "command", "pausing", "lazy", "undeploy"}
    BY DEF Dispatch
  <2>4. th'["S"] = th["S"]
        \/ th'["S"].pc \in {"exist", "command", "pausing", "lazy", "undeploy"}
    <3>1. th' = th \/ \E f, st, now : th' = [th EXCEPT !["S"] =
                [Idle EXCEPT !.pc = Dispatch(st, now), !.fn = f, !.st = now]]
      BY <1>1, Zenon DEF SettingsChangeCallback
    <3>2. ASSUME NEW f, NEW st, NEW now,
                 th' = [th EXCEPT !["S"] =
                          [Idle EXCEPT !.pc = Dispatch(st, now), !.fn = f, !.st = now]]
          PROVE  th'["S"].pc = Dispatch(st, now)
      BY <3>2
    <3>3. ASSUME NEW f, NEW st, NEW now,
                 th' = [th EXCEPT !["S"] =
                          [Idle EXCEPT !.pc = Dispatch(st, now), !.fn = f, !.st = now]]
          PROVE  th'["S"].pc \in {"exist", "command", "pausing", "lazy", "undeploy"}
      <4>1. th'["S"].pc = Dispatch(st, now)
        BY <3>2, <3>3, Zenon
      <4> QED
        BY <2>3, <4>1, Zenon
    <3>4. CASE th' = th
      BY <3>4, Zenon
    <3> QED
      BY <3>1, <3>3, <3>4, Zenon
  <2> QED
    BY <2>1, <2>2, <2>4
<1>2. CASE SendSettingsUpdate
  BY <1>2 DEF SendSettingsUpdate
<1>3. CASE BeginPause
  BY <1>3 DEF BeginPause
<1>4. CASE PauseProducer
  BY <1>4 DEF PauseProducer
<1>5. CASE EndPause
  BY <1>5 DEF EndPause
<1>6. CASE PauseLazily
  BY <1>6 DEF PauseLazily
<1>7. CASE BeginUndeploy
  BY <1>7 DEF BeginUndeploy
<1>8. CASE DeleteRetryPath
  BY <1>8 DEF DeleteRetryPath
<1>9. CASE RetryPathFails
  BY <1>9 DEF RetryPathFails
<1>10. CASE ResumeProducer
  BY <1>10 DEF ResumeProducer
<1> QED
  BY <1>1, <1>2, <1>3, <1>4, <1>5, <1>6, <1>7, <1>8, <1>9, <1>10 DEF Settings

\* From the claim to the release a callback holds the function: it gets past
\* ClaimBootstrap only if no entry was there, and takes out only its own entry.
LEMMA DeployLocked ==
  ASSUME NEW X, Shape(X), Locked, NEW t \in {"S", "T"}, Deploy(t)
  PROVE  Locked'
<1> USE ThreadFacts DEF Shape, ThreadFields, ListFields, Locked, Holds, Bootstraps,
        BootstrapExclusive, Fn, At, Goto, Idle, Return, views, addTo, deleteFrom
<1>1. CASE CheckKeyspaces(t)
  <2>1. lists' = lists
    BY <1>1 DEF CheckKeyspaces
  <2>2. \A c \in {"S", "T"} \ {t} : th'[c] = th[c]
    BY <1>1 DEF CheckKeyspaces
  <2>3. th'[t].pc \in {"claim", "apps", "idle"}
    <3>1. Goto(t, "claim") \/ th' = Return(t)
      BY <1>1 DEF CheckKeyspaces
    <3>2. CASE Goto(t, "claim")
      BY <3>2
    <3>3. CASE th' = Return(t)
      BY <3>3
    <3> QED
      BY <3>1, <3>2, <3>3
  <2> QED
    BY <2>1, <2>2, <2>3
<1>2. CASE ClaimBootstrap(t)
  <2>1. \A c \in {"S", "T"} \ {t} : th'[c] = th[c]
    BY <1>2 DEF ClaimBootstrap
  <2>2. CASE Fn(t) \in lists.boot
    <3>1. lists' = lists
      BY <1>2, <2>2 DEF ClaimBootstrap, Listed
    <3>2. th'[t].pc \in {"await", "idle"}
      <4>1. CASE t = "S"
        <5>1. th' = Return("S")
          BY <1>2, <2>2, <4>1 DEF ClaimBootstrap, Listed
        <5> QED
          BY <4>1, <5>1
      <4>2. CASE t = "T"
        BY <1>2, <2>2, <4>2 DEF ClaimBootstrap, Listed
      <4> QED
        BY <4>1, <4>2
    <3> QED
      BY <2>1, <3>1, <3>2
  <2>3. CASE Fn(t) \notin lists.boot
    <3>1. lists'.boot = lists.boot \cup {Fn(t)}
      BY <1>2, <2>3 DEF ClaimBootstrap, Listed
    <3>2. th'[t].fn = Fn(t)
      BY <1>2, <2>3 DEF ClaimBootstrap, Listed
    <3> QED
      BY <2>1, <2>3, <3>1, <3>2
  <2> QED
    BY <2>2, <2>3
<1>3. CASE spawnApp(t)
  <2>1. PICK p \in Prods : th' = [th EXCEPT ![t].pc = "register", ![t].p = p,
                                            ![p] = [Idle EXCEPT !.pc = "wait"]]
    BY <1>3, Zenon DEF spawnApp
  <2>2. QED
    BY <1>3, <2>1 DEF spawnApp
<1>4. CASE SpawnFails(t)
  BY <1>4 DEF SpawnFails
<1>5. CASE RegisterProducer(t)
  BY <1>5 DEF RegisterProducer
<1>6. CASE EnableFunction(t)
  BY <1>6 DEF EnableFunction
<1>7. CASE FindProducer(t)
  BY <1>7 DEF FindProducer
<1>8. CASE SignalBootstrapFinish(t)
  BY <1>8 DEF SignalBootstrapFinish
<1>9. CASE Recheck(t)
  BY <1>9 DEF Recheck
<1>10. CASE AddToDeployed(t)
  BY <1>10 DEF AddToDeployed
<1>11. CASE ReleaseBootstrap(t)
  BY <1>11 DEF ReleaseBootstrap
<1>12. CASE RecordToken(t)
  BY <1>12 DEF RecordToken
<1> QED
  BY <1>1, <1>2, <1>3, <1>4, <1>5, <1>6, <1>7, <1>8, <1>9, <1>10, <1>11, <1>12 DEF Deploy

\* TopologyChangeNotifCallback outside a bootstrap.
LEMMA TopologyLocked ==
  ASSUME NEW X, Shape(X), Locked, Topology
  PROVE  Locked'
<1> USE ThreadFacts DEF Shape, ThreadFields, ListFields, Locked, Holds, Bootstraps,
        BootstrapExclusive, Fn, At, Goto, Idle, Return, views
<1>1. CASE TopologyChangeNotifCallback
  <2>1. lists' = lists /\ th'["S"] = th["S"]
    BY <1>1 DEF TopologyChangeNotifCallback
  <2>2. th'["T"] = th["T"] \/ th'["T"].pc = "apps"
    <3>1. th' = th \/ th' = [th EXCEPT !["T"] = [Idle EXCEPT !.pc = "apps", !.todo = Fns]]
      BY <1>1, Zenon DEF TopologyChangeNotifCallback
    <3>2. CASE th' = th
      BY <3>2, Zenon
    <3>3. CASE th' = [th EXCEPT !["T"] = [Idle EXCEPT !.pc = "apps", !.todo = Fns]]
      BY <3>3
    <3> QED
      BY <3>1, <3>2, <3>3, Zenon
  <2> QED
    BY <2>1, <2>2
<1>2. CASE ReadApp
  <2>1. lists' = lists /\ th'["S"] = th["S"]
    BY <1>2, Zenon DEF ReadApp
  <2>2. th'["T"].pc \in {"idle", "missing"}
    <3>1. CASE th["T"].todo = {}
      BY <1>2, <3>1 DEF ReadApp
    <3>2. CASE th["T"].todo # {}
      <4>1. PICK f \in th["T"].todo :
              th' = [th EXCEPT !["T"] = [Idle EXCEPT !.pc = "missing", !.fn = f,
                                           !.st = mkv[f], !.todo = th["T"].todo \ {f}]]
        BY <1>2, <3>2, Zenon DEF ReadApp
      <4> QED
        BY <4>1
    <3> QED
      BY <3>1, <3>2
  <2> QED
    BY <2>1, <2>2
<1>3. CASE CheckMissing
  <2>1. th'["S"] = th["S"]
    BY <1>3 DEF CheckMissing
  <2>2. th'["T"].pc \in {"apps", "exist"}
    <3>1. Goto("T", "exist") \/ th' = Return("T")
      BY <1>3 DEF CheckMissing
    <3>2. CASE Goto("T", "exist")
      BY <3>2
    <3>3. CASE th' = Return("T")
      BY <3>3
    <3> QED
      BY <3>1, <3>2, <3>3, Zenon
  <2>3. lists'.boot = lists.boot
    BY <1>3 DEF CheckMissing
  <2> QED
    BY <2>1, <2>2, <2>3
<1>4. CASE AwaitBootstrap
  BY <1>4 DEF AwaitBootstrap
<1> QED
  BY <1>1, <1>2, <1>3, <1>4 DEF Topology

\* An undeploy, on request or because a bucket is gone, touches neither a
\* bootstrap nor bootstrappingApps.
LEMMA CleanupLocked ==
  ASSUME NEW X, Shape(X), Locked, NEW t \in {"S"} \cup Waits, Cleanup(t)
  PROVE  Locked'
<1> USE ThreadFacts DEF Shape, ThreadFields, ListFields, Locked, Holds, Bootstraps,
        BootstrapExclusive, Fn, At, Goto, Idle, Return, views, deleteFrom
<1>1. CASE CleanupLookup(t)
  BY <1>1 DEF CleanupLookup
<1>2. CASE CleanupNotifyInit(t)
  BY <1>2 DEF CleanupNotifyInit
<1>3. CASE ForgetProducer(t)
  BY <1>3 DEF ForgetProducer
<1>4. CASE CleanupMetadataBucket(t)
  BY <1>4 DEF CleanupMetadataBucket
<1>5. CASE CleanupUpdateMetakv(t)
  BY <1>5 DEF CleanupUpdateMetakv
<1>6. CASE stopAndDeleteProducer(t)
  BY <1>6 DEF stopAndDeleteProducer
<1>7. CASE EndUndeploy(t)
  BY <1>7 DEF EndUndeploy
<1>8. CASE CleanupMetadataFails(t)
  BY <1>8 DEF CleanupMetadataFails
<1> QED
  BY <1>1, <1>2, <1>3, <1>4, <1>5, <1>6, <1>7, <1>8 DEF Cleanup

\* The other steps move neither callback into a bootstrap.
LEMMA OtherLocked ==
  ASSUME NEW X, Shape(X), Locked,
         \/ Command \/ StoreSettings \/ Outside
         \/ \E t \in {"S"} \cup Waits : NotifySupervisor(t)
         \/ \E b \in Buckets, f \in Fns : undeployFunctionsOnDeletedBkts(b, f)
         \/ \E w \in Waits : Watcher(w)
         \/ \E p \in Prods : \/ Producer(p) \/ ServeReturns(p)
                             \/ WorkersUp(p) \/ Checkpoint(p) \/ Stop(p)
  PROVE  Locked'
<1> USE ThreadFacts DEF Shape, ThreadFields, ListFields, Locked, Holds, Bootstraps,
        BootstrapExclusive, Fn, At, Goto, Idle, Return, views, deleteFrom
<1>1. CASE HandleSupCmdMsg
  BY <1>1 DEF HandleSupCmdMsg
<1>2. CASE NotifySettingsChange
  BY <1>2 DEF NotifySettingsChange
<1>3. ASSUME NEW t \in {"S"} \cup Waits, NotifySupervisor(t) PROVE Locked'
  BY <1>3 DEF NotifySupervisor
<1>4. ASSUME NEW w \in Waits, Watcher(w) PROVE Locked'
  <2>1. CASE undeployHandlerWait(w)
    <3>1. lists' = lists /\ th'["S"] = th["S"] /\ th'["T"] = th["T"]
      BY <2>1, Zenon DEF undeployHandlerWait
    <3> QED
      BY <3>1
  <2>2. CASE StopProducer(w)
    <3>1. th'["S"] = th["S"] /\ th'["T"] = th["T"]
      BY <2>2, Zenon DEF StopProducer
    <3>2. lists'.boot = lists.boot
      BY <2>2 DEF StopProducer
    <3> QED
      BY <3>1, <3>2
  <2>3. CASE StopUndeployWait(w)
    BY <2>3, Zenon DEF StopUndeployWait
  <2> QED
    BY <1>4, <2>1, <2>2, <2>3 DEF Watcher
<1>5. CASE th'["S"] = th["S"] /\ th'["T"] = th["T"] /\ lists' = lists
  BY <1>5
<1>6. ASSUME NEW p \in Prods, Producer(p) \/ WorkersUp(p) \/ Checkpoint(p) \/ Stop(p)
      PROVE  th' = th /\ lists' = lists
  BY <1>6, Zenon DEF Producer, WorkersUp, Checkpoint, Stop, ServeOnly, GetCollectionIDs,
     ServeQuits, ServeFails, AssignVbuckets, UpdateMetadataHandle, startBucket,
     FinishBootstrap, TakeSettingsChange, pauseProducer, BeginResume, ResumeFails,
     resumeProducer, TakeStop
<1>7. ASSUME NEW b \in Buckets, NEW f \in Fns, undeployFunctionsOnDeletedBkts(b, f)
      PROVE  th' = th /\ lists' = lists
  BY <1>7 DEF undeployFunctionsOnDeletedBkts
<1>8. CASE Crash
  BY <1>8 DEF Crash, NoApps
<1>9. CASE BeginRebalance \/ \E b \in Buckets : DropBucket(b)
  <2>1. th' = th /\ lists' = lists
    BY <1>9, Zenon DEF BeginRebalance, DropBucket
  <2> QED
    BY <1>5, <2>1, Zenon
<1>10. ASSUME NEW f \in Fns, NEW st \in State, setSettings(f, st) PROVE Locked'
  <2>1. lists' = lists
    BY <1>10, Zenon DEF setSettings
  <2>2. th'["S"] = th["S"] /\ th'["T"] = th["T"]
    BY <1>10, Zenon DEF setSettings
  <2> QED
    BY <1>5, <2>1, <2>2, Zenon
<1>11. CASE StoreSettings
  <2>1. lists' = lists
    BY <1>11, Zenon DEF StoreSettings
  <2>2. th'["S"] = th["S"] /\ th'["T"] = th["T"]
    BY <1>11, Zenon DEF StoreSettings
  <2> QED
    BY <1>5, <2>1, <2>2, Zenon
<1>12. ASSUME NEW p \in Prods, ServeReturns(p) PROVE Locked'
  <2>1. lists' = lists
    BY <1>12, Zenon DEF ServeReturns
  <2>2. th' = th \/ \E w \in Waits : \E r : th' = [th EXCEPT ![w] = r]
    BY <1>12, Zenon DEF ServeReturns
  <2>3. th'["S"] = th["S"] /\ th'["T"] = th["T"]
    BY <2>2, Zenon
  <2> QED
    BY <1>5, <2>1, <2>3, Zenon
<1> QED
  BY <1>1, <1>2, <1>3, <1>4, <1>5, <1>6, <1>7, <1>8, <1>9, <1>10, <1>11, <1>12, Zenon
     DEF Command, Outside

\* The ways in which a step changes a thread keep its fields.
LEMMA ThreadForms ==
  ASSUME NEW X, ThShape(X), NEW t \in Threads,
         \/ th' = th
         \/ th' = Return(t)
         \/ \E a : th' = [th EXCEPT ![t].pc = a]
         \/ \E a, b : th' = [th EXCEPT ![t].pc = a, ![t].p = b]
         \/ \E r, Z : r \in ThreadFields(Z) /\ th' = [th EXCEPT ![t] = r]
  PROVE  \E Y : ThShape(Y)'
<1> USE DEF ThShape, ThreadFields
<1>1. CASE th' = th
  BY <1>1
<1>2. ASSUME NEW r, NEW Z, r \in ThreadFields(Z), th' = [th EXCEPT ![t] = r]
      PROVE  \E Y : ThShape(Y)'
  <2>1. th' \in [Threads -> ThreadFields(X \cup Z)]
    BY <1>2, Zenon
  <2> QED
    BY <2>1, Zenon
<1>3. CASE th' = Return(t)
  <2> DEFINE Z == X \cup {"apps", "wait", "idle", None, "undeployed", "no"}
             pc == CASE t = "T" -> "apps" [] t \in Waits -> "wait" [] OTHER -> "idle"
             r == [Idle EXCEPT !.pc = pc, !.todo = th[t].todo]
  <2>1. pc \in Z
    OBVIOUS
  <2>2. th[t].todo \in Z
    OBVIOUS
  <2>3. r \in ThreadFields(Z)
    <3> HIDE DEF pc
    <3> QED
      BY <2>1, <2>2, Zenon DEF Idle
  <2>4. th' = [th EXCEPT ![t] = r]
    BY <1>3, Zenon DEF Return
  <2> HIDE DEF r, Z
  <2> QED
    BY <1>2, <2>3, <2>4, Zenon
<1>4. ASSUME NEW a, th' = [th EXCEPT ![t].pc = a] PROVE \E Y : ThShape(Y)'
  <2>1. th' \in [Threads -> ThreadFields(X \cup {a})]
    BY <1>4, Zenon
  <2> QED
    BY <2>1, Zenon
<1>5. ASSUME NEW a, NEW b, th' = [th EXCEPT ![t].pc = a, ![t].p = b]
      PROVE  \E Y : ThShape(Y)'
  <2> DEFINE Z == X \cup {a, b}
  <2>1. ASSUME NEW u \in Threads PROVE th'[u] \in ThreadFields(Z)
    <3>1. CASE u = t
      BY <1>5, <3>1, Zenon
    <3>2. CASE u # t
      BY <1>5, <3>2, Zenon
    <3> QED
      BY <3>1, <3>2
  <2>2. th' \in [Threads -> ThreadFields(Z)]
    BY <1>5, <2>1, Zenon
  <2> QED
    BY <2>2, Zenon
<1> QED
  BY <1>1, <1>2, <1>3, <1>4, <1>5, Zenon

\* A thread that starts over with fresh locals has all its fields.
LEMMA FreshThread ==
  ASSUME NEW pc, NEW f, NEW st, NEW skip, NEW q, NEW todo
  PROVE  /\ Idle \in ThreadFields({"idle", None, "undeployed", "no", {}})
         /\ [Idle EXCEPT !.pc = pc] \in ThreadFields({pc, None, "undeployed", "no", {}})
         /\ [Idle EXCEPT !.pc = pc, !.fn = f, !.st = st]
              \in ThreadFields({pc, f, None, st, "no", {}})
         /\ [Idle EXCEPT !.pc = pc, !.todo = todo]
              \in ThreadFields({pc, None, "undeployed", "no", todo})
         /\ [Idle EXCEPT !.pc = pc, !.fn = f, !.st = st, !.todo = todo]
              \in ThreadFields({pc, f, None, st, "no", todo})
         /\ [Idle EXCEPT !.pc = pc, !.p = q]
              \in ThreadFields({pc, None, q, "undeployed", "no", {}})
         /\ [Idle EXCEPT !.pc = pc, !.fn = f, !.skip = skip]
              \in ThreadFields({pc, f, None, "undeployed", skip, {}})
  BY Zenon DEF Idle, ThreadFields

\* Every step of the two callbacks keeps the fields of the threads.
LEMMA CallbackThreads ==
  ASSUME NEW X, ThShape(X), Settings \/ Topology
  PROVE  \E Y : ThShape(Y)'
<1> USE ThreadFacts DEF Goto
<1>1. CASE SettingsChangeCallback
  <2>1. \/ th' = th
        \/ \E pc, f, st : th' = [th EXCEPT !["S"] =
                                   [Idle EXCEPT !.pc = pc, !.fn = f, !.st = st]]
    BY <1>1, Zenon DEF SettingsChangeCallback
  <2>2. ASSUME NEW pc, NEW f, NEW st,
               th' = [th EXCEPT !["S"] = [Idle EXCEPT !.pc = pc, !.fn = f, !.st = st]]
        PROVE  \E r, Z : r \in ThreadFields(Z) /\ th' = [th EXCEPT !["S"] = r]
    <3> DEFINE r == [Idle EXCEPT !.pc = pc, !.fn = f, !.st = st]
               Z == {pc, f, None, st, "no", {}}
    <3>1. r \in ThreadFields(Z) /\ th' = [th EXCEPT !["S"] = r]
      BY <2>2, FreshThread, Zenon
    <3> QED
      BY <3>1, Zenon
  <2> QED
    BY <2>1, <2>2, ThreadForms, Zenon
<1>2. CASE \/ SendSettingsUpdate \/ EndPause \/ PauseLazily \/ RetryPathFails
  <2>1. th' = Return("S")
    BY <1>2 DEF SendSettingsUpdate, EndPause, PauseLazily, RetryPathFails
  <2> QED
    BY <2>1, ThreadForms
<1>3. CASE BeginPause \/ DeleteRetryPath
  <2>1. \E a, b : th' = [th EXCEPT !["S"].pc = a, !["S"].p = b]
    BY <1>3, Zenon DEF BeginPause, DeleteRetryPath
  <2> QED
    BY <2>1, ThreadForms, Zenon
<1>4. CASE PauseProducer \/ BeginUndeploy \/ ResumeProducer
  <2>1. \E a : th' = [th EXCEPT !["S"].pc = a]
    BY <1>4, Zenon DEF PauseProducer, BeginUndeploy, ResumeProducer
  <2> QED
    BY <2>1, ThreadForms, Zenon
<1>5. CASE TopologyChangeNotifCallback
  <2>1. th' = th \/ th' = [th EXCEPT !["T"] = [Idle EXCEPT !.pc = "apps", !.todo = Fns]]
    BY <1>5, Zenon DEF TopologyChangeNotifCallback
  <2> QED
    BY <2>1, FreshThread, ThreadForms, Zenon
<1>6. CASE ReadApp
  <2>1. \/ th' = [th EXCEPT !["T"] = Idle]
        \/ \E f, st, todo : th' = [th EXCEPT !["T"] =
             [Idle EXCEPT !.pc = "missing", !.fn = f, !.st = st, !.todo = todo]]
    BY <1>6, Zenon DEF ReadApp
  <2>2. ASSUME NEW f, NEW st, NEW todo,
               th' = [th EXCEPT !["T"] =
                 [Idle EXCEPT !.pc = "missing", !.fn = f, !.st = st, !.todo = todo]]
        PROVE  \E r, Z : r \in ThreadFields(Z) /\ th' = [th EXCEPT !["T"] = r]
    <3> DEFINE r == [Idle EXCEPT !.pc = "missing", !.fn = f, !.st = st, !.todo = todo]
               Z == {"missing", f, None, st, "no", todo}
    <3>1. r \in ThreadFields(Z) /\ th' = [th EXCEPT !["T"] = r]
      BY <2>2, FreshThread, Zenon
    <3> QED
      BY <3>1, Zenon
  <2>3. CASE th' = [th EXCEPT !["T"] = Idle]
    BY <2>3, FreshThread, ThreadForms, Zenon
  <2> QED
    BY <2>1, <2>2, <2>3, ThreadForms, Zenon
<1>7. CASE CheckMissing \/ AwaitBootstrap
  <2>1. th' = [th EXCEPT !["T"].pc = "exist"] \/ th' = Return("T")
    BY <1>7 DEF CheckMissing, AwaitBootstrap
  <2> QED
    BY <2>1, ThreadForms
<1> QED
  BY <1>1, <1>2, <1>3, <1>4, <1>5, <1>6, <1>7 DEF Settings, Topology

\* So does every step of a bootstrap; spawnApp also starts the thread of the
\* new producer.
LEMMA DeployThreads ==
  ASSUME NEW X, ThShape(X), NEW t \in {"S", "T"}, Deploy(t)
  PROVE  \E Y : ThShape(Y)'
<1> USE ThreadFacts DEF Goto
<1>1. CASE spawnApp(t)
  <2> DEFINE r == [Idle EXCEPT !.pc = "wait"]
             Z == {"wait", None, "undeployed", "no", {}}
  <2>1. PICK p \in Prods : th' = [th EXCEPT ![t].pc = "register", ![t].p = p, ![p] = r]
    BY <1>1, Zenon DEF spawnApp
  <2>2. r \in ThreadFields(Z)
    BY FreshThread, Zenon
  <2>3. th' \in [Threads -> ThreadFields(X \cup Z \cup {"register", p})]
    <3> HIDE DEF r, Z
    <3> QED
      BY <2>1, <2>2 DEF ThShape, ThreadFields
  <2> QED
    BY <2>3 DEF ThShape
<1>2. CASE SpawnFails(t) \/ ReleaseBootstrap(t)
  <2>1. th' = Return(t)
    BY <1>2 DEF SpawnFails, ReleaseBootstrap
  <2> QED
    BY <2>1, ThreadForms
<1>3. CASE \/ RegisterProducer(t) \/ RecordToken(t) \/ EnableFunction(t)
           \/ SignalBootstrapFinish(t) \/ Recheck(t) \/ AddToDeployed(t)
  <2>1. \E a : th' = [th EXCEPT ![t].pc = a]
    BY <1>3, Zenon DEF RegisterProducer, RecordToken, EnableFunction, SignalBootstrapFinish, Recheck,
                       AddToDeployed
  <2> QED
    BY <2>1, ThreadForms, Zenon
<1>4. CASE CheckKeyspaces(t) \/ ClaimBootstrap(t)
  <2>1. th' = Return(t) \/ \E a : th' = [th EXCEPT ![t].pc = a]
    BY <1>4 DEF CheckKeyspaces, ClaimBootstrap
  <2> QED
    BY <2>1, ThreadForms
<1>5. CASE FindProducer(t)
  <2>1. \/ th' = Return(t)
        \/ th' = [th EXCEPT ![t].pc = "release"]
        \/ \E b : th' = [th EXCEPT ![t].pc = "signal", ![t].p = b]
    BY <1>5 DEF FindProducer
  <2> QED
    BY <2>1, ThreadForms
<1> QED
  BY <1>1, <1>2, <1>3, <1>4, <1>5 DEF Deploy

\* So does every step of an undeploy, of HandleSupCmdMsg, of a producer and of
\* the outside.
LEMMA OtherThreads ==
  ASSUME NEW X, ThShape(X),
         \/ \E t \in {"S"} \cup Waits : Cleanup(t) \/ NotifySupervisor(t)
         \/ Command \/ StoreSettings \/ Outside
         \/ \E b \in Buckets, f \in Fns : undeployFunctionsOnDeletedBkts(b, f)
         \/ \E w \in Waits : Watcher(w)
         \/ \E p \in Prods : \/ Producer(p) \/ ServeReturns(p)
                             \/ WorkersUp(p) \/ Checkpoint(p) \/ Stop(p)
  PROVE  \E Y : ThShape(Y)'
<1> USE ThreadFacts DEF Goto
<1>1. ASSUME NEW t \in {"S"} \cup Waits, Cleanup(t) \/ NotifySupervisor(t)
      PROVE  \E Y : ThShape(Y)'
  <2>1. CASE CleanupLookup(t)
    <3>1. \/ \E a : th' = [th EXCEPT ![t].pc = a]
          \/ \E a, b : th' = [th EXCEPT ![t].pc = a, ![t].p = b]
      BY <2>1, Zenon DEF CleanupLookup
    <3> QED
      BY <3>1, ThreadForms, Zenon
  <2>2. CASE EndUndeploy(t)
    <3>1. th' = Return(t)
      BY <2>2 DEF EndUndeploy
    <3> QED
      BY <3>1, ThreadForms
  <2>3. CASE \/ CleanupNotifyInit(t) \/ ForgetProducer(t) \/ CleanupMetadataBucket(t)
             \/ CleanupMetadataFails(t) \/ CleanupUpdateMetakv(t)
             \/ stopAndDeleteProducer(t) \/ NotifySupervisor(t)
    <3>1. \E a : th' = [th EXCEPT ![t].pc = a]
      BY <2>3, Zenon DEF CleanupNotifyInit, ForgetProducer, CleanupMetadataBucket,
                         CleanupMetadataFails, CleanupUpdateMetakv,
                         stopAndDeleteProducer, NotifySupervisor
    <3> QED
      BY <3>1, ThreadForms, Zenon
  <2> QED
    BY <1>1, <2>1, <2>2, <2>3 DEF Cleanup
<1>2. CASE HandleSupCmdMsg
  <2>1. th' = th \/ \E q : th' = [th EXCEPT !["H"] = [Idle EXCEPT !.pc = "send", !.p = q]]
    BY <1>2, Zenon DEF HandleSupCmdMsg
  <2>2. ASSUME NEW q, th' = [th EXCEPT !["H"] = [Idle EXCEPT !.pc = "send", !.p = q]]
        PROVE  \E r, Z : r \in ThreadFields(Z) /\ th' = [th EXCEPT !["H"] = r]
    <3> DEFINE r == [Idle EXCEPT !.pc = "send", !.p = q]
               Z == {"send", None, q, "undeployed", "no", {}}
    <3>1. r \in ThreadFields(Z) /\ th' = [th EXCEPT !["H"] = r]
      BY <2>2, FreshThread, Zenon
    <3> QED
      BY <3>1, Zenon
  <2> QED
    BY <2>1, <2>2, ThreadForms, Zenon
<1>3. CASE NotifySettingsChange
  <2>1. th' = Return("H")
    BY <1>3 DEF NotifySettingsChange
  <2> QED
    BY <2>1, ThreadForms
<1>4. ASSUME NEW w \in Waits, undeployHandlerWait(w) PROVE \E Y : ThShape(Y)'
  <2>1. \/ th' = th
        \/ \E f, skip : th' = [th EXCEPT ![w] =
                                 [Idle EXCEPT !.pc = "decided", !.fn = f, !.skip = skip]]
    BY <1>4, Zenon DEF undeployHandlerWait
  <2>2. ASSUME NEW f, NEW skip,
               th' = [th EXCEPT ![w] = [Idle EXCEPT !.pc = "decided", !.fn = f, !.skip = skip]]
        PROVE  \E r, Z : r \in ThreadFields(Z) /\ th' = [th EXCEPT ![w] = r]
    <3> DEFINE r == [Idle EXCEPT !.pc = "decided", !.fn = f, !.skip = skip]
               Z == {"decided", f, None, "undeployed", skip, {}}
    <3>1. r \in ThreadFields(Z) /\ th' = [th EXCEPT ![w] = r]
      BY <2>2, FreshThread, Zenon
    <3> QED
      BY <3>1, Zenon
  <2> QED
    BY <2>1, <2>2, ThreadForms, Zenon
<1>5. ASSUME NEW w \in Waits, StopProducer(w) \/ StopUndeployWait(w)
      PROVE  \E Y : ThShape(Y)'
  <2>1. CASE StopProducer(w)
    <3>1. \E a : th' = [th EXCEPT ![w].pc = a]
      BY <2>1, Zenon DEF StopProducer
    <3> QED
      BY <3>1, ThreadForms, Zenon
  <2>2. CASE StopUndeployWait(w)
    <3>1. th' = [th EXCEPT ![w] = Idle]
      BY <2>2 DEF StopUndeployWait
    <3> QED
      BY <3>1, FreshThread, ThreadForms, Zenon
  <2> QED
    BY <1>5, <2>1, <2>2
<1>6. CASE Crash
  <2>1. th' \in [Threads -> ThreadFields({"idle", None, "undeployed", "no", {}})]
    BY <1>6, FreshThread, Zenon DEF Crash
  <2> QED
    BY <2>1 DEF ThShape
<1>7. ASSUME NEW p \in Prods, Producer(p) \/ WorkersUp(p) \/ Checkpoint(p) \/ Stop(p)
      PROVE  th' = th
  BY <1>7, Zenon DEF Producer, WorkersUp, Checkpoint, Stop, ServeOnly, GetCollectionIDs,
     ServeQuits, ServeFails, AssignVbuckets, UpdateMetadataHandle, startBucket,
     FinishBootstrap, TakeSettingsChange, pauseProducer, BeginResume, ResumeFails,
     resumeProducer, TakeStop
<1>8. ASSUME NEW p \in Prods, ServeReturns(p) PROVE \E Y : ThShape(Y)'
  <2>1. th' = th \/ th' = [th EXCEPT ![Twin[p]] = [Idle EXCEPT !.pc = "wait"]]
    BY <1>8, Zenon DEF ServeReturns
  <2> QED
    BY <2>1, FreshThread, ThreadForms, Zenon
<1>9. ASSUME NEW f \in Fns, NEW st \in State, setSettings(f, st)
      PROVE  \E Y : ThShape(Y)'
  <2> DEFINE r == [Idle EXCEPT !.pc = "store", !.fn = f, !.st = st]
             Z == {"store", f, None, st, "no", {}}
  <2>1. r \in ThreadFields(Z) /\ th' = [th EXCEPT !["R"] = r]
    BY <1>9, FreshThread, Zenon DEF setSettings
  <2>2. \E rr, ZZ : rr \in ThreadFields(ZZ) /\ th' = [th EXCEPT !["R"] = rr]
    BY <2>1, Zenon
  <2> QED
    BY <2>2, ThreadForms, Zenon
<1>10. CASE StoreSettings
  <2>1. th' = Return("R")
    BY <1>10 DEF StoreSettings
  <2> QED
    BY <2>1, ThreadForms
<1>11. CASE BeginRebalance \/ \E b \in Buckets : DropBucket(b)
  <2>1. th' = th
    BY <1>11, Zenon DEF BeginRebalance, DropBucket
  <2> QED
    BY <2>1 DEF ThShape
<1>12. ASSUME NEW b \in Buckets, NEW f \in Fns, undeployFunctionsOnDeletedBkts(b, f)
      PROVE  th' = th
  BY <1>12 DEF undeployFunctionsOnDeletedBkts
<1>13. CASE th' = th
  BY <1>13 DEF ThShape
<1> QED
  BY <1>1, <1>2, <1>3, <1>4, <1>5, <1>6, <1>7, <1>8, <1>9, <1>10, <1>11, <1>12, <1>13, Zenon
     DEF Command, Watcher, Outside

\* lists keeps its four fields: a step changes one of them, or deployed and
\* local together, or empties all.
LEMMA ListForms ==
  ASSUME NEW X, ListShape(X),
         \/ lists' = lists \/ lists' = NoApps
         \/ \E l \in {"boot", "pausing", "deployed", "local"} : \E s :
              lists' = [lists EXCEPT ![l] = s]
         \/ \E s, u : lists' = [lists EXCEPT !["deployed"] = s, !["local"] = u]
  PROVE  \E Y : ListShape(Y)'
<1> USE DEF ListShape, ListFields
<1>1. CASE lists' = lists
  BY <1>1
<1>2. CASE lists' = NoApps
  <2>1. lists' \in ListFields({{}})
    BY <1>2 DEF NoApps
  <2> QED
    BY <2>1, Zenon
<1>3. ASSUME NEW l \in {"boot", "pausing", "deployed", "local"}, NEW s,
             lists' = [lists EXCEPT ![l] = s]
      PROVE  \E Y : ListShape(Y)'
  <2>1. lists' \in ListFields(X \cup {s})
    BY <1>3
  <2> QED
    BY <2>1, Zenon
<1>4. ASSUME NEW s, NEW u, lists' = [lists EXCEPT !["deployed"] = s, !["local"] = u]
      PROVE  \E Y : ListShape(Y)'
  <2>1. lists' \in ListFields(X \cup {s, u})
    BY <1>4
  <2> QED
    BY <2>1, Zenon
<1> QED
  BY <1>1, <1>2, <1>3, <1>4

\* Every step changes lists in one of these ways.
LEMMA NextLists == ASSUME NEW X, ListShape(X), Next PROVE \E Y : ListShape(Y)'
<1> USE DEF views, addTo, deleteFrom
<1>1. CASE Settings
  <2>1. CASE BeginPause \/ EndPause
    BY <2>1, ListForms DEF BeginPause, EndPause
  <2>2. CASE PauseLazily
    BY <2>2, ListForms, Zenon DEF PauseLazily
  <2>3. CASE BeginUndeploy
    BY <2>3, ListForms, Zenon DEF BeginUndeploy
  <2>4. CASE RetryPathFails
    BY <2>4, ListForms, Zenon DEF RetryPathFails
  <2>5. CASE \/ SettingsChangeCallback \/ SendSettingsUpdate \/ PauseProducer
             \/ DeleteRetryPath \/ ResumeProducer
    BY <2>5, ListForms DEF SettingsChangeCallback, SendSettingsUpdate, PauseProducer,
                           DeleteRetryPath, ResumeProducer
  <2> QED
    BY <1>1, <2>1, <2>2, <2>3, <2>4, <2>5 DEF Settings
<1>2. ASSUME NEW t \in {"S", "T"}, Deploy(t) PROVE \E Y : ListShape(Y)'
  <2>1. CASE ClaimBootstrap(t)
    BY <2>1, ListForms DEF ClaimBootstrap
  <2>2. CASE SpawnFails(t)
    BY <2>2, ListForms DEF SpawnFails
  <2>3. CASE AddToDeployed(t)
    BY <2>3, ListForms, Zenon DEF AddToDeployed
  <2>4. CASE ReleaseBootstrap(t)
    BY <2>4, ListForms, Zenon DEF ReleaseBootstrap
  <2>5. CASE \/ CheckKeyspaces(t) \/ spawnApp(t) \/ RegisterProducer(t) \/ RecordToken(t)
             \/ EnableFunction(t) \/ FindProducer(t) \/ SignalBootstrapFinish(t)
             \/ Recheck(t)
    BY <2>5, ListForms DEF CheckKeyspaces, spawnApp, RegisterProducer, RecordToken,
                           EnableFunction, FindProducer, SignalBootstrapFinish, Recheck
  <2> QED
    BY <1>2, <2>1, <2>2, <2>3, <2>4, <2>5 DEF Deploy
<1>3. CASE Topology
  <2>1. CASE CheckMissing
    BY <2>1, ListForms DEF CheckMissing
  <2>2. CASE TopologyChangeNotifCallback \/ ReadApp \/ AwaitBootstrap
    BY <2>2, ListForms, Zenon DEF TopologyChangeNotifCallback, ReadApp, AwaitBootstrap
  <2> QED
    BY <1>3, <2>1, <2>2 DEF Topology
<1>4. ASSUME NEW t \in {"S"} \cup Waits, Cleanup(t) \/ NotifySupervisor(t)
      PROVE  \E Y : ListShape(Y)'
  <2>1. CASE EndUndeploy(t)
    BY <2>1, ListForms, Zenon DEF EndUndeploy
  <2>2. CASE \/ CleanupLookup(t) \/ CleanupNotifyInit(t) \/ ForgetProducer(t)
             \/ CleanupMetadataBucket(t) \/ CleanupMetadataFails(t)
             \/ CleanupUpdateMetakv(t) \/ stopAndDeleteProducer(t) \/ NotifySupervisor(t)
    BY <2>2, ListForms DEF CleanupLookup, CleanupNotifyInit, ForgetProducer,
         CleanupMetadataBucket, CleanupMetadataFails, CleanupUpdateMetakv,
         stopAndDeleteProducer, NotifySupervisor
  <2> QED
    BY <1>4, <2>1, <2>2 DEF Cleanup
<1>5. ASSUME NEW w \in Waits, Watcher(w) PROVE \E Y : ListShape(Y)'
  <2>1. CASE StopProducer(w)
    BY <2>1, ListForms, Zenon DEF StopProducer
  <2>2. CASE undeployHandlerWait(w) \/ StopUndeployWait(w)
    BY <2>2, ListForms, Zenon DEF undeployHandlerWait, StopUndeployWait
  <2> QED
    BY <1>5, <2>1, <2>2 DEF Watcher
<1>6. ASSUME NEW p \in Prods,
             Producer(p) \/ ServeReturns(p) \/ WorkersUp(p) \/ Checkpoint(p) \/ Stop(p)
      PROVE  lists' = lists
  BY <1>6, Zenon DEF Producer, WorkersUp, Checkpoint, Stop, ServeOnly, GetCollectionIDs,
     ServeQuits, ServeFails, AssignVbuckets, UpdateMetadataHandle, startBucket,
     FinishBootstrap, TakeSettingsChange, pauseProducer, BeginResume, ResumeFails,
     resumeProducer, TakeStop, ServeReturns
<1>7. ASSUME NEW b \in Buckets, NEW f \in Fns, undeployFunctionsOnDeletedBkts(b, f)
      PROVE  lists' = lists
  BY <1>7 DEF undeployFunctionsOnDeletedBkts
<1>8. CASE Outside
  <2>1. lists' = lists \/ lists' = NoApps
    BY <1>8 DEF Outside, setSettings, BeginRebalance, DropBucket, Crash
  <2> QED
    BY <2>1, ListForms
<1>9. CASE Command \/ StoreSettings
  BY <1>9, ListForms DEF Command, HandleSupCmdMsg, NotifySettingsChange, StoreSettings
<1>10. CASE lists' = lists
  BY <1>10, ListForms
<1> QED
  BY <1>1, <1>2, <1>3, <1>4, <1>5, <1>6, <1>7, <1>8, <1>9, <1>10 DEF Next, Internal

\* IInv is inductive.
LEMMA NextIInv == IInv /\ [Next]_vars => IInv'
<1> SUFFICES ASSUME IInv, [Next]_vars PROVE IInv'
  OBVIOUS
<1>1. PICK X1 : ThShape(X1)
  BY DEF IInv
<1>2. PICK X2 : ListShape(X2)
  BY DEF IInv
<1>3. Shape(X1 \cup X2)
  BY <1>1, <1>2 DEF ThShape, ListShape, Shape, ThreadFields, ListFields
<1>4. Locked
  BY DEF IInv
<1>5. CASE UNCHANGED vars
  BY <1>5 DEF IInv, vars, ThShape, ListShape, Locked, Holds, Bootstraps, Fn, BootstrapExclusive
<1>6. CASE Next
  <2>1. \E Y : ListShape(Y)'
    BY <1>2, <1>6, NextLists
  <2>2. \E Y : ThShape(Y)'
    BY <1>1, <1>6, CallbackThreads, DeployThreads, OtherThreads DEF Next, Internal
  <2>3. Locked'
    BY <1>3, <1>4, <1>6, SettingsLocked, DeployLocked, TopologyLocked, CleanupLocked,
       OtherLocked DEF Next, Internal
  <2> QED
    BY <2>1, <2>2, <2>3 DEF IInv
<1> QED
  BY <1>5, <1>6

\* The two callbacks of the super supervisor never bootstrap one function at
\* the same time, for any number of functions and producers and any Budgets:
\* bootstrappingApps is a lock, whatever requests, faults and rebalances come,
\* in whatever order, and whatever operation they meet.
THEOREM BootstrapLock == Spec => []BootstrapExclusive
<1>1. IInv => BootstrapExclusive
  BY DEF IInv, Locked
<1> QED
  BY <1>1, InitIInv, NextIInv, PTL DEF Spec
=============================================================================
