------------------------------- MODULE SupTree -------------------------------
(***************************************************************************)
(* suptree.Supervisor: the supervision tree under every producer (function) *)
(* and every consumer (worker).  One goroutine runs Serve and owns          *)
(* services, servicesShuttingDown, restartQueue, failures and the resume    *)
(* timer; every other goroutine talks to it over the unbuffered channel     *)
(* control.  A goroutine blocked in a send on control is modelled by the    *)
(* counter (or set) of the senders waiting there, and a receive by Serve    *)
(* consumes one of them.                                                    *)
(*                                                                          *)
(* The decaying float failures is abstracted to a natural: a failure turns  *)
(* f into f * 2^-k + 1 for an arbitrary elapsed time, that is any value in  *)
(* 1 .. f + 1, and all values above the threshold are the same.  All the    *)
(* entries of restartQueue are run together, so it is kept as a bag.        *)
(***************************************************************************)
EXTENDS Naturals

CONSTANTS MaxServices,        \* bound: services ever added (serviceCounter)
          MaxStops,           \* bound: calls of Stop
          failureThreshold

ASSUME SupTreeAssumption == /\ MaxServices \in Nat \ {0}
                            /\ MaxStops \in Nat
                            /\ failureThreshold \in Nat \ {0}

serviceID == 0 .. MaxServices - 1

VARIABLES state,                  \* notRunning, normal or paused
          loop,                   \* where the Serve goroutine is
          services,               \* ids under supervision
          servicesShuttingDown,
          restartQueue,           \* per id: entries waiting for a restart
          serviceCounter,
          failures,
          resumeTimer,            \* set: time.After is pending or has fired
          liveness,               \* the channel is open or closed
          serving,                \* per id: goroutines inside service.Serve()
          failing,                \* per id: goroutines blocked in fail()
          ending,                 \* per id: goroutines in serviceEnded()
          adding,                 \* callers blocked in Add's send
          removing,               \* ids whose Remove is in sendControl
          stopper,                \* per id: goroutine calling service.Stop
          terminator,             \* per id: goroutine of removeService
          stopCalls,              \* callers of Stop blocked in sendControl
          stopsMade               \* calls of Stop so far

owned == <<services, servicesShuttingDown, restartQueue, failures, resumeTimer>>
sup == <<state, loop, liveness, serviceCounter>>
goroutines == <<serving, failing, ending>>
callers == <<adding, removing, stopCalls, stopsMade>>
stops == <<stopper, terminator>>
vars == <<sup, owned, goroutines, callers, stops>>

StopperPC == {"none", "calling", "sending", "done"}
TerminatorPC == {"none", "waiting", "sending", "done"}

TypeOK ==
  /\ state \in {"notRunning", "normal", "paused"}
  /\ loop \in {"new", "serving", "stopping", "returning", "returned"}
  /\ services \subseteq serviceID
  /\ servicesShuttingDown \subseteq serviceID
  /\ restartQueue \in [serviceID -> Nat]
  /\ serviceCounter \in 0 .. MaxServices
  /\ failures \in 0 .. failureThreshold + 1
  /\ resumeTimer \in {"unset", "set"}
  /\ liveness \in {"open", "closed"}
  /\ serving \in [serviceID -> Nat]
  /\ failing \in [serviceID -> Nat]
  /\ ending \in [serviceID -> Nat]
  /\ adding \in Nat
  /\ removing \subseteq serviceID
  /\ stopper \in [serviceID -> StopperPC]
  /\ terminator \in [serviceID -> TerminatorPC]
  /\ stopCalls \in Nat
  /\ stopsMade \in 0 .. MaxStops

Zero == [id \in serviceID |-> 0]

Init ==
  /\ state = "notRunning" /\ loop = "new" /\ liveness = "open"
  /\ services = {} /\ servicesShuttingDown = {}
  /\ restartQueue = Zero /\ serviceCounter = 0
  /\ failures = 0 /\ resumeTimer = "unset"
  /\ serving = Zero /\ failing = Zero /\ ending = Zero
  /\ adding = 0 /\ removing = {} /\ stopCalls = 0 /\ stopsMade = 0
  /\ stopper = [id \in serviceID |-> "none"]
  /\ terminator = [id \in serviceID |-> "none"]

Inc(f, id) == [f EXCEPT ![id] = @ + 1]
Dec(f, id) == [f EXCEPT ![id] = @ - 1]

\* Mutants: the queue is not reset; a queued id is run without a look-up.
RunRestartQueueKept ==
  /\ serving' = [id \in serviceID |->
                   serving[id] + IF id \in services THEN restartQueue[id] ELSE 0]
  /\ UNCHANGED restartQueue
RunRestartQueueStale ==
  /\ serving' = [id \in serviceID |-> serving[id] + restartQueue[id]]
  /\ restartQueue' = Zero

\* runService for every queued id that is still supervised; the queue is reset.
RunRestartQueue ==
  /\ serving' = [id \in serviceID |->
                   serving[id] + IF id \in services THEN restartQueue[id] ELSE 0]
  /\ restartQueue' = Zero

-----------------------------------------------------------------------------
(* The supervised goroutines: runService.                                   *)

\* service.Serve() panicked: the deferred recover calls fail.
ServicePanics(id) ==
  /\ serving[id] > 0
  /\ serving' = Dec(serving, id) /\ failing' = Inc(failing, id)
  /\ UNCHANGED <<sup, owned, ending, callers, stops>>

\* service.Serve() returned: serviceEnded sends over control.
ServiceReturns(id) ==
  /\ serving[id] > 0
  /\ serving' = Dec(serving, id) /\ ending' = Inc(ending, id)
  /\ UNCHANGED <<sup, owned, failing, callers, stops>>

\* sendControl of serviceEnded takes the liveness branch.
ServiceEndedGivesUp(id) ==
  /\ ending[id] > 0 /\ liveness = "closed"
  /\ ending' = Dec(ending, id)
  /\ UNCHANGED <<sup, owned, serving, failing, callers, stops>>

-----------------------------------------------------------------------------
(* The callers of the supervisor.                                           *)

\* Mutant: the service is filed under the counter after it was incremented.
AddMisfiled ==
  /\ serviceCounter + adding < MaxServices
  /\ IF state = "notRunning"
     THEN /\ services' = services \cup {serviceCounter + 1}
          /\ restartQueue' = Inc(restartQueue, serviceCounter)
          /\ serviceCounter' = serviceCounter + 1
          /\ UNCHANGED adding
     ELSE /\ adding' = adding + 1
          /\ UNCHANGED <<services, restartQueue, serviceCounter>>
  /\ UNCHANGED <<state, loop, liveness, servicesShuttingDown, failures, resumeTimer,
                 goroutines, removing, stopCalls, stopsMade, stops>>

\* Add under the lock: queue the service before Serve runs (or once Serve has
\* returned), or go on to send addService over control.
Add ==
  /\ serviceCounter + adding < MaxServices
  /\ IF state = "notRunning"
     THEN /\ services' = services \cup {serviceCounter}
          /\ restartQueue' = Inc(restartQueue, serviceCounter)
          /\ serviceCounter' = serviceCounter + 1
          /\ UNCHANGED adding
     ELSE /\ adding' = adding + 1
          /\ UNCHANGED <<services, restartQueue, serviceCounter>>
  /\ UNCHANGED <<state, loop, liveness, servicesShuttingDown, failures, resumeTimer,
                 goroutines, removing, stopCalls, stopsMade, stops>>

Remove(id) ==
  /\ id < serviceCounter /\ id \notin removing
  /\ terminator[id] = "none" /\ stopper[id] = "none"   \* bound: one Remove per id
  /\ removing' = removing \cup {id}
  /\ UNCHANGED <<sup, owned, goroutines, adding, stopCalls, stopsMade, stops>>

RemoveGivesUp(id) ==
  /\ id \in removing /\ liveness = "closed"
  /\ removing' = removing \ {id}
  /\ UNCHANGED <<sup, owned, goroutines, adding, stopCalls, stopsMade, stops>>

Stop ==
  /\ loop # "new"             \* every caller stops a tree that ServeBackground started
  /\ stopsMade < MaxStops
  /\ stopsMade' = stopsMade + 1 /\ stopCalls' = stopCalls + 1
  /\ UNCHANGED <<sup, owned, goroutines, adding, removing, stops>>

StopGivesUp ==
  /\ stopCalls > 0 /\ liveness = "closed"
  /\ stopCalls' = stopCalls - 1
  /\ UNCHANGED <<sup, owned, goroutines, adding, removing, stopsMade, stops>>

-----------------------------------------------------------------------------
(* The Serve goroutine.                                                     *)

\* ServeBackground: Serve switches to normal and runs what was added so far.
ServeStarts ==
  /\ loop = "new" /\ state = "notRunning"
  /\ loop' = "serving" /\ state' = "normal"
  /\ RunRestartQueue
  /\ UNCHANGED <<liveness, serviceCounter, services, servicesShuttingDown, failures,
                 resumeTimer, failing, ending, callers, stops>>

\* Mutants: no timer is set on entering the backoff; the state is not consulted.
handleFailedServiceNoTimer(id) ==
  \E f \in 1 .. failures + 1 :
    LET curState == IF f > failureThreshold THEN "paused" ELSE state
    IN /\ failures' = IF f > failureThreshold THEN failureThreshold + 1 ELSE f
       /\ state' = curState /\ UNCHANGED resumeTimer
       /\ serving' = IF id \in services /\ curState = "normal"
                     THEN Inc(serving, id) ELSE serving
       /\ restartQueue' = IF id \in services /\ curState # "normal"
                          THEN Inc(restartQueue, id) ELSE restartQueue
handleFailedServiceEager(id) ==
  \E f \in 1 .. failures + 1 :
    LET exceeded == f > failureThreshold
    IN /\ failures' = IF exceeded THEN failureThreshold + 1 ELSE f
       /\ state' = IF exceeded THEN "paused" ELSE state
       /\ resumeTimer' = IF exceeded THEN "set" ELSE resumeTimer
       /\ serving' = IF id \in services THEN Inc(serving, id) ELSE serving
       /\ UNCHANGED restartQueue

\* handleFailedService: count the failure, pause above the threshold (with a
\* fresh timer), and restart or queue the service if it is still supervised.
handleFailedService(id) ==
  \E f \in 1 .. failures + 1 :
    LET exceeded == f > failureThreshold
        curState == IF exceeded THEN "paused" ELSE state
    IN /\ failures' = IF exceeded THEN failureThreshold + 1 ELSE f
       /\ state' = curState
       /\ resumeTimer' = IF exceeded THEN "set" ELSE resumeTimer
       /\ serving' = IF id \in services /\ curState = "normal"
                     THEN Inc(serving, id) ELSE serving
       /\ restartQueue' = IF id \in services /\ curState # "normal"
                          THEN Inc(restartQueue, id) ELSE restartQueue

ReceiveServiceFailed(id) ==
  /\ loop = "serving" /\ failing[id] > 0
  /\ failing' = Dec(failing, id)
  /\ handleFailedService(id)
  /\ UNCHANGED <<loop, liveness, serviceCounter, services, servicesShuttingDown,
                 ending, callers, stops>>

ReceiveServiceEnded(id) ==
  /\ loop = "serving" /\ ending[id] > 0
  /\ ending' = Dec(ending, id)
  /\ IF id \in services
     THEN handleFailedService(id)
     ELSE UNCHANGED <<state, failures, resumeTimer, serving, restartQueue>>
  /\ UNCHANGED <<loop, liveness, serviceCounter, services, servicesShuttingDown,
                 failing, callers, stops>>

\* addService runs the service at once, paused or not.
ReceiveAddService ==
  /\ loop = "serving" /\ adding > 0
  /\ adding' = adding - 1
  /\ services' = services \cup {serviceCounter}
  /\ serving' = Inc(serving, serviceCounter)
  /\ serviceCounter' = serviceCounter + 1
  /\ UNCHANGED <<state, loop, liveness, servicesShuttingDown, restartQueue, failures,
                 resumeTimer, failing, ending, removing, stopCalls, stopsMade, stops>>

ReceiveRemoveService(id) ==
  /\ loop = "serving" /\ id \in removing
  /\ removing' = removing \ {id}
  /\ IF id \in services
     THEN /\ services' = services \ {id}
          /\ servicesShuttingDown' = servicesShuttingDown \cup {id}
          /\ stopper' = [stopper EXCEPT ![id] = "calling"]
          /\ terminator' = [terminator EXCEPT ![id] = "waiting"]
     ELSE UNCHANGED <<services, servicesShuttingDown, stopper, terminator>>
  /\ UNCHANGED <<sup, restartQueue, failures, resumeTimer, goroutines,
                 adding, stopCalls, stopsMade>>

ReceiveServiceTerminated(id) ==
  /\ loop = "serving" /\ terminator[id] = "sending"
  /\ terminator' = [terminator EXCEPT ![id] = "done"]
  /\ servicesShuttingDown' = servicesShuttingDown \ {id}
  /\ UNCHANGED <<sup, services, restartQueue, failures, resumeTimer, goroutines,
                 callers, stopper>>

\* The backoff is over.
ResumeTimerFires ==
  /\ loop = "serving" /\ resumeTimer = "set"
  /\ state' = "normal" /\ failures' = 0 /\ resumeTimer' = "unset"
  /\ RunRestartQueue
  /\ UNCHANGED <<loop, liveness, serviceCounter, services, servicesShuttingDown,
                 failing, ending, callers, stops>>

-----------------------------------------------------------------------------
(* Stopping one service (removeService) or all of them (stopSupervisor).    *)

\* service.Stop() returned; the goroutine now reports it.
ServiceStopReturns(id) ==
  /\ stopper[id] = "calling"
  /\ stopper' = [stopper EXCEPT ![id] = "sending"]
  /\ UNCHANGED <<sup, owned, goroutines, callers, terminator>>

\* removeService's goroutine hears successChan, or its timeout fires first (then
\* the stopper is left behind in its send on successChan).
TerminatorHearsSuccess(id) ==
  /\ terminator[id] = "waiting" /\ stopper[id] = "sending"
  /\ terminator' = [terminator EXCEPT ![id] = "sending"]
  /\ stopper' = [stopper EXCEPT ![id] = "done"]
  /\ UNCHANGED <<sup, owned, goroutines, callers>>

TerminatorTimesOut(id) ==
  /\ terminator[id] = "waiting"
  /\ terminator' = [terminator EXCEPT ![id] = "sending"]
  /\ UNCHANGED <<sup, owned, goroutines, callers, stopper>>

ReceiveStopSupervisor ==
  /\ loop = "serving" /\ stopCalls > 0
  /\ stopCalls' = stopCalls - 1
  /\ loop' = "stopping"
  /\ servicesShuttingDown' = servicesShuttingDown \cup services
  /\ stopper' = [id \in serviceID |-> IF id \in services THEN "calling" ELSE stopper[id]]
  /\ services' = {}
  /\ UNCHANGED <<state, liveness, serviceCounter, restartQueue, failures, resumeTimer,
                 goroutines, adding, removing, stopsMade, terminator>>

\* notifyDone is heard only from the goroutines stopSupervisor started itself.
StopSupervisorNotified(id) ==
  /\ loop = "stopping" /\ stopper[id] = "sending" /\ terminator[id] = "none"
  /\ stopper' = [stopper EXCEPT ![id] = "done"]
  /\ servicesShuttingDown' = servicesShuttingDown \ {id}
  /\ UNCHANGED <<sup, services, restartQueue, failures, resumeTimer, goroutines,
                 callers, terminator>>

StopSupervisorSucceeds ==
  /\ loop = "stopping" /\ servicesShuttingDown = {}
  /\ liveness' = "closed" /\ loop' = "returning"
  /\ UNCHANGED <<state, serviceCounter, owned, goroutines, callers, stops>>

\* Mutant: the timeout is restarted instead of returning.
StopSupervisorTimesOutNever ==
  loop = "stopping" /\ servicesShuttingDown # {} /\ UNCHANGED vars

StopSupervisorTimesOut ==
  /\ loop = "stopping" /\ servicesShuttingDown # {}
  /\ loop' = "returning"
  /\ UNCHANGED <<state, liveness, serviceCounter, owned, goroutines, callers, stops>>

\* The deferred assignment of Serve, after Stop's caller was released.
ServeReturns ==
  /\ loop = "returning"
  /\ loop' = "returned" /\ state' = "notRunning"
  /\ UNCHANGED <<liveness, serviceCounter, owned, goroutines, callers, stops>>

-----------------------------------------------------------------------------
Next ==
  \/ ServeStarts \/ Add \/ Stop \/ StopGivesUp
  \/ ReceiveAddService \/ ReceiveStopSupervisor \/ ResumeTimerFires
  \/ StopSupervisorSucceeds \/ StopSupervisorTimesOut \/ ServeReturns
  \/ \E id \in serviceID :
       \/ ServicePanics(id) \/ ServiceReturns(id) \/ ServiceEndedGivesUp(id)
       \/ Remove(id) \/ RemoveGivesUp(id)
       \/ ReceiveServiceFailed(id) \/ ReceiveServiceEnded(id)
       \/ ReceiveRemoveService(id) \/ ReceiveServiceTerminated(id)
       \/ ServiceStopReturns(id) \/ TerminatorHearsSuccess(id)
       \/ TerminatorTimesOut(id) \/ StopSupervisorNotified(id)

Spec == Init /\ [][Next]_vars

\* The Go scheduler runs every runnable goroutine, senders queue on control in
\* FIFO order, and timers fire; services need not stop, return or panic.
Fairness ==
  /\ WF_vars(ServeStarts) /\ WF_vars(ReceiveAddService)
  /\ WF_vars(ReceiveStopSupervisor) /\ WF_vars(ResumeTimerFires)
  /\ WF_vars(StopSupervisorSucceeds) /\ WF_vars(StopSupervisorTimesOut)
  /\ WF_vars(ServeReturns)
  /\ \A id \in serviceID :
       /\ WF_vars(ReceiveServiceFailed(id)) /\ WF_vars(ReceiveServiceEnded(id))
       /\ WF_vars(ReceiveRemoveService(id)) /\ WF_vars(ReceiveServiceTerminated(id))
       /\ WF_vars(TerminatorTimesOut(id))

FairSpec == Spec /\ Fairness
-----------------------------------------------------------------------------
(* Properties.                                                              *)

\* While Serve runs, every supervised service has exactly one life: it is
\* inside Serve(), or its failure is on the way to the supervisor, or it waits
\* in restartQueue.  Nothing is lost and nothing is started twice, whatever the
\* order of failures, backoffs, removals and additions (runService,
\* handleFailedService, the resumeTimer branch of Serve).
OneLifePerService ==
  loop = "serving" =>
    \A id \in services : serving[id] + failing[id] + ending[id] + restartQueue[id] = 1

\* A service no longer supervised has at most one goroutine left, and it has
\* not been given a second one by a stale entry of restartQueue.
AtMostOneGoroutine ==
  \A id \in serviceID : serving[id] + failing[id] + ending[id] <= 1

\* Services wait in restartQueue only in the backoff state, and the backoff
\* state always has a timer to end it: no service is stranded.
BackoffHasTimer ==
  loop = "serving" => /\ state = "paused" => resumeTimer = "set"
                      /\ \A id \in serviceID : restartQueue[id] > 0 => state = "paused"

\* "the entire service waits for FailureBackoff seconds before attempting any
\* further restarts": a known service gets a new goroutine only by a step that
\* ends in the normal state.
NoRestartInBackoff ==
  [][\A id \in serviceID :
       id < serviceCounter /\ serving'[id] > serving[id] => state' = "normal"]_vars

\* Once removed, a service is never run again, even when it was waiting in
\* restartQueue or failed while removeService was stopping it.
RemovedNeverRuns ==
  [][\A id \in serviceID :
       id < serviceCounter /\ id \notin services => serving'[id] <= serving[id]]_vars

\* A supervised service waiting in restartQueue is restarted when the backoff
\* ends, unless it is removed or the supervisor stops.
QueuedServiceRestarts ==
  \A id \in serviceID :
    (loop = "serving" /\ id \in services /\ restartQueue[id] > 0)
      ~> (restartQueue[id] = 0 \/ id \notin services \/ loop # "serving")

\* After a call of Stop Serve returns, whatever state the services are in: the
\* timeout of stopSupervisor bounds the wait.  (The second of two calls may not
\* return: nobody receives what it sends on control.)
StopCompletes == stopCalls > 0 \/ loop = "stopping" ~> loop = "returned"

\* "This function will not return until either all Services have stopped, or
\* they timeout": when every service has stopped, stopSupervisor is not left
\* waiting for one whose report it cannot hear.
StopHearsEveryService ==
  loop = "stopping" /\ servicesShuttingDown # {} =>
    \E id \in servicesShuttingDown : stopper[id] # "done"
=============================================================================
