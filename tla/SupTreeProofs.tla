---------------------------- MODULE SupTreeProofs ----------------------------
(***************************************************************************)
(* The safety invariants of SupTree for any number of services and calls    *)
(* of Stop and any failure threshold.                                       *)
(***************************************************************************)
EXTENDS SupTree, TLAPS

\* Goroutines of id: inside Serve(), or reporting its end.
Lives(id) == serving[id] + failing[id] + ending[id]

\* What makes the invariants inductive, service by service: an id not handed
\* out yet is untouched, before Serve starts a known service is queued once and
\* does not run, and from then on it has one life.
ServiceInv(id) ==
  /\ id \in services => id < serviceCounter
  /\ id >= serviceCounter => Lives(id) = 0 /\ restartQueue[id] = 0
  /\ loop = "new" /\ id \in services => Lives(id) = 0 /\ restartQueue[id] = 1
  /\ loop = "serving" /\ id \in services => Lives(id) + restartQueue[id] = 1
  /\ loop = "serving" /\ restartQueue[id] > 0 => state = "paused"
  /\ Lives(id) <= 1

\* The ids of pending Add calls are still available.
TypeInv == TypeOK /\ serviceCounter + adding <= MaxServices

IInv ==
  /\ TypeInv
  /\ loop = "new" => state = "notRunning"
  /\ liveness = "closed" => loop \in {"returning", "returned"}
  /\ loop = "serving" => state \in {"normal", "paused"}
  /\ loop = "serving" /\ state = "paused" => resumeTimer = "set"
  /\ \A id \in serviceID : ServiceInv(id)

\* The next id is a service id as long as the bound on Add leaves one.
LEMMA IdFacts == /\ serviceID \subseteq Nat
                 /\ \A n \in Nat : n < MaxServices => n \in serviceID
  BY SupTreeAssumption DEF serviceID

\* Init puts the supervisor into IInv: nothing was added, nothing runs.
LEMMA InitIInv == Init => IInv
<1> SUFFICES ASSUME Init PROVE IInv
  OBVIOUS
<1> USE SupTreeAssumption, IdFacts DEF Init
<1>1. TypeInv
  BY DEF TypeInv, TypeOK, Zero, StopperPC, TerminatorPC
<1>2. ASSUME NEW id \in serviceID PROVE ServiceInv(id)
  BY <1>2 DEF ServiceInv, Lives, Zero
<1> QED
  BY <1>1, <1>2 DEF IInv

\* Every step of the services, the callers and the Serve goroutine keeps the types.
LEMMA NextTypeInv == TypeInv /\ [Next]_vars => TypeInv'
<1> SUFFICES ASSUME TypeInv, [Next]_vars PROVE TypeInv'
  OBVIOUS
<1> USE SupTreeAssumption, IdFacts DEF TypeInv, TypeOK, StopperPC, TerminatorPC,
        Inc, Dec, sup, owned, goroutines, callers, stops
<1>1. CASE ServeStarts
  BY <1>1 DEF ServeStarts, RunRestartQueue, Zero
<1>2. CASE Add
  <2>1. serviceCounter \in serviceID
    BY <1>2 DEF Add
  <2>2. services' \subseteq serviceID
    BY <1>2, <2>1, Zenon DEF Add
  <2>3. restartQueue' \in [serviceID -> Nat]
    BY <1>2, <2>1 DEF Add
  <2>4. /\ serviceCounter' \in 0 .. MaxServices /\ adding' \in Nat
        /\ serviceCounter' + adding' <= MaxServices
    BY <1>2 DEF Add
  <2> QED
    BY <1>2, <2>2, <2>3, <2>4, Zenon DEF Add
<1>3. CASE Stop
  BY <1>3 DEF Stop
<1>4. CASE StopGivesUp
  BY <1>4 DEF StopGivesUp
<1>5. CASE ReceiveAddService
  BY <1>5 DEF ReceiveAddService
<1>6. CASE ReceiveStopSupervisor
  BY <1>6 DEF ReceiveStopSupervisor
<1>7. CASE ResumeTimerFires
  BY <1>7 DEF ResumeTimerFires, RunRestartQueue, Zero
<1>8. CASE StopSupervisorSucceeds
  BY <1>8 DEF StopSupervisorSucceeds
<1>9. CASE StopSupervisorTimesOut
  BY <1>9 DEF StopSupervisorTimesOut
<1>10. CASE ServeReturns
  BY <1>10 DEF ServeReturns
<1>11. ASSUME NEW j \in serviceID, ServicePanics(j) PROVE TypeInv'
  BY <1>11 DEF ServicePanics
<1>12. ASSUME NEW j \in serviceID, ServiceReturns(j) PROVE TypeInv'
  BY <1>12 DEF ServiceReturns
<1>13. ASSUME NEW j \in serviceID, ServiceEndedGivesUp(j) PROVE TypeInv'
  BY <1>13 DEF ServiceEndedGivesUp
<1>14. ASSUME NEW j \in serviceID, Remove(j) PROVE TypeInv'
  BY <1>14 DEF Remove
<1>15. ASSUME NEW j \in serviceID, RemoveGivesUp(j) PROVE TypeInv'
  BY <1>15 DEF RemoveGivesUp
<1>16. ASSUME NEW j \in serviceID, ReceiveServiceFailed(j) PROVE TypeInv'
  BY <1>16 DEF ReceiveServiceFailed, handleFailedService
<1>17. ASSUME NEW j \in serviceID, ReceiveServiceEnded(j) PROVE TypeInv'
  BY <1>17 DEF ReceiveServiceEnded, handleFailedService
<1>18. ASSUME NEW j \in serviceID, ReceiveRemoveService(j) PROVE TypeInv'
  <2>3. services' \subseteq serviceID
    <3>1. services' = services \ {j} \/ services' = services
      BY <1>18 DEF ReceiveRemoveService
    <3> QED
      BY <3>1, Zenon
  <2>1. servicesShuttingDown' \subseteq serviceID
    <3>1. \/ servicesShuttingDown' = servicesShuttingDown \cup {j}
          \/ servicesShuttingDown' = servicesShuttingDown
      BY <1>18 DEF ReceiveRemoveService
    <3> QED
      BY <3>1, Zenon
  <2>2. stopper' \in [serviceID -> StopperPC] /\ terminator' \in [serviceID -> TerminatorPC]
    BY <1>18 DEF ReceiveRemoveService
  <2> QED
    BY <1>18, <2>1, <2>2, <2>3 DEF ReceiveRemoveService
<1>19. ASSUME NEW j \in serviceID, ReceiveServiceTerminated(j) PROVE TypeInv'
  BY <1>19 DEF ReceiveServiceTerminated
<1>20. ASSUME NEW j \in serviceID, ServiceStopReturns(j) PROVE TypeInv'
  BY <1>20 DEF ServiceStopReturns
<1>21. ASSUME NEW j \in serviceID, TerminatorHearsSuccess(j) PROVE TypeInv'
  BY <1>21 DEF TerminatorHearsSuccess
<1>22. ASSUME NEW j \in serviceID, TerminatorTimesOut(j) PROVE TypeInv'
  BY <1>22 DEF TerminatorTimesOut
<1>23. ASSUME NEW j \in serviceID, StopSupervisorNotified(j) PROVE TypeInv'
  BY <1>23 DEF StopSupervisorNotified
<1>24. CASE UNCHANGED vars
  BY <1>24 DEF vars
<1> QED
  BY <1>1, <1>2, <1>3, <1>4, <1>5, <1>6, <1>7, <1>8, <1>9, <1>10, <1>11, <1>12, Zenon,
     <1>13, <1>14, <1>15, <1>16, <1>17, <1>18, <1>19, <1>20, <1>21, <1>22, <1>23, <1>24 DEF Next

\* Every step keeps the rest of IInv.
LEMMA NextIInv == IInv /\ [Next]_vars => IInv'
<1> DEFINE Goal(id) == /\ ServiceInv(id)'
                       /\ (loop = "new" => state = "notRunning")'
                       /\ (liveness = "closed" => loop \in {"returning", "returned"})'
                       /\ (loop = "serving" => state \in {"normal", "paused"})'
                       /\ (loop = "serving" /\ state = "paused" => resumeTimer = "set")'
<1> SUFFICES ASSUME IInv, [Next]_vars, NEW id \in serviceID
             PROVE  Goal(id)
  <2>1. SUFFICES ASSUME IInv, [Next]_vars PROVE IInv'
    OBVIOUS
  <2>2. TypeInv'
    BY <2>1, NextTypeInv DEF IInv
  <2>3. 0 \in serviceID
    BY IdFacts, SupTreeAssumption
  <2> QED
    BY <2>1, <2>2, <2>3 DEF IInv
<1> USE IdFacts DEF IInv, TypeInv, TypeOK, ServiceInv, Lives,
        Inc, Dec, sup, owned, goroutines, callers, stops
<1>1. CASE ServeStarts
  BY SMTT(60), <1>1 DEF ServeStarts, RunRestartQueue, Zero
<1>2. CASE Add
  BY SMTT(60), <1>2 DEF Add
<1>3. CASE Stop
  BY SMTT(60), <1>3 DEF Stop
<1>4. CASE StopGivesUp
  BY SMTT(60), <1>4 DEF StopGivesUp
<1>5. CASE ReceiveAddService
  BY SMTT(60), <1>5 DEF ReceiveAddService
<1>6. CASE ReceiveStopSupervisor
  BY SMTT(60), <1>6 DEF ReceiveStopSupervisor
<1>7. CASE ResumeTimerFires
  BY SMTT(60), <1>7 DEF ResumeTimerFires, RunRestartQueue, Zero
<1>8. CASE StopSupervisorSucceeds
  BY SMTT(60), <1>8 DEF StopSupervisorSucceeds
<1>9. CASE StopSupervisorTimesOut
  BY SMTT(60), <1>9 DEF StopSupervisorTimesOut
<1>10. CASE ServeReturns
  BY SMTT(60), <1>10 DEF ServeReturns
<1>11. ASSUME NEW j \in serviceID, ServicePanics(j) PROVE Goal(id)
  BY SMTT(60), <1>11 DEF ServicePanics
<1>12. ASSUME NEW j \in serviceID, ServiceReturns(j) PROVE Goal(id)
  BY SMTT(60), <1>12 DEF ServiceReturns
<1>13. ASSUME NEW j \in serviceID, ServiceEndedGivesUp(j) PROVE Goal(id)
  <2>1. CASE j = id
    BY SMTT(60), <1>13, <2>1 DEF ServiceEndedGivesUp
  <2>2. CASE ~(j = id)
    BY SMTT(60), <1>13, <2>2 DEF ServiceEndedGivesUp
  <2> QED
    BY <2>1, <2>2
<1>14. ASSUME NEW j \in serviceID, Remove(j) PROVE Goal(id)
  BY SMTT(60), <1>14 DEF Remove
<1>15. ASSUME NEW j \in serviceID, RemoveGivesUp(j) PROVE Goal(id)
  BY SMTT(60), <1>15 DEF RemoveGivesUp
<1>16. ASSUME NEW j \in serviceID, ReceiveServiceFailed(j) PROVE Goal(id)
  BY SMTT(60), <1>16 DEF ReceiveServiceFailed, handleFailedService
<1>17. ASSUME NEW j \in serviceID, ReceiveServiceEnded(j) PROVE Goal(id)
  <2>1. CASE j \in services
    BY SMTT(60), <1>17, <2>1 DEF ReceiveServiceEnded, handleFailedService
  <2>2. CASE ~(j \in services)
    BY SMTT(60), <1>17, <2>2 DEF ReceiveServiceEnded, handleFailedService
  <2> QED
    BY <2>1, <2>2
<1>18. ASSUME NEW j \in serviceID, ReceiveRemoveService(j) PROVE Goal(id)
  BY SMTT(60), <1>18 DEF ReceiveRemoveService
<1>19. ASSUME NEW j \in serviceID, ReceiveServiceTerminated(j) PROVE Goal(id)
  BY SMTT(60), <1>19 DEF ReceiveServiceTerminated
<1>20. ASSUME NEW j \in serviceID, ServiceStopReturns(j) PROVE Goal(id)
  BY SMTT(60), <1>20 DEF ServiceStopReturns
<1>21. ASSUME NEW j \in serviceID, TerminatorHearsSuccess(j) PROVE Goal(id)
  BY SMTT(60), <1>21 DEF TerminatorHearsSuccess
<1>22. ASSUME NEW j \in serviceID, TerminatorTimesOut(j) PROVE Goal(id)
  BY SMTT(60), <1>22 DEF TerminatorTimesOut
<1>23. ASSUME NEW j \in serviceID, StopSupervisorNotified(j) PROVE Goal(id)
  BY SMTT(60), <1>23 DEF StopSupervisorNotified
<1>24. CASE UNCHANGED vars
  BY SMTT(60), <1>24 DEF vars
<1> QED
  BY <1>1, <1>2, <1>3, <1>4, <1>5, <1>6, <1>7, <1>8, <1>9, <1>10, <1>11, <1>12, Zenon,
     <1>13, <1>14, <1>15, <1>16, <1>17, <1>18, <1>19, <1>20, <1>21, <1>22, <1>23, <1>24 DEF Next

\* Types, one life per supervised service, at most one goroutine per service,
\* and a pending timer in every backoff are invariants of the supervisor.
THEOREM SupTreeSafety ==
  Spec => [](TypeOK /\ OneLifePerService /\ AtMostOneGoroutine /\ BackoffHasTimer)
<1>1. IInv => TypeOK
  BY DEF IInv, TypeInv
<1>2. IInv => OneLifePerService /\ AtMostOneGoroutine /\ BackoffHasTimer
  BY IdFacts DEF IInv, TypeInv, TypeOK, ServiceInv, Lives, OneLifePerService,
     AtMostOneGoroutine, BackoffHasTimer
<1> QED
  BY <1>1, <1>2, InitIInv, NextIInv, PTL DEF Spec
=============================================================================
