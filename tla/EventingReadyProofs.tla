------------------------ MODULE EventingReadyProofs ------------------------
(***************************************************************************)
(* What the state Ready of a settled Eventing resource says about the      *)
(* cluster and the process, for every value of the constants.              *)
(*                                                                         *)
(* Ready is published by the last step of a reconciliation, after the      *)
(* publisher was deployed and the subscription manager was started in      *)
(* other steps. The invariant follows both facts from the step that        *)
(* establishes them to the status update, and says why a later             *)
(* reconciliation that undoes them cannot end with Ready in place: it      *)
(* publishes another state, or the request comes back.                     *)
(***************************************************************************)
EXTENDS EventingControllerProofs

\* The one reconciliation that neither publishes its state nor comes back: NATS
\* is down (a terminal error) and the status update fails as well.
NoLostTerminalError == ~({"outage", "status"} \subseteq FaultKinds)

DeployedFor(sp) ==
  proxy = [deployment |-> DeploymentFor(sp), ready |-> TRUE, resources |-> Resource]

\* The controller of the backend runs, unless a manager's Stop can fail half-way.
Serves(sp) == "stop" \notin FaultKinds => mgr[sp.type].running

Good(sp) == DeployedFor(sp) /\ Serves(sp)

\* Without a request in the queue the handler works on what the cache holds.
CopyIsCached == pc # "idle" /\ ~queued => current.spec = cached.spec

\* Only an outage of NATS makes an error terminal.
TerminalOnlyInOutage ==
  "outage" \notin FaultKinds => natsUp /\ result # "terminal"

\* Without failing Stops a started manager has its controller.
StartedRuns ==
  "stop" \notin FaultKinds => \A b \in Backend : mgr[b].started => mgr[b].running

WorkInv == CopyIsCached /\ TerminalOnlyInOutage /\ StartedRuns

\* The handlers of a backend run for that backend.
Branch ==
  /\ pc \in {"nats", "natsManager"} => current.spec.type = "NATS"
  /\ pc \in {"eventMesh", "oauth", "oauthStatus", "eventMeshManager"} =>
       current.spec.type = "EventMesh"

Applied ==
  pc \in {"natsManager", "state"} =>
    proxy.deployment = DeploymentFor(current.spec) /\ proxy.resources = Resource

Controlled ==
  pc = "state" \/ (pc = "proxy" /\ current.spec.type = "EventMesh") => Serves(current.spec)

ReadySync ==
  pc = "sync" /\ current.status.state = "Ready" =>
    Held /\ current.spec.type \in Backend /\ Good(current.spec)

SettledGood ==
  Settled /\ Ready /\ eventing.spec.type \in Backend => Good(eventing.spec)

ProgressInv == Branch /\ Applied /\ Controlled /\ ReadySync /\ SettledGood

ReadyInv == WorkInv /\ ProgressInv

-----------------------------------------------------------------------------
(***************************************************************************)
(* The handlers and their copy, the terminal error, the managers.          *)
(***************************************************************************)

\* A handler keeps the specification it was called with and never takes a
\* request out of the queue; its error is terminal only when NATS is down.
LEMMA HandlerWork ==
  ASSUME TypeInv, HandlerStep
  PROVE  /\ pc # "idle" /\ UNCHANGED <<cached, natsUp>> /\ current'.spec = current.spec
         /\ queued => queued'
         /\ result' = "terminal" => result = "terminal" \/ ~natsUp
<1> USE DEF resource, world, budget
<1> DEFINE Quiet == /\ current'.spec = current.spec
                    /\ queued => queued'
                    /\ result' = "terminal" => result = "terminal" \/ ~natsUp
<1>1. TypeOK  BY DEF TypeInv
<1>2. ASSUME NEW st, NEW res, SyncStatus(st, res), res = "terminal" => ~natsUp
      PROVE  Quiet
  BY <1>1, <1>2 DEF SyncStatus, TypeOK
<1>3. ASSUME NEW st, NEW step, Continue(st, step) PROVE Quiet
  BY <1>1, <1>3 DEF Continue, TypeOK
<1>4. ASSUME NEW again, Return(again) PROVE Quiet
  BY <1>1, <1>4 DEF Return, TypeOK
<1>5. CASE AddFinalizer  BY <1>4, <1>5 DEF AddFinalizer
<1>6. CASE NoSwitch  BY <1>3, <1>6 DEF NoSwitch
<1>7. CASE StopPreviousBackend
  <2>1. current'.spec = current.spec  BY <1>1, <1>7 DEF StopPreviousBackend, TypeOK
  <2> QED  BY <1>7, <2>1 DEF StopPreviousBackend
<1>8. CASE StopPreviousBackendFails
  <2>1. \E st : SyncStatus(st, "error")  BY <1>8 DEF StopPreviousBackendFails
  <2> QED  BY <1>2, <1>8, <2>1 DEF StopPreviousBackendFails
<1>9. CASE DeleteProxyOfPreviousBackend
  BY <1>2, <1>3, <1>9 DEF DeleteProxyOfPreviousBackend
<1>10. CASE SyncActiveBackend  BY <1>2, <1>3, <1>10 DEF SyncActiveBackend
<1>11. CASE NATSLookupFails
  <2>1. Return(TRUE) \/ (\E st : SyncStatus(st, "error")) \/ \E st, step : Continue(st, step)
    BY <1>11 DEF NATSLookupFails
  <2>2. Quiet  BY <1>2, <1>3, <1>4, <2>1
  <2> QED  BY <1>11, <2>2 DEF NATSLookupFails
<1>12. CASE NATSModuleMissing
  <2>1. Return(TRUE) \/ \E st : SyncStatus(st, "error")  BY <1>12 DEF NATSModuleMissing
  <2>2. Quiet  BY <1>2, <1>4, <2>1
  <2> QED  BY <1>12, <2>2 DEF NATSModuleMissing
<1>13. CASE ConnectToNATS  BY <1>2, <1>3, <1>13 DEF ConnectToNATS
<1>14. CASE ReconcileNATSSubManager
  BY <1>2, <1>3, <1>14 DEF ReconcileNATSSubManager
<1>15. CASE ReconcileEventMeshBackend
  BY <1>2, <1>3, <1>15 DEF ReconcileEventMeshBackend
<1>16. CASE SyncOauth2ClientIDAndSecret
  <2>1. \/ \E st, step : Continue(st, step)
        \/ \E st : SyncStatus(st, "error")
        \/ current'.spec = current.spec /\ UNCHANGED <<queued, result>>
    BY <1>1, <1>16 DEF SyncOauth2ClientIDAndSecret, TypeOK
  <2> QED  BY <1>2, <1>3, <1>16, <2>1 DEF SyncOauth2ClientIDAndSecret
<1>17. CASE SyncOauth2Status  BY <1>2, <1>3, <1>17 DEF SyncOauth2Status
<1>18. CASE ReconcileEventMeshSubManager
  BY <1>2, <1>3, <1>18 DEF ReconcileEventMeshSubManager
<1>19. CASE HandlePublisherProxy  BY <1>2, <1>3, <1>19 DEF HandlePublisherProxy
<1>20. CASE HandleEventingState
  <2>1. \/ \E st : SyncStatus(st, "done")
        \/ \E st : SyncStatus(st, "requeue")
        \/ \E st : SyncStatus(st, "error")
        \/ Return(TRUE)
    BY <1>20 DEF HandleEventingState
  <2>2. Quiet  BY <1>2, <1>4, <2>1
  <2> QED  BY <1>20, <2>2 DEF HandleEventingState
<1>21. CASE SyncEventingStatus  BY <1>4, <1>21 DEF SyncEventingStatus
<1>22. CASE CheckSubscriptions  BY <1>2, <1>3, <1>22 DEF CheckSubscriptions
<1>23. CASE StopManagerForDeletion  BY <1>2, <1>3, <1>23 DEF StopManagerForDeletion
<1>24. CASE DeleteClusterScopedResources
  BY <1>2, <1>3, <1>24 DEF DeleteClusterScopedResources
<1>25. CASE RemoveFinalizer  BY <1>4, <1>25 DEF RemoveFinalizer
<1> QED
  BY <1>5, <1>6, <1>7, <1>8, <1>9, <1>10, <1>11, <1>12, <1>13, <1>14, <1>15, <1>16, <1>17,
     <1>18, <1>19, <1>20, <1>21, <1>22, <1>23, <1>24, <1>25
  DEF HandlerStep

\* A prepared manager that counts as started is the one that was there.
LEMMA PreparedStarted ==
  ASSUME TypeInv
  PROVE  /\ pc = "natsManager" /\ PreparedNATSManager.started =>
              PreparedNATSManager = mgr["NATS"]
         /\ pc = "eventMeshManager" /\ PreparedEventMeshManager.started =>
              PreparedEventMeshManager = mgr["EventMesh"]
<1>1. ASSUME pc = "natsManager", PreparedNATSManager.started
      PROVE  PreparedNATSManager = mgr["NATS"]
  <2>1. current.status.specHash = NATSHash  BY <1>1, PreparedNATS
  <2>2. mgr["NATS"] \in Manager /\ ManagerOK(mgr["NATS"])
    BY DEF TypeInv, TypeOK, ManagersOK, Backend
  <2>3. PreparedNATSManager = IF mgr["NATS"].cfg = NoConfig
                              THEN [mgr["NATS"] EXCEPT !.cfg = current.spec.cfg]
                              ELSE mgr["NATS"]
    BY <2>1 DEF PreparedNATSManager
  <2>4. PreparedNATSManager.started = mgr["NATS"].started  BY <2>2, <2>3 DEF Manager
  <2> QED  BY <1>1, <2>2, <2>3, <2>4 DEF ManagerOK
<1> QED  BY <1>1, PreparedEventMesh

\* A step of a handler leaves the managers alone, or changes the one of a backend
\* and, where no Stop fails, leaves it not started or running.
LEMMA HandlerManagers ==
  ASSUME TypeInv, StartedRuns, HandlerStep
  PROVE  StartedRuns'
<1> USE DEF resource, world, budget
<1> SUFFICES ASSUME "stop" \notin FaultKinds
             PROVE  \A b \in Backend : mgr'[b].started => mgr'[b].running
  BY DEF StartedRuns
<1> DEFINE Goal == \A b \in Backend : mgr'[b].started => mgr'[b].running
<1>1. \A b \in Backend : /\ mgr[b] \in Manager /\ ManagerOK(mgr[b])
                         /\ mgr[b].started => mgr[b].running
  BY DEF TypeInv, TypeOK, ManagersOK, StartedRuns
<1>2. ~Fault("stop")  BY DEF Fault
<1>3. ASSUME NEW b \in Backend, NEW n, mgr' = [mgr EXCEPT ![b] = n], n.started => n.running
      PROVE  Goal
  BY <1>1, <1>3 DEF TypeInv, TypeOK
<1>4. ASSUME NEW b \in Backend, mgr' = [mgr EXCEPT ![b] = StopSubManager(@)]
      PROVE  Goal
  <2>1. ~StopSubManager(mgr[b]).started  BY <1>1, StopManager
  <2> QED  BY <1>3, <1>4, <2>1
<1>5. ASSUME UNCHANGED mgr PROVE Goal
  BY <1>1, <1>5
<1>6. ASSUME NEW m \in Manager, NEW c PROVE StartSubManager(m, c).running
  BY DEF StartSubManager, Manager
<1>7. CASE StopPreviousBackend
  <2>1. PreviousBackend \in Backend
    BY <1>7 DEF StopPreviousBackend, PreviousBackend, TypeInv, TypeOK, EventingStatus
  <2> QED  BY <1>4, <1>7, <2>1 DEF StopPreviousBackend
<1>8. CASE ReconcileNATSSubManager
  <2> DEFINE m == PreparedNATSManager
  <2>1. pc = "natsManager"  BY <1>8 DEF ReconcileNATSSubManager
  <2>2. m \in Manager /\ (m.started => m.running)
    BY <1>1, <2>1, PreparedNATS, PreparedStarted DEF Backend
  <2>3. "NATS" \in Backend  BY DEF Backend
  <2> HIDE DEF m
  <2>4. \/ mgr' = [mgr EXCEPT !["NATS"] = m]
        \/ mgr' = [mgr EXCEPT !["NATS"] = StartSubManager(m, NoCreds)]
        \/ UNCHANGED mgr
    BY <1>8 DEF ReconcileNATSSubManager, m
  <2> QED  BY <1>3, <1>5, <1>6, <2>2, <2>3, <2>4
<1>9. CASE SyncOauth2ClientIDAndSecret
  BY <1>2, <1>4, <1>5, <1>9 DEF SyncOauth2ClientIDAndSecret, Backend
<1>10. CASE ReconcileEventMeshSubManager
  <2> DEFINE m == PreparedEventMeshManager
             n == [m EXCEPT !.cfg.env = current.spec.cfg.env]
  <2>1. pc = "eventMeshManager"  BY <1>10 DEF ReconcileEventMeshSubManager
  <2>2. m \in Manager /\ (m.started => m.running)
    BY <1>1, <2>1, PreparedEventMesh, PreparedStarted DEF Backend
  <2>3. "EventMesh" \in Backend  BY DEF Backend
  <2> HIDE DEF m
  <2>4. \/ mgr' = [mgr EXCEPT !["EventMesh"] = m]
        \/ mgr' = [mgr EXCEPT !["EventMesh"] = StartedEventMeshManager(m)]
        \/ UNCHANGED mgr
    BY <1>2, <1>10 DEF ReconcileEventMeshSubManager, m
  <2>5. StartedEventMeshManager(m).running
    BY <2>2 DEF StartedEventMeshManager, StartSubManager, Manager
  <2> QED  BY <1>3, <1>5, <2>2, <2>3, <2>4, <2>5
<1>11. CASE StopManagerForDeletion
  <2>1. BackendToDelete \in Backend  BY DEF BackendToDelete, Backend
  <2> QED  BY <1>2, <1>4, <1>11, <2>1 DEF StopManagerForDeletion
<1>12. CASE StopPreviousBackendFails  BY <1>2, <1>12 DEF StopPreviousBackendFails
<1>13. CASE \/ AddFinalizer \/ NoSwitch \/ DeleteProxyOfPreviousBackend \/ SyncActiveBackend
            \/ NATSLookupFails \/ NATSModuleMissing \/ ConnectToNATS
            \/ ReconcileEventMeshBackend \/ SyncOauth2Status \/ HandlePublisherProxy
            \/ HandleEventingState \/ SyncEventingStatus \/ CheckSubscriptions
            \/ DeleteClusterScopedResources \/ RemoveFinalizer
  <2>1. UNCHANGED mgr
    BY <1>13
    DEF AddFinalizer, NoSwitch, DeleteProxyOfPreviousBackend, SyncActiveBackend,
        NATSLookupFails, NATSModuleMissing, ConnectToNATS, ReconcileEventMeshBackend,
        SyncOauth2Status, HandlePublisherProxy, HandleEventingState, SyncEventingStatus,
        CheckSubscriptions, DeleteClusterScopedResources, RemoveFinalizer
  <2> QED  BY <1>5, <2>1
<1> QED  BY <1>7, <1>8, <1>9, <1>10, <1>11, <1>12, <1>13 DEF HandlerStep

\* WorkInv is inductive relative to TypeInv.
LEMMA WorkStep == TypeInv /\ WorkInv /\ [Next]_vars => WorkInv'
<1> SUFFICES ASSUME TypeInv, WorkInv, [Next]_vars PROVE WorkInv'
  OBVIOUS
<1> USE DEF vars, resource, world, budget
<1>1. CASE HandlerStep
  <2>1. CopyIsCached'  BY <1>1, HandlerWork DEF WorkInv, CopyIsCached
  <2>2. TerminalOnlyInOutage'  BY <1>1, HandlerWork DEF WorkInv, TerminalOnlyInOutage
  <2>3. StartedRuns'  BY <1>1, HandlerManagers DEF WorkInv
  <2> QED  BY <2>1, <2>2, <2>3 DEF WorkInv
<1>2. CASE Reconcile
  <2>1. \E st, step : Fetch(st, step)
    BY <1>2
    DEF Reconcile, ReconcileNothing, ReconcileDeletion, ReconcileNew, ReconcileEmptyBackend,
        ReconcileBackend
  <2>2. /\ current'.spec = cached.spec /\ result' = "done"
        /\ UNCHANGED <<cached, natsUp, mgr>>
    BY <2>1 DEF Fetch
  <2> QED  BY <2>2 DEF WorkInv, CopyIsCached, TerminalOnlyInOutage, StartedRuns
<1>3. CASE UNCHANGED <<pc, current, result, mgr, natsUp, cached>> /\ (queued => queued')
  BY <1>3 DEF WorkInv, CopyIsCached, TerminalOnlyInOutage, StartedRuns
<1>4. CASE InformerSync
  BY <1>4 DEF InformerSync, WorkInv, CopyIsCached, TerminalOnlyInOutage, StartedRuns
<1>5. CASE NatsDown \/ NatsBack
  <2>1. UNCHANGED <<pc, current, result, mgr, cached>> /\ (queued => queued')
    BY <1>5 DEF NatsDown, NatsBack, TypeInv, TypeOK
  <2>2. "outage" \notin FaultKinds => natsUp' /\ result # "terminal"
    BY <1>5 DEF NatsDown, NatsBack, Fault, WorkInv, TerminalOnlyInOutage
  <2> QED  BY <2>1, <2>2 DEF WorkInv, CopyIsCached, TerminalOnlyInOutage, StartedRuns
<1>6. CASE Crash
  <2>1. /\ pc' = "idle" /\ result' = "done" /\ natsUp' = natsUp
        /\ mgr' = [b \in Backend |-> NoManager]
    BY <1>6 DEF Crash
  <2>2. \A b \in Backend : ~mgr'[b].started  BY <2>1 DEF NoManager
  <2> QED  BY <2>1, <2>2 DEF WorkInv, CopyIsCached, TerminalOnlyInOutage, StartedRuns
<1>7. CASE WatchEvent
  BY <1>3, <1>7 DEF WatchEvent
<1>8. CASE \/ CreateEventing \/ EditBackend \/ DeleteEventing \/ ChangeSubscriptions
           \/ ChangeOauthSecret \/ DeploymentAvailable \/ GarbageCollect
  <2>1. UNCHANGED <<pc, current, result, mgr, natsUp, cached, queued>>
    BY <1>8
    DEF CreateEventing, EditBackend, DeleteEventing, ChangeSubscriptions,
        ChangeOauthSecret, Edit, DeploymentAvailable, GarbageCollect
  <2> QED  BY <1>3, <2>1
<1>9. CASE UNCHANGED vars
  BY <1>3, <1>9
<1> QED  BY <1>1, <1>2, <1>4, <1>5, <1>6, <1>7, <1>8, <1>9 DEF Next, Environment

\* Spec keeps WorkInv.
LEMMA WorkInvAlways == Spec => []WorkInv
<1>1. Init => WorkInv
  BY DEF Init, NoManager, WorkInv, CopyIsCached, TerminalOnlyInOutage, StartedRuns
<1> QED  BY <1>1, WorkStep, TypeInvAlways, PTL DEF Spec

-----------------------------------------------------------------------------
(***************************************************************************)
(* From the deployment and the start of the manager to the status update.  *)
(***************************************************************************)

\* A handler that goes on to publish a problem.
LEMMA ProblemProgress ==
  ASSUME TypeOK, NEW st, NEW res, SyncStatus(st, res), st.state # "Ready"
  PROVE  ProgressInv'
<1>1. current'.status = st /\ pc' = "sync"  BY DEF SyncStatus, TypeOK
<1> QED
  BY <1>1 DEF ProgressInv, Branch, Applied, Controlled, ReadySync, SettledGood, Settled

\* A handler that returns and comes back.
LEMMA RetryProgress ==
  ASSUME Return(TRUE)
  PROVE  ProgressInv'
<1>1. pc' = "idle" /\ queued'  BY DEF Return
<1> QED
  BY <1>1 DEF ProgressInv, Branch, Applied, Controlled, ReadySync, SettledGood, Settled

\* A handler that goes on to a step before the deployment.
LEMMA EarlyProgress ==
  ASSUME pc' \notin {"idle", "sync", "natsManager", "state", "proxy"}, Branch'
  PROVE  ProgressInv'
BY DEF ProgressInv, Applied, Controlled, ReadySync, SettledGood, Settled

\* What the environment does to the resource leaves it held.
LEMMA HeldKept ==
  ASSUME TypeOK, Held, Environment
  PROVE  Held'
<1> USE DEF resource, world, budget
<1>1. CASE CreateEventing  BY <1>1 DEF CreateEventing, Held
<1>2. CASE EditBackend
  <2>1. PICK sp \in Spec_ \ {eventing.spec, NoSpec} : eventing' = [eventing EXCEPT !.spec = sp]
    BY <1>2 DEF EditBackend, Write
  <2> QED  BY <2>1 DEF Held, TypeOK, Eventing
<1>3. CASE DeleteEventing
  <2>1. eventing' = [eventing EXCEPT !.deleting = TRUE]
    BY <1>3 DEF DeleteEventing, Write, Held
  <2> QED  BY <2>1 DEF Held, TypeOK, Eventing
<1>4. CASE UNCHANGED eventing  BY <1>4 DEF Held
<1>5. CASE \/ InformerSync \/ WatchEvent \/ ChangeSubscriptions \/ ChangeOauthSecret
           \/ DeploymentAvailable \/ GarbageCollect \/ NatsDown \/ NatsBack \/ Crash
  <2>1. UNCHANGED eventing
    BY <1>5
    DEF InformerSync, WatchEvent, ChangeSubscriptions, ChangeOauthSecret, Edit,
        DeploymentAvailable, GarbageCollect, NatsDown, NatsBack, Crash
  <2> QED  BY <1>4, <2>1
<1> QED  BY <1>1, <1>2, <1>3, <1>5 DEF Environment

\* The environment: the publisher of a resource that is there only gets ready,
\* and what it changes besides brings a request.
LEMMA ProgressEnvironment ==
  ASSUME TypeInv, FinalizerInv, ProgressInv, Environment
  PROVE  ProgressInv'
<1> USE DEF resource, world, budget
<1>1. TypeOK /\ (Held => Held')  BY HeldKept DEF TypeInv
<1>2. ASSUME UNCHANGED <<pc, current, mgr, proxy>>, SettledGood'
      PROVE  ProgressInv'
  <2>1. Branch' /\ Applied' /\ Controlled'
    BY <1>2 DEF ProgressInv, Branch, Applied, Controlled, Serves
  <2>2. ReadySync'
    BY <1>1, <1>2 DEF ProgressInv, ReadySync, Good, DeployedFor, Serves
  <2> QED  BY <1>2, <2>1, <2>2 DEF ProgressInv
<1>3. CASE InformerSync
  <2>1. SettledGood'  BY <1>3 DEF InformerSync, SettledGood, Settled
  <2> QED  BY <1>2, <1>3, <2>1 DEF InformerSync
<1>4. CASE WatchEvent
  <2>1. SettledGood'  BY <1>4 DEF WatchEvent, SettledGood, Settled
  <2> QED  BY <1>2, <1>4, <2>1 DEF WatchEvent
<1>5. CASE CreateEventing \/ EditBackend \/ DeleteEventing
  <2>1. fresh' = {} /\ UNCHANGED <<pc, current, mgr, proxy>>
    BY <1>5 DEF CreateEventing, EditBackend, DeleteEventing, Edit, Write
  <2>2. SettledGood'  BY <2>1 DEF SettledGood, Settled
  <2> QED  BY <1>2, <2>1, <2>2
<1>6. ASSUME UNCHANGED <<eventing, fresh, pc, mgr, proxy>>, queued => queued'
      PROVE  SettledGood'
  <2>1. Settled' => Settled  BY <1>6 DEF Settled
  <2>2. Ready' => Ready  BY <1>6 DEF Ready
  <2> QED
    BY <1>6, <2>1, <2>2 DEF ProgressInv, SettledGood, Good, DeployedFor, Serves
<1>7. CASE ChangeSubscriptions \/ ChangeOauthSecret \/ NatsDown \/ NatsBack
  <2>1. UNCHANGED <<eventing, fresh, pc, current, mgr, proxy>>
    BY <1>7 DEF ChangeSubscriptions, ChangeOauthSecret, Edit, NatsDown, NatsBack
  <2>2. queued => queued'
    BY <1>1, <1>7 DEF ChangeSubscriptions, ChangeOauthSecret, Edit, NatsDown, NatsBack, TypeOK
  <2> QED  BY <1>2, <1>6, <2>1, <2>2
<1>8. CASE DeploymentAvailable
  <2>1. /\ proxy'.deployment = proxy.deployment /\ proxy'.resources = proxy.resources
        /\ UNCHANGED <<eventing, fresh, pc, current, mgr, queued>>
    BY <1>1, <1>8 DEF DeploymentAvailable, TypeOK, Proxy
  <2>2. \A sp : ~DeployedFor(sp)  BY <1>8 DEF DeploymentAvailable, DeployedFor
  <2>3. Branch' /\ Applied' /\ Controlled'
    BY <2>1 DEF ProgressInv, Branch, Applied, Controlled, Serves
  <2>4. ~(pc = "sync" /\ current.status.state = "Ready")
    BY <2>2 DEF ProgressInv, ReadySync, Good
  <2>5. ~(Settled /\ Ready /\ eventing.spec.type \in Backend)
    BY <2>2 DEF ProgressInv, SettledGood, Good
  <2>6. ReadySync' /\ SettledGood'
    BY <2>1, <2>4, <2>5 DEF ReadySync, SettledGood, Settled, Ready
  <2> QED  BY <2>3, <2>6 DEF ProgressInv
<1>9. CASE GarbageCollect
  <2>1. ~eventing.present /\ UNCHANGED <<eventing, fresh, pc, current, mgr, queued>>
    BY <1>9 DEF GarbageCollect
  <2>2. ~Held  BY <2>1 DEF Held
  <2>3. pc \notin BackendStep  BY <2>2 DEF FinalizerInv, BackendHeld
  <2>4. Branch' /\ Applied' /\ Controlled'
    BY <2>1, <2>3 DEF ProgressInv, Branch, Applied, Controlled, Serves, BackendStep
  <2>5. ReadySync'  BY <2>1, <2>2 DEF ProgressInv, ReadySync
  <2>6. SettledGood'  BY <2>1 DEF SettledGood, Ready
  <2> QED  BY <2>4, <2>5, <2>6 DEF ProgressInv
<1>10. CASE Crash
  <2>1. pc' = "idle" /\ queued' = eventing.present /\ UNCHANGED eventing
    BY <1>10 DEF Crash
  <2>2. SettledGood'  BY <2>1 DEF SettledGood, Settled, Ready
  <2> QED  BY <2>1, <2>2 DEF ProgressInv, Branch, Applied, Controlled, ReadySync
<1> QED  BY <1>3, <1>4, <1>5, <1>7, <1>8, <1>9, <1>10 DEF Environment

\* A reconciliation that starts: it has nothing to do only for a resource that is
\* gone or goes.
LEMMA ProgressReconcile ==
  ASSUME TypeInv, FinalizerInv, ProgressInv, Reconcile
  PROVE  ProgressInv'
<1>1. ASSUME NEW st, NEW step, Fetch(st, step),
             step \in {"addFinalizer", "removeFinalizer", "checkSubscriptions", "switch"}
      PROVE  ProgressInv'
  BY <1>1, EarlyProgress DEF Fetch, Branch
<1>2. CASE ReconcileNothing
  <2>1. /\ pc' = "idle" /\ UNCHANGED eventing /\ ("cached" \in fresh' => "cached" \in fresh)
    BY <1>2 DEF ReconcileNothing, Fetch
  <2>2. "cached" \in fresh => ~Ready
    BY <1>2 DEF ReconcileNothing, FinalizerInv, CacheOK, Ready
  <2>3. SettledGood'  BY <2>1, <2>2 DEF SettledGood, Settled, Ready
  <2> QED  BY <2>1, <2>3 DEF ProgressInv, Branch, Applied, Controlled, ReadySync
<1>3. CASE ReconcileDeletion  BY <1>1, <1>3 DEF ReconcileDeletion
<1>4. CASE ReconcileNew  BY <1>1, <1>4 DEF ReconcileNew
<1>5. CASE ReconcileEmptyBackend
  <2>1. cached.status \in EventingStatus  BY DEF TypeInv, TypeOK, Eventing
  <2>2. WithEmptyBackend(InitStateProcessing(cached.status)).state = "Warning"
    BY <2>1, StatusTypes, ProblemStates
  <2>3. pc' = "sync" /\ current'.status.state = "Warning"
    BY <1>5, <2>2 DEF ReconcileEmptyBackend, Fetch
  <2> QED
    BY <2>3 DEF ProgressInv, Branch, Applied, Controlled, ReadySync, SettledGood, Settled
<1>6. CASE ReconcileBackend  BY <1>1, <1>6 DEF ReconcileBackend
<1> QED  BY <1>2, <1>3, <1>4, <1>5, <1>6 DEF Reconcile

\* The publisher with all its resources.
LEMMA AllDeployed ==
  ASSUME TypeOK
  PROVE  /\ DeployedProxy(5).deployment = DeploymentFor(current.spec)
         /\ DeployedProxy(5).resources = Resource
<1>1. proxy.resources \subseteq Resource  BY DEF TypeOK, Proxy
<1>2. /\ DeployOrder[1] = "ServiceAccount" /\ DeployOrder[2] = "ClusterRole"
      /\ DeployOrder[3] = "ClusterRoleBinding" /\ DeployOrder[4] = "Service"
      /\ DeployOrder[5] = "HPA"
  BY DEF DeployOrder
<1>3. Firsts(DeployOrder, 5) = Resource
  <2>1. 1..5 = {1, 2, 3, 4, 5}  OBVIOUS
  <2>2. Firsts(DeployOrder, 5) =
          {DeployOrder[1], DeployOrder[2], DeployOrder[3], DeployOrder[4], DeployOrder[5]}
    BY <2>1 DEF Firsts
  <2> QED  BY <1>2, <2>2 DEF Resource, ClusterScoped
<1> QED  BY <1>1, <1>3 DEF DeployedProxy

\* The status update ends a reconciliation. Where it leaves Ready in place, it is
\* that reconciliation that was Ready, or the request comes back, or somebody
\* changed the resource.
LEMMA ProgressSync ==
  ASSUME NoLostTerminalError, TypeInv, FinalizerInv, WorkInv, ProgressInv, SyncEventingStatus
  PROVE  ProgressInv'
<1> USE DEF resource, world, budget
<1>1. /\ pc = "sync" /\ pc' = "idle" /\ UNCHANGED <<cached, mgr, proxy>>
      /\ queued => queued'
  BY DEF SyncEventingStatus, Return
<1>2. SUFFICES SettledGood'
  BY <1>1 DEF ProgressInv, Branch, Applied, Controlled, ReadySync
<1>3. SUFFICES ASSUME Settled', Ready', eventing'.spec.type \in Backend
               PROVE  Good(eventing.spec)' 
  BY DEF SettledGood
<1>4. "cached" \in fresh' /\ ~queued'  BY <1>3 DEF Settled
<1>5. UNCHANGED <<eventing, fresh>>
  BY <1>4 DEF SyncEventingStatus, StatusSynced, StatusNotSynced, Write
<1>6. cached = eventing /\ current.spec = cached.spec
  BY <1>1, <1>4, <1>5 DEF FinalizerInv, CacheOK, WorkInv, CopyIsCached
<1>7. cached.present /\ cached.status.state = "Ready"  BY <1>3, <1>5, <1>6 DEF Ready
<1>8. ~StatusNotSynced \/ result # "terminal"
  <2>1. SUFFICES ASSUME StatusNotSynced, result = "terminal" PROVE FALSE
    OBVIOUS
  <2>2. "status" \notin FaultKinds
    BY <2>1 DEF NoLostTerminalError, WorkInv, TerminalOnlyInOutage
  <2> QED  BY <1>4, <1>5, <1>7, <2>1, <2>2 DEF StatusNotSynced, Fault
<1>9. StatusSynced
  BY <1>4, <1>8 DEF SyncEventingStatus, Return
<1>10. current.status.state = "Ready"
  BY <1>4, <1>7, <1>9 DEF StatusSynced, StatusIsEqual, Write
<1>11. Good(eventing.spec)  BY <1>1, <1>6, <1>10 DEF ProgressInv, ReadySync
<1> QED  BY <1>1, <1>5, <1>11 DEF Good, DeployedFor, Serves

\* The steps of the handlers.
LEMMA ProgressHandler ==
  ASSUME NoLostTerminalError, TypeInv, FinalizerInv, WorkInv, WorkInv', ProgressInv, HandlerStep
  PROVE  ProgressInv'
<1> USE DEF resource, world, budget
<1> DEFINE st == current.status
<1>1. TypeOK /\ st \in EventingStatus  BY DEF TypeInv, TypeOK
<1>2. Branch /\ Applied /\ Controlled  BY DEF ProgressInv
<1> HIDE DEF st
<1>e. "Error" \in State /\ "Warning" \in State  BY DEF State
<1>n. /\ WithNATSState(st, "Error").state # "Ready"
      /\ WithNATSState(st, "Warning").state # "Ready"
      /\ WithSubManagerState(st, "Error").state # "Ready"
      /\ WithSubManagerState(st, "Warning").state # "Ready"
      /\ WithDeletionErr(st, "Error").state # "Ready"
      /\ WithDeletionErr(st, "Warning").state # "Ready"
      /\ WithPublisherProxyErr(st).state # "Ready"
      /\ [WithPublisherProxyErr(st) EXCEPT !.publisherService = FALSE].state # "Ready"
      /\ WithProxyProcessing(st).state # "Ready"
  BY <1>1, <1>e, ProblemStates
<1>sync. ASSUME NEW s, NEW res, SyncStatus(s, res), s.state # "Ready" PROVE ProgressInv'
  BY <1>1, <1>sync, ProblemProgress
<1>same. current'.spec = current.spec  BY HandlerWork
<1>cont. ASSUME NEW s, NEW step, Continue(s, step),
                step \notin {"idle", "sync", "natsManager", "state", "proxy", "nats"},
                step \in {"eventMesh", "oauth", "oauthStatus", "eventMeshManager"} =>
                  current.spec.type = "EventMesh"
         PROVE  ProgressInv'
  <2>1. pc' = step  BY <1>cont DEF Continue
  <2> QED  BY <1>cont, <1>same, <2>1, EarlyProgress DEF Branch
<1>write. ASSUME fresh' = {}, pc' = "idle" PROVE ProgressInv'
  BY <1>write
  DEF ProgressInv, Branch, Applied, Controlled, ReadySync, SettledGood, Settled
<1>3. CASE AddFinalizer
  <2>1. (fresh' = {} /\ pc' = "idle") \/ Return(TRUE)
    BY <1>3 DEF AddFinalizer, Write, Return
  <2> QED  BY <1>write, <2>1, RetryProgress
<1>4. CASE NoSwitch
  <2>1. Continue(st, "activeBackend")  BY <1>4 DEF NoSwitch, st
  <2> QED  BY <1>cont, <2>1
<1>5. CASE StopPreviousBackend
  <2>1. pc' = "deleteProxy"  BY <1>5 DEF StopPreviousBackend
  <2> QED  BY <2>1, EarlyProgress DEF Branch
<1>6. CASE StopPreviousBackendFails
  <2>1. SyncStatus(WithSubManagerState(st, "Error"), "error")
    BY <1>6 DEF StopPreviousBackendFails, st
  <2> QED  BY <1>n, <1>sync, <2>1
<1>7. CASE DeleteProxyOfPreviousBackend
  <2>1. \/ Continue(st, "activeBackend")
        \/ SyncStatus(WithSubManagerState(st, "Error"), "error")
    BY <1>7 DEF DeleteProxyOfPreviousBackend, st
  <2> QED  BY <1>n, <1>sync, <1>cont, <2>1
<1>8. CASE SyncActiveBackend
  <2> DEFINE new == WithActiveBackend(st, current.spec.type)
             next == IF current.spec.type = "NATS" THEN "nats" ELSE "eventMesh"
  <2>1. current.spec.type \in Backend
    BY <1>8, BackendSpec DEF SyncActiveBackend, TypeInv, BackendStep
  <2>2. WithSubManagerState(new, "Error").state # "Ready"
    <3>1. new \in EventingStatus  BY <1>1, <2>1, StatusTypes
    <3> HIDE DEF new
    <3> QED  BY <1>e, <3>1, ProblemStates
  <2>3. Continue(new, next) \/ SyncStatus(WithSubManagerState(new, "Error"), "error")
    BY <1>8 DEF SyncActiveBackend, st
  <2> HIDE DEF new
  <2>4. ASSUME Continue(new, next) PROVE ProgressInv'
    <3>1. pc' = next  BY <2>4 DEF Continue
    <3>2. Branch'  BY <1>same, <2>1, <3>1 DEF Branch, Backend
    <3> QED  BY <3>1, <3>2, EarlyProgress
  <2> QED  BY <1>sync, <2>2, <2>3, <2>4
<1>9. CASE NATSLookupFails
  <2>1. \/ Return(TRUE) \/ SyncStatus(WithNATSState(st, "Error"), "error")
        \/ Continue(st, "natsModuleMissing")
    BY <1>9 DEF NATSLookupFails, st
  <2> QED  BY <1>n, <1>sync, <1>cont, <2>1, RetryProgress
<1>10. CASE NATSModuleMissing
  <2>1. SyncStatus(WithNATSState(st, "Warning"), "error") \/ Return(TRUE)
    BY <1>10 DEF NATSModuleMissing, st
  <2> QED  BY <1>n, <1>sync, <2>1, RetryProgress
<1>11. CASE ConnectToNATS
  <2>1. /\ pc = "nats"
        /\ \/ pc' = "proxy"
           \/ \E res : SyncStatus(WithNATSState(st, "Warning"), res)
    BY <1>11 DEF ConnectToNATS, Continue, st
  <2>2. current'.spec.type = "NATS"  BY <1>2, <1>same, <2>1 DEF Branch
  <2>3. ASSUME pc' = "proxy" PROVE ProgressInv'
    BY <2>2, <2>3
    DEF ProgressInv, Branch, Applied, Controlled, ReadySync, SettledGood, Settled
  <2> QED  BY <1>n, <1>sync, <2>1, <2>3
<1>12. CASE ReconcileNATSSubManager
  <2> DEFINE m == PreparedNATSManager
  <2>1. pc = "natsManager" /\ UNCHANGED proxy  BY <1>12 DEF ReconcileNATSSubManager
  <2>2. /\ current.spec.type = "NATS" /\ proxy.resources = Resource
        /\ proxy.deployment = DeploymentFor(current.spec)
    BY <1>2, <2>1 DEF Branch, Applied
  <2>3. \/ pc' = "state" /\ mgr'["NATS"].started
        \/ SyncStatus(WithNATSState(st, "Error"), "error")
    <3>1. m \in Manager  BY <2>1, PreparedNATS
    <3>2. StartSubManager(m, NoCreds).started  BY <3>1 DEF StartSubManager, Manager
    <3> HIDE DEF m
    <3>3. \/ pc' = "state" /\ m.started /\ mgr' = [mgr EXCEPT !["NATS"] = m]
          \/ /\ pc' = "state"
             /\ mgr' = [mgr EXCEPT !["NATS"] = StartSubManager(m, NoCreds)]
          \/ SyncStatus(WithNATSState(st, "Error"), "error")
      BY <1>12 DEF ReconcileNATSSubManager, Continue, m, st
    <3> QED  BY <1>1, <3>2, <3>3 DEF TypeOK, Backend
  <2>4. ASSUME pc' = "state", mgr'["NATS"].started PROVE ProgressInv'
    <3>1. Serves(current.spec)'
      BY <1>same, <2>2, <2>4 DEF WorkInv, StartedRuns, Serves, Backend
    <3> QED
      BY <1>same, <2>1, <2>2, <2>4, <3>1
      DEF ProgressInv, Branch, Applied, Controlled, ReadySync, SettledGood, Settled,
          DeploymentFor
  <2> QED  BY <1>n, <1>sync, <2>3, <2>4
<1>13. CASE ReconcileEventMeshBackend
  <2>1. /\ pc = "eventMesh"
        /\ \/ Continue(st, "oauth")
           \/ SyncStatus(WithSubManagerState(st, "Error"), "error")
           \/ SyncStatus(WithSubManagerState(st, "Warning"), "error")
    BY <1>13 DEF ReconcileEventMeshBackend, st
  <2>2. current.spec.type = "EventMesh"  BY <1>2, <2>1 DEF Branch
  <2> QED  BY <1>n, <1>sync, <1>cont, <2>1, <2>2
<1>14. CASE SyncOauth2ClientIDAndSecret
  <2>1. /\ pc = "oauth"
        /\ \/ pc' \in {"eventMeshManager", "oauthStatus"}
           \/ SyncStatus(WithSubManagerState(st, "Error"), "error")
    BY <1>14 DEF SyncOauth2ClientIDAndSecret, Continue, st
  <2>2. current'.spec.type = "EventMesh"  BY <1>2, <1>same, <2>1 DEF Branch
  <2>3. ASSUME pc' \in {"eventMeshManager", "oauthStatus"} PROVE ProgressInv'
    BY <2>2, <2>3, EarlyProgress DEF Branch
  <2> QED  BY <1>n, <1>sync, <2>1, <2>3
<1>15. CASE SyncOauth2Status
  <2>1. /\ pc = "oauthStatus"
        /\ \/ Continue(st, "eventMeshManager")
           \/ SyncStatus(WithSubManagerState(st, "Error"), "error")
    BY <1>15 DEF SyncOauth2Status, st
  <2>2. current.spec.type = "EventMesh"  BY <1>2, <2>1 DEF Branch
  <2> QED  BY <1>n, <1>sync, <1>cont, <2>1, <2>2
<1>16. CASE ReconcileEventMeshSubManager
  <2> DEFINE m == PreparedEventMeshManager
  <2>1. pc = "eventMeshManager"  BY <1>16 DEF ReconcileEventMeshSubManager
  <2>2. current'.spec.type = "EventMesh"  BY <1>2, <1>same, <2>1 DEF Branch
  <2>3. \/ pc' = "proxy" /\ mgr'["EventMesh"].started
        \/ SyncStatus(WithSubManagerState(st, "Error"), "error")
        \/ SyncStatus(WithSubManagerState(st, "Warning"), "error")
    <3>1. m \in Manager  BY <2>1, PreparedEventMesh
    <3>2. StartedEventMeshManager(m).started
      <4> HIDE DEF m
      <4> QED  BY <3>1 DEF StartedEventMeshManager, StartSubManager, Manager
    <3> HIDE DEF m
    <3>3. \/ pc' = "proxy" /\ m.started /\ mgr' = [mgr EXCEPT !["EventMesh"] = m]
          \/ /\ pc' = "proxy"
             /\ mgr' = [mgr EXCEPT !["EventMesh"] = StartedEventMeshManager(m)]
          \/ SyncStatus(WithSubManagerState(st, "Error"), "error")
          \/ SyncStatus(WithSubManagerState(st, "Warning"), "error")
      BY <1>16 DEF ReconcileEventMeshSubManager, Continue, m, st
    <3> QED  BY <1>1, <3>2, <3>3 DEF TypeOK, Backend
  <2>4. ASSUME pc' = "proxy", mgr'["EventMesh"].started PROVE ProgressInv'
    <3>1. Serves(current.spec)'
      BY <2>2, <2>4 DEF WorkInv, StartedRuns, Serves, Backend
    <3> QED
      BY <2>4, <3>1
      DEF ProgressInv, Branch, Applied, Controlled, ReadySync, SettledGood, Settled
  <2> QED  BY <1>n, <1>sync, <2>3, <2>4
<1>17. CASE HandlePublisherProxy
  <2> DEFINE next == IF current.spec.type = "NATS" THEN "natsManager" ELSE "state"
  <2>1. /\ pc = "proxy" /\ UNCHANGED mgr
        /\ \/ pc' = next /\ proxy' = DeployedProxy(5)
           \/ SyncStatus(WithPublisherProxyErr(st), "error")
    BY <1>17, ProxyTypes DEF HandlePublisherProxy, Continue, TypeInv, st
  <2>2. current.spec.type \in Backend
    BY <2>1, BackendSpec DEF TypeInv, BackendStep
  <2>3. ASSUME pc' = next, proxy' = DeployedProxy(5) PROVE ProgressInv'
    <3>1. Branch'  BY <1>same, <2>3 DEF Branch
    <3>2. Applied'
      BY <1>1, <1>same, <2>3, AllDeployed DEF Applied, DeploymentFor
    <3>3. Controlled'
      BY <1>2, <1>same, <2>1, <2>2, <2>3 DEF Controlled, Serves, Backend
    <3> QED  BY <2>3, <3>1, <3>2, <3>3 DEF ProgressInv, ReadySync, SettledGood, Settled
  <2> QED  BY <1>n, <1>sync, <2>1, <2>3
<1>18. CASE HandleEventingState
  <2>1. /\ pc = "state" /\ UNCHANGED <<eventing, mgr, proxy>>
        /\ \/ proxy.ready /\ pc' = "sync"
           \/ SyncStatus(WithProxyProcessing(st), "requeue")
           \/ SyncStatus([WithPublisherProxyErr(st) EXCEPT !.publisherService = FALSE], "error")
           \/ Return(TRUE)
    BY <1>18 DEF HandleEventingState, SyncStatus, st
  <2>2. /\ proxy.deployment = DeploymentFor(current.spec) /\ proxy.resources = Resource
        /\ Serves(current.spec)
    BY <1>2, <2>1 DEF Applied, Controlled
  <2>3. Held /\ current.spec.type \in Backend
    BY <2>1, BackendSpec DEF FinalizerInv, BackendHeld, BackendStep, TypeInv
  <2>4. ASSUME proxy.ready, pc' = "sync" PROVE ProgressInv'
    <3>1. DeployedFor(current.spec)
      BY <1>1, <2>2, <2>4 DEF DeployedFor, TypeOK, Proxy
    <3>2. Good(current.spec)'
      BY <1>same, <2>1, <2>2, <3>1 DEF Good, DeployedFor, DeploymentFor, Serves
    <3>3. Held' /\ current'.spec.type \in Backend  BY <1>same, <2>1, <2>3 DEF Held
    <3> QED
      BY <2>4, <3>2, <3>3
      DEF ProgressInv, Branch, Applied, Controlled, ReadySync, SettledGood, Settled
  <2> QED  BY <1>n, <1>sync, <2>1, <2>4, RetryProgress
<1>19. CASE SyncEventingStatus  BY <1>19, ProgressSync
<1>20. CASE CheckSubscriptions
  <2>1. \/ Continue(st, "stopManager")
        \/ SyncStatus(WithDeletionErr(st, "Warning"), "error")
        \/ SyncStatus(WithDeletionErr(st, "Error"), "error")
    BY <1>20 DEF CheckSubscriptions, st
  <2> QED  BY <1>n, <1>sync, <1>cont, <2>1
<1>21. CASE StopManagerForDeletion
  <2>1. \/ \E s : Continue(s, "deleteRoles")
        \/ SyncStatus(WithNATSState(st, "Error"), "error")
        \/ SyncStatus(WithSubManagerState(st, "Error"), "error")
    BY <1>21 DEF StopManagerForDeletion, st
  <2> QED  BY <1>n, <1>sync, <1>cont, <2>1
<1>22. CASE DeleteClusterScopedResources
  <2>1. \/ \E s : Continue(s, "removeFinalizer")
        \/ SyncStatus(WithPublisherProxyErr(st), "error")
    BY <1>22 DEF DeleteClusterScopedResources, st
  <2> QED  BY <1>n, <1>sync, <1>cont, <2>1
<1>23. CASE RemoveFinalizer
  <2>1. (fresh' = {} /\ pc' = "idle") \/ Return(TRUE)
    BY <1>23 DEF RemoveFinalizer, Write, Return
  <2> QED  BY <1>write, <2>1, RetryProgress
<1> QED
  BY <1>3, <1>4, <1>5, <1>6, <1>7, <1>8, <1>9, <1>10, <1>11, <1>12, <1>13, <1>14, <1>15,
     <1>16, <1>17, <1>18, <1>19, <1>20, <1>21, <1>22, <1>23
  DEF HandlerStep

\* Spec keeps ProgressInv where an outage and failing status updates do not meet.
LEMMA ProgressInvAlways ==
  ASSUME NoLostTerminalError
  PROVE  Spec => []ProgressInv
<1>1. Init => ProgressInv
  BY DEF Init, NoEventing, ProgressInv, Branch, Applied, Controlled, ReadySync, SettledGood,
         Settled, Ready
<1>2. TypeInv /\ FinalizerInv /\ WorkInv /\ WorkInv' /\ ProgressInv /\ [Next]_vars
      => ProgressInv'
  <2> SUFFICES ASSUME TypeInv, FinalizerInv, WorkInv, WorkInv', ProgressInv, [Next]_vars
               PROVE  ProgressInv'
    OBVIOUS
  <2>1. CASE UNCHANGED vars
    <3>1. Settled' = Settled /\ Ready' = Ready /\ Held' = Held
      BY <2>1 DEF vars, resource, Settled, Ready, Held
    <3> QED
      BY <2>1, <3>1
      DEF vars, resource, ProgressInv, Branch, Applied, Controlled, ReadySync, SettledGood,
          Good, DeployedFor, Serves
  <2> QED
    BY <2>1, ProgressEnvironment, ProgressReconcile, ProgressHandler DEF Next
<1> QED  BY <1>1, <1>2, WorkInvAlways, FinalizerInvAlways, TypeInvAlways, PTL DEF Spec

(***************************************************************************)
(* Ready means the publisher is deployed for the backend and configuration *)
(* of the spec, available and complete: whatever calls fail, whenever the  *)
(* user edits, switches the backend or deletes, and after any restart      *)
(* (handlePublisherProxy, handleEventingState and syncEventingStatus). The *)
(* hypothesis leaves out the one case the code misses: a terminal error of *)
(* a NATS outage whose status update fails is not retried.                 *)
(***************************************************************************)
THEOREM ReadyDeployed ==
  ASSUME NoLostTerminalError
  PROVE  Spec => []ReadyMeansPublisherDeployed
<1>1. ProgressInv => ReadyMeansPublisherDeployed
  BY DEF ProgressInv, SettledGood, Good, DeployedFor, ReadyMeansPublisherDeployed
<1> QED  BY <1>1, ProgressInvAlways, PTL

(***************************************************************************)
(* Ready means the subscription controller of the backend runs, provided   *)
(* that Stop of a manager does not fail: the started flag the Reconciler   *)
(* trusts then goes with a controller that is alive.                       *)
(***************************************************************************)
THEOREM ReadyServes ==
  ASSUME NoLostTerminalError, "stop" \notin FaultKinds
  PROVE  Spec => []ReadyMeansControllerRuns
<1>1. ProgressInv => ReadyMeansControllerRuns
  BY DEF ProgressInv, SettledGood, Good, Serves, ReadyMeansControllerRuns
<1> QED  BY <1>1, ProgressInvAlways, PTL

=============================================================================
