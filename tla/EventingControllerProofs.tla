---------------------- MODULE EventingControllerProofs ----------------------
(***************************************************************************)
(* Theorems about EventingController, for every value of its constants.    *)
(***************************************************************************)
EXTENDS EventingController, TLAPS

-----------------------------------------------------------------------------
(***************************************************************************)
(* The status helpers keep the type of a status.                           *)
(***************************************************************************)

\* Every helper that sets a part of the status returns a status.
LEMMA StatusTypes ==
  ASSUME NEW st \in EventingStatus
  PROVE  /\ InitStateProcessing(st) \in EventingStatus
         /\ WithEmptyBackend(st) \in EventingStatus
         /\ WithPublisherProxyErr(st) \in EventingStatus
         /\ [WithPublisherProxyErr(st) EXCEPT !.publisherService = FALSE] \in EventingStatus
         /\ WithSwitchedBackend(st) \in EventingStatus
         /\ WithBackendAvailable(st) \in EventingStatus
         /\ WithSubManagerReady(st) \in EventingStatus
         /\ WithProxyProcessing(st) \in EventingStatus
         /\ WithProxyReady(st) \in EventingStatus
         /\ \A s \in State : /\ WithNATSState(st, s) \in EventingStatus
                             /\ WithSubManagerState(st, s) \in EventingStatus
                             /\ WithDeletionErr(st, s) \in EventingStatus
         /\ \A b \in Backend : WithActiveBackend(st, b) \in EventingStatus
         /\ \A h \in Hash : [st EXCEPT !.specHash = h] \in EventingStatus
         /\ \A c \in ConditionType : UpdateCondition(st, c, "False") \in EventingStatus
<1> USE DEF EventingStatus, State, ConditionType, ConditionStatus, UpdateCondition, SetState
<1>1. InitStateProcessing(st) \in EventingStatus  BY DEF InitStateProcessing
<1>2. WithEmptyBackend(st) \in EventingStatus  BY DEF WithEmptyBackend
<1>3. WithPublisherProxyErr(st) \in EventingStatus  BY DEF WithPublisherProxyErr
<1>4. [WithPublisherProxyErr(st) EXCEPT !.publisherService = FALSE] \in EventingStatus
  BY <1>3
<1>5. WithSwitchedBackend(st) \in EventingStatus  BY DEF WithSwitchedBackend, NoConditions
<1>6. WithBackendAvailable(st) \in EventingStatus  BY DEF WithBackendAvailable
<1>7. WithSubManagerReady(st) \in EventingStatus  BY DEF WithSubManagerReady
<1>8. WithProxyProcessing(st) \in EventingStatus  BY DEF WithProxyProcessing
<1>9. WithProxyReady(st) \in EventingStatus  BY DEF WithProxyReady
<1>10. \A s \in State : WithNATSState(st, s) \in EventingStatus  BY DEF WithNATSState
<1>11. \A s \in State : WithSubManagerState(st, s) \in EventingStatus
  BY DEF WithSubManagerState
<1>12. \A s \in State : WithDeletionErr(st, s) \in EventingStatus  BY DEF WithDeletionErr
<1>13. \A b \in Backend : WithActiveBackend(st, b) \in EventingStatus
  BY DEF WithActiveBackend
<1>14. \A h \in Hash : [st EXCEPT !.specHash = h] \in EventingStatus  OBVIOUS
<1>15. \A c \in ConditionType : UpdateCondition(st, c, "False") \in EventingStatus  OBVIOUS
<1> HIDE DEF EventingStatus, State, ConditionType, ConditionStatus, UpdateCondition, SetState
<1> QED  BY <1>1, <1>2, <1>3, <1>4, <1>5, <1>6, <1>7, <1>8, <1>9, <1>10, <1>11, <1>12,
            <1>13, <1>14, <1>15

\* So is the status a new resource starts with.
LEMMA NewStatusType == NewStatus \in EventingStatus
BY DEF NewStatus, NoConditions, NoHash, Hash, EventingStatus, State, ConditionStatus

-----------------------------------------------------------------------------
(***************************************************************************)
(* Subscription managers.                                                  *)
(***************************************************************************)

\* The controller of a manager is alive exactly while its context runs, only a
\* started manager runs, and a started manager is not nil.
ManagerOK(m) ==
  /\ m.live = IF m.running THEN 1 ELSE 0
  /\ m.running => m.started
  /\ m.started => m.cfg # NoConfig

\* Stopping leaves a manager that neither runs nor counts as started.
LEMMA StopManager ==
  ASSUME NEW m \in Manager, ManagerOK(m)
  PROVE  /\ StopSubManager(m) \in Manager
         /\ ManagerOK(StopSubManager(m))
         /\ ~StopSubManager(m).started /\ ~StopSubManager(m).running
         /\ StopSubManager(m).cfg \in {NoConfig, m.cfg}
<1> DEFINE n == StopSubManager(m)
           left == IF m.running THEN m.live - 1 ELSE m.live
<1>1. CASE m.cfg = NoConfig \/ ~m.started
  BY <1>1 DEF StopSubManager, ManagerOK
<1>2. CASE ~(m.cfg = NoConfig \/ ~m.started)
  <2>1. left = 0  BY DEF Manager, ManagerOK
  <2>2. n = [NoManager EXCEPT !.live = left]  BY <1>2 DEF StopSubManager
  <2> HIDE DEF n, left
  <2>3. n \in Manager  BY <2>1, <2>2 DEF NoManager, Manager
  <2>4. n.cfg = NoConfig /\ ~n.started /\ ~n.running /\ n.live = 0
    BY <2>1, <2>2 DEF NoManager
  <2>5. ManagerOK(n)  BY <2>4 DEF ManagerOK
  <2> QED  BY <2>3, <2>4, <2>5 DEF n
<1> QED  BY <1>1, <1>2

\* A failed Stop leaves the flags but no controller.
LEMMA StopManagerFailed ==
  ASSUME NEW m \in Manager, ManagerOK(m)
  PROVE  /\ StopSubManagerFailed(m) \in Manager
         /\ ManagerOK(StopSubManagerFailed(m))
         /\ ~StopSubManagerFailed(m).running
<1> DEFINE n == StopSubManagerFailed(m)
           left == IF m.running THEN m.live - 1 ELSE m.live
<1>1. left = 0  BY DEF Manager, ManagerOK
<1>2. n = [m EXCEPT !.running = FALSE, !.live = left]  BY DEF StopSubManagerFailed
<1> HIDE DEF n, left
<1>3. n \in Manager  BY <1>1, <1>2 DEF Manager
<1>4. n.cfg = m.cfg /\ n.started = m.started /\ n.running = FALSE /\ n.live = 0
  BY <1>1, <1>2 DEF Manager
<1>5. ManagerOK(n)  BY <1>4 DEF ManagerOK
<1> QED  BY <1>3, <1>4, <1>5 DEF n

\* Starting a manager that is not started gives it its one controller.
LEMMA StartManager ==
  ASSUME NEW m \in Manager, ManagerOK(m), ~m.started, m.cfg # NoConfig,
         NEW c \in Creds \cup {NoCreds}
  PROVE  /\ StartSubManager(m, c) \in Manager
         /\ ManagerOK(StartSubManager(m, c))
         /\ StartSubManager(m, c).creds = c
<1> DEFINE n == StartSubManager(m, c)
<1>1. m.live = 0  BY DEF ManagerOK
<1>2. n = [m EXCEPT !.started = TRUE, !.running = TRUE, !.creds = c, !.live = 1]
  BY <1>1 DEF StartSubManager
<1> HIDE DEF n
<1>3. n \in Manager  BY <1>2 DEF Manager
<1>4. n.cfg = m.cfg /\ n.started /\ n.running /\ n.creds = c /\ n.live = 1
  BY <1>2 DEF Manager
<1>5. ManagerOK(n)  BY <1>4 DEF ManagerOK
<1> QED  BY <1>3, <1>4, <1>5 DEF n

-----------------------------------------------------------------------------
(***************************************************************************)
(* The type invariant. TypeOK is not inductive: the number of live         *)
(* controllers stays a natural number only because a manager that runs has *)
(* one, and a deployment has a backend only because the handlers that      *)
(* deploy run for a specification that names one.                          *)
(***************************************************************************)

ManagersOK == \A b \in Backend : ManagerOK(mgr[b])

\* The steps of a reconciliation that run for a backend.
BackendStep ==
  {"switch", "deleteProxy", "activeBackend", "nats", "natsModuleMissing",
   "natsManager", "eventMesh", "oauth", "oauthStatus", "eventMeshManager",
   "proxy", "state"}

HandlesBackend == pc \in BackendStep => current.spec.type \in Backend

TypeInv == TypeOK /\ ManagersOK /\ HandlesBackend

\* A specification that names a backend carries a configuration of it, and the
\* deployment for it is a hash.
LEMMA SpecOfBackend ==
  ASSUME NEW sp \in Spec_, sp.type \in Backend
  PROVE  /\ sp.cfg \in Config /\ sp.cfg # NoConfig
         /\ DeploymentFor(sp) \in Hash /\ DeploymentFor(sp) # NoHash
<1>1. NoSpec.type \notin Backend  BY DEF NoSpec, Backend
<1>2. sp \in [type : Backend \cup {""}, cfg : Config]
  BY <1>1 DEF Spec_
<1>3. sp.cfg \in Config  BY <1>2
<1> QED  BY <1>3, NoConfigAssumption DEF DeploymentFor, Hash, NoHash, Backend

\* A specification whose backend is not empty names one.
LEMMA SpecNotEmpty ==
  ASSUME NEW sp \in Spec_, ~HasEmptyBackend(sp)
  PROVE  sp.type \in Backend
<1>1. HasEmptyBackend(NoSpec)  BY DEF HasEmptyBackend, NoSpec
<1>2. sp \in [type : Backend \cup {""}, cfg : Config]  BY <1>1 DEF Spec_
<1> QED  BY <1>2 DEF HasEmptyBackend

\* The handlers of a backend work on such a specification.
LEMMA BackendSpec ==
  ASSUME TypeOK, HandlesBackend, pc \in BackendStep
  PROVE  /\ current.spec.type \in Backend /\ current.spec \in Spec_
         /\ current.spec.cfg \in Config /\ current.spec.cfg # NoConfig
         /\ DeploymentFor(current.spec) \in Hash /\ DeploymentFor(current.spec) # NoHash
<1>1. current.spec \in Spec_  BY DEF TypeOK
<1> QED  BY <1>1, SpecOfBackend DEF HandlesBackend

\* A manager prepared for NATS is of the right type and not nil; it counts as
\* started only if the recorded hash is that of the specification.
LEMMA PreparedNATS ==
  ASSUME TypeInv, pc = "natsManager"
  PROVE  /\ PreparedNATSManager \in Manager
         /\ ManagerOK(PreparedNATSManager)
         /\ PreparedNATSManager.cfg # NoConfig
         /\ PreparedNATSManager.started => current.status.specHash = NATSHash
<1> DEFINE m == mgr["NATS"]
           dropped == [m EXCEPT !.cfg = NoConfig]
           kept == IF current.status.specHash = NATSHash THEN m
                   ELSE IF m.started THEN StopSubManager(m)
                   ELSE dropped
           built == [kept EXCEPT !.cfg = current.spec.cfg]
<1>1. m \in Manager /\ ManagerOK(m)
  BY DEF TypeInv, TypeOK, ManagersOK, Backend
<1>2. current.spec.cfg \in Config /\ current.spec.cfg # NoConfig
  BY BackendSpec DEF TypeInv, BackendStep
<1>3. PreparedNATSManager = IF kept.cfg = NoConfig THEN built ELSE kept
  BY DEF PreparedNATSManager
<1>4. /\ kept \in Manager /\ ManagerOK(kept)
      /\ kept.started => current.status.specHash = NATSHash
  <2>1. ~m.started => dropped \in Manager /\ ManagerOK(dropped) /\ ~dropped.started
    <3> HIDE DEF m
    <3> QED  BY <1>1 DEF Manager, ManagerOK
  <2> HIDE DEF m, dropped
  <2> QED  BY <1>1, <2>1, StopManager
<1> HIDE DEF kept
<1>5. kept.cfg = NoConfig => ~kept.started  BY <1>4 DEF ManagerOK
<1>6. /\ built \in Manager /\ built.cfg = current.spec.cfg
      /\ built.started = kept.started /\ built.running = kept.running
      /\ built.live = kept.live
  BY <1>2, <1>4 DEF Manager
<1> HIDE DEF built
<1>7. ManagerOK(built)  BY <1>2, <1>4, <1>6 DEF ManagerOK
<1> QED  BY <1>2, <1>3, <1>4, <1>5, <1>6, <1>7

\* The same for EventMesh; a manager that still counts as started is the old one.
LEMMA PreparedEventMesh ==
  ASSUME TypeInv, pc = "eventMeshManager"
  PROVE  /\ PreparedEventMeshManager \in Manager
         /\ ManagerOK(PreparedEventMeshManager)
         /\ PreparedEventMeshManager.cfg \in Config
         /\ PreparedEventMeshManager.started =>
              /\ current.status.specHash = EventMeshHash
              /\ PreparedEventMeshManager = mgr["EventMesh"]
<1> DEFINE m == mgr["EventMesh"]
           kept == IF current.status.specHash = EventMeshHash THEN m ELSE StopSubManager(m)
           built == [kept EXCEPT !.cfg = current.spec.cfg]
<1>1. m \in Manager /\ ManagerOK(m)
  BY DEF TypeInv, TypeOK, ManagersOK, Backend
<1>2. current.spec.cfg \in Config /\ current.spec.cfg # NoConfig
  BY BackendSpec DEF TypeInv, BackendStep
<1>3. PreparedEventMeshManager = IF kept.cfg = NoConfig THEN built ELSE kept
  BY DEF PreparedEventMeshManager
<1>4. /\ kept \in Manager /\ ManagerOK(kept)
      /\ kept.started => current.status.specHash = EventMeshHash /\ kept = m
  <2> HIDE DEF m
  <2> QED  BY <1>1, StopManager
<1> HIDE DEF kept, m
<1>5. kept.cfg = NoConfig => ~kept.started  BY <1>4 DEF ManagerOK
<1>6. /\ built \in Manager /\ built.cfg = current.spec.cfg
      /\ built.started = kept.started /\ built.running = kept.running
      /\ built.live = kept.live
  BY <1>2, <1>4 DEF Manager
<1> HIDE DEF built
<1>7. ManagerOK(built)  BY <1>2, <1>4, <1>6 DEF ManagerOK
<1>8. kept.cfg # NoConfig => kept.cfg \in Config  BY <1>4 DEF Manager
<1> QED  BY <1>2, <1>3, <1>4, <1>5, <1>6, <1>7, <1>8 DEF m

\* What the blocks of the handlers change has the right type.
HandlerOK ==
  /\ current \in [spec : Spec_, status : EventingStatus, creds : Creds \cup {NoCreds}]
  /\ result \in {"done", "requeue", "error", "terminal"}
  /\ pc \in Step /\ queued \in BOOLEAN
  /\ HandlesBackend

\* A handler that goes on to sync the status.
LEMMA SyncStatusOK ==
  ASSUME HandlerOK, NEW st \in EventingStatus, NEW res \in {"done", "requeue", "error", "terminal"},
         SyncStatus(st, res)
  PROVE  HandlerOK'
BY DEF HandlerOK, SyncStatus, Step, HandlesBackend, BackendStep

\* A handler that goes on to its next step, for the same specification.
LEMMA ContinueOK ==
  ASSUME HandlerOK, NEW st \in EventingStatus, NEW step \in Step, Continue(st, step),
         step \in BackendStep => pc \in BackendStep
  PROVE  HandlerOK'
BY DEF HandlerOK, Continue, HandlesBackend

\* A handler that returns.
LEMMA ReturnOK ==
  ASSUME HandlerOK, NEW again, Return(again)
  PROVE  HandlerOK'
BY DEF HandlerOK, Return, Step, HandlesBackend, BackendStep

\* A reconciliation that starts with the copy in the cache.
LEMMA FetchOK ==
  ASSUME TypeOK, NEW st \in EventingStatus, NEW step \in Step, Fetch(st, step),
         step \in BackendStep => cached.spec.type \in Backend
  PROVE  HandlerOK'
<1>1. cached.spec \in Spec_  BY DEF TypeOK, Eventing
<1> QED  BY <1>1 DEF HandlerOK, Fetch, HandlesBackend

\* Deleting and deploying the publisher, wholly or in part, keep its type.
LEMMA ProxyTypes ==
  ASSUME TypeOK, HandlesBackend
  PROVE  /\ \A n \in 0..4 : DeletedProxy(n) \in Proxy
         /\ pc \in BackendStep => \A n \in 0..5 : DeployedProxy(n) \in Proxy
         /\ Len(DeployOrder) = 5
<1>1. Len(DeployOrder) = 5  BY DEF DeployOrder
<1>2. ASSUME NEW n \in 0..4 PROVE DeletedProxy(n) \in Proxy
  BY DEF DeletedProxy, Proxy, TypeOK, Hash
<1>3. ASSUME NEW n \in 0..5, pc \in BackendStep PROVE DeployedProxy(n) \in Proxy
  <2>1. Firsts(DeployOrder, n) \subseteq Resource
    BY DEF Firsts, DeployOrder, Resource, ClusterScoped
  <2>2. DeploymentFor(current.spec) \in Hash  BY <1>3, BackendSpec
  <2>3. proxy.ready \in BOOLEAN /\ proxy.resources \subseteq Resource  BY DEF TypeOK, Proxy
  <2> QED  BY <2>1, <2>2, <2>3 DEF DeployedProxy, Proxy
<1> QED  BY <1>1, <1>2, <1>3

\* Connecting and disconnecting keep the type of the connection.
LEMMA ConnectionTypes ==
  ASSUME NEW c \in NatsConn
  PROVE  /\ Disconnected(c) \in NatsConn
         /\ \A st \in {"nil", "connected", "reconnecting"} : Connected(c, st) \in NatsConn
<1>1. /\ c.state \in {"nil", "connected", "reconnecting", "closed"}
      /\ c.handlers \in {"none", "current", "replaced", "closed"}
  BY DEF NatsConn
<1>2. Disconnected(c) \in NatsConn  BY <1>1 DEF Disconnected, NatsConn
<1>3. ASSUME NEW st \in {"nil", "connected", "reconnecting"}
      PROVE  Connected(c, st) \in NatsConn
  BY <1>1 DEF Connected, NatsConn
<1> QED  BY <1>2, <1>3

\* TypeInv is inductive.
LEMMA TypeInvStep == TypeInv /\ [Next]_vars => TypeInv'
<1> SUFFICES ASSUME TypeOK, ManagersOK, HandlesBackend, [Next]_vars
             PROVE  TypeOK' /\ ManagersOK' /\ HandlesBackend'
  BY DEF TypeInv
<1> USE DEF vars, resource, world, budget
<1> DEFINE Goal == TypeOK' /\ ManagersOK' /\ HandlesBackend'
<1>1. current.status \in EventingStatus /\ cached.status \in EventingStatus
  BY DEF TypeOK, Eventing
<1>2. HandlerOK  BY DEF TypeOK, HandlerOK
<1>3. NoEventing \in Eventing  BY NewStatusType DEF NoEventing, Eventing, Spec_
<1>4. \A b \in Backend : mgr[b] \in Manager /\ ManagerOK(mgr[b])
  BY DEF TypeOK, ManagersOK
<1>5. ASSUME NEW b \in Backend, NEW m \in Manager, ManagerOK(m), mgr' = [mgr EXCEPT ![b] = m]
      PROVE  mgr' \in [Backend -> Manager] /\ ManagersOK'
  BY <1>5 DEF TypeOK, ManagersOK
<1>6. mgr' = mgr => mgr' \in [Backend -> Manager] /\ ManagersOK'
  BY DEF TypeOK, ManagersOK
<1>7. ASSUME NEW kind, Fault(kind) PROVE faults' \in 0..MaxFaults
  BY <1>7, BoundsAssumption DEF Fault, TypeOK
<1>8. CASE InformerSync
  <2>1. TypeOK'
    BY <1>8 DEF InformerSync, TypeOK
  <2> QED  BY <2>1, <1>8 DEF InformerSync, ManagersOK, HandlesBackend
<1>9. CASE WatchEvent
  <2>1. TypeOK'
    BY <1>9 DEF WatchEvent, TypeOK
  <2> QED  BY <2>1, <1>9 DEF WatchEvent, ManagersOK, HandlesBackend
<1>10. CASE CreateEventing
  <2>0. eventing' \in Eventing
    <3>1. PICK sp \in Spec_ : eventing' = [NoEventing EXCEPT !.present = TRUE, !.spec = sp]
      BY <1>10 DEF CreateEventing, Write
    <3> QED  BY <3>1, <1>3 DEF Eventing
  <2>1. TypeOK'
    BY <1>10, <2>0, BoundsAssumption DEF CreateEventing, Edit, Write, TypeOK
  <2> QED  BY <2>1, <1>10 DEF CreateEventing, Edit, ManagersOK, HandlesBackend
<1>11. CASE EditBackend
  <2>1. TypeOK'
    BY <1>11, BoundsAssumption DEF EditBackend, Edit, Write, TypeOK, Eventing
  <2> QED  BY <2>1, <1>11 DEF EditBackend, Edit, ManagersOK, HandlesBackend
<1>12. CASE DeleteEventing
  <2>0. eventing' \in Eventing
    BY <1>12, <1>3 DEF DeleteEventing, Write, TypeOK, Eventing
  <2>1. TypeOK'
    BY <1>12, <2>0, BoundsAssumption DEF DeleteEventing, Edit, Write, TypeOK
  <2> QED  BY <2>1, <1>12 DEF DeleteEventing, Edit, ManagersOK, HandlesBackend
<1>13. CASE ChangeSubscriptions
  <2>1. TypeOK'
    BY <1>13, BoundsAssumption DEF ChangeSubscriptions, Edit, TypeOK
  <2> QED  BY <2>1, <1>13 DEF ChangeSubscriptions, Edit, ManagersOK, HandlesBackend
<1>14. CASE ChangeOauthSecret
  <2>1. TypeOK'
    BY <1>14, BoundsAssumption DEF ChangeOauthSecret, Edit, TypeOK
  <2> QED  BY <2>1, <1>14 DEF ChangeOauthSecret, Edit, ManagersOK, HandlesBackend
<1>15. CASE DeploymentAvailable
  <2>1. TypeOK'
    BY <1>15 DEF DeploymentAvailable, TypeOK, Proxy
  <2> QED  BY <2>1, <1>15 DEF DeploymentAvailable, ManagersOK, HandlesBackend
<1>16. CASE GarbageCollect
  <2>1. TypeOK'
    BY <1>16 DEF GarbageCollect, TypeOK, Proxy, NoProxy, Hash
  <2> QED  BY <2>1, <1>16 DEF GarbageCollect, ManagersOK, HandlesBackend
<1>17. CASE NatsDown
  <2>1. TypeOK'
    BY <1>17, <1>7 DEF NatsDown, HandlersAlive, TypeOK, NatsConn
  <2> QED  BY <2>1, <1>17 DEF NatsDown, ManagersOK, HandlesBackend
<1>18. CASE NatsBack
  <2>1. TypeOK'
    BY <1>18 DEF NatsBack, HandlersAlive, TypeOK, NatsConn
  <2> QED  BY <2>1, <1>18 DEF NatsBack, ManagersOK, HandlesBackend
<1>19. CASE Crash
  <2>1. NoCurrent \in [spec : Spec_, status : EventingStatus, creds : Creds \cup {NoCreds}]
    BY NewStatusType DEF NoCurrent, Spec_
  <2>2. NoManager \in Manager /\ ManagerOK(NoManager)
    BY DEF NoManager, Manager, ManagerOK
  <2>3. mgr' \in [Backend -> Manager] /\ ManagersOK'
    BY <1>19, <2>2 DEF Crash, ManagersOK
  <2>4. crashes' \in 0..MaxCrashes  BY <1>19, BoundsAssumption DEF Crash, TypeOK
  <2>5. natsConn' \in NatsConn  BY <1>19 DEF Crash, NatsConn
  <2>6. TypeOK'
    BY <1>19, <2>1, <2>3, <2>4, <2>5 DEF Crash, TypeOK, Eventing, Step
  <2>7. HandlesBackend'  BY <1>19 DEF Crash, HandlesBackend, BackendStep
  <2> QED  BY <2>3, <2>6, <2>7
<1>20. ASSUME NEW st \in EventingStatus, NEW step \in Step, Fetch(st, step),
             step \in BackendStep => cached.spec.type \in Backend
      PROVE  Goal
  <2>1. HandlerOK'  BY <1>20, FetchOK
  <2>2. mgr' \in [Backend -> Manager] /\ ManagersOK'  BY <1>20, <1>6 DEF Fetch
  <2> QED  BY <1>20, <2>1, <2>2 DEF Fetch, TypeOK, HandlerOK
<1>21. CASE Reconcile
  <2>1. CASE ReconcileNothing
    BY <2>1, <1>1, <1>20 DEF ReconcileNothing, Step, BackendStep
  <2>2. CASE ReconcileDeletion
    BY <2>2, <1>1, <1>20 DEF ReconcileDeletion, Step, BackendStep
  <2>3. CASE ReconcileNew
    BY <2>3, <1>1, <1>20 DEF ReconcileNew, Step, BackendStep
  <2>4. CASE ReconcileEmptyBackend
    BY <2>4, <1>1, <1>20, StatusTypes DEF ReconcileEmptyBackend, Step, BackendStep
  <2>5. CASE ReconcileBackend
    <3>0. cached.spec \in Spec_  BY DEF TypeOK, Eventing
    <3>1. cached.spec.type \in Backend
      BY <2>5, <3>0, SpecNotEmpty DEF ReconcileBackend
    <3> QED  BY <2>5, <3>1, <1>1, <1>20, StatusTypes DEF ReconcileBackend, Step
  <2> QED  BY <1>21, <2>1, <2>2, <2>3, <2>4, <2>5 DEF Reconcile
<1>22. CASE AddFinalizer
  <2>1. HandlerOK'
    BY <1>22, <1>2, ReturnOK DEF AddFinalizer
  <2>2. mgr' \in [Backend -> Manager] /\ ManagersOK'  BY <1>22, <1>6 DEF AddFinalizer
  <2> QED  BY <1>22, <2>1, <2>2, <1>7 DEF AddFinalizer, Write, TypeOK, HandlerOK, Eventing
<1>23. CASE NoSwitch
  <2>1. HandlerOK'
    BY <1>23, <1>1, <1>2, ContinueOK DEF NoSwitch, Step, BackendStep
  <2>2. mgr' \in [Backend -> Manager] /\ ManagersOK'  BY <1>23, <1>6 DEF NoSwitch
  <2> QED  BY <1>23, <2>1, <2>2 DEF NoSwitch, TypeOK, HandlerOK
<1>24. CASE StopPreviousBackend
  <2>0. PreviousBackend \in Backend
    BY <1>1, <1>24 DEF StopPreviousBackend, PreviousBackend, EventingStatus
  <2>1. HandlerOK'
    <3>1. WithSwitchedBackend(current.status) \in EventingStatus  BY <1>1, StatusTypes
    <3>2. queued' \in BOOLEAN  BY <1>24, <1>2 DEF StopPreviousBackend, HandlerOK
    <3> QED
      BY <1>2, <1>24, <3>1, <3>2
      DEF StopPreviousBackend, HandlerOK, HandlesBackend, Step, BackendStep
  <2>2. mgr' \in [Backend -> Manager] /\ ManagersOK'
    BY <1>4, <1>5, <1>24, <2>0, StopManager DEF StopPreviousBackend
  <2>3. natsConn' \in NatsConn
    BY <1>24, ConnectionTypes DEF StopPreviousBackend, TypeOK
  <2> QED  BY <1>24, <2>1, <2>2, <2>3 DEF StopPreviousBackend, TypeOK, HandlerOK
<1>25. CASE StopPreviousBackendFails
  <2>0. PreviousBackend \in Backend
    BY <1>1, <1>25 DEF StopPreviousBackendFails, PreviousBackend, EventingStatus
  <2>1. HandlerOK'
    BY <1>1, <1>2, <1>25, SyncStatusOK, StatusTypes DEF StopPreviousBackendFails, State
  <2>2. mgr' \in [Backend -> Manager] /\ ManagersOK'
    BY <1>4, <1>5, <1>25, <2>0, StopManagerFailed DEF StopPreviousBackendFails
  <2> QED  BY <1>7, <1>25, <2>1, <2>2 DEF StopPreviousBackendFails, TypeOK, HandlerOK
<1>26. CASE DeleteProxyOfPreviousBackend
  <2>1. HandlerOK'
    BY <1>1, <1>2, <1>26, ContinueOK, SyncStatusOK, StatusTypes
    DEF DeleteProxyOfPreviousBackend, State, Step, BackendStep
  <2>2. mgr' \in [Backend -> Manager] /\ ManagersOK'
    BY <1>6, <1>26 DEF DeleteProxyOfPreviousBackend
  <2>3. proxy' \in Proxy  BY <1>26, ProxyTypes DEF DeleteProxyOfPreviousBackend
  <2>4. faults' \in 0..MaxFaults
    BY <1>7, <1>26 DEF DeleteProxyOfPreviousBackend, TypeOK
  <2> QED
    BY <1>26, <2>1, <2>2, <2>3, <2>4 DEF DeleteProxyOfPreviousBackend, TypeOK, HandlerOK
<1>27. CASE SyncActiveBackend
  <2>0. current.spec.type \in Backend
    BY <1>27 DEF SyncActiveBackend, HandlesBackend, BackendStep
  <2>1. HandlerOK'
    <3>1. WithActiveBackend(current.status, current.spec.type) \in EventingStatus
      BY <1>1, <2>0, StatusTypes
    <3> QED
      BY <1>2, <1>27, <3>1, ContinueOK, SyncStatusOK, StatusTypes
      DEF SyncActiveBackend, State, Step, BackendStep
  <2>2. mgr' \in [Backend -> Manager] /\ ManagersOK'  BY <1>6, <1>27 DEF SyncActiveBackend
  <2> QED  BY <1>7, <1>27, <2>1, <2>2 DEF SyncActiveBackend, TypeOK, HandlerOK
<1>28. CASE NATSLookupFails
  <2>1. HandlerOK'
    BY <1>1, <1>2, <1>28, ContinueOK, SyncStatusOK, ReturnOK, StatusTypes
    DEF NATSLookupFails, State, Step, BackendStep
  <2>2. mgr' \in [Backend -> Manager] /\ ManagersOK'  BY <1>6, <1>28 DEF NATSLookupFails
  <2> QED  BY <1>7, <1>28, <2>1, <2>2 DEF NATSLookupFails, TypeOK, HandlerOK
<1>29. CASE NATSModuleMissing
  <2>1. HandlerOK'
    BY <1>1, <1>2, <1>29, SyncStatusOK, ReturnOK, StatusTypes DEF NATSModuleMissing, State
  <2>2. mgr' \in [Backend -> Manager] /\ ManagersOK'  BY <1>6, <1>29 DEF NATSModuleMissing
  <2>3. proxy' \in Proxy
    <3>1. \A n \in 0..4 : DeletedProxy(n) \in Proxy  BY ProxyTypes
    <3>2. proxy' = DeletedProxy(4) \/ \E n \in 0..3 : proxy' = DeletedProxy(n)
      BY <1>29 DEF NATSModuleMissing
    <3> QED  BY <3>1, <3>2
  <2>4. faults' \in 0..MaxFaults  BY <1>7, <1>29 DEF NATSModuleMissing, TypeOK
  <2> QED  BY <1>29, <2>1, <2>2, <2>3, <2>4 DEF NATSModuleMissing, TypeOK, HandlerOK
<1>30. CASE ConnectToNATS
  <2>1. HandlerOK'
    BY <1>1, <1>2, <1>30, ContinueOK, SyncStatusOK, StatusTypes
    DEF ConnectToNATS, State, Step, BackendStep
  <2>2. mgr' \in [Backend -> Manager] /\ ManagersOK'  BY <1>6, <1>30 DEF ConnectToNATS
  <2>3. natsConn' \in NatsConn
    BY <1>30, ConnectionTypes DEF ConnectToNATS, TypeOK
  <2>4. faults' \in 0..MaxFaults  BY <1>7, <1>30 DEF ConnectToNATS, TypeOK
  <2> QED  BY <1>30, <2>1, <2>2, <2>3, <2>4 DEF ConnectToNATS, TypeOK, HandlerOK
<1>31. CASE ReconcileNATSSubManager
  <2> DEFINE m == PreparedNATSManager
  <2>0. /\ m \in Manager /\ ManagerOK(m) /\ m.cfg # NoConfig
        /\ "NATS" \in Backend /\ NATSHash \in Hash
    <3>1. pc = "natsManager"  BY <1>31 DEF ReconcileNATSSubManager
    <3>2. current.spec.cfg \in Config  BY <3>1, BackendSpec DEF BackendStep
    <3> QED  BY <3>1, <3>2, PreparedNATS DEF TypeInv, Backend, NATSHash, Hash
  <2> HIDE DEF m
  <2>1. HandlerOK'
    <3>1. [current.status EXCEPT !.specHash = NATSHash] \in EventingStatus
      BY <1>1, <2>0, StatusTypes
    <3> QED
      BY <1>1, <1>2, <1>31, <3>1, ContinueOK, SyncStatusOK, StatusTypes
      DEF ReconcileNATSSubManager, State, Step, BackendStep
  <2>2. mgr' \in [Backend -> Manager] /\ ManagersOK'
    <3>1. ~m.started => StartSubManager(m, NoCreds) \in Manager
                          /\ ManagerOK(StartSubManager(m, NoCreds))
      BY <2>0, StartManager
    <3>2. \/ mgr' = mgr
          \/ mgr' = [mgr EXCEPT !["NATS"] = m]
          \/ ~m.started /\ mgr' = [mgr EXCEPT !["NATS"] = StartSubManager(m, NoCreds)]
      BY <1>31 DEF ReconcileNATSSubManager, m
    <3> QED  BY <1>5, <1>6, <2>0, <3>1, <3>2
  <2>3. faults' \in 0..MaxFaults  BY <1>7, <1>31 DEF ReconcileNATSSubManager, TypeOK
  <2> QED  BY <1>31, <2>1, <2>2, <2>3 DEF ReconcileNATSSubManager, TypeOK, HandlerOK
<1>32. CASE ReconcileEventMeshBackend
  <2>1. HandlerOK'
    BY <1>1, <1>2, <1>32, ContinueOK, SyncStatusOK, StatusTypes
    DEF ReconcileEventMeshBackend, State, Step, BackendStep
  <2>2. mgr' \in [Backend -> Manager] /\ ManagersOK'
    BY <1>6, <1>32 DEF ReconcileEventMeshBackend
  <2>3. faults' \in 0..MaxFaults  BY <1>7, <1>32 DEF ReconcileEventMeshBackend, TypeOK
  <2> QED  BY <1>32, <2>1, <2>2, <2>3 DEF ReconcileEventMeshBackend, TypeOK, HandlerOK
<1>33. CASE SyncOauth2ClientIDAndSecret
  <2>0. "EventMesh" \in Backend  BY DEF Backend
  <2>1. HandlerOK'
    <3>1. WithSubManagerState(current.status, "Error") \in EventingStatus
      BY <1>1, StatusTypes DEF State
    <3>2. CASE /\ current' = [current EXCEPT !.status = WithSubManagerState(@, "Error"),
                                             !.creds = oauthSecret]
               /\ pc' = "oauthStatus" /\ UNCHANGED <<queued, result>>
      BY <1>2, <1>33, <3>1, <3>2
      DEF SyncOauth2ClientIDAndSecret, TypeOK, HandlerOK, HandlesBackend, Step, BackendStep
    <3>3. CASE Continue(current.status, "eventMeshManager")
      BY <1>1, <1>2, <1>33, <3>3, ContinueOK DEF SyncOauth2ClientIDAndSecret, Step, BackendStep
    <3>4. CASE SyncStatus(WithSubManagerState(current.status, "Error"), "error")
      BY <1>2, <3>1, <3>4, SyncStatusOK
    <3> QED  BY <1>33, <3>2, <3>3, <3>4 DEF SyncOauth2ClientIDAndSecret
  <2>2. mgr' \in [Backend -> Manager] /\ ManagersOK'
    BY <1>4, <1>5, <1>6, <1>33, <2>0, StopManager, StopManagerFailed
    DEF SyncOauth2ClientIDAndSecret
  <2>3. faults' \in 0..MaxFaults  BY <1>7, <1>33 DEF SyncOauth2ClientIDAndSecret, TypeOK
  <2> QED  BY <1>33, <2>1, <2>2, <2>3 DEF SyncOauth2ClientIDAndSecret, TypeOK, HandlerOK
<1>34. (StatusSynced \/ StatusNotSynced) => eventing' \in Eventing /\ fresh' \subseteq {"cached", "current"}
                                            /\ faults' \in 0..MaxFaults
  BY <1>1, <1>7 DEF StatusSynced, StatusNotSynced, Write, TypeOK, Eventing
<1>35. CASE SyncOauth2Status
  <2>1. HandlerOK'
    BY <1>1, <1>2, <1>35, ContinueOK, SyncStatusOK, StatusTypes
    DEF SyncOauth2Status, State, Step, BackendStep
  <2>2. mgr' \in [Backend -> Manager] /\ ManagersOK'  BY <1>6, <1>35 DEF SyncOauth2Status
  <2>3. oauth' \in Creds \cup {NoCreds}  BY <1>35 DEF SyncOauth2Status, TypeOK
  <2> QED  BY <1>34, <1>35, <2>1, <2>2, <2>3 DEF SyncOauth2Status, TypeOK, HandlerOK
<1>36. CASE ReconcileEventMeshSubManager
  <2> DEFINE m == PreparedEventMeshManager
             n == [m EXCEPT !.cfg.env = current.spec.cfg.env]
  <2>0. /\ m \in Manager /\ ManagerOK(m) /\ m.cfg \in Config
        /\ "EventMesh" \in Backend /\ EventMeshHash \in Hash
        /\ current.spec.cfg \in Config
    <3>1. pc = "eventMeshManager"  BY <1>36 DEF ReconcileEventMeshSubManager
    <3>2. current.spec.cfg \in Config  BY <3>1, BackendSpec DEF BackendStep
    <3> QED  BY <3>1, <3>2, PreparedEventMesh DEF TypeInv, Backend, EventMeshHash, Hash
  <2> HIDE DEF m
  <2>1. HandlerOK'
    <3>1. [current.status EXCEPT !.specHash = EventMeshHash] \in EventingStatus
      BY <1>1, <2>0, StatusTypes
    <3>2. \A st \in EventingStatus :
            WithSubManagerReady(WithBackendAvailable(st)) \in EventingStatus
      BY StatusTypes
    <3> QED
      BY <1>1, <1>2, <1>36, <3>1, <3>2, ContinueOK, SyncStatusOK, StatusTypes
      DEF ReconcileEventMeshSubManager, State, Step, BackendStep
  <2>2. mgr' \in [Backend -> Manager] /\ ManagersOK'
    <3>1. ~m.started => StartSubManager(n, oauth) \in Manager
                          /\ ManagerOK(StartSubManager(n, oauth))
      <4>1. n \in Manager /\ n.cfg \in Config  BY <2>0 DEF Manager, Config
      <4>2. n.started = m.started /\ n.running = m.running /\ n.live = m.live
        BY <2>0 DEF Manager
      <4> HIDE DEF n
      <4>3. n.cfg # NoConfig  BY <4>1, NoConfigAssumption
      <4>4. ManagerOK(n)  BY <2>0, <4>2, <4>3 DEF ManagerOK
      <4>5. oauth \in Creds \cup {NoCreds}  BY DEF TypeOK
      <4> QED  BY <4>1, <4>2, <4>3, <4>4, <4>5, StartManager
    <3>2. \/ mgr' = mgr
          \/ mgr' = [mgr EXCEPT !["EventMesh"] = m]
          \/ ~m.started /\ mgr' = [mgr EXCEPT !["EventMesh"] = StartSubManager(n, oauth)]
          \/ mgr' = [mgr EXCEPT !["EventMesh"] = StopSubManagerFailed(@)]
      BY <1>36 DEF ReconcileEventMeshSubManager, StartedEventMeshManager, m
    <3> HIDE DEF n
    <3> QED  BY <1>4, <1>5, <1>6, <2>0, <3>1, <3>2, StopManagerFailed
  <2>3. faults' \in 0..MaxFaults  BY <1>7, <1>36 DEF ReconcileEventMeshSubManager, TypeOK
  <2> QED  BY <1>36, <2>1, <2>2, <2>3 DEF ReconcileEventMeshSubManager, TypeOK, HandlerOK
<1>37. CASE HandlePublisherProxy
  <2>1. HandlerOK'
    BY <1>1, <1>2, <1>37, ContinueOK, SyncStatusOK, StatusTypes
    DEF HandlePublisherProxy, Step, BackendStep
  <2>2. mgr' \in [Backend -> Manager] /\ ManagersOK'  BY <1>6, <1>37 DEF HandlePublisherProxy
  <2>3. proxy' \in Proxy
    <3>1. \A n \in 0..5 : DeployedProxy(n) \in Proxy
      BY <1>37, ProxyTypes DEF HandlePublisherProxy, BackendStep
    <3>2. \/ proxy' = proxy \/ proxy' = DeployedProxy(5)
          \/ \E n \in 0..4 : proxy' = DeployedProxy(n)
      <4>1. Len(DeployOrder) = 5 /\ Len(DeployOrder) - 1 = 4  BY ProxyTypes
      <4> QED  BY <1>37, <4>1 DEF HandlePublisherProxy
    <3> QED  BY <3>1, <3>2 DEF TypeOK
  <2>4. faults' \in 0..MaxFaults  BY <1>7, <1>37 DEF HandlePublisherProxy, TypeOK
  <2> QED  BY <1>37, <2>1, <2>2, <2>3, <2>4 DEF HandlePublisherProxy, TypeOK, HandlerOK
<1>38. CASE HandleEventingState
  <2>1. HandlerOK'
    BY <1>1, <1>2, <1>38, SyncStatusOK, ReturnOK, StatusTypes DEF HandleEventingState
  <2>2. mgr' \in [Backend -> Manager] /\ ManagersOK'  BY <1>6, <1>38 DEF HandleEventingState
  <2>3. faults' \in 0..MaxFaults  BY <1>7, <1>38 DEF HandleEventingState, TypeOK
  <2> QED  BY <1>38, <2>1, <2>2, <2>3 DEF HandleEventingState, TypeOK, HandlerOK
<1>39. CASE SyncEventingStatus
  <2>1. HandlerOK'  BY <1>2, <1>39, ReturnOK DEF SyncEventingStatus
  <2>2. mgr' \in [Backend -> Manager] /\ ManagersOK'  BY <1>6, <1>39 DEF SyncEventingStatus
  <2> QED  BY <1>34, <1>39, <2>1, <2>2 DEF SyncEventingStatus, TypeOK, HandlerOK
<1>40. CASE CheckSubscriptions
  <2>1. HandlerOK'
    BY <1>1, <1>2, <1>40, ContinueOK, SyncStatusOK, StatusTypes
    DEF CheckSubscriptions, State, Step, BackendStep
  <2>2. mgr' \in [Backend -> Manager] /\ ManagersOK'  BY <1>6, <1>40 DEF CheckSubscriptions
  <2>3. faults' \in 0..MaxFaults  BY <1>7, <1>40 DEF CheckSubscriptions, TypeOK
  <2> QED  BY <1>40, <2>1, <2>2, <2>3 DEF CheckSubscriptions, TypeOK, HandlerOK
<1>41. CASE StopManagerForDeletion
  <2>0. BackendToDelete \in Backend  BY DEF BackendToDelete, Backend
  <2>1. HandlerOK'
    <3>1. \A c \in {"SubscriptionManagerReady"} :
            UpdateCondition(current.status, c, "False") \in EventingStatus
      BY <1>1, StatusTypes DEF ConditionType
    <3> QED
      BY <1>1, <1>2, <1>41, <3>1, ContinueOK, SyncStatusOK, StatusTypes
      DEF StopManagerForDeletion, State, Step, BackendStep
  <2>2. mgr' \in [Backend -> Manager] /\ ManagersOK'
    BY <1>4, <1>5, <1>41, <2>0, StopManager, StopManagerFailed DEF StopManagerForDeletion
  <2>3. faults' \in 0..MaxFaults  BY <1>7, <1>41 DEF StopManagerForDeletion, TypeOK
  <2> QED  BY <1>41, <2>1, <2>2, <2>3 DEF StopManagerForDeletion, TypeOK, HandlerOK
<1>42. CASE DeleteClusterScopedResources
  <2>1. HandlerOK'
    <3>1. UpdateCondition(current.status, "PublisherProxyReady", "False") \in EventingStatus
      BY <1>1, StatusTypes DEF ConditionType
    <3> QED
      BY <1>1, <1>2, <1>42, <3>1, ContinueOK, SyncStatusOK, StatusTypes
      DEF DeleteClusterScopedResources, Step, BackendStep
  <2>2. mgr' \in [Backend -> Manager] /\ ManagersOK'
    BY <1>6, <1>42 DEF DeleteClusterScopedResources
  <2>3. proxy' \in Proxy  BY <1>42 DEF DeleteClusterScopedResources, TypeOK, Proxy
  <2>4. faults' \in 0..MaxFaults  BY <1>7, <1>42 DEF DeleteClusterScopedResources, TypeOK
  <2> QED
    BY <1>42, <2>1, <2>2, <2>3, <2>4 DEF DeleteClusterScopedResources, TypeOK, HandlerOK
<1>43. CASE RemoveFinalizer
  <2>1. HandlerOK'  BY <1>2, <1>43, ReturnOK DEF RemoveFinalizer
  <2>2. mgr' \in [Backend -> Manager] /\ ManagersOK'  BY <1>6, <1>43 DEF RemoveFinalizer
  <2>3. /\ eventing' \in Eventing /\ fresh' \subseteq {"cached", "current"}
        /\ faults' \in 0..MaxFaults
    BY <1>3, <1>7, <1>43 DEF RemoveFinalizer, Write, TypeOK
  <2> QED  BY <1>43, <2>1, <2>2, <2>3 DEF RemoveFinalizer, TypeOK, HandlerOK
<1>44. CASE UNCHANGED vars
  BY <1>44 DEF TypeOK, ManagersOK, HandlesBackend
<1>45. CASE HandlerStep
  BY <1>22, <1>23, <1>24, <1>25, <1>26, <1>27, <1>28, <1>29, <1>30, <1>31, <1>32, <1>33,
     <1>35, <1>36, <1>37, <1>38, <1>39, <1>40, <1>41, <1>42, <1>43, <1>45 DEF HandlerStep
<1>46. CASE Environment
  BY <1>8, <1>9, <1>10, <1>11, <1>12, <1>13, <1>14, <1>15, <1>16, <1>17, <1>18, <1>19,
     <1>46 DEF Environment
<1> QED  BY <1>21, <1>44, <1>45, <1>46 DEF Next

\* The first states satisfy TypeInv.
LEMMA TypeInvInit == Init => TypeInv
<1> SUFFICES ASSUME Init PROVE TypeOK /\ ManagersOK /\ HandlesBackend
  BY DEF TypeInv
<1>1. NoEventing \in Eventing  BY NewStatusType DEF NoEventing, Eventing, Spec_
<1>2. NoCurrent \in [spec : Spec_, status : EventingStatus, creds : Creds \cup {NoCreds}]
  BY NewStatusType DEF NoCurrent, Spec_
<1>3. mgr \in [Backend -> Manager] /\ ManagersOK
  <2>1. NoManager \in Manager /\ ManagerOK(NoManager)
    BY DEF NoManager, Manager, ManagerOK
  <2> QED  BY <2>1 DEF Init, ManagersOK
<1>4. proxy \in Proxy  BY DEF Init, NoProxy, Proxy, Hash
<1>5. natsConn \in NatsConn  BY DEF Init, NatsConn
<1>6. edits \in 0..MaxEdits /\ faults \in 0..MaxFaults /\ crashes \in 0..MaxCrashes
  BY BoundsAssumption DEF Init
<1>7. /\ eventing \in Eventing /\ cached \in Eventing
      /\ current \in [spec : Spec_, status : EventingStatus, creds : Creds \cup {NoCreds}]
  BY <1>1, <1>2 DEF Init
<1>8. /\ fresh \subseteq {"cached", "current"} /\ queued \in BOOLEAN /\ pc \in Step
      /\ result \in {"done", "requeue", "error", "terminal"}
      /\ oauth \in Creds \cup {NoCreds} /\ oauthSecret \in Creds \cup {NoCreds}
      /\ natsUp \in BOOLEAN /\ subs \in BOOLEAN
  BY DEF Init, Step
<1>9. TypeOK  BY <1>3, <1>4, <1>5, <1>6, <1>7, <1>8 DEF TypeOK
<1> QED  BY <1>3, <1>9 DEF Init, HandlesBackend, BackendStep

\* Spec keeps TypeInv.
LEMMA TypeInvAlways == Spec => []TypeInv
BY TypeInvInit, TypeInvStep, PTL DEF Spec

(***************************************************************************)
(* Whatever fails and whenever the process restarts, the variables of the  *)
(* Reconciler and the cluster keep their types.                            *)
(***************************************************************************)
THEOREM TypeCorrect == Spec => []TypeOK
<1>1. TypeInv => TypeOK  BY DEF TypeInv
<1> QED  BY <1>1, TypeInvAlways, PTL

(***************************************************************************)
(* reconcileNATSSubManager, reconcileEventMeshSubManager, the backend      *)
(* switch and the deletion never leave two subscription controllers of a   *)
(* backend alive, nor one the Reconciler does not know to be started.      *)
(***************************************************************************)
THEOREM OneController == Spec => []OneControllerPerBackend
<1>1. TypeInv => OneControllerPerBackend
  BY DEF TypeInv, TypeOK, ManagersOK, ManagerOK, OneControllerPerBackend, Manager
<1> QED  BY <1>1, TypeInvAlways, PTL

-----------------------------------------------------------------------------
(***************************************************************************)
(* The finalizer. RemoveFinalizer works on a copy that may be stale, so    *)
(* the invariant relates the resource, the cached copy and the copy of the *)
(* handler: a copy with the latest version is the resource, and the cache  *)
(* never shows a resource that is held when the real one is not.           *)
(***************************************************************************)

HasRoles == proxy.resources \cap ClusterScoped # {}

\* The resource carries the finalizer and a backend.
Held == eventing.present /\ eventing.finalizer /\ eventing.spec # NoSpec

CacheOK ==
  /\ "current" \in fresh => "cached" \in fresh /\ current.spec = eventing.spec
  /\ "cached" \in fresh => cached = eventing
  /\ cached.present /\ cached.finalizer /\ ~cached.deleting =>
       /\ eventing.present /\ eventing.finalizer
       /\ cached.spec # NoSpec => eventing.spec # NoSpec

BackendHeld == pc \in BackendStep => Held
RolesHeld == HasRoles => Held

DeletionStep == {"checkSubscriptions", "stopManager", "deleteRoles", "removeFinalizer"}

DeletionOK ==
  "current" \in fresh =>
    /\ pc \in DeletionStep => eventing.deleting
    /\ pc = "removeFinalizer" => ~HasRoles
    /\ pc \in {"deleteRoles", "removeFinalizer"} /\ current.spec.type \in Backend =>
         mgr[current.spec.type].live = 0

FinalizerInv == CacheOK /\ BackendHeld /\ RolesHeld /\ DeletionOK

\* A step of a handler that writes no copy, creates no cluster-scoped resource
\* and does not enter the deletion keeps the invariant.
LEMMA QuietStep ==
  ASSUME FinalizerInv, UNCHANGED <<eventing, cached, fresh>>,
         current'.spec = current.spec, HasRoles' => HasRoles,
         pc' \in BackendStep => pc \in BackendStep, pc' \notin DeletionStep
  PROVE  FinalizerInv'
<1>1. CacheOK'  BY DEF FinalizerInv, CacheOK
<1>2. Held' = Held  BY DEF Held
<1>3. DeletionOK'  BY DEF DeletionOK, DeletionStep
<1> QED  BY <1>1, <1>2, <1>3 DEF FinalizerInv, BackendHeld, RolesHeld

\* A step that changes neither the copies nor the cluster-scoped resources, the
\* managers or the place of the handler keeps it too.
LEMMA FinalizerFrame ==
  ASSUME FinalizerInv, HasRoles' = HasRoles,
         UNCHANGED <<eventing, cached, fresh, pc, current, mgr>>
  PROVE  FinalizerInv'
<1>1. Held' = Held  BY DEF Held
<1> QED
  BY <1>1 DEF FinalizerInv, CacheOK, BackendHeld, RolesHeld, DeletionOK

\* A write that keeps what is held and leaves no copy with the latest version.
LEMMA WriteStep ==
  ASSUME FinalizerInv, UNCHANGED <<cached, proxy>>, fresh' = {},
         Held => Held',
         eventing.present /\ eventing.finalizer => eventing'.present /\ eventing'.finalizer,
         eventing.spec # NoSpec => eventing'.spec # NoSpec,
         pc' \in BackendStep => pc \in BackendStep
  PROVE  FinalizerInv'
<1>1. CacheOK'  BY DEF FinalizerInv, CacheOK
<1>2. HasRoles' = HasRoles  BY DEF HasRoles
<1>3. DeletionOK'  BY DEF DeletionOK
<1> QED  BY <1>1, <1>2, <1>3 DEF FinalizerInv, BackendHeld, RolesHeld

\* FinalizerInv is inductive relative to TypeInv: the environment.
LEMMA FinalizerEnvironment ==
  ASSUME TypeInv, FinalizerInv, Environment
  PROVE  FinalizerInv'
<1> USE DEF resource, world, budget
<1>1. CASE InformerSync
  <2>1. "current" \notin fresh
    BY <1>1 DEF InformerSync, FinalizerInv, CacheOK
  <2>2. Held' = Held /\ HasRoles' = HasRoles  BY <1>1 DEF InformerSync, Held, HasRoles
  <2>3. CacheOK'  BY <1>1, <2>1 DEF InformerSync, CacheOK
  <2>4. DeletionOK'  BY <1>1, <2>1 DEF InformerSync, DeletionOK
  <2> QED
    BY <1>1, <2>2, <2>3, <2>4 DEF InformerSync, FinalizerInv, BackendHeld, RolesHeld
<1>2. CASE WatchEvent
  BY <1>2, FinalizerFrame DEF WatchEvent, HasRoles
<1>3. CASE CreateEventing
  <2>1. PICK sp \in Spec_ : eventing' = [NoEventing EXCEPT !.present = TRUE, !.spec = sp]
    BY <1>3 DEF CreateEventing, Write
  <2>2. ~eventing.present /\ fresh' = {} /\ UNCHANGED <<cached, proxy, pc, mgr>>
    BY <1>3 DEF CreateEventing, Edit, Write
  <2>3. ~Held  BY <2>2 DEF Held
  <2>4. ~HasRoles' /\ pc' \notin BackendStep
    BY <2>2, <2>3 DEF FinalizerInv, RolesHeld, BackendHeld, HasRoles
  <2>5. CacheOK'  BY <2>2 DEF FinalizerInv, CacheOK
  <2> QED  BY <2>2, <2>4, <2>5 DEF FinalizerInv, RolesHeld, BackendHeld, DeletionOK
<1>4. CASE EditBackend
  <2>1. PICK sp \in Spec_ \ {eventing.spec, NoSpec} : eventing' = [eventing EXCEPT !.spec = sp]
    BY <1>4 DEF EditBackend, Write
  <2>2. eventing \in Eventing  BY DEF TypeInv, TypeOK
  <2>3. /\ eventing'.present = eventing.present /\ eventing'.finalizer = eventing.finalizer
        /\ eventing'.spec # NoSpec
    BY <2>1, <2>2 DEF Eventing
  <2> QED  BY <1>4, <2>3, WriteStep DEF EditBackend, Edit, Write, Held
<1>5. CASE DeleteEventing
  <2>1. CASE eventing.finalizer
    <3>1. eventing \in Eventing /\ eventing' = [eventing EXCEPT !.deleting = TRUE]
      BY <1>5, <2>1 DEF DeleteEventing, Write, TypeInv, TypeOK
    <3>2. /\ eventing'.present = eventing.present /\ eventing'.finalizer = eventing.finalizer
          /\ eventing'.spec = eventing.spec
      BY <3>1 DEF Eventing
    <3> QED  BY <1>5, <3>2, WriteStep DEF DeleteEventing, Edit, Write, Held
  <2>2. CASE ~eventing.finalizer
    <3>1. fresh' = {} /\ UNCHANGED <<cached, proxy, pc, mgr>>
      BY <1>5 DEF DeleteEventing, Edit, Write
    <3>2. ~Held  BY <2>2 DEF Held
    <3>3. ~HasRoles' /\ pc' \notin BackendStep
      BY <3>1, <3>2 DEF FinalizerInv, RolesHeld, BackendHeld, HasRoles
    <3>4. CacheOK'  BY <2>2, <3>1 DEF FinalizerInv, CacheOK
    <3> QED  BY <3>1, <3>3, <3>4 DEF FinalizerInv, RolesHeld, BackendHeld, DeletionOK
  <2> QED  BY <2>1, <2>2
<1>6. CASE ChangeSubscriptions
  BY <1>6, FinalizerFrame DEF ChangeSubscriptions, Edit, HasRoles
<1>7. CASE ChangeOauthSecret
  BY <1>7, FinalizerFrame DEF ChangeOauthSecret, Edit, HasRoles
<1>8. CASE DeploymentAvailable
  <2>1. proxy'.resources = proxy.resources
    BY <1>8 DEF DeploymentAvailable, TypeInv, TypeOK, Proxy
  <2> QED  BY <1>8, <2>1, FinalizerFrame DEF DeploymentAvailable, HasRoles
<1>9. CASE GarbageCollect
  <2>1. proxy'.resources = proxy.resources \cap ClusterScoped
    BY <1>9 DEF GarbageCollect, NoProxy
  <2> QED  BY <1>9, <2>1, FinalizerFrame DEF GarbageCollect, HasRoles
<1>10. CASE NatsDown
  BY <1>10, FinalizerFrame DEF NatsDown, HasRoles
<1>11. CASE NatsBack
  BY <1>11, FinalizerFrame DEF NatsBack, HasRoles
<1>12. CASE Crash
  <2>1. /\ cached' = eventing /\ fresh' = {"cached"} /\ pc' = "idle"
        /\ UNCHANGED <<eventing, proxy>>
    BY <1>12 DEF Crash
  <2>2. Held' = Held /\ HasRoles' = HasRoles  BY <2>1 DEF Held, HasRoles
  <2>3. CacheOK'  BY <2>1 DEF CacheOK
  <2> QED
    BY <2>1, <2>2, <2>3 DEF FinalizerInv, BackendHeld, RolesHeld, DeletionOK, BackendStep
<1> QED  BY <1>1, <1>2, <1>3, <1>4, <1>5, <1>6, <1>7, <1>8, <1>9, <1>10, <1>11, <1>12
         DEF Environment

\* The start of a reconciliation.
LEMMA FinalizerReconcile ==
  ASSUME TypeInv, FinalizerInv, Reconcile
  PROVE  FinalizerInv'
<1> USE DEF resource, world, budget
<1>1. ASSUME NEW st, NEW step, Fetch(st, step),
             step \in BackendStep => cached.present /\ cached.finalizer /\ ~cached.deleting
                                     /\ cached.spec # NoSpec,
             step \in DeletionStep => cached.deleting,
             step \notin {"deleteRoles"},
             step = "removeFinalizer" => cached.spec = NoSpec
      PROVE  FinalizerInv'
  <2>1. /\ UNCHANGED <<eventing, cached, proxy, mgr>> /\ pc' = step
        /\ current'.spec = cached.spec
        /\ fresh' = IF "cached" \in fresh THEN {"cached", "current"} ELSE {}
    BY <1>1 DEF Fetch
  <2>2. Held' = Held /\ HasRoles' = HasRoles  BY <2>1 DEF Held, HasRoles
  <2>3. CacheOK'  BY <2>1 DEF FinalizerInv, CacheOK
  <2>4. BackendHeld'
    BY <1>1, <2>1, <2>2 DEF FinalizerInv, CacheOK, BackendHeld, Held
  <2>5. DeletionOK'
    <3>1. SUFFICES ASSUME "cached" \in fresh PROVE DeletionOK'
      BY <2>1 DEF DeletionOK
    <3>2. cached = eventing  BY <3>1 DEF FinalizerInv, CacheOK
    <3>3. step = "removeFinalizer" => ~HasRoles'
      BY <1>1, <2>2, <3>2 DEF FinalizerInv, RolesHeld, Held
    <3>4. NoSpec.type \notin Backend  BY DEF NoSpec, Backend
    <3> QED  BY <1>1, <2>1, <3>2, <3>3, <3>4 DEF DeletionOK
  <2> QED  BY <2>2, <2>3, <2>4, <2>5 DEF FinalizerInv, RolesHeld
<1>2. CASE ReconcileNothing
  BY <1>1, <1>2 DEF ReconcileNothing, BackendStep, DeletionStep
<1>3. CASE ReconcileDeletion
  BY <1>1, <1>3 DEF ReconcileDeletion, BackendStep, DeletionStep
<1>4. CASE ReconcileNew
  BY <1>1, <1>4 DEF ReconcileNew, BackendStep, DeletionStep
<1>5. CASE ReconcileEmptyBackend
  BY <1>1, <1>5 DEF ReconcileEmptyBackend, BackendStep, DeletionStep
<1>6. CASE ReconcileBackend
  <2>1. HasEmptyBackend(NoSpec)  BY DEF HasEmptyBackend, NoSpec
  <2> QED  BY <1>1, <1>6, <2>1 DEF ReconcileBackend, BackendStep, DeletionStep
<1> QED  BY <1>2, <1>3, <1>4, <1>5, <1>6 DEF Reconcile

\* The blocks of the handlers keep the specification of the copy and enter no
\* step but the one they name.
LEMMA BlockFacts ==
  ASSUME TypeOK
  PROVE  /\ \A st, res : SyncStatus(st, res) => current'.spec = current.spec /\ pc' = "sync"
         /\ \A st, step : Continue(st, step) => current'.spec = current.spec /\ pc' = step
         /\ \A again : Return(again) => current'.spec = current.spec /\ pc' = "idle"
BY DEF TypeOK, SyncStatus, Continue, Return

\* The copies after a status update are those after a write or unchanged.
LEMMA StatusWrite ==
  ASSUME TypeInv, FinalizerInv, StatusSynced \/ StatusNotSynced, UNCHANGED <<cached, proxy>>,
         current'.spec = current.spec, pc' \in BackendStep => pc \in BackendStep,
         pc' \notin DeletionStep
  PROVE  FinalizerInv'
<1>1. CASE UNCHANGED <<eventing, fresh>>
  BY <1>1, QuietStep DEF HasRoles
<1>2. CASE Write([eventing EXCEPT !.status = current.status])
  <2>1. eventing \in Eventing /\ fresh' = {}  BY <1>2 DEF TypeInv, TypeOK, Write
  <2>2. /\ eventing'.present = eventing.present /\ eventing'.finalizer = eventing.finalizer
        /\ eventing'.spec = eventing.spec
    BY <1>2, <2>1 DEF Eventing, Write
  <2> QED  BY <2>1, <2>2, WriteStep DEF Held
<1> QED  BY <1>1, <1>2 DEF StatusSynced, StatusNotSynced

\* FinalizerInv is inductive relative to TypeInv: the steps of the handlers.
LEMMA FinalizerHandler ==
  ASSUME TypeInv, FinalizerInv, HandlerStep
  PROVE  FinalizerInv'
<1> USE DEF resource, world, budget
<1>1. TypeOK /\ eventing \in Eventing  BY DEF TypeInv, TypeOK
<1>3. CASE AddFinalizer
  <2>1. CASE UNCHANGED <<eventing, fresh>>
    BY <1>1, <1>3, <2>1, QuietStep, BlockFacts
    DEF AddFinalizer, HasRoles, BackendStep, DeletionStep
  <2>2. CASE Write([eventing EXCEPT !.finalizer = TRUE])
    <3>1. /\ eventing'.present = eventing.present /\ eventing'.finalizer
          /\ eventing'.spec = eventing.spec
      BY <1>1, <2>2 DEF Write, Eventing
    <3> QED
      BY <1>1, <1>3, <2>2, <3>1, WriteStep, BlockFacts
      DEF AddFinalizer, Write, Held, BackendStep
  <2> QED  BY <1>3, <2>1, <2>2 DEF AddFinalizer
<1>4. CASE NoSwitch
  <2>1. current'.spec = current.spec /\ pc' = "activeBackend" /\ pc = "switch"
    BY <1>1, <1>4 DEF NoSwitch, Continue, TypeOK
  <2> QED  BY <1>4, <2>1, QuietStep DEF NoSwitch, HasRoles, BackendStep, DeletionStep
<1>5. CASE StopPreviousBackend
  <2>1. current'.spec = current.spec /\ pc' = "deleteProxy"
    BY <1>1, <1>5 DEF StopPreviousBackend, TypeOK
  <2> QED
    BY <1>5, <2>1, QuietStep DEF StopPreviousBackend, HasRoles, BackendStep, DeletionStep
<1>6. CASE StopPreviousBackendFails
  BY <1>1, <1>6, QuietStep, BlockFacts
  DEF StopPreviousBackendFails, HasRoles, BackendStep, DeletionStep
<1>7. \A n \in 0..4 : DeletedProxy(n).resources \subseteq proxy.resources
  BY DEF DeletedProxy
<1>8. CASE DeleteProxyOfPreviousBackend
  <2>1. proxy'.resources \subseteq proxy.resources
    BY <1>7, <1>8 DEF DeleteProxyOfPreviousBackend
  <2> QED
    BY <1>1, <1>8, <2>1, QuietStep, BlockFacts
    DEF DeleteProxyOfPreviousBackend, HasRoles, BackendStep, DeletionStep
<1>9. CASE SyncActiveBackend
  BY <1>1, <1>9, QuietStep, BlockFacts
  DEF SyncActiveBackend, HasRoles, BackendStep, DeletionStep
<1>10. CASE NATSLookupFails
  <2>1. /\ current'.spec = current.spec /\ pc = "nats"
        /\ pc' \in {"natsModuleMissing", "idle", "sync"}
    BY <1>1, <1>10, BlockFacts DEF NATSLookupFails
  <2> QED  BY <1>10, <2>1, QuietStep DEF NATSLookupFails, HasRoles, BackendStep, DeletionStep
<1>11. CASE NATSModuleMissing
  <2>1. proxy' = DeletedProxy(4) \/ \E n \in 0..3 : proxy' = DeletedProxy(n)
    BY <1>11 DEF NATSModuleMissing
  <2>2. proxy'.resources \subseteq proxy.resources  BY <1>7, <2>1
  <2> QED
    BY <1>1, <1>11, <2>2, QuietStep, BlockFacts
    DEF NATSModuleMissing, HasRoles, BackendStep, DeletionStep
<1>12. CASE ConnectToNATS
  BY <1>1, <1>12, QuietStep, BlockFacts
  DEF ConnectToNATS, HasRoles, BackendStep, DeletionStep
<1>13. CASE ReconcileNATSSubManager
  BY <1>1, <1>13, QuietStep, BlockFacts
  DEF ReconcileNATSSubManager, HasRoles, BackendStep, DeletionStep
<1>14. CASE ReconcileEventMeshBackend
  BY <1>1, <1>14, QuietStep, BlockFacts
  DEF ReconcileEventMeshBackend, HasRoles, BackendStep, DeletionStep
<1>15. CASE SyncOauth2ClientIDAndSecret
  <2>1. current'.spec = current.spec /\ pc' \in {"eventMeshManager", "oauthStatus", "sync"}
    BY <1>1, <1>15, BlockFacts DEF SyncOauth2ClientIDAndSecret, TypeOK
  <2> QED
    BY <1>15, <2>1, QuietStep
    DEF SyncOauth2ClientIDAndSecret, HasRoles, BackendStep, DeletionStep
<1>16. CASE SyncOauth2Status
  BY <1>1, <1>16, StatusWrite, BlockFacts DEF SyncOauth2Status, BackendStep, DeletionStep
<1>17. CASE ReconcileEventMeshSubManager
  BY <1>1, <1>17, QuietStep, BlockFacts
  DEF ReconcileEventMeshSubManager, HasRoles, BackendStep, DeletionStep
<1>18. CASE HandlePublisherProxy
  <2>1. Held  BY <1>18 DEF HandlePublisherProxy, FinalizerInv, BackendHeld, BackendStep
  <2>2. /\ UNCHANGED <<eventing, cached, fresh>> /\ current'.spec = current.spec
        /\ pc' \notin DeletionStep
    BY <1>1, <1>18, BlockFacts DEF HandlePublisherProxy, DeletionStep
  <2>3. Held'  BY <2>1, <2>2 DEF Held
  <2>4. CacheOK'  BY <2>2 DEF FinalizerInv, CacheOK
  <2>5. DeletionOK'  BY <2>2 DEF DeletionOK, DeletionStep
  <2> QED  BY <2>3, <2>4, <2>5 DEF FinalizerInv, BackendHeld, RolesHeld
<1>19. CASE HandleEventingState
  BY <1>1, <1>19, QuietStep, BlockFacts
  DEF HandleEventingState, HasRoles, BackendStep, DeletionStep
<1>20. CASE SyncEventingStatus
  BY <1>1, <1>20, StatusWrite, BlockFacts DEF SyncEventingStatus, BackendStep, DeletionStep
<1>21. CASE CheckSubscriptions
  <2>1. CASE pc' = "stopManager"
    <3>1. /\ UNCHANGED <<eventing, cached, fresh, proxy>> /\ pc = "checkSubscriptions"
          /\ current'.spec = current.spec
      BY <1>1, <1>21, BlockFacts DEF CheckSubscriptions
    <3>2. Held' = Held /\ HasRoles' = HasRoles  BY <3>1 DEF Held, HasRoles
    <3> QED
      BY <2>1, <3>1, <3>2
      DEF FinalizerInv, CacheOK, BackendHeld, RolesHeld, DeletionOK, DeletionStep, BackendStep
  <2>2. CASE pc' # "stopManager"
    BY <1>1, <1>21, <2>2, QuietStep, BlockFacts
    DEF CheckSubscriptions, HasRoles, BackendStep, DeletionStep
  <2> QED  BY <2>1, <2>2
<1>22. CASE StopManagerForDeletion
  <2>1. CASE pc' = "deleteRoles"
    <3>1. /\ UNCHANGED <<eventing, cached, fresh, proxy>> /\ pc = "stopManager"
          /\ current'.spec = current.spec
          /\ mgr' = [mgr EXCEPT ![BackendToDelete] = StopSubManager(@)]
      BY <1>1, <1>22, <2>1, BlockFacts DEF StopManagerForDeletion
    <3>2. Held' = Held /\ HasRoles' = HasRoles  BY <3>1 DEF Held, HasRoles
    <3>3. ASSUME current.spec.type \in Backend PROVE mgr'[current.spec.type].live = 0
      <4>1. BackendToDelete = current.spec.type
        BY <3>3 DEF BackendToDelete, Backend
      <4>2. mgr[current.spec.type] \in Manager /\ ManagerOK(mgr[current.spec.type])
        BY <3>3 DEF TypeInv, TypeOK, ManagersOK
      <4>3. mgr'[current.spec.type] = StopSubManager(mgr[current.spec.type])
        BY <3>1, <3>3, <4>1 DEF TypeInv, TypeOK
      <4> QED  BY <4>2, <4>3, StopManager DEF ManagerOK
    <3>4. DeletionOK'
      BY <2>1, <3>1, <3>3 DEF FinalizerInv, DeletionOK, DeletionStep
    <3> QED
      BY <2>1, <3>1, <3>2, <3>4
      DEF FinalizerInv, CacheOK, BackendHeld, RolesHeld, BackendStep
  <2>2. CASE pc' # "deleteRoles"
    BY <1>1, <1>22, <2>2, QuietStep, BlockFacts
    DEF StopManagerForDeletion, HasRoles, BackendStep, DeletionStep
  <2> QED  BY <2>1, <2>2
<1>23. CASE DeleteClusterScopedResources
  <2>0. proxy \in Proxy  BY <1>1 DEF TypeOK
  <2>1. CASE pc' = "removeFinalizer"
    <3>1. /\ UNCHANGED <<eventing, cached, fresh, mgr>> /\ pc = "deleteRoles"
          /\ current'.spec = current.spec
          /\ proxy' = [proxy EXCEPT !.resources = @ \ ClusterScoped]
      BY <1>1, <1>23, <2>1, BlockFacts DEF DeleteClusterScopedResources
    <3>2. ~HasRoles'  BY <2>0, <3>1 DEF HasRoles, Proxy
    <3>3. DeletionOK'
      BY <2>1, <3>1, <3>2 DEF FinalizerInv, DeletionOK, DeletionStep
    <3> QED
      BY <2>1, <3>1, <3>2, <3>3
      DEF FinalizerInv, CacheOK, BackendHeld, RolesHeld, BackendStep
  <2>2. CASE pc' # "removeFinalizer"
    <3>1. proxy'.resources \subseteq proxy.resources
      BY <1>23, <2>0 DEF DeleteClusterScopedResources, Proxy
    <3> QED
      BY <1>1, <1>23, <2>2, <3>1, QuietStep, BlockFacts
      DEF DeleteClusterScopedResources, HasRoles, BackendStep, DeletionStep
  <2> QED  BY <2>1, <2>2
<1>24. CASE RemoveFinalizer
  <2>1. CASE UNCHANGED <<eventing, fresh>>
    BY <1>1, <1>24, <2>1, QuietStep, BlockFacts
    DEF RemoveFinalizer, HasRoles, BackendStep, DeletionStep
  <2>2. CASE "current" \in fresh /\ Write(NoEventing)
    <3>1. /\ UNCHANGED <<cached, proxy>> /\ fresh' = {} /\ pc' = "idle"
          /\ pc = "removeFinalizer"
      BY <1>1, <1>24, <2>2, BlockFacts DEF RemoveFinalizer, Write
    <3>2. cached.deleting
      BY <2>2, <3>1 DEF FinalizerInv, CacheOK, DeletionOK, DeletionStep
    <3>3. ~HasRoles'  BY <2>2, <3>1 DEF FinalizerInv, DeletionOK, HasRoles
    <3> QED
      BY <3>1, <3>2, <3>3
      DEF FinalizerInv, CacheOK, BackendHeld, RolesHeld, DeletionOK, BackendStep
  <2> QED  BY <1>24, <2>1, <2>2 DEF RemoveFinalizer
<1> QED
  BY <1>3, <1>4, <1>5, <1>6, <1>8, <1>9, <1>10, <1>11, <1>12, <1>13, <1>14, <1>15, <1>16,
     <1>17, <1>18, <1>19, <1>20, <1>21, <1>22, <1>23, <1>24 DEF HandlerStep

\* Spec keeps FinalizerInv.
LEMMA FinalizerInvAlways == Spec => []FinalizerInv
<1>1. Init => FinalizerInv
  BY DEF Init, NoEventing, NoProxy, FinalizerInv, CacheOK, BackendHeld, RolesHeld, DeletionOK,
         HasRoles, BackendStep
<1>2. TypeInv /\ FinalizerInv /\ [Next]_vars => FinalizerInv'
  <2>1. ASSUME FinalizerInv, UNCHANGED vars PROVE FinalizerInv'
    BY <2>1, FinalizerFrame DEF vars, resource, HasRoles
  <2> QED
    BY <2>1, FinalizerEnvironment, FinalizerReconcile, FinalizerHandler DEF Next
<1> QED  BY <1>1, <1>2, TypeInvAlways, PTL DEF Spec

(***************************************************************************)
(* When the Eventing resource is gone, no ClusterRole or                   *)
(* ClusterRoleBinding of the publisher is left: handleEventingDeletion     *)
(* deletes them before removeFinalizer, and no stale cache, failed call or *)
(* restart lets a reconciliation create them without the finalizer.        *)
(***************************************************************************)
THEOREM NoRolesLeft == Spec => []NoClusterRolesLeftBehind
<1>1. FinalizerInv => NoClusterRolesLeftBehind
  BY DEF FinalizerInv, RolesHeld, Held, HasRoles, NoClusterRolesLeftBehind
<1> QED  BY <1>1, FinalizerInvAlways, PTL

-----------------------------------------------------------------------------
(***************************************************************************)
(* The finalizer. What a handler can do to the resource: nothing, write    *)
(* its status, or add and remove the finalizer.                            *)
(***************************************************************************)
PresenceInv ==
  /\ eventing.finalizer => eventing.present
  /\ pc = "addFinalizer" /\ "current" \in fresh => eventing.present

StatusOnly == Write([eventing EXCEPT !.status = current.status])

\* A handler other than addFinalizer and removeFinalizer leaves the resource
\* alone or writes its status, and never goes to addFinalizer.
LEMMA HandlerWrites ==
  ASSUME HandlerStep
  PROVE  \/ AddFinalizer \/ RemoveFinalizer
         \/ /\ (UNCHANGED <<eventing, fresh>>) \/ StatusOnly
            /\ pc' # "addFinalizer"
<1> USE DEF resource, Continue, SyncStatus, Return
<1>1. CASE NoSwitch \/ StopPreviousBackend \/ StopPreviousBackendFails
  BY <1>1 DEF NoSwitch, StopPreviousBackend, StopPreviousBackendFails
<1>6. CASE DeleteProxyOfPreviousBackend \/ SyncActiveBackend
  BY <1>6 DEF DeleteProxyOfPreviousBackend, SyncActiveBackend
<1>2. CASE NATSLookupFails \/ NATSModuleMissing \/ ConnectToNATS \/ ReconcileNATSSubManager
  BY <1>2 DEF NATSLookupFails, NATSModuleMissing, ConnectToNATS, ReconcileNATSSubManager
<1>3. CASE ReconcileEventMeshBackend \/ SyncOauth2ClientIDAndSecret
           \/ ReconcileEventMeshSubManager
  BY <1>3 DEF ReconcileEventMeshBackend, SyncOauth2ClientIDAndSecret,
              ReconcileEventMeshSubManager
<1>4. CASE SyncOauth2Status \/ SyncEventingStatus
  BY <1>4 DEF SyncOauth2Status, SyncEventingStatus, StatusSynced, StatusNotSynced, StatusOnly
<1>5. CASE HandlePublisherProxy \/ HandleEventingState \/ CheckSubscriptions
           \/ StopManagerForDeletion \/ DeleteClusterScopedResources
  BY <1>5 DEF HandlePublisherProxy, HandleEventingState, CheckSubscriptions,
              StopManagerForDeletion, DeleteClusterScopedResources
<1> QED  BY <1>1, <1>2, <1>3, <1>4, <1>5, <1>6 DEF HandlerStep

\* Only an existing resource has the finalizer: addFinalizer updates the version
\* that Reconcile read, or fails.
LEMMA PresenceStep ==
  ASSUME TypeInv, FinalizerInv, PresenceInv, [Next]_vars
  PROVE  PresenceInv'
<1> USE DEF resource
<1>1. eventing \in Eventing  BY DEF TypeInv, TypeOK
<1>2. CASE Reconcile
  <2>1. PICK st, step : /\ Fetch(st, step)
                        /\ step = "addFinalizer" => cached.present
    BY <1>2 DEF Reconcile, ReconcileNothing, ReconcileDeletion, ReconcileNew,
                ReconcileEmptyBackend, ReconcileBackend
  <2> QED  BY <2>1 DEF Fetch, PresenceInv, FinalizerInv, CacheOK
<1>3. CASE HandlerStep
  <2>1. CASE AddFinalizer
    BY <1>1, <2>1 DEF AddFinalizer, Write, Return, Eventing, PresenceInv
  <2>2. CASE RemoveFinalizer
    BY <2>2 DEF RemoveFinalizer, Write, Return, NoEventing, PresenceInv
  <2>3. CASE (UNCHANGED <<eventing, fresh>>) /\ pc' # "addFinalizer"
    BY <2>3 DEF PresenceInv
  <2>4. CASE StatusOnly
    BY <1>1, <2>4 DEF StatusOnly, Write, Eventing, PresenceInv
  <2> QED  BY <1>3, <2>1, <2>2, <2>3, <2>4, HandlerWrites
<1>4. CASE Environment
  <2>1. CASE CreateEventing \/ EditBackend \/ DeleteEventing
    <3>1. fresh' = {} /\ (eventing'.finalizer => eventing'.present)
      <4>1. CASE CreateEventing
        <5>1. PICK sp \in Spec_ : eventing' = [NoEventing EXCEPT !.present = TRUE, !.spec = sp]
          BY <4>1 DEF CreateEventing, Write
        <5> QED  BY <4>1, <5>1 DEF CreateEventing, Write, NoEventing
      <4>2. CASE EditBackend
        BY <1>1, <4>2 DEF EditBackend, Write, Eventing, PresenceInv
      <4>3. CASE DeleteEventing
        BY <1>1, <4>3 DEF DeleteEventing, Write, Eventing, NoEventing, PresenceInv
      <4> QED  BY <2>1, <4>1, <4>2, <4>3
    <3> QED  BY <3>1 DEF PresenceInv
  <2>2. CASE InformerSync  BY <2>2 DEF InformerSync, PresenceInv
  <2>3. CASE Crash  BY <2>3 DEF Crash, PresenceInv
  <2>4. CASE UNCHANGED <<eventing, fresh, pc>>  BY <2>4 DEF PresenceInv
  <2> QED
    BY <1>4, <2>1, <2>2, <2>3, <2>4
    DEF Environment, WatchEvent, ChangeSubscriptions, ChangeOauthSecret, Edit,
        DeploymentAvailable, GarbageCollect, NatsDown, NatsBack
<1>5. CASE UNCHANGED vars  BY <1>5 DEF vars, PresenceInv
<1> QED  BY <1>2, <1>3, <1>4, <1>5 DEF Next

(***************************************************************************)
(* The finalizer leaves the resource only in removeFinalizer with the      *)
(* latest version, and by then handleEventingDeletion has stopped the      *)
(* manager of the backend the specification names and deleted the          *)
(* cluster-scoped resources: an edit in between makes the update conflict. *)
(***************************************************************************)
THEOREM FinalizerHeld == Spec => FinalizerHeldUntilCleanedUp
<1> DEFINE CleanedUp == /\ eventing.spec.type \in Backend => mgr[eventing.spec.type].live = 0
                        /\ proxy.resources \cap ClusterScoped = {}
           Held_ == eventing.finalizer /\ ~eventing'.finalizer => CleanedUp
<1>1. Init => PresenceInv  BY DEF Init, NoEventing, PresenceInv
<1>2. TypeInv /\ FinalizerInv /\ PresenceInv /\ [Next]_vars => [Held_]_vars
  <2> SUFFICES ASSUME TypeInv, FinalizerInv, PresenceInv, Next,
                      eventing.finalizer, ~eventing'.finalizer
               PROVE  CleanedUp
    OBVIOUS
  <2> USE DEF resource
  <2>1. eventing \in Eventing  BY DEF TypeInv, TypeOK
  <2>2. ~Reconcile
    BY DEF Reconcile, ReconcileNothing, ReconcileDeletion, ReconcileNew,
           ReconcileEmptyBackend, ReconcileBackend, Fetch
  <2>3. ~Environment
    <3>1. ~CreateEventing
      <4>1. eventing.present  BY DEF PresenceInv
      <4> QED  BY <4>1 DEF CreateEventing
    <3>2. ~EditBackend  BY <2>1 DEF EditBackend, Write, Eventing
    <3>3. ~DeleteEventing  BY <2>1 DEF DeleteEventing, Write, Eventing
    <3> QED
      BY <3>1, <3>2, <3>3
      DEF Environment, InformerSync, WatchEvent, ChangeSubscriptions, ChangeOauthSecret,
          DeploymentAvailable, GarbageCollect, NatsDown, NatsBack, Crash
  <2>4. ~AddFinalizer  BY <2>1 DEF AddFinalizer, Write, Eventing
  <2>5. ~StatusOnly  BY <2>1 DEF StatusOnly, Write, Eventing
  <2>6. RemoveFinalizer  BY <2>2, <2>3, <2>4, <2>5, HandlerWrites DEF Next
  <2>7. pc = "removeFinalizer" /\ "current" \in fresh  BY <2>6 DEF RemoveFinalizer
  <2> QED  BY <2>7 DEF FinalizerInv, CacheOK, DeletionOK, HasRoles
<1> QED
  BY <1>1, <1>2, PresenceStep, TypeInvAlways, FinalizerInvAlways, PTL
  DEF Spec, FinalizerHeldUntilCleanedUp

-----------------------------------------------------------------------------
(***************************************************************************)
(* The credentials. Between the Stop that a change of the Secret causes    *)
(* and the moment the new credentials are kept no EventMesh manager runs,  *)
(* and one is started only with credentials.                               *)
(***************************************************************************)
CredentialsInv ==
  /\ mgr["EventMesh"].running => mgr["EventMesh"].creds = oauth /\ oauth # NoCreds
  /\ pc = "oauthStatus" => ~mgr["EventMesh"].running
  /\ pc = "eventMeshManager" => oauth # NoCreds

\* A step that leaves the EventMesh manager and the credentials alone and does
\* not enter the steps that handle them keeps the invariant.
LEMMA CredentialsFrame ==
  ASSUME CredentialsInv, UNCHANGED oauth, mgr'["EventMesh"] = mgr["EventMesh"],
         pc' \in {"oauthStatus", "eventMeshManager"} => pc' = pc
  PROVE  CredentialsInv'
BY DEF CredentialsInv

\* So does a step that stops the EventMesh manager.
LEMMA CredentialsStopped ==
  ASSUME CredentialsInv, UNCHANGED oauth, ~mgr'["EventMesh"].running, pc' # "eventMeshManager"
  PROVE  CredentialsInv'
BY DEF CredentialsInv

\* CredentialsInv is inductive relative to TypeInv.
LEMMA CredentialsStep ==
  ASSUME TypeInv, CredentialsInv, [Next]_vars
  PROVE  CredentialsInv'
<1> USE DEF vars, resource, world, budget
<1> DEFINE em == mgr["EventMesh"]
<1>1. /\ TypeOK /\ em \in Manager /\ ManagerOK(em) /\ "EventMesh" \in Backend
      /\ mgr \in [Backend -> Manager]
  BY DEF TypeInv, TypeOK, ManagersOK, Backend
<1>2. CASE Environment
  <2>1. CASE Crash
    BY <2>1 DEF Crash, CredentialsInv, Backend, NoManager
  <2>2. CASE Environment /\ ~Crash
    <3>1. UNCHANGED <<oauth, mgr, pc>>
      BY <2>2
      DEF Environment, InformerSync, WatchEvent, CreateEventing, EditBackend, DeleteEventing,
          ChangeSubscriptions, ChangeOauthSecret, Edit, DeploymentAvailable, GarbageCollect,
          NatsDown, NatsBack
    <3> QED  BY <3>1, CredentialsFrame
  <2> QED  BY <1>2, <2>1, <2>2
<1>3. CASE Reconcile
  <2>1. UNCHANGED <<oauth, mgr>> /\ pc' \notin {"oauthStatus", "eventMeshManager"}
    BY <1>3
    DEF Reconcile, ReconcileNothing, ReconcileDeletion, ReconcileNew, ReconcileEmptyBackend,
        ReconcileBackend, Fetch
  <2> QED  BY <2>1, CredentialsFrame
<1>4. CASE \/ AddFinalizer \/ NoSwitch \/ DeleteProxyOfPreviousBackend \/ SyncActiveBackend
           \/ NATSLookupFails \/ NATSModuleMissing \/ ConnectToNATS
           \/ ReconcileEventMeshBackend \/ HandlePublisherProxy \/ HandleEventingState
           \/ SyncEventingStatus \/ CheckSubscriptions \/ DeleteClusterScopedResources
           \/ RemoveFinalizer
  <2>1. UNCHANGED <<oauth, mgr>>
    BY <1>4
    DEF AddFinalizer, NoSwitch, DeleteProxyOfPreviousBackend, SyncActiveBackend,
        NATSLookupFails, NATSModuleMissing, ConnectToNATS, ReconcileEventMeshBackend,
        HandlePublisherProxy, HandleEventingState, SyncEventingStatus, CheckSubscriptions,
        DeleteClusterScopedResources, RemoveFinalizer
  <2>2. pc' \notin {"oauthStatus", "eventMeshManager"}
    BY <1>4
    DEF AddFinalizer, NoSwitch, DeleteProxyOfPreviousBackend, SyncActiveBackend,
        NATSLookupFails, NATSModuleMissing, ConnectToNATS, ReconcileEventMeshBackend,
        HandlePublisherProxy, HandleEventingState, SyncEventingStatus, CheckSubscriptions,
        DeleteClusterScopedResources, RemoveFinalizer, SyncStatus, Continue, Return
  <2> QED  BY <2>1, <2>2, CredentialsFrame
<1>5. ASSUME NEW b \in Backend, NEW m, mgr' = [mgr EXCEPT ![b] = m],
             b = "EventMesh" => ~m.running,
             UNCHANGED oauth, pc' \notin {"oauthStatus", "eventMeshManager"}
      PROVE  CredentialsInv'
  <2>1. CASE b = "EventMesh"
    <3>1. mgr'["EventMesh"] = m  BY <1>1, <1>5, <2>1
    <3> QED  BY <1>5, <2>1, <3>1, CredentialsStopped
  <2>2. CASE b # "EventMesh"
    <3>1. mgr'["EventMesh"] = mgr["EventMesh"]  BY <1>1, <1>5, <2>2
    <3> QED  BY <1>5, <3>1, CredentialsFrame
  <2> QED  BY <2>1, <2>2
<1>6. \A b \in Backend : /\ ~StopSubManager(mgr[b]).running
                         /\ ~StopSubManagerFailed(mgr[b]).running
  BY StopManager, StopManagerFailed DEF TypeInv, TypeOK, ManagersOK
<1>7. CASE StopPreviousBackend
  <2>1. PreviousBackend \in Backend
    BY <1>1, <1>7 DEF StopPreviousBackend, PreviousBackend, TypeOK, EventingStatus
  <2> QED  BY <1>5, <1>6, <1>7, <2>1 DEF StopPreviousBackend
<1>8. CASE StopPreviousBackendFails
  <2>1. PreviousBackend \in Backend
    BY <1>1, <1>8 DEF StopPreviousBackendFails, PreviousBackend, TypeOK, EventingStatus
  <2> QED  BY <1>5, <1>6, <1>8, <2>1 DEF StopPreviousBackendFails, SyncStatus
<1>9. CASE StopManagerForDeletion
  <2>1. BackendToDelete \in Backend  BY DEF BackendToDelete, Backend
  <2>2. /\ UNCHANGED oauth /\ pc' \notin {"oauthStatus", "eventMeshManager"}
        /\ \/ mgr' = [mgr EXCEPT ![BackendToDelete] = StopSubManager(@)]
           \/ mgr' = [mgr EXCEPT ![BackendToDelete] = StopSubManagerFailed(@)]
    BY <1>9 DEF StopManagerForDeletion, SyncStatus, Continue
  <2> QED  BY <1>5, <1>6, <2>1, <2>2
<1>10. CASE ReconcileNATSSubManager
  <2>1. mgr'["EventMesh"] = mgr["EventMesh"]
    BY <1>1, <1>10 DEF ReconcileNATSSubManager
  <2> QED
    BY <1>10, <2>1, CredentialsFrame DEF ReconcileNATSSubManager, SyncStatus, Continue
<1>11. CASE SyncOauth2ClientIDAndSecret
  <2>1. CASE ~OauthChanged /\ oauth' = oauthSecret /\ Continue(current.status, "eventMeshManager")
             /\ UNCHANGED mgr
    BY <1>11, <2>1 DEF CredentialsInv, OauthChanged, Continue
  <2>2. CASE OauthChanged /\ mgr' = [mgr EXCEPT !["EventMesh"] = StopSubManager(@)]
             /\ pc' = "oauthStatus" /\ UNCHANGED oauth
    <3>1. mgr'["EventMesh"] = StopSubManager(em)  BY <1>1, <2>2
    <3> QED  BY <1>1, <1>6, <2>2, <3>1, CredentialsStopped
  <2>3. CASE mgr' = [mgr EXCEPT !["EventMesh"] = StopSubManagerFailed(@)] /\ pc' = "sync"
             /\ UNCHANGED oauth
    BY <1>1, <1>5, <1>6, <2>3
  <2>4. CASE pc' = "sync" /\ UNCHANGED <<mgr, oauth>>
    BY <2>4, CredentialsFrame
  <2> QED
    BY <1>11, <2>1, <2>2, <2>3, <2>4 DEF SyncOauth2ClientIDAndSecret, SyncStatus
<1>12. CASE SyncOauth2Status
  <2>1. UNCHANGED mgr /\ pc = "oauthStatus"  BY <1>12 DEF SyncOauth2Status
  <2>2. ~mgr'["EventMesh"].running  BY <2>1 DEF CredentialsInv
  <2>3. pc' = "eventMeshManager" => oauth' # NoCreds
    BY <1>12 DEF SyncOauth2Status, Continue, SyncStatus
  <2> QED  BY <2>2, <2>3 DEF CredentialsInv
<1>13. CASE ReconcileEventMeshSubManager
  <2> DEFINE m == PreparedEventMeshManager
             n == [m EXCEPT !.cfg.env = current.spec.cfg.env]
  <2>1. /\ pc = "eventMeshManager" /\ UNCHANGED oauth
        /\ pc' \notin {"oauthStatus", "eventMeshManager"} /\ oauth # NoCreds
    BY <1>13 DEF ReconcileEventMeshSubManager, SyncStatus, Continue, CredentialsInv
  <2>2. /\ m \in Manager /\ ManagerOK(m) /\ (m.started => m = em)
    BY <2>1, PreparedEventMesh
  <2>3. \/ mgr' = mgr
        \/ mgr' = [mgr EXCEPT !["EventMesh"] = m]
        \/ mgr' = [mgr EXCEPT !["EventMesh"] = StartSubManager(n, oauth)]
        \/ mgr' = [mgr EXCEPT !["EventMesh"] = StopSubManagerFailed(@)]
    BY <1>13 DEF ReconcileEventMeshSubManager, StartedEventMeshManager
  <2> HIDE DEF m
  <2>4. StartSubManager(n, oauth).creds = oauth
    BY <2>2 DEF Manager, StartSubManager
  <2> HIDE DEF n, em
  <2>5. CASE mgr' = [mgr EXCEPT !["EventMesh"] = StartSubManager(n, oauth)]
    <3>1. mgr'["EventMesh"] = StartSubManager(n, oauth)  BY <1>1, <2>5
    <3> QED  BY <2>1, <2>4, <3>1 DEF CredentialsInv
  <2>6. CASE mgr' = [mgr EXCEPT !["EventMesh"] = m]
    <3>1. mgr'["EventMesh"] = m  BY <1>1, <2>6
    <3>2. m.running => m = em  BY <2>2 DEF ManagerOK
    <3> QED  BY <2>1, <3>1, <3>2 DEF CredentialsInv, em
  <2>7. CASE mgr' = [mgr EXCEPT !["EventMesh"] = StopSubManagerFailed(@)]
    BY <1>1, <1>5, <1>6, <2>1, <2>7
  <2>8. CASE mgr' = mgr  BY <2>1, <2>8, CredentialsFrame
  <2> QED  BY <2>3, <2>5, <2>6, <2>7, <2>8
<1>14. CASE UNCHANGED vars
  BY <1>14, CredentialsFrame
<1> QED
  BY <1>2, <1>3, <1>4, <1>7, <1>8, <1>9, <1>10, <1>11, <1>12, <1>13, <1>14 DEF Next, HandlerStep

(***************************************************************************)
(* A running EventMesh manager authenticates with the credentials the      *)
(* Reconciler holds: syncOauth2ClientIDAndSecret replaces them only after  *)
(* the manager that used the old ones was stopped.                         *)
(***************************************************************************)
THEOREM CredentialsCurrent == Spec => []CredentialsInUse
<1>1. Init => CredentialsInv
  BY DEF Init, CredentialsInv, Backend, NoManager
<1>2. CredentialsInv => CredentialsInUse  BY DEF CredentialsInv, CredentialsInUse
<1> QED  BY <1>1, <1>2, CredentialsStep, TypeInvAlways, PTL DEF Spec

-----------------------------------------------------------------------------
(***************************************************************************)
(* The published status. A handler builds it up in its copy over several   *)
(* steps and writes it at the end: what a Ready status has to say is       *)
(* collected step by step, and a step that ends early leaves a status that *)
(* is either not Ready or was consistent when it was read.                 *)
(***************************************************************************)
ConsistentStatus(st) ==
  st.state = "Ready" =>
    /\ st.conditions["BackendAvailable"] = "True"
    /\ st.conditions["PublisherProxyReady"] = "True"
    /\ st.publisherService
    /\ st.activeBackend # "" /\ st.specHash # NoHash

\* The steps after SyncStatusActiveBackend.
NamedStep ==
  {"nats", "natsModuleMissing", "natsManager", "eventMesh", "oauth", "oauthStatus",
   "eventMeshManager", "proxy", "state"}

\* From these steps the copy is not written any more.
DroppedStep == {"idle", "addFinalizer", "removeFinalizer"}

\* What the handlers have put into the copy when they get to their next step.
CopyOK ==
  /\ pc \notin DroppedStep => ConsistentStatus(current.status)
  /\ pc \in NamedStep => current.status.activeBackend # ""
  /\ pc \in {"proxy", "natsManager", "state"} =>
       current.status.conditions["BackendAvailable"] = "True"
  /\ pc = "state" \/ (pc = "proxy" /\ current.spec.type # "NATS") =>
       current.status.specHash # NoHash
  /\ pc = "nats" => current.spec.type = "NATS"

StatusInv ==
  /\ ConsistentStatus(eventing.status) /\ ConsistentStatus(cached.status)
  /\ CopyOK

\* A helper that reports a problem sets a state that is not Ready.
LEMMA ProblemStates ==
  ASSUME NEW st \in EventingStatus
  PROVE  /\ \A s \in State : /\ WithNATSState(st, s).state = s
                             /\ WithSubManagerState(st, s).state = s
                             /\ WithDeletionErr(st, s).state = s
         /\ WithEmptyBackend(st).state = "Warning"
         /\ WithPublisherProxyErr(st).state = "Error"
         /\ [WithPublisherProxyErr(st) EXCEPT !.publisherService = FALSE].state = "Error"
         /\ WithSwitchedBackend(st).state = "Processing"
         /\ WithProxyProcessing(st).state = "Processing"
<1> USE DEF EventingStatus, UpdateCondition, SetState
<1>1. ASSUME NEW s \in State
      PROVE  /\ WithNATSState(st, s).state = s
             /\ WithSubManagerState(st, s).state = s
             /\ WithDeletionErr(st, s).state = s
  BY DEF WithNATSState, WithSubManagerState, WithDeletionErr
<1>2. WithEmptyBackend(st).state = "Warning"  BY DEF WithEmptyBackend
<1>3. /\ WithPublisherProxyErr(st).state = "Error"
      /\ [WithPublisherProxyErr(st) EXCEPT !.publisherService = FALSE].state = "Error"
  BY DEF WithPublisherProxyErr
<1>4. WithSwitchedBackend(st).state = "Processing"  BY DEF WithSwitchedBackend
<1>5. WithProxyProcessing(st).state = "Processing"  BY DEF WithProxyProcessing
<1> QED  BY <1>1, <1>2, <1>3, <1>4, <1>5

\* A status that is not Ready promises nothing.
LEMMA NotReadyHelpers ==
  ASSUME NEW st \in EventingStatus
  PROVE  /\ \A s \in State \ {"Ready"} : /\ ConsistentStatus(WithNATSState(st, s))
                                         /\ ConsistentStatus(WithSubManagerState(st, s))
                                         /\ ConsistentStatus(WithDeletionErr(st, s))
         /\ ConsistentStatus(WithEmptyBackend(st))
         /\ ConsistentStatus(WithPublisherProxyErr(st))
         /\ ConsistentStatus([WithPublisherProxyErr(st) EXCEPT !.publisherService = FALSE])
         /\ ConsistentStatus(WithSwitchedBackend(st))
         /\ ConsistentStatus(WithProxyProcessing(st))
<1>1. ASSUME NEW t, t.state # "Ready" PROVE ConsistentStatus(t)
  BY <1>1 DEF ConsistentStatus
<1>2. ASSUME NEW s \in State \ {"Ready"}
      PROVE  /\ WithNATSState(st, s).state # "Ready"
             /\ WithSubManagerState(st, s).state # "Ready"
             /\ WithDeletionErr(st, s).state # "Ready"
  BY ProblemStates
<1>3. /\ WithEmptyBackend(st).state # "Ready"
      /\ WithPublisherProxyErr(st).state # "Ready"
      /\ [WithPublisherProxyErr(st) EXCEPT !.publisherService = FALSE].state # "Ready"
      /\ WithSwitchedBackend(st).state # "Ready"
      /\ WithProxyProcessing(st).state # "Ready"
  BY ProblemStates
<1> QED  BY <1>1, <1>2, <1>3

\* The other helpers keep a consistent status consistent, and set what they are for.
LEMMA ProgressHelpers ==
  ASSUME NEW st \in EventingStatus, ConsistentStatus(st)
  PROVE  /\ ConsistentStatus(InitStateProcessing(st))
         /\ ConsistentStatus(WithBackendAvailable(st))
         /\ WithBackendAvailable(st).conditions["BackendAvailable"] = "True"
         /\ WithBackendAvailable(st).activeBackend = st.activeBackend
         /\ WithBackendAvailable(st).specHash = st.specHash
         /\ ConsistentStatus(WithSubManagerReady(st))
         /\ WithSubManagerReady(st).conditions["BackendAvailable"]
              = st.conditions["BackendAvailable"]
         /\ WithSubManagerReady(st).activeBackend = st.activeBackend
         /\ WithSubManagerReady(st).specHash = st.specHash
         /\ ConsistentStatus(UpdateCondition(st, "SubscriptionManagerReady", "False"))
         /\ \A b \in Backend : /\ ConsistentStatus(WithActiveBackend(st, b))
                               /\ WithActiveBackend(st, b).activeBackend = b
         /\ \A h \in Hash \ {NoHash} :
              /\ ConsistentStatus([st EXCEPT !.specHash = h])
              /\ [st EXCEPT !.specHash = h].specHash = h
              /\ [st EXCEPT !.specHash = h].activeBackend = st.activeBackend
              /\ [st EXCEPT !.specHash = h].conditions = st.conditions
<1> USE DEF EventingStatus, ConditionType, UpdateCondition, SetState, ConsistentStatus
<1>1. ConsistentStatus(InitStateProcessing(st))  BY DEF InitStateProcessing
<1>2. /\ ConsistentStatus(WithBackendAvailable(st))
      /\ WithBackendAvailable(st).conditions["BackendAvailable"] = "True"
      /\ WithBackendAvailable(st).activeBackend = st.activeBackend
      /\ WithBackendAvailable(st).specHash = st.specHash
  BY DEF WithBackendAvailable
<1>3. /\ ConsistentStatus(WithSubManagerReady(st))
      /\ WithSubManagerReady(st).conditions["BackendAvailable"]
           = st.conditions["BackendAvailable"]
      /\ WithSubManagerReady(st).activeBackend = st.activeBackend
      /\ WithSubManagerReady(st).specHash = st.specHash
  BY DEF WithSubManagerReady
<1>4. ConsistentStatus(UpdateCondition(st, "SubscriptionManagerReady", "False"))  OBVIOUS
<1>5. ASSUME NEW b \in Backend
      PROVE  /\ ConsistentStatus(WithActiveBackend(st, b))
             /\ WithActiveBackend(st, b).activeBackend = b
  BY DEF WithActiveBackend, Backend
<1>6. ASSUME NEW h \in Hash \ {NoHash}
      PROVE  /\ ConsistentStatus([st EXCEPT !.specHash = h])
             /\ [st EXCEPT !.specHash = h].specHash = h
             /\ [st EXCEPT !.specHash = h].activeBackend = st.activeBackend
             /\ [st EXCEPT !.specHash = h].conditions = st.conditions
  OBVIOUS
<1> HIDE DEF EventingStatus, ConditionType, UpdateCondition, SetState, ConsistentStatus
<1> QED  BY <1>1, <1>2, <1>3, <1>4, <1>5, <1>6

\* handleEventingState completes a status that names backend, hash and an
\* available backend.
LEMMA ReadyHelper ==
  ASSUME NEW st \in EventingStatus, st.activeBackend # "", st.specHash # NoHash,
         st.conditions["BackendAvailable"] = "True"
  PROVE  ConsistentStatus(WithProxyReady(st))
BY DEF EventingStatus, ConditionType, UpdateCondition, SetState, ConsistentStatus, WithProxyReady

\* A handler that goes on to sync a consistent status.
LEMMA SyncKeepsCopy ==
  ASSUME TypeOK, NEW st, NEW res, SyncStatus(st, res), ConsistentStatus(st)
  PROVE  CopyOK'
<1>1. current'.status = st /\ pc' = "sync"  BY DEF SyncStatus, TypeOK
<1> QED  BY <1>1 DEF CopyOK, NamedStep, DroppedStep

\* A handler that goes on to its next step with what that step relies on.
LEMMA ContinueKeepsCopy ==
  ASSUME TypeOK, NEW st, NEW step, Continue(st, step),
         step \notin DroppedStep => ConsistentStatus(st),
         step \in NamedStep => st.activeBackend # "",
         step \in {"proxy", "natsManager", "state"} =>
           st.conditions["BackendAvailable"] = "True",
         step = "state" \/ (step = "proxy" /\ current.spec.type # "NATS") => st.specHash # NoHash,
         step = "nats" => current.spec.type = "NATS"
  PROVE  CopyOK'
<1>1. current'.status = st /\ current'.spec = current.spec /\ pc' = step
  BY DEF Continue, TypeOK
<1> QED  BY <1>1 DEF CopyOK

\* A handler that returns: the copy is dropped.
LEMMA ReturnKeepsCopy ==
  ASSUME NEW again, Return(again)
  PROVE  CopyOK'
BY DEF Return, CopyOK, NamedStep, DroppedStep

\* A step that leaves the resource and the cache alone.
LEMMA StatusFrame ==
  ASSUME StatusInv, UNCHANGED <<eventing, cached>>, CopyOK'
  PROVE  StatusInv'
BY DEF StatusInv

\* syncEventingStatus publishes the status of the copy, or nothing.
LEMMA PublishKeeps ==
  ASSUME TypeOK, StatusInv, StatusSynced \/ StatusNotSynced, UNCHANGED cached,
         ConsistentStatus(current.status), CopyOK'
  PROVE  StatusInv'
<1>1. eventing' = eventing \/ eventing' = [eventing EXCEPT !.status = current.status]
  BY DEF StatusSynced, StatusNotSynced, Write
<1>2. ConsistentStatus(eventing'.status)  BY <1>1 DEF TypeOK, Eventing, StatusInv
<1> QED  BY <1>2 DEF StatusInv

\* What users, the informer and the cluster do keeps StatusInv.
LEMMA StatusEnvironment ==
  ASSUME TypeOK, StatusInv, Environment
  PROVE  StatusInv'
<1> USE DEF vars, resource, world, budget
<1>1. ConsistentStatus(NewStatus)  BY DEF ConsistentStatus, NewStatus
<1>2. UNCHANGED <<pc, current>> => CopyOK'  BY DEF StatusInv, CopyOK
<1>3. CASE InformerSync
  BY <1>2, <1>3 DEF InformerSync, StatusInv
<1>4. CASE CreateEventing
  <2>1. eventing'.status = NewStatus
    BY <1>4 DEF CreateEventing, Write, NoEventing
  <2> QED  BY <1>1, <1>2, <1>4, <2>1 DEF CreateEventing, Edit, StatusInv
<1>5. CASE EditBackend
  <2>1. eventing'.status = eventing.status
    BY <1>5 DEF EditBackend, Write, TypeOK, Eventing
  <2> QED  BY <1>2, <1>5, <2>1 DEF EditBackend, Edit, StatusInv
<1>6. CASE DeleteEventing
  <2>1. eventing'.status \in {eventing.status, NewStatus}
    BY <1>6 DEF DeleteEventing, Write, TypeOK, Eventing, NoEventing
  <2> QED  BY <1>1, <1>2, <1>6, <2>1 DEF DeleteEventing, Edit, StatusInv
<1>7. CASE Crash
  <2>1. CopyOK'  BY <1>7 DEF Crash, CopyOK, NamedStep, DroppedStep
  <2> QED  BY <1>7, <2>1 DEF Crash, StatusInv
<1>8. CASE \/ WatchEvent \/ ChangeSubscriptions \/ ChangeOauthSecret \/ DeploymentAvailable
           \/ GarbageCollect \/ NatsDown \/ NatsBack
  <2>1. UNCHANGED <<eventing, cached, pc, current>>
    BY <1>8
    DEF WatchEvent, ChangeSubscriptions, ChangeOauthSecret, Edit, DeploymentAvailable,
        GarbageCollect, NatsDown, NatsBack
  <2> QED  BY <1>2, <2>1, StatusFrame
<1> QED  BY <1>3, <1>4, <1>5, <1>6, <1>7, <1>8 DEF Environment

\* A reconciliation starts from the cached status, which was published.
LEMMA StatusReconcile ==
  ASSUME TypeOK, StatusInv, Reconcile
  PROVE  StatusInv'
<1>1. cached.status \in EventingStatus /\ ConsistentStatus(cached.status)
  BY DEF TypeOK, Eventing, StatusInv
<1>2. ASSUME NEW st, NEW step, Fetch(st, step), ConsistentStatus(st), step \notin NamedStep
      PROVE  StatusInv'
  <2>1. current'.status = st /\ pc' = step /\ UNCHANGED <<eventing, cached>>
    BY <1>2 DEF Fetch
  <2>2. CopyOK'  BY <1>2, <2>1 DEF CopyOK, NamedStep
  <2> QED  BY <2>1, <2>2, StatusFrame
<1>3. CASE ReconcileNothing  BY <1>1, <1>2, <1>3 DEF ReconcileNothing, NamedStep
<1>4. CASE ReconcileDeletion  BY <1>1, <1>2, <1>4 DEF ReconcileDeletion, NamedStep
<1>5. CASE ReconcileNew  BY <1>1, <1>2, <1>5 DEF ReconcileNew, NamedStep
<1>6. InitStateProcessing(cached.status) \in EventingStatus
      /\ ConsistentStatus(InitStateProcessing(cached.status))
  BY <1>1, StatusTypes, ProgressHelpers
<1>7. CASE ReconcileEmptyBackend
  <2>1. ConsistentStatus(WithEmptyBackend(InitStateProcessing(cached.status)))
    BY <1>6, NotReadyHelpers
  <2> QED  BY <1>2, <1>7, <2>1 DEF ReconcileEmptyBackend, NamedStep
<1>8. CASE ReconcileBackend  BY <1>2, <1>6, <1>8 DEF ReconcileBackend, NamedStep
<1> QED  BY <1>3, <1>4, <1>5, <1>7, <1>8 DEF Reconcile

\* A step of a handler keeps StatusInv.
LEMMA StatusHandler ==
  ASSUME TypeInv, StatusInv, HandlerStep
  PROVE  StatusInv'
<1> USE DEF vars, resource, world, budget
<1> DEFINE st == current.status
<1>1. TypeOK /\ st \in EventingStatus  BY DEF TypeInv, TypeOK
<1>2. /\ pc \notin DroppedStep => ConsistentStatus(st)
      /\ pc \in NamedStep => st.activeBackend # ""
      /\ pc \in {"proxy", "natsManager", "state"} =>
           st.conditions["BackendAvailable"] = "True"
      /\ pc = "state" \/ (pc = "proxy" /\ current.spec.type # "NATS") => st.specHash # NoHash
  BY DEF StatusInv, CopyOK
<1> HIDE DEF st
<1>e. "Error" \in State \ {"Ready"} /\ "Warning" \in State \ {"Ready"}  BY DEF State
<1>n. /\ ConsistentStatus(WithNATSState(st, "Error"))
      /\ ConsistentStatus(WithNATSState(st, "Warning"))
      /\ ConsistentStatus(WithSubManagerState(st, "Error"))
      /\ ConsistentStatus(WithSubManagerState(st, "Warning"))
      /\ ConsistentStatus(WithDeletionErr(st, "Error"))
      /\ ConsistentStatus(WithDeletionErr(st, "Warning"))
      /\ ConsistentStatus(WithPublisherProxyErr(st))
      /\ ConsistentStatus([WithPublisherProxyErr(st) EXCEPT !.publisherService = FALSE])
      /\ ConsistentStatus(WithProxyProcessing(st))
  BY <1>1, <1>e, NotReadyHelpers
<1>sync. ASSUME NEW s, NEW res, SyncStatus(s, res), ConsistentStatus(s)
         PROVE  CopyOK'
  BY <1>1, <1>sync, SyncKeepsCopy
<1>ret. ASSUME NEW again, Return(again) PROVE CopyOK'
  BY <1>ret, ReturnKeepsCopy
<1>same. ASSUME NEW step, Continue(st, step), pc \notin DroppedStep,
                step \in NamedStep => pc \in NamedStep,
                step \notin {"nats", "proxy", "natsManager", "state"}
         PROVE  CopyOK'
  BY <1>1, <1>2, <1>same, ContinueKeepsCopy
<1>3. CASE AddFinalizer
  <2>1. CopyOK'  BY <1>3, <1>ret DEF AddFinalizer
  <2>2. eventing' \in {eventing, [eventing EXCEPT !.finalizer = TRUE]} /\ UNCHANGED cached
    BY <1>3 DEF AddFinalizer, Write
  <2>3. eventing'.status = eventing.status  BY <1>1, <2>2 DEF TypeOK, Eventing
  <2> QED  BY <2>1, <2>2, <2>3 DEF StatusInv
<1>4. CASE NoSwitch
  <2>1. CopyOK'
    BY <1>4, <1>same DEF NoSwitch, DroppedStep, NamedStep, st
  <2> QED  BY <1>4, <2>1, StatusFrame DEF NoSwitch
<1>5. CASE StopPreviousBackend
  <2>1. current'.status = WithSwitchedBackend(st) /\ pc' = "deleteProxy"
    BY <1>1, <1>5 DEF StopPreviousBackend, TypeOK, st
  <2>2. ConsistentStatus(WithSwitchedBackend(st))  BY <1>1, NotReadyHelpers
  <2>3. CopyOK'  BY <2>1, <2>2 DEF CopyOK, NamedStep, DroppedStep
  <2> QED  BY <1>5, <2>3, StatusFrame DEF StopPreviousBackend
<1>6. CASE StopPreviousBackendFails
  <2>1. CopyOK'  BY <1>6, <1>n, <1>sync DEF StopPreviousBackendFails, st
  <2> QED  BY <1>6, <2>1, StatusFrame DEF StopPreviousBackendFails
<1>7. CASE DeleteProxyOfPreviousBackend
  <2>1. \/ Continue(st, "activeBackend") /\ pc = "deleteProxy"
        \/ SyncStatus(WithSubManagerState(st, "Error"), "error")
    BY <1>7 DEF DeleteProxyOfPreviousBackend, st
  <2>2. CopyOK'  BY <2>1, <1>n, <1>sync, <1>same DEF DroppedStep, NamedStep
  <2> QED  BY <1>7, <2>2, StatusFrame DEF DeleteProxyOfPreviousBackend
<1>8. CASE SyncActiveBackend
  <2> DEFINE new == WithActiveBackend(st, current.spec.type)
             next == IF current.spec.type = "NATS" THEN "nats" ELSE "eventMesh"
  <2>1. pc = "activeBackend" /\ current.spec.type \in Backend
    BY <1>8, BackendSpec DEF SyncActiveBackend, TypeInv, BackendStep
  <2>2. new \in EventingStatus /\ ConsistentStatus(new) /\ new.activeBackend # ""
    BY <1>1, <1>2, <2>1, StatusTypes, ProgressHelpers DEF DroppedStep, Backend
  <2>3. \/ Continue(new, next)
        \/ SyncStatus(WithSubManagerState(new, "Error"), "error")
    BY <1>8 DEF SyncActiveBackend, st
  <2>4. ConsistentStatus(WithSubManagerState(new, "Error"))
    BY <2>2, <1>e, NotReadyHelpers
  <2>5. next \notin {"proxy", "natsManager", "state"}
        /\ (next = "nats" => current.spec.type = "NATS")
    OBVIOUS
  <2> HIDE DEF new, next
  <2>6. CopyOK'  BY <1>1, <1>sync, <2>2, <2>3, <2>4, <2>5, ContinueKeepsCopy
  <2> QED  BY <1>8, <2>6, StatusFrame DEF SyncActiveBackend
<1>9. CASE NATSLookupFails
  <2>1. /\ pc = "nats"
        /\ \/ Return(TRUE) \/ SyncStatus(WithNATSState(st, "Error"), "error")
           \/ Continue(st, "natsModuleMissing")
    BY <1>9 DEF NATSLookupFails, st
  <2>2. CopyOK'  BY <2>1, <1>n, <1>sync, <1>same, <1>ret DEF DroppedStep, NamedStep
  <2> QED  BY <1>9, <2>2, StatusFrame DEF NATSLookupFails
<1>10. CASE NATSModuleMissing
  <2>1. SyncStatus(WithNATSState(st, "Warning"), "error") \/ Return(TRUE)
    BY <1>10 DEF NATSModuleMissing, st
  <2>2. CopyOK'  BY <2>1, <1>n, <1>sync, <1>ret
  <2> QED  BY <1>10, <2>2, StatusFrame DEF NATSModuleMissing
<1>11. CASE ConnectToNATS
  <2> DEFINE new == WithBackendAvailable(st)
  <2>1. /\ pc = "nats"
        /\ \/ Continue(new, "proxy")
           \/ \E res : SyncStatus(WithNATSState(st, "Warning"), res)
    BY <1>11 DEF ConnectToNATS, st
  <2>2. /\ ConsistentStatus(new) /\ new.activeBackend # ""
        /\ new.conditions["BackendAvailable"] = "True"
    BY <1>1, <1>2, <2>1, ProgressHelpers DEF DroppedStep, NamedStep
  <2>3. pc = "nats" => current.spec.type = "NATS"
    BY DEF StatusInv, CopyOK
  <2> HIDE DEF new
  <2>4. CopyOK'  BY <1>1, <1>n, <1>sync, <2>1, <2>2, <2>3, ContinueKeepsCopy
  <2> QED  BY <1>11, <2>4, StatusFrame DEF ConnectToNATS
<1>12. CASE ReconcileNATSSubManager
  <2> DEFINE new == [st EXCEPT !.specHash = NATSHash]
  <2>1. /\ pc = "natsManager" /\ NATSHash \in Hash \ {NoHash}
    <3>1. pc = "natsManager"  BY <1>12 DEF ReconcileNATSSubManager
    <3>2. current.spec.cfg \in Config /\ current.spec.cfg # NoConfig
      BY <3>1, BackendSpec DEF TypeInv, BackendStep
    <3> QED  BY <3>1, <3>2 DEF NATSHash, Hash, NoHash, Backend
  <2>2. /\ ConsistentStatus(new) /\ new.activeBackend # "" /\ new.specHash # NoHash
        /\ new.conditions["BackendAvailable"] = "True"
    BY <1>1, <1>2, <2>1, ProgressHelpers DEF DroppedStep, NamedStep
  <2>3. \/ Continue(st, "state") /\ st.specHash = NATSHash
        \/ Continue(new, "state")
        \/ SyncStatus(WithNATSState(st, "Error"), "error")
    BY <1>12, <2>1, PreparedNATS DEF ReconcileNATSSubManager, st
  <2> HIDE DEF new
  <2>4. CopyOK'
    BY <1>1, <1>2, <1>n, <1>sync, <2>1, <2>2, <2>3, ContinueKeepsCopy
    DEF DroppedStep, NamedStep
  <2> QED  BY <1>12, <2>4, StatusFrame DEF ReconcileNATSSubManager
<1>13. CASE ReconcileEventMeshBackend
  <2>1. /\ pc = "eventMesh"
        /\ \/ Continue(st, "oauth")
           \/ SyncStatus(WithSubManagerState(st, "Error"), "error")
           \/ SyncStatus(WithSubManagerState(st, "Warning"), "error")
    BY <1>13 DEF ReconcileEventMeshBackend, st
  <2>2. CopyOK'  BY <2>1, <1>n, <1>sync, <1>same DEF DroppedStep, NamedStep
  <2> QED  BY <1>13, <2>2, StatusFrame DEF ReconcileEventMeshBackend
<1>14. CASE SyncOauth2ClientIDAndSecret
  <2> DEFINE new == WithSubManagerState(st, "Error")
  <2>1. /\ pc = "oauth"
        /\ \/ Continue(st, "eventMeshManager")
           \/ current'.status = new /\ pc' = "oauthStatus"
           \/ SyncStatus(new, "error")
    BY <1>1, <1>14 DEF SyncOauth2ClientIDAndSecret, TypeOK, st
  <2>2. new.activeBackend = st.activeBackend /\ ConsistentStatus(new)
    BY <1>1, <1>n DEF WithSubManagerState, UpdateCondition, SetState, EventingStatus
  <2>3. st.activeBackend # ""  BY <1>2, <2>1 DEF NamedStep
  <2> HIDE DEF new
  <2>4. ASSUME current'.status = new, pc' = "oauthStatus"
        PROVE  CopyOK'
    BY <2>2, <2>3, <2>4 DEF CopyOK
  <2>5. CopyOK'  BY <2>1, <2>2, <2>4, <1>sync, <1>same DEF DroppedStep, NamedStep
  <2> QED  BY <1>14, <2>5, StatusFrame DEF SyncOauth2ClientIDAndSecret
<1>15. CASE SyncOauth2Status
  <2>1. /\ pc = "oauthStatus" /\ UNCHANGED cached /\ (StatusSynced \/ StatusNotSynced)
        /\ \/ Continue(st, "eventMeshManager")
           \/ SyncStatus(WithSubManagerState(st, "Error"), "error")
    BY <1>15 DEF SyncOauth2Status, st
  <2>2. CopyOK'  BY <2>1, <1>n, <1>sync, <1>same DEF DroppedStep, NamedStep
  <2> QED  BY <1>1, <1>2, <2>1, <2>2, PublishKeeps DEF DroppedStep, st
<1>16. CASE ReconcileEventMeshSubManager
  <2> DEFINE new == [st EXCEPT !.specHash = EventMeshHash]
             ready(s) == WithSubManagerReady(WithBackendAvailable(s))
  <2>1. pc = "eventMeshManager" /\ EventMeshHash \in Hash \ {NoHash}
    <3>1. pc = "eventMeshManager"  BY <1>16 DEF ReconcileEventMeshSubManager
    <3>2. current.spec.cfg \in Config /\ current.spec.cfg # NoConfig
      BY <3>1, BackendSpec DEF TypeInv, BackendStep
    <3> QED  BY <3>1, <3>2 DEF EventMeshHash, Hash, NoHash, Backend
  <2>2. /\ new \in EventingStatus /\ ConsistentStatus(new)
        /\ new.activeBackend # "" /\ new.specHash # NoHash
    BY <1>1, <1>2, <2>1, StatusTypes, ProgressHelpers DEF DroppedStep, NamedStep
  <2>3. \/ Continue(ready(st), "proxy") /\ st.specHash = EventMeshHash
        \/ Continue(ready(new), "proxy")
        \/ SyncStatus(WithSubManagerState(st, "Error"), "error")
        \/ SyncStatus(WithSubManagerState(st, "Warning"), "error")
    BY <1>16, <2>1, PreparedEventMesh DEF ReconcileEventMeshSubManager, st
  <2> HIDE DEF new
  <2>4. ASSUME NEW s \in EventingStatus, ConsistentStatus(s), s.activeBackend # "",
               s.specHash # NoHash, Continue(ready(s), "proxy")
        PROVE  CopyOK'
    <3>1. WithBackendAvailable(s) \in EventingStatus  BY StatusTypes
    <3>2. /\ ConsistentStatus(ready(s)) /\ ready(s).activeBackend # ""
          /\ ready(s).specHash # NoHash
          /\ ready(s).conditions["BackendAvailable"] = "True"
      BY <2>4, <3>1, ProgressHelpers
    <3> HIDE DEF ready
    <3> QED  BY <1>1, <2>4, <3>2, ContinueKeepsCopy
  <2>5. ConsistentStatus(st) /\ st.activeBackend # ""  BY <1>2, <2>1 DEF DroppedStep, NamedStep
  <2> HIDE DEF ready
  <2>6. CopyOK'  BY <1>1, <1>n, <1>sync, <2>1, <2>2, <2>3, <2>4, <2>5
  <2> QED  BY <1>16, <2>6, StatusFrame DEF ReconcileEventMeshSubManager
<1>17. CASE HandlePublisherProxy
  <2> DEFINE next == IF current.spec.type = "NATS" THEN "natsManager" ELSE "state"
  <2>1. /\ pc = "proxy"
        /\ \/ Continue(st, next)
           \/ SyncStatus(WithPublisherProxyErr(st), "error")
    BY <1>17 DEF HandlePublisherProxy, st
  <2>2. /\ ConsistentStatus(st) /\ st.activeBackend # ""
        /\ st.conditions["BackendAvailable"] = "True"
    BY <1>2, <2>1 DEF DroppedStep, NamedStep
  <2>3. next \notin {"nats", "proxy"} /\ (next = "state" => st.specHash # NoHash)  BY <1>2, <2>1
  <2> HIDE DEF next
  <2>4. CopyOK'  BY <1>1, <1>n, <1>sync, <2>1, <2>2, <2>3, ContinueKeepsCopy
  <2> QED  BY <1>17, <2>4, StatusFrame DEF HandlePublisherProxy
<1>18. CASE HandleEventingState
  <2>1. /\ pc = "state"
        /\ \/ SyncStatus(WithProxyReady(st), "done")
           \/ SyncStatus(WithProxyProcessing(st), "requeue")
           \/ SyncStatus([WithPublisherProxyErr(st) EXCEPT !.publisherService = FALSE], "error")
           \/ Return(TRUE)
    BY <1>18 DEF HandleEventingState, st
  <2>2. ConsistentStatus(WithProxyReady(st))
    BY <1>1, <1>2, <2>1, ReadyHelper DEF NamedStep
  <2>3. CopyOK'  BY <1>n, <1>sync, <1>ret, <2>1, <2>2
  <2> QED  BY <1>18, <2>3, StatusFrame DEF HandleEventingState
<1>19. CASE SyncEventingStatus
  <2>1. /\ pc = "sync" /\ UNCHANGED cached /\ (StatusSynced \/ StatusNotSynced)
        /\ \E again : Return(again)
    BY <1>19 DEF SyncEventingStatus
  <2>2. CopyOK'  BY <2>1, <1>ret
  <2> QED  BY <1>1, <1>2, <2>1, <2>2, PublishKeeps DEF DroppedStep, st
<1>20. CASE CheckSubscriptions
  <2>1. /\ pc = "checkSubscriptions"
        /\ \/ Continue(st, "stopManager")
           \/ SyncStatus(WithDeletionErr(st, "Warning"), "error")
           \/ SyncStatus(WithDeletionErr(st, "Error"), "error")
    BY <1>20 DEF CheckSubscriptions, st
  <2>2. CopyOK'  BY <2>1, <1>n, <1>sync, <1>same DEF DroppedStep, NamedStep
  <2> QED  BY <1>20, <2>2, StatusFrame DEF CheckSubscriptions
<1>21. CASE StopManagerForDeletion
  <2> DEFINE new == UpdateCondition(st, "SubscriptionManagerReady", "False")
  <2>1. /\ pc = "stopManager"
        /\ \/ Continue(new, "deleteRoles")
           \/ SyncStatus(WithNATSState(st, "Error"), "error")
           \/ SyncStatus(WithSubManagerState(st, "Error"), "error")
    BY <1>21 DEF StopManagerForDeletion, st
  <2>2. ConsistentStatus(new)  BY <1>1, <1>2, <2>1, ProgressHelpers DEF DroppedStep
  <2> HIDE DEF new
  <2>3. CopyOK'  BY <1>1, <1>n, <1>sync, <2>1, <2>2, ContinueKeepsCopy DEF NamedStep
  <2> QED  BY <1>21, <2>3, StatusFrame DEF StopManagerForDeletion
<1>22. CASE DeleteClusterScopedResources
  <2>1. \/ \E s : Continue(s, "removeFinalizer")
        \/ SyncStatus(WithPublisherProxyErr(st), "error")
    BY <1>22 DEF DeleteClusterScopedResources, st
  <2>2. CopyOK'
    BY <1>1, <1>n, <1>sync, <2>1, ContinueKeepsCopy DEF NamedStep, DroppedStep
  <2> QED  BY <1>22, <2>2, StatusFrame DEF DeleteClusterScopedResources
<1>23. CASE RemoveFinalizer
  <2>1. CopyOK'  BY <1>23, <1>ret DEF RemoveFinalizer
  <2>2. eventing' \in {eventing, NoEventing} /\ UNCHANGED cached
    BY <1>23 DEF RemoveFinalizer, Write
  <2>3. ConsistentStatus(NoEventing.status)
    BY DEF NoEventing, NewStatus, ConsistentStatus
  <2> QED  BY <2>1, <2>2, <2>3 DEF StatusInv
<1> QED
  BY <1>3, <1>4, <1>5, <1>6, <1>7, <1>8, <1>9, <1>10, <1>11, <1>12, <1>13, <1>14, <1>15,
     <1>16, <1>17, <1>18, <1>19, <1>20, <1>21, <1>22, <1>23
  DEF HandlerStep

(***************************************************************************)
(* A status in state Ready, as it is published, has an available backend,  *)
(* a ready publisher and the publish service, and names the backend and    *)
(* the hash it was reached with: no early return of a handler and no step  *)
(* of a deletion leaves Ready standing next to what contradicts it.        *)
(***************************************************************************)
THEOREM ReadyConsistent == Spec => []ReadyIsConsistent
<1>1. Init => StatusInv
  <2>1. NoEventing.status.state = ""  BY DEF NoEventing, NewStatus
  <2>2. ConsistentStatus(NoEventing.status)  BY <2>1 DEF ConsistentStatus
  <2>3. ASSUME pc = "idle" PROVE CopyOK  BY <2>3 DEF CopyOK, NamedStep, DroppedStep
  <2> QED  BY <2>2, <2>3 DEF Init, StatusInv
<1>2. StatusInv => ReadyIsConsistent
  BY DEF StatusInv, ConsistentStatus, ReadyIsConsistent
<1>3. TypeInv /\ StatusInv /\ [Next]_vars => StatusInv'
  <2> SUFFICES ASSUME TypeInv, StatusInv, [Next]_vars PROVE StatusInv'
    OBVIOUS
  <2>1. TypeOK  BY DEF TypeInv
  <2>2. CASE UNCHANGED vars
    BY <2>2 DEF vars, resource, StatusInv, CopyOK
  <2> QED  BY <2>1, <2>2, StatusEnvironment, StatusReconcile, StatusHandler DEF Next
<1> QED  BY <1>1, <1>2, <1>3, TypeInvAlways, PTL DEF Spec

=============================================================================
