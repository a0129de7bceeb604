------------------------- MODULE EventingController -------------------------
(***************************************************************************)
(* The reconciler of the Eventing custom resource                          *)
(* (internal/controller/operator/eventing). One worker runs Reconcile; it  *)
(* is cut here at every call that can fail or during which the resource    *)
(* can change: the API server, the informer cache, the subscription        *)
(* managers and the NATS connection. Users, the API server, the NATS       *)
(* server and crashes of the process take steps in between.                *)
(***************************************************************************)
EXTENDS Naturals, Sequences, EventingStatus

CONSTANTS
  Creds,        \* OAuth2 credentials the webhook auth Secret can hold
  NoCreds,      \* no such Secret, or none read yet
  CachedReads,  \* reads may return what the informer cache holds
  FaultKinds,   \* the kinds of failure the environment may inject
  MaxEdits,     \* bound: changes by users (Eventing, Subscriptions, Secret)
  MaxFaults,    \* bound: failures injected and NATS outages
  MaxCrashes    \* bound: restarts of the process

ASSUME BoundsAssumption ==
  /\ MaxEdits \in Nat /\ MaxFaults \in Nat /\ MaxCrashes \in Nat
ASSUME CachedReadsAssumption == CachedReads \in BOOLEAN
ASSUME NoCredsAssumption == NoCreds \notin Creds

VARIABLES
  eventing,     \* the Eventing resource in the API server
  cached,       \* the copy the informer delivered last
  fresh,        \* which copies carry the latest resourceVersion
  queued,       \* a request waits in the workqueue
  pc,           \* where Reconcile stands
  current,      \* the deep copy Reconcile works on, and the credentials it read
  result,       \* what Reconcile returns once the status is synced
  mgr,          \* natsSubManager, eventMeshSubManager and their started flags
  oauth,        \* r.oauth2credentials
  natsConn,     \* r.natsConnection
  natsUp,       \* the NATS server accepts connections
  oauthSecret,  \* content of the webhook auth Secret
  proxy,        \* the publisher proxy's Kubernetes resources
  subs,         \* some Subscription resource exists
  edits, faults, crashes

resource == <<eventing, cached, fresh>>
world == <<natsUp, oauthSecret, subs>>
budget == <<edits, crashes>>
vars == <<resource, queued, pc, current, result, mgr, oauth, natsConn, proxy,
          world, budget, faults>>

-----------------------------------------------------------------------------
(***************************************************************************)
(* State.                                                                  *)
(***************************************************************************)

\* spec.backend: "nil" when the pointer is nil, "" when its type is empty.
NoSpec == [type |-> "nil", cfg |-> NoConfig]
Spec_ == {NoSpec} \cup [type : Backend \cup {""}, cfg : Config]

Eventing ==
  [present : BOOLEAN, deleting : BOOLEAN, finalizer : BOOLEAN,
   spec : Spec_, status : EventingStatus]

NoEventing ==
  [present |-> FALSE, deleting |-> FALSE, finalizer |-> FALSE,
   spec |-> NoSpec, status |-> NewStatus]

\* A subscription manager slot of the Reconciler. running: the context of the
\* referenced manager is alive. live: subscription controllers of this backend
\* alive in the process, referenced or not.
Manager ==
  [cfg : Config \cup {NoConfig}, started : BOOLEAN, running : BOOLEAN,
   creds : Creds \cup {NoCreds}, live : Nat]

NoManager ==
  [cfg |-> NoConfig, started |-> FALSE, running |-> FALSE,
   creds |-> NoCreds, live |-> 0]

\* What is applied next to the deployment, in this order. The three Services
\* count as one resource.
DeployOrder ==
  <<"ServiceAccount", "ClusterRole", "ClusterRoleBinding", "Service", "HPA">>
\* What DeletePublisherProxyResources deletes after the deployment.
DeleteOrder == <<"ServiceAccount", "Service", "HPA">>
ClusterScoped == {"ClusterRole", "ClusterRoleBinding"}
Resource == {"ServiceAccount", "Service", "HPA"} \cup ClusterScoped

Firsts(seq, n) == {seq[i] : i \in 1..n}

Proxy == [deployment : Hash, ready : BOOLEAN, resources : SUBSET Resource]
NoProxy == [deployment |-> NoHash, ready |-> FALSE, resources |-> {}]

\* handlers: where the one connection the callbacks were registered on is now.
NatsConn ==
  [state    : {"nil", "connected", "reconnecting", "closed"},
   handlers : {"none", "current", "replaced", "closed"}]

Step ==
  {"idle", "addFinalizer", "switch", "deleteProxy", "activeBackend", "nats",
   "natsModuleMissing", "natsManager", "eventMesh", "oauth", "oauthStatus",
   "eventMeshManager", "proxy", "state", "sync", "checkSubscriptions",
   "stopManager", "deleteRoles", "removeFinalizer"}

TypeOK ==
  /\ eventing \in Eventing /\ cached \in Eventing
  /\ fresh \subseteq {"cached", "current"}
  /\ queued \in BOOLEAN
  /\ pc \in Step
  /\ current \in [spec : Spec_, status : EventingStatus,
                  creds : Creds \cup {NoCreds}]
  /\ result \in {"done", "requeue", "error", "terminal"}
  /\ mgr \in [Backend -> Manager]
  /\ oauth \in Creds \cup {NoCreds}
  /\ natsConn \in NatsConn
  /\ natsUp \in BOOLEAN
  /\ oauthSecret \in Creds \cup {NoCreds}
  /\ proxy \in Proxy
  /\ subs \in BOOLEAN
  /\ edits \in 0..MaxEdits /\ faults \in 0..MaxFaults /\ crashes \in 0..MaxCrashes

NoCurrent == [spec |-> NoSpec, status |-> NewStatus, creds |-> NoCreds]

Init ==
  /\ eventing = NoEventing /\ cached = NoEventing /\ fresh = {"cached"}
  /\ queued = FALSE /\ pc = "idle" /\ current = NoCurrent /\ result = "done"
  /\ mgr = [b \in Backend |-> NoManager]
  /\ oauth = NoCreds
  /\ natsConn = [state |-> "nil", handlers |-> "none"]
  /\ natsUp = TRUE
  /\ oauthSecret \in Creds
  /\ proxy = NoProxy
  /\ subs = FALSE
  /\ edits = 0 /\ faults = 0 /\ crashes = 0

-----------------------------------------------------------------------------
(***************************************************************************)
(* Building blocks of the handlers.                                        *)
(***************************************************************************)

Fault(kind) ==
  /\ kind \in FaultKinds
  /\ faults < MaxFaults
  /\ faults' = faults + 1

\* A handler sets the status of its copy and goes on to syncEventingStatus,
\* after which Reconcile returns res.
SyncStatus(st, res) ==
  /\ current' = [current EXCEPT !.status = st]
  /\ result' = res
  /\ pc' = "sync"
  /\ UNCHANGED queued

\* A handler sets the status of its copy and goes on.
Continue(st, step) ==
  /\ current' = [current EXCEPT !.status = st]
  /\ pc' = step
  /\ UNCHANGED <<queued, result>>

\* Reconcile returns. An error and RequeueAfter bring the request back.
Return(again) ==
  /\ pc' = "idle"
  /\ queued' = (queued \/ again)
  /\ UNCHANGED <<current, result>>

\* The client reads from the informer cache, or it reads the latest version.
Readable == CachedReads \/ "cached" \in fresh

\* A write to the resource: nobody else has the new version yet.
Write(obj) == eventing' = obj /\ fresh' = {}

\* Mutant: the guard for a nil or stopped manager is dropped.
StopSubManagerUnguarded(m) == [NoManager EXCEPT !.live = m.live - 1]

\* stopNATSSubManager and stopEventMeshSubManager when the manager's Stop
\* succeeds; a manager that is nil or not started is left alone.
StopSubManager(m) ==
  IF m.cfg = NoConfig \/ ~m.started THEN m
  ELSE [NoManager EXCEPT !.live = IF m.running THEN m.live - 1 ELSE m.live]

\* Mutant: a manager whose Stop failed is taken for stopped, and its controller
\* goes on.
StopSubManagerForgotten(m) == [m EXCEPT !.started = FALSE]

\* The same when Stop fails: both managers cancel their context before the
\* cleanup that returns the error, and the Reconciler keeps its flags.
StopSubManagerFailed(m) ==
  [m EXCEPT !.running = FALSE,
            !.live = IF m.running THEN m.live - 1 ELSE m.live]

CanFailToStop(m) == m.cfg # NoConfig /\ m.started

\* Mutant: the flag is set and no controller runs.
FlagSubManager(m, creds) == [m EXCEPT !.started = TRUE, !.creds = creds]

\* Start of a manager: its controller runs on a new context.
StartSubManager(m, creds) ==
  [m EXCEPT !.started = TRUE, !.running = TRUE, !.creds = creds,
            !.live = m.live + 1]

DeploymentFor(spec) == [type |-> spec.type, cfg |-> spec.cfg]

\* DeletePublisherProxyResources stopped after n objects.
DeletedProxy(n) ==
  IF n = 0 THEN proxy
  ELSE [deployment |-> NoHash, ready |-> FALSE,
        resources |-> proxy.resources \ Firsts(DeleteOrder, n - 1)]

\* Mutant: a deployment that exists is not updated.
DeployedProxyOnce(n) ==
  [deployment |-> IF proxy.deployment = NoHash THEN DeploymentFor(current.spec)
                  ELSE proxy.deployment,
   ready      |-> proxy.ready,
   resources  |-> proxy.resources \cup Firsts(DeployOrder, n)]

\* DeployPublisherProxy, then n of the other resources.
DeployedProxy(n) ==
  [deployment |-> DeploymentFor(current.spec),
   ready      |-> proxy.ready /\ proxy.deployment = DeploymentFor(current.spec),
   resources  |-> proxy.resources \cup Firsts(DeployOrder, n)]

-----------------------------------------------------------------------------
(***************************************************************************)
(* The informer cache, users, the cluster, the process.                    *)
(***************************************************************************)

\* The watch delivers the latest version: the cache and the workqueue get it.
InformerSync ==
  /\ "cached" \notin fresh
  /\ cached' = eventing
  /\ fresh' = fresh \cup {"cached"}
  /\ queued' = TRUE
  /\ UNCHANGED <<eventing, pc, current, result, mgr, oauth, natsConn, proxy,
                 world, budget, faults>>

\* The periodic resync of the cache, and events of watched resources.
WatchEvent ==
  /\ cached.present /\ ~queued
  /\ queued' = TRUE
  /\ UNCHANGED <<resource, pc, current, result, mgr, oauth, natsConn, proxy,
                 world, budget, faults>>

Edit ==
  /\ edits < MaxEdits
  /\ edits' = edits + 1
  /\ UNCHANGED <<queued, pc, current, result, mgr, oauth, natsConn, proxy,
                 natsUp, crashes, faults>>

CreateEventing ==
  /\ Edit
  /\ ~eventing.present
  /\ \E spec \in Spec_ :
       Write([NoEventing EXCEPT !.present = TRUE, !.spec = spec])
  /\ UNCHANGED <<cached, oauthSecret, subs>>

\* The CRD's validation rules keep a backend that was set from being removed.
EditBackend ==
  /\ Edit
  /\ eventing.present
  /\ \E spec \in Spec_ \ {eventing.spec, NoSpec} :
       Write([eventing EXCEPT !.spec = spec])
  /\ UNCHANGED <<cached, oauthSecret, subs>>

\* The API server keeps an object with a finalizer and marks it as deleting.
DeleteEventing ==
  /\ Edit
  /\ eventing.present /\ ~eventing.deleting
  /\ Write(IF eventing.finalizer THEN [eventing EXCEPT !.deleting = TRUE]
                                 ELSE NoEventing)
  /\ UNCHANGED <<cached, oauthSecret, subs>>

ChangeSubscriptions ==
  /\ Edit
  /\ subs' = ~subs
  /\ UNCHANGED <<resource, oauthSecret>>

ChangeOauthSecret ==
  /\ Edit
  /\ \E c \in (Creds \cup {NoCreds}) \ {oauthSecret} : oauthSecret' = c
  /\ UNCHANGED <<resource, subs>>

DeploymentAvailable ==
  /\ proxy.deployment # NoHash /\ ~proxy.ready
  /\ proxy' = [proxy EXCEPT !.ready = TRUE]
  /\ UNCHANGED <<resource, queued, pc, current, result, mgr, oauth, natsConn,
                 world, budget, faults>>

\* Kubernetes collects what the Eventing resource owned, and leaves
\* cluster-scoped dependents of a namespaced owner alone.
GarbageCollect ==
  /\ ~eventing.present /\ proxy # [NoProxy EXCEPT !.resources = proxy.resources \cap ClusterScoped]
  /\ proxy' = [NoProxy EXCEPT !.resources = proxy.resources \cap ClusterScoped]
  /\ UNCHANGED <<resource, queued, pc, current, result, mgr, oauth, natsConn,
                 world, budget, faults>>

\* The connection the callbacks were registered on is still open.
HandlersAlive == natsConn.handlers \in {"current", "replaced"}

NatsDown ==
  /\ natsUp
  /\ Fault("outage")
  /\ natsUp' = FALSE
  /\ natsConn' = [natsConn EXCEPT !.state = IF @ = "connected" THEN "reconnecting" ELSE @]
  /\ queued' = (queued \/ HandlersAlive)
  /\ UNCHANGED <<resource, pc, current, result, mgr, oauth, proxy, oauthSecret,
                 subs, budget>>

\* A connection that was never established before does not run the reconnect
\* callback.
NatsBack ==
  /\ ~natsUp
  /\ natsUp' = TRUE
  /\ natsConn' = [natsConn EXCEPT !.state = IF @ = "reconnecting" THEN "connected" ELSE @]
  /\ queued' \in {queued, queued \/ HandlersAlive}
  /\ UNCHANGED <<resource, pc, current, result, mgr, oauth, proxy, oauthSecret,
                 subs, budget, faults>>

\* The process restarts: its memory is new, its cache lists the resource anew.
Crash ==
  /\ crashes < MaxCrashes
  /\ crashes' = crashes + 1
  /\ cached' = eventing /\ fresh' = {"cached"}
  /\ queued' = eventing.present
  /\ pc' = "idle" /\ current' = NoCurrent /\ result' = "done"
  /\ mgr' = [b \in Backend |-> NoManager]
  /\ oauth' = NoCreds
  /\ natsConn' = [state |-> "nil", handlers |-> "none"]
  /\ UNCHANGED <<eventing, proxy, world, edits, faults>>

-----------------------------------------------------------------------------
(***************************************************************************)
(* Reconcile, up to the decision which handler runs.                       *)
(***************************************************************************)

\* Reconcile fetches the resource and copies it.
Fetch(st, step) ==
  /\ pc = "idle" /\ queued /\ Readable
  /\ queued' = FALSE
  /\ current' = [spec |-> cached.spec, status |-> st, creds |-> NoCreds]
  /\ fresh' = IF "cached" \in fresh THEN {"cached", "current"} ELSE {}
  /\ pc' = step
  /\ result' = "done"
  /\ UNCHANGED <<eventing, cached, mgr, oauth, natsConn, proxy, world, budget,
                 faults>>

HasEmptyBackend(spec) == spec.type \in {"nil", ""}

\* Not found, or deleting without our finalizer: nothing to do.
ReconcileNothing ==
  /\ ~cached.present \/ (cached.deleting /\ ~cached.finalizer)
  /\ Fetch(cached.status, "idle")

\* Mutant: an empty backend type counts as nothing created.
ReconcileDeletionOfEmptyBackend ==
  /\ cached.present /\ cached.deleting /\ cached.finalizer
  /\ Fetch(cached.status,
           IF HasEmptyBackend(cached.spec) THEN "removeFinalizer" ELSE "checkSubscriptions")

\* Mutant: returns early without a backend, the finalizer stays.
ReconcileDeletionKeepsFinalizer ==
  /\ cached.present /\ cached.deleting /\ cached.finalizer
  /\ Fetch(cached.status, IF cached.spec = NoSpec THEN "idle" ELSE "checkSubscriptions")

\* handleEventingDeletion: without a backend nothing was created.
ReconcileDeletion ==
  /\ cached.present /\ cached.deleting /\ cached.finalizer
  /\ Fetch(cached.status,
           IF cached.spec = NoSpec THEN "removeFinalizer" ELSE "checkSubscriptions")

\* handleEventingReconcile.
ReconcileNew ==
  /\ cached.present /\ ~cached.deleting /\ ~cached.finalizer
  /\ Fetch(cached.status, "addFinalizer")

ReconcileEmptyBackend ==
  /\ cached.present /\ ~cached.deleting /\ cached.finalizer
  /\ HasEmptyBackend(cached.spec)
  /\ Fetch(WithEmptyBackend(InitStateProcessing(cached.status)), "sync")

ReconcileBackend ==
  /\ cached.present /\ ~cached.deleting /\ cached.finalizer
  /\ ~HasEmptyBackend(cached.spec)
  /\ Fetch(InitStateProcessing(cached.status), "switch")

Reconcile ==
  \/ ReconcileNothing \/ ReconcileDeletion \/ ReconcileNew
  \/ ReconcileEmptyBackend \/ ReconcileBackend

\* Update of the whole object succeeds only with the latest resourceVersion.
AddFinalizer ==
  /\ pc = "addFinalizer"
  /\ \/ /\ "current" \in fresh
        /\ Write([eventing EXCEPT !.finalizer = TRUE])
        /\ Return(FALSE)
        /\ UNCHANGED faults
     \/ /\ \/ "current" \notin fresh /\ UNCHANGED faults
           \/ Fault("api")
        /\ Return(TRUE)
        /\ UNCHANGED <<eventing, fresh>>
  /\ UNCHANGED <<cached, mgr, oauth, natsConn, proxy, world, budget>>

-----------------------------------------------------------------------------
(***************************************************************************)
(* handleBackendSwitching and the choice of the backend.                   *)
(***************************************************************************)

PreviousBackend == current.status.activeBackend

NoSwitch ==
  /\ pc = "switch"
  /\ PreviousBackend \in {"", current.spec.type}
  /\ Continue(current.status, "activeBackend")
  /\ UNCHANGED <<resource, mgr, oauth, natsConn, proxy, world, budget, faults>>

\* Disconnect closes an open connection; closing it runs the disconnect
\* callback if that connection carries it.
Disconnected(c) ==
  [state    |-> IF c.state \in {"connected", "reconnecting"} THEN "closed" ELSE c.state,
   handlers |-> IF c.state # "nil" /\ c.handlers = "current" THEN "closed" ELSE c.handlers]

StopPreviousBackend ==
  /\ pc = "switch"
  /\ PreviousBackend \notin {"", current.spec.type}
  /\ mgr' = [mgr EXCEPT ![PreviousBackend] = StopSubManager(@)]
  /\ current' = [current EXCEPT !.status = WithSwitchedBackend(@)]
  /\ pc' = "deleteProxy"
  /\ IF PreviousBackend = "NATS"
     THEN /\ natsConn' = Disconnected(natsConn)
          /\ queued' = (queued \/ (natsConn.state = "connected" /\ natsConn.handlers = "current"))
     ELSE UNCHANGED <<natsConn, queued>>
  /\ UNCHANGED <<resource, result, oauth, proxy, world, budget, faults>>

StopPreviousBackendFails ==
  /\ pc = "switch"
  /\ PreviousBackend \notin {"", current.spec.type}
  /\ CanFailToStop(mgr[PreviousBackend]) /\ Fault("stop")
  /\ mgr' = [mgr EXCEPT ![PreviousBackend] = StopSubManagerFailed(@)]
  /\ SyncStatus(WithSubManagerState(current.status, "Error"), "error")
  /\ UNCHANGED <<resource, oauth, natsConn, proxy, world, budget>>

DeleteProxyOfPreviousBackend ==
  /\ pc = "deleteProxy"
  /\ \/ /\ proxy' = DeletedProxy(4)
        /\ Continue(current.status, "activeBackend")
        /\ UNCHANGED faults
     \/ /\ Fault("proxy")
        /\ \E n \in 0..3 : proxy' = DeletedProxy(n)
        /\ SyncStatus(WithSubManagerState(current.status, "Error"), "error")
  /\ UNCHANGED <<resource, mgr, oauth, natsConn, world, budget>>

\* SyncStatusActiveBackend, then the look-up of the Application CRD.
SyncActiveBackend ==
  /\ pc = "activeBackend"
  /\ LET st == WithActiveBackend(current.status, current.spec.type) IN
     \/ /\ Continue(st, IF current.spec.type = "NATS" THEN "nats" ELSE "eventMesh")
        /\ UNCHANGED faults
     \/ /\ Fault("api")
        /\ SyncStatus(WithSubManagerState(st, "Error"), "error")
  /\ UNCHANGED <<resource, mgr, oauth, natsConn, proxy, world, budget>>

-----------------------------------------------------------------------------
(***************************************************************************)
(* reconcileNATSBackend.                                                   *)
(***************************************************************************)

\* The NATS CRD cannot be read (no status is synced), the watch on NATS
\* resources cannot be started, or the CRD does not exist.
NATSLookupFails ==
  /\ pc = "nats"
  /\ \/ Fault("api") /\ Return(TRUE)
     \/ Fault("api") /\ SyncStatus(WithNATSState(current.status, "Error"), "error")
     \/ Fault("module") /\ Continue(current.status, "natsModuleMissing")
  /\ UNCHANGED <<resource, mgr, oauth, natsConn, proxy, world, budget>>

NATSModuleMissing ==
  /\ pc = "natsModuleMissing"
  /\ \/ /\ proxy' = DeletedProxy(4)
        /\ SyncStatus(WithNATSState(current.status, "Warning"), "error")
        /\ UNCHANGED faults
     \/ /\ Fault("proxy")
        /\ \E n \in 0..3 : proxy' = DeletedProxy(n)
        /\ Return(TRUE)
  /\ UNCHANGED <<resource, mgr, oauth, natsConn, world, budget>>

\* natsio.Connect replaces c.conn; the callbacks are registered once in the
\* life of the connection object, on the first connection it makes.
Connected(c, state) ==
  [state    |-> state,
   handlers |-> CASE c.handlers = "none"    -> IF state = "nil" THEN "none" ELSE "current"
                  [] c.handlers = "current" -> "replaced"
                  [] OTHER                  -> c.handlers]

\* connectToNATS. A server that is down leaves a connection that keeps trying,
\* and a terminal error: Reconcile relies on the callbacks to run again.
ConnectToNATS ==
  /\ pc = "nats"
  /\ \/ /\ natsConn.state = "connected"
        /\ Continue(WithBackendAvailable(current.status), "proxy")
        /\ UNCHANGED <<natsConn, faults>>
     \/ /\ natsConn.state # "connected" /\ natsUp
        /\ natsConn' = Connected(natsConn, "connected")
        /\ Continue(WithBackendAvailable(current.status), "proxy")
        /\ UNCHANGED faults
     \/ /\ natsConn.state # "connected" /\ ~natsUp
        /\ natsConn' = Connected(natsConn, "reconnecting")
        /\ SyncStatus(WithNATSState(current.status, "Warning"), "terminal")
        /\ UNCHANGED faults
     \/ /\ natsConn.state # "connected" /\ Fault("connect")
        /\ natsConn' = Connected(natsConn, "nil")
        /\ SyncStatus(WithNATSState(current.status, "Warning"), "error")
  /\ UNCHANGED <<resource, mgr, oauth, proxy, world, budget>>

NATSHash == [type |-> "NATS", cfg |-> current.spec.cfg]

\* Mutant: a changed configuration drops the manager without stopping it.
PreparedNATSManagerNotStopped ==
  LET m == mgr["NATS"]
      kept == IF current.status.specHash = NATSHash THEN m
              ELSE [NoManager EXCEPT !.live = m.live]
  IN  IF kept.cfg = NoConfig THEN [kept EXCEPT !.cfg = current.spec.cfg] ELSE kept

\* A changed configuration stops a started manager and drops one that never
\* started; a missing manager is built from the current configuration.
PreparedNATSManager ==
  LET m == mgr["NATS"]
      kept == IF current.status.specHash = NATSHash THEN m
              ELSE IF m.started THEN StopSubManager(m)
              ELSE [m EXCEPT !.cfg = NoConfig]
  IN  IF kept.cfg = NoConfig THEN [kept EXCEPT !.cfg = current.spec.cfg] ELSE kept

\* reconcileNATSSubManager. Stop without cleanup cannot fail here.
ReconcileNATSSubManager ==
  /\ pc = "natsManager"
  /\ LET m == PreparedNATSManager IN
     \/ /\ m.started
        /\ mgr' = [mgr EXCEPT !["NATS"] = m]
        /\ Continue(current.status, "state")
        /\ UNCHANGED faults
     \/ /\ ~m.started
        /\ mgr' = [mgr EXCEPT !["NATS"] = StartSubManager(m, NoCreds)]
        /\ Continue([current.status EXCEPT !.specHash = NATSHash], "state")
        /\ UNCHANGED faults
     \/ /\ ~m.started /\ Fault("start")
        /\ mgr' = [mgr EXCEPT !["NATS"] = m]
        /\ SyncStatus(WithNATSState(current.status, "Error"), "error")
     \/ /\ Fault("api")
        /\ SyncStatus(WithNATSState(current.status, "Error"), "error")
        /\ UNCHANGED mgr
  /\ UNCHANGED <<resource, oauth, natsConn, proxy, world, budget>>

-----------------------------------------------------------------------------
(***************************************************************************)
(* reconcileEventMeshBackend.                                              *)
(***************************************************************************)

\* The APIRule CRD and the EventMesh Secret are looked up.
ReconcileEventMeshBackend ==
  /\ pc = "eventMesh"
  /\ \/ Continue(current.status, "oauth") /\ UNCHANGED faults
     \/ /\ Fault("api") \/ Fault("module")
        /\ SyncStatus(WithSubManagerState(current.status, "Error"), "error")
     \/ /\ Fault("secret")
        /\ SyncStatus(WithSubManagerState(current.status, "Warning"), "error")
  /\ UNCHANGED <<resource, mgr, oauth, natsConn, proxy, world, budget>>

\* Mutant: rotated credentials are not noticed.
OauthMissing == oauthSecret = NoCreds

OauthChanged ==
  \/ oauthSecret = NoCreds
  \/ oauth # NoCreds /\ oauth # oauthSecret

\* syncOauth2ClientIDAndSecret up to the status update: credentials that are
\* gone or changed stop the manager with cleanup.
SyncOauth2ClientIDAndSecret ==
  /\ pc = "oauth"
  /\ \/ /\ ~OauthChanged
        /\ oauth' = oauthSecret
        /\ Continue(current.status, "eventMeshManager")
        /\ UNCHANGED <<mgr, faults>>
     \/ /\ OauthChanged
        /\ mgr' = [mgr EXCEPT !["EventMesh"] = StopSubManager(@)]
        /\ current' = [current EXCEPT !.status = WithSubManagerState(@, "Error"),
                                      !.creds = oauthSecret]
        /\ pc' = "oauthStatus"
        /\ UNCHANGED <<oauth, queued, result, faults>>
     \/ /\ OauthChanged
        /\ CanFailToStop(mgr["EventMesh"]) /\ Fault("stop")
        /\ mgr' = [mgr EXCEPT !["EventMesh"] = StopSubManagerFailed(@)]
        /\ SyncStatus(WithSubManagerState(current.status, "Error"), "error")
        /\ UNCHANGED oauth
     \/ /\ Fault("api")
        /\ SyncStatus(WithSubManagerState(current.status, "Error"), "error")
        /\ UNCHANGED <<mgr, oauth>>
  /\ UNCHANGED <<resource, natsConn, proxy, world, budget>>

(***************************************************************************)
(* syncEventingStatus reads the resource again, puts the status of its     *)
(* copy on it and writes it unless it is equal. The write succeeds only if *)
(* what was read is the latest version.                                    *)
(***************************************************************************)
StatusIsEqual == cached.status = current.status

StatusSynced ==
  /\ Readable /\ cached.present
  /\ IF StatusIsEqual
     THEN UNCHANGED <<eventing, fresh>>
     ELSE "cached" \in fresh /\ Write([eventing EXCEPT !.status = current.status])
  /\ UNCHANGED faults

StatusNotSynced ==
  /\ Readable
  /\ \/ /\ ~cached.present \/ (~StatusIsEqual /\ "cached" \notin fresh)
        /\ UNCHANGED faults
     \/ Fault("status")
  /\ UNCHANGED <<eventing, fresh>>

\* The status update inside syncOauth2ClientIDAndSecret. Only after it the new
\* credentials are kept.
SyncOauth2Status ==
  /\ pc = "oauthStatus"
  /\ \/ /\ StatusSynced /\ current.creds # NoCreds
        /\ oauth' = current.creds
        /\ Continue(current.status, "eventMeshManager")
     \/ /\ \/ StatusSynced /\ current.creds = NoCreds
           \/ StatusNotSynced
        /\ SyncStatus(WithSubManagerState(current.status, "Error"), "error")
        /\ UNCHANGED oauth
  /\ UNCHANGED <<cached, mgr, natsConn, proxy, world, budget>>

EventMeshHash == [type |-> "EventMesh", cfg |-> current.spec.cfg]

\* A changed configuration stops a started manager; a manager that is not
\* started stays as it was built.
PreparedEventMeshManager ==
  LET m == mgr["EventMesh"]
      kept == IF current.status.specHash = EventMeshHash THEN m ELSE StopSubManager(m)
  IN  IF kept.cfg = NoConfig THEN [kept EXCEPT !.cfg = current.spec.cfg] ELSE kept

\* Start reads the environment the handler has just set.
StartedEventMeshManager(m) ==
  StartSubManager([m EXCEPT !.cfg.env = current.spec.cfg.env], oauth)

\* reconcileEventMeshSubManager after the credentials, and the conditions
\* reconcileEventMeshBackend sets when it succeeds.
ReconcileEventMeshSubManager ==
  /\ pc = "eventMeshManager"
  /\ LET m == PreparedEventMeshManager
         ready(st) == WithSubManagerReady(WithBackendAvailable(st))
     IN
     \/ /\ m.started
        /\ mgr' = [mgr EXCEPT !["EventMesh"] = m]
        /\ Continue(ready(current.status), "proxy")
        /\ UNCHANGED faults
     \/ /\ ~m.started
        /\ mgr' = [mgr EXCEPT !["EventMesh"] = StartedEventMeshManager(m)]
        /\ Continue(ready([current.status EXCEPT !.specHash = EventMeshHash]), "proxy")
        /\ UNCHANGED faults
     \/ /\ ~m.started /\ Fault("start")
        /\ mgr' = [mgr EXCEPT !["EventMesh"] = m]
        /\ SyncStatus(WithSubManagerState(current.status, "Error"), "error")
     \/ /\ current.status.specHash # EventMeshHash
        /\ CanFailToStop(mgr["EventMesh"]) /\ Fault("stop")
        /\ mgr' = [mgr EXCEPT !["EventMesh"] = StopSubManagerFailed(@)]
        /\ SyncStatus(WithSubManagerState(current.status, "Error"), "error")
     \/ /\ \/ Fault("api") /\ SyncStatus(WithSubManagerState(current.status, "Error"), "error")
           \/ Fault("secret") /\ SyncStatus(WithSubManagerState(current.status, "Warning"), "error")
        /\ UNCHANGED mgr
  /\ UNCHANGED <<resource, oauth, natsConn, proxy, world, budget>>

-----------------------------------------------------------------------------
(***************************************************************************)
(* The publisher proxy and the end of a reconciliation.                    *)
(***************************************************************************)

\* handlePublisherProxy: on a failure some prefix of the resources is applied.
HandlePublisherProxy ==
  /\ pc = "proxy"
  /\ \/ /\ proxy' = DeployedProxy(Len(DeployOrder))
        /\ Continue(current.status,
                    IF current.spec.type = "NATS" THEN "natsManager" ELSE "state")
        /\ UNCHANGED faults
     \/ /\ Fault("proxy")
        /\ \/ UNCHANGED proxy
           \/ \E n \in 0..(Len(DeployOrder) - 1) : proxy' = DeployedProxy(n)
        /\ SyncStatus(WithPublisherProxyErr(current.status), "error")
  /\ UNCHANGED <<resource, mgr, oauth, natsConn, world, budget>>

\* handleEventingState. A deployment that is not found, deleted meanwhile or
\* not in the cache yet, is dereferenced: the controller recovers from the panic.
HandleEventingState ==
  /\ pc = "state"
  /\ \/ /\ proxy.ready
        /\ SyncStatus(WithProxyReady(current.status), "done")
        /\ UNCHANGED faults
     \/ /\ ~proxy.ready
        /\ SyncStatus(WithProxyProcessing(current.status), "requeue")
        /\ UNCHANGED faults
     \/ /\ Fault("api")
        /\ SyncStatus([WithPublisherProxyErr(current.status) EXCEPT !.publisherService = FALSE],
                      "error")
     \/ Fault("lag") /\ Return(TRUE)
  /\ UNCHANGED <<resource, mgr, oauth, natsConn, proxy, world, budget>>

\* The status is synced and Reconcile returns. A terminal error is not retried,
\* even when it hides that the status could not be written.
SyncEventingStatus ==
  /\ pc = "sync"
  /\ \/ StatusSynced /\ Return(result \in {"error", "requeue"})
     \/ StatusNotSynced /\ Return(result # "terminal")
  /\ UNCHANGED <<cached, mgr, oauth, natsConn, proxy, world, budget>>

-----------------------------------------------------------------------------
(***************************************************************************)
(* handleEventingDeletion.                                                 *)
(***************************************************************************)

CheckSubscriptions ==
  /\ pc = "checkSubscriptions"
  /\ \/ ~subs /\ Continue(current.status, "stopManager") /\ UNCHANGED faults
     \/ /\ subs
        /\ SyncStatus(WithDeletionErr(current.status, "Warning"), "error")
        /\ UNCHANGED faults
     \/ /\ Fault("api")
        /\ SyncStatus(WithDeletionErr(current.status, "Error"), "error")
  /\ UNCHANGED <<resource, mgr, oauth, natsConn, proxy, world, budget>>

\* Mutant: deletion forgets the NATS backend.
AlwaysEventMesh == "EventMesh"

BackendToDelete == IF current.spec.type = "NATS" THEN "NATS" ELSE "EventMesh"

StopManagerForDeletion ==
  /\ pc = "stopManager"
  /\ LET b == BackendToDelete IN
     \/ /\ mgr' = [mgr EXCEPT ![b] = StopSubManager(@)]
        /\ Continue(UpdateCondition(current.status, "SubscriptionManagerReady", "False"),
                    "deleteRoles")
        /\ UNCHANGED faults
     \/ /\ CanFailToStop(mgr[b]) /\ Fault("stop")
        /\ mgr' = [mgr EXCEPT ![b] = StopSubManagerFailed(@)]
        /\ SyncStatus(IF b = "NATS" THEN WithNATSState(current.status, "Error")
                      ELSE WithSubManagerState(current.status, "Error"), "error")
  /\ UNCHANGED <<resource, oauth, natsConn, proxy, world, budget>>

DeleteClusterScopedResources ==
  /\ pc = "deleteRoles"
  /\ \/ /\ proxy' = [proxy EXCEPT !.resources = @ \ ClusterScoped]
        /\ Continue(UpdateCondition(current.status, "PublisherProxyReady", "False"),
                    "removeFinalizer")
        /\ UNCHANGED faults
     \/ /\ Fault("proxy")
        /\ proxy' \in {proxy, [proxy EXCEPT !.resources = @ \ {"ClusterRole"}]}
        /\ SyncStatus(WithPublisherProxyErr(current.status), "error")
  /\ UNCHANGED <<resource, mgr, oauth, natsConn, world, budget>>

\* Without finalizers the API server removes the deleting object.
RemoveFinalizer ==
  /\ pc = "removeFinalizer"
  /\ \/ /\ "current" \in fresh
        /\ Write(NoEventing)
        /\ Return(FALSE)
        /\ UNCHANGED faults
     \/ /\ \/ "current" \notin fresh /\ UNCHANGED faults
           \/ Fault("api")
        /\ Return(TRUE)
        /\ UNCHANGED <<eventing, fresh>>
  /\ UNCHANGED <<cached, mgr, oauth, natsConn, proxy, world, budget>>

-----------------------------------------------------------------------------
HandlerStep ==
  \/ AddFinalizer \/ NoSwitch \/ StopPreviousBackend \/ StopPreviousBackendFails
  \/ DeleteProxyOfPreviousBackend \/ SyncActiveBackend
  \/ NATSLookupFails \/ NATSModuleMissing \/ ConnectToNATS \/ ReconcileNATSSubManager
  \/ ReconcileEventMeshBackend \/ SyncOauth2ClientIDAndSecret \/ SyncOauth2Status
  \/ ReconcileEventMeshSubManager
  \/ HandlePublisherProxy \/ HandleEventingState \/ SyncEventingStatus
  \/ CheckSubscriptions \/ StopManagerForDeletion \/ DeleteClusterScopedResources
  \/ RemoveFinalizer

Environment ==
  \/ InformerSync \/ WatchEvent
  \/ CreateEventing \/ EditBackend \/ DeleteEventing
  \/ ChangeSubscriptions \/ ChangeOauthSecret
  \/ DeploymentAvailable \/ GarbageCollect \/ NatsDown \/ NatsBack \/ Crash

Next == Reconcile \/ HandlerStep \/ Environment

Spec == Init /\ [][Next]_vars

(***************************************************************************)
(* Fairness. The worker runs while it has work, the informer delivers, the *)
(* resync period keeps bringing the request back (cmd/main.go), a          *)
(* deployment becomes available and a NATS outage ends. Users, failures    *)
(* and crashes are not fair.                                               *)
(***************************************************************************)
Fairness ==
  /\ WF_vars(Reconcile) /\ WF_vars(HandlerStep)
  /\ WF_vars(InformerSync) /\ WF_vars(WatchEvent)
  /\ WF_vars(DeploymentAvailable) /\ WF_vars(NatsBack)

FairSpec == Spec /\ Fairness

-----------------------------------------------------------------------------
(***************************************************************************)
(* Properties.                                                             *)
(***************************************************************************)

\* The last change was reconciled and nothing waits: what holds here holds
\* until somebody acts.
Settled == pc = "idle" /\ ~queued /\ "cached" \in fresh

Ready == eventing.present /\ ~eventing.deleting /\ eventing.status.state = "Ready"

\* A backend never has two subscription controllers alive in the process, and
\* one that is alive is known to the Reconciler as started: a manager is
\* replaced only after it was stopped, whatever fails in between.
OneControllerPerBackend ==
  \A b \in Backend :
    /\ mgr[b].live <= 1
    /\ mgr[b].live = 1 => mgr[b].started /\ mgr[b].running

\* The running EventMesh manager authenticates with the credentials the
\* Reconciler holds: rotated credentials are kept only once the manager that
\* used the old ones is stopped.
CredentialsInUse ==
  mgr["EventMesh"].running => mgr["EventMesh"].creds = oauth

\* Once the Eventing resource is gone no ClusterRole or ClusterRoleBinding of
\* the publisher is left: Kubernetes will not collect them, only the finalizer
\* protects their deletion.
NoClusterRolesLeftBehind ==
  ~eventing.present => proxy.resources \cap ClusterScoped = {}

\* A resource in state Ready, as anybody can read it, says that the backend is
\* available and the publisher ready, names the publish service, and records
\* the backend and the configuration it was reached with.
ReadyIsConsistent ==
  eventing.status.state = "Ready" =>
    /\ eventing.status.conditions["BackendAvailable"] = "True"
    /\ eventing.status.conditions["PublisherProxyReady"] = "True"
    /\ eventing.status.publisherService
    /\ eventing.status.activeBackend # "" /\ eventing.status.specHash # NoHash

\* Settled in state Ready with a backend: the publisher deployment is the one
\* for the backend and the configuration of the spec, available, with all its
\* resources.
ReadyMeansPublisherDeployed ==
  Settled /\ Ready /\ eventing.spec.type \in Backend =>
    proxy = [deployment |-> DeploymentFor(eventing.spec), ready |-> TRUE,
             resources |-> Resource]

\* Settled in state Ready: the subscription controller of the backend runs.
ReadyMeansControllerRuns ==
  Settled /\ Ready /\ eventing.spec.type \in Backend =>
    mgr[eventing.spec.type].running

\* The finalizer goes only after the manager of the backend named by the spec
\* is stopped and the cluster-scoped resources are deleted.
FinalizerHeldUntilCleanedUp ==
  [][ eventing.finalizer /\ ~eventing'.finalizer =>
        /\ eventing.spec.type \in Backend => mgr[eventing.spec.type].live = 0
        /\ proxy.resources \cap ClusterScoped = {} ]_vars

\* After a backend switch only one backend is left running.
OnlyActiveBackendRuns ==
  Settled /\ Ready /\ eventing.spec.type \in Backend =>
    \A b \in Backend \ {eventing.spec.type} : ~mgr[b].running

\* The running manager was built from the configuration of the spec.
ControllerRunsSpecConfig ==
  Settled /\ Ready /\ eventing.spec.type \in Backend =>
    LET m == mgr[eventing.spec.type] IN m.running => m.cfg = eventing.spec.cfg

\* An established connection has its callbacks registered.
ConnectionHasHandlers == natsConn.state = "connected" => HandlersAlive

\* Once the resource is gone no subscription controller runs. Deletion stops only
\* the manager of the backend the spec names now, so this does not hold when the
\* backend was edited before.
NoManagerLeftRunning ==
  Settled /\ ~eventing.present => \A b \in Backend : ~mgr[b].running

\* Deletion of the resource finishes once no Subscription is left.
DeletionCompletes ==
  (eventing.present /\ eventing.deleting) ~> (~eventing.present \/ subs)

\* Users act finitely often: in the end the resource is Ready for the backend
\* of its spec, and stays so.
EndsReady ==
  <>[](eventing.present /\ ~eventing.deleting /\ eventing.spec.type \in Backend
         /\ (eventing.spec.type = "EventMesh" => oauthSecret # NoCreds)
       => eventing.status.state = "Ready"
          /\ eventing.status.activeBackend = eventing.spec.type)

=============================================================================
