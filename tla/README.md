# A TLA+ model of the Eventing Manager

The Eventing Manager is a Kubernetes operator. It watches the `Eventing` custom
resource, deploys the event publisher proxy, and runs, inside its own process, a
subscription controller for the backend the resource names: NATS JetStream or SAP
Event Mesh. This directory models its reconcilers at the granularity at which
they can fail or be overtaken, and the delivery of events behind them, checks the
models with TLC, and proves their main safety properties with TLAPS. Paths below are relative to the repository.

## 1. The system

| Part | State | Operations | Module |
|---|---|---|---|
| Eventing reconciler, `internal/controller/operator/eventing` | its two subscription managers and their *started* flags, the OAuth2 credentials, the NATS connection; in the API server the resource, its finalizer and status | `Reconcile`: finalizer, backend switch, NATS or EventMesh, publisher proxy, status; deletion | `EventingController` |
| Eventing status, `api/operator/v1alpha1/status.go` | state, conditions, active backend, hash of the configuration, publish service | one helper per outcome of a handler | `EventingStatus` |
| NATS connection, `internal/connection/nats` | the connection, two "handler registered" flags | `Connect`, `Disconnect` | `EventingController` |
| Publisher proxy manager, `pkg/eventing` | Deployment, ServiceAccount, Services, HPA, ClusterRole, ClusterRoleBinding | deploy and delete, one object at a time | `EventingController` |
| Subscription managers, `pkg/subscriptionmanager` | a backend, a context, a controller | `Init`, `Start`, `Stop` with or without cleanup | the three of the reconcilers |
| JetStream Subscription reconciler, `internal/controller/eventing/subscription/jetstream` | the Subscription, its finalizer and status | `Reconcile`, deletion, `HandleNatsConnClose` | `JetStreamSubscription` |
| JetStream backend, `pkg/backend/jetstream` | connection, `js.subscriptions`, `js.sinks`; on the server the consumers | `SyncSubscription`, `DeleteSubscription`, `DeleteSubscriptionsOnly`, `DeleteInvalidConsumers`, `Shutdown` | `JetStreamSubscription` |
| Validators, `.../subscription/validator` | none | spec and sink validation | `JetStreamSubscription`, `EventMeshSubscription` (outcome) |
| EventMesh Subscription reconciler, `internal/controller/eventing/subscription/eventmesh` | the Subscriptions, the APIRules they share, their owners and paths | `Reconcile`: validation, APIRule, backend, conditions, status and finalizer; deletion | `EventMeshSubscription` |
| EventMesh backend, `pkg/backend/eventmesh` | three hashes per Subscription; on EventMesh the subscriptions | `SyncSubscription`: recreate, get, pause/update/resume, create; `DeleteSubscription` | `EventMeshSubscription` |
| Event delivery callback, `getCallback` in `pkg/backend/jetstream/jetstream.go` | messages of the consumer, one callback per delivery | ack, nak with delay, dispatch to the sink | `EventDelivery`, `AtLeastOnce` |
| Resource watcher, `pkg/watcher` | informer, channel | start, stop, events | not modelled: a thin wrapper of an informer, whose events are `WatchEvent` |
| Cleaners, `pkg/object`, `pkg/ems`, metrics, Istio | none that a decision reads | string rewriting, comparison, HTTP | not modelled |

**Interactions.** The Eventing reconciler calls the managers synchronously. A
manager's controller then runs on its own goroutine, on a context that `Stop`
cancels and does not wait for. Controllers meet in the API server (status updates
with optimistic locking), in the NATS server (consumers survive managers and
processes) and through callbacks: NATS reconnect and disconnect handlers put
requests into the queue of the Eventing controller, `HandleNatsConnClose` puts
all Subscriptions into the queue of the Subscription controller. On EventMesh,
Subscriptions whose sinks are the same Service share one APIRule and read each
other's specs and statuses to maintain it. On NATS every delivery of a message
runs its callback in a goroutine of its own.

**What is hard.** Every reconciliation is a chain of calls each of which may fail,
and it resumes from what the resource and the process remember: in-memory flags,
a status that may not have been written, a hash in that status. Users edit the
spec between any two steps; the process restarts and forgets half of that state;
the NATS server goes away, comes back, or loses its storage; requests to EventMesh
take effect and their answers are lost; workers of a stopped and of a new manager
overlap, late callbacks overlap with redeliveries. PROJECT.json lists these hazards line by line with
the properties that cover them.

**What makes it correct.** At most one live controller per backend; a *Ready*
resource has its publisher and its controller; nothing is left behind after a
deletion and every deletion ends; a *ready* Subscription has exactly its consumers,
bound and with the right sink; no consumer that is still wanted is deleted; on
EventMesh it is exposed by the one APIRule of its Service, is called with current
credentials, and leaves nothing behind; an event is acknowledged only after the
sink accepted it, and given up only after failures.

## 2. Modules

```
EventingStatus          status record and its helpers (no variables)
  EventingController    the Eventing reconciler and what it drives
    MCEventingController          symmetry for TLC
    EventingControllerProofs      TLAPS
      EventingReadyProofs         TLAPS: what a Ready resource has
JetStreamSubscription   Subscription controller, JetStream backend, manager
    MCJetStreamSubscription       symmetry for TLC
    JetStreamSubscriptionProofs   TLAPS
      JetStreamReadyProofs        TLAPS: what a ready Subscription has
EventMeshSubscription   Subscription controller, EventMesh backend, manager
    MCEventMeshSubscription       symmetry for TLC
    EventMeshSubscriptionProofs   TLAPS
      EventMeshReadyProofs        TLAPS: what a ready Subscription has
        EventMeshDeletionProofs   TLAPS: nothing is deleted needlessly
AtLeastOnce             what the delivery of events promises (abstract)
EventDelivery           consumer, NATS client, callback; INSTANCEs AtLeastOnce
    MCEventDelivery
    EventDeliveryProofs           TLAPS, the refinement included
```

### EventingController

`pc` says which call of `Reconcile` is next; the action of that name executes the
code up to the following call. `current` is the deep copy the handler works on;
`eventing` is the resource in the API server and `cached` what the informer
delivered last. `fresh` holds those copies that carry the latest
`resourceVersion`: any write empties it, so an `Update` from a copy that is not in
`fresh` conflicts. `mgr[b]` is a manager slot: `started` is the Reconciler's flag,
`running` whether the context of the referenced manager is alive, `live` counts
controllers of that backend alive in the process whether referenced or not.
Failures are drawn from `FaultKinds` by `Fault(kind)` and counted.

* A configuration is split in two. `Built` is what a manager receives when it is
  constructed (all of it for NATS, the domain for EventMesh); `Env` is what
  `setUpEnvironmentForEventMesh` puts into the process environment and the
  EventMesh manager reads at `Start`. The hash is the pair it is computed from:
  collisions are not modelled.
* Returning an error or `RequeueAfter` puts the request back. A terminal error
  does not, even when it hides a failed status update (`SyncEventingStatus`).
* `Crash` resets the process, keeps the cluster.

### JetStreamSubscription

One Subscription and its consumers, one per event type (`Subject`). `js[m]` and
`worker[m]` are the backend and the controller worker of the m-th manager started;
several can be busy at once. `consumers[s].bound` is the manager the server
delivers to (`PushBound`). A loop over a map or over the types is one step per
element, in any order, with a failure possible at each (`worker[m].todo`). The calls
to the NATS server for one type (`ConsumerInfo`, `AddConsumer`, `Subscribe`,
`UpdateConsumer`; `ConsumerInfo` and the deletion that follows) are one step with an
outcome for each call that can fail; steps of others come between types.
`ReconcileInvalidSink` counts every error of the Service look-up as a missing
Service, as `validator/sink.go` does, the error of a cancelled context included.
`CanSubscribe` is external: the NATS client refuses to subscribe to a consumer
that is bound already or has another `MaxAckPending`.

### EventMeshSubscription

Several Subscriptions `sub[s]`, the APIRules `rule[r]` and the subscriptions
`server[s]` on EventMesh. `worker[m]` is the one worker of the m-th manager; `live`
is the manager whose context is alive. A worker is cut at its calls to the API
server and to EventMesh: `list` (both lists in one step), `previous`, `apply` are the calls of
`createOrUpdateAPIRule`; `recreate`, `get`, `pause`, `updateAuth`, `resume`,
`create`, `getCreated` those of the backend; `update` and `finalizer` the two
writes of `updateSubscription`. A call to the API server fails once the context is
cancelled; calls to EventMesh do not look at it. A request to EventMesh may fail,
or take effect and lose its answer.

* `worker[m].obj` is the version the worker read, `status` and `finalizer` those of
  its copy; `seen` and `owners` what it listed. A write conflicts if the object is
  not `obj` any more.
* The three hashes of the status are the values they are computed from: `local`
  and `remote` hold a `Content` (events and webhook URL), `auth` the credentials.
* `ready` follows the conditions in `replaceStatusCondition` but not in
  `setCondition`; `SyncInitialStatus` repairs the contradiction.
* The feature flag of the webhook authentication is on: `featureflags.go` sets it and
  only tests change it. The path without it (`eventmesh.go:151` and `234`,
  `eventmesh_utils.go:215`) is not modelled.
* The API gateway, the garbage collector and EventMesh are environment actions.
* `Late` lets users delete Subscriptions that do not have their finalizer yet,
  `StopsBusy` lets `Stop` meet a busy worker. Both happen in the system; they are
  constants because of what they lead to (section 3).

### EventDelivery and AtLeastOnce

`state[m]` is a message as the consumer sees it, `attempts[m]` how often it was
handed out, `copy[m][k]` where its k-th delivery is in the client. `asyncCallback`
starts a goroutine per delivery, so each `copy[m][k]` is a process: late callbacks
of one delivery run beside those of the next, after `Unsubscribe` and after
`DeleteSubscription`, and may acknowledge a message that is being redelivered. The
callback is cut at the look-up of the sink, the request for the consumer's
metadata, the POST and the answer. The server (`Deliver`, `AckWaitElapsed`,
`NakDelayElapsed`, MaxAckPending, MaxDeliver) is external, modelled from the
consumer configuration the code sets.

`AtLeastOnce` knows only the fate of a message, what the sink received and how
many calls failed. The mapping `FateOf` reads the fate off the consumer's state;
`failures` is `faults`. It allows a message to be finished only if the sink has
it, and to be given up only if it is no CloudEvent, the sink has it, or MaxDeliver
calls failed.

### Reads

`internal/controller/client/client.go` replaces the client's cache options, which
drops the cache reader: the reconcilers read the API server directly. The models
have a constant `CachedReads`. With `FALSE` a read returns the latest version.
With `TRUE` a read may also return an older copy, which includes all behaviours of
`FALSE`. Passing runs use `TRUE` where they fit, so that the properties do not
rest on this detail; every run that shows a disagreement uses `FALSE`, so that the
counterexample does not rest on a stale cache. `EventMeshSubscription` reads
directly.

## 3. Runs

Bounds are constants: `MaxEdits` changes by users, `MaxFaults` failures,
`MaxCrashes` restarts, `MaxStarts` and `MaxStops` managers, `MaxRules` APIRules ever
created, `MaxAuth` credentials. Each is a budget for
the whole behaviour, spent in any order and at any step.

| Run | Question | Bounds |
|---|---|---|
| `controller_safety` | one controller per backend; the running EventMesh manager uses the current credentials; no cluster roles left behind; Ready means publisher and controller | two configurations, two credentials, 3 edits; a status update, a `Start` or a step of the publisher proxy fails; 1.8 million states |
| `controller_liveness` | deletion completes, the resource ends Ready, the finalizer goes last, one controller per backend, no published Ready contradicts itself | every kind of failure, `Stop` included, 2 edits, 1 fault, 1 crash, fair; 370 000 states |
| `jetstream_safety` | a ready Subscription delivers, has no stale consumer, the callback finds its sink, consumers go with the Subscription | 2 types, 2 sinks, 2 values of maxInFlight, 3 edits, a lost status update or an outage; 1.6 million states |
| `jetstream_restart` | no step deletes a consumer the Subscription still names | 2 managers, `Stop` with and without cleanup while the old worker is busy, a crash, all failures and loss of storage; 1.4 million states |
| `jetstream_liveness` | a valid Subscription ends ready and bound, a deleted one is gone | 3 edits, a crash, outages, missing Services, a server that keeps its consumers, fair; 190 000 states |
| `eventmesh_sharing` | a ready Subscription is exposed by its APIRule and EventMesh posts to it; one APIRule per Service; nothing stays on EventMesh | 2 Subscriptions, 2 Services, 3 edits, 3 APIRules, one failing API or EventMesh call, gateway or delivery; 2.2 million states |
| `eventmesh_auth` | a ready Subscription is called with current credentials; no needless deletion on EventMesh; every Subscription ends ready and active, every deletion ends | 1 Subscription, 2 values of types, 2 managers, 2 credentials, 3 edits, one failing or lost EventMesh call, status update, change by a third party or restart, fair; 350 000 states |
| `event_delivery` | at-least-once (the refinement); no event given up without MaxDeliver failures; every event settles | 2 events and 1 message that is none, MaxDeliver 2, MaxAckPending 2, 2 failures of six kinds, fair; 170 000 states |

Three edits are what an interesting history needs: create, change, and change back
or delete. A change that is overtaken takes two, and the third one shows whether
the state left by the overtaken one is repaired. One failure suffices to leave
each operation half-done, and the edits after it exercise the repair; several
failures in a row at the same place put the same request back again. Two
Subscriptions and two Services are enough for an APIRule to be shared, left and
taken over; three APIRules allow one to be created again. For the delivery, two
deliveries of a message make every overlap of an old and a new callback, two
failures use the deliveries of one event up, and MaxAckPending 2 lets a bad
message and an event wait while the third is held back. Deadlock
checking is off in all runs: once the edits are used up and everything is
reconciled the system rests.

**Fairness** (`FairSpec`). Weak fairness of the worker and of the informer: the
goroutines are scheduled. Of `WatchEvent` and `Resync`: `cmd/main.go` sets the
cache's `SyncPeriod` (ten minutes by default), after which every resource is
queued again. Of `DeploymentAvailable`, `NatsBack`, `ServerUnbinds`: the cluster
starts the publisher's pods, an outage ends, the NATS server drops connections
that are gone. Of `Start` (JetStream): the Eventing reconciler starts a manager
when none runs. `EventMeshSubscription` adds weak fairness of `Start`, the API
gateway, the garbage collector, the activation of a subscription and the end of
failed deliveries: other controllers and EventMesh do their work. `EventDelivery`
has weak fairness of each callback, of the timers and of the reconciler that binds
the consumer, and strong fairness of `Deliver`: the server goes through the stream
in order, so that MaxAckPending does not hold the same message back forever.
Users, failures, `Stop` and `Crash` are never fair. Since the
bounds make failures finite, the liveness properties say that the system recovers
once failures stop.

### Disagreements

Four runs check something the repository says of itself and find that the code
does not do it. The findings in PROJECT.json quote the line in question.

| Run | What happens |
|---|---|
| `switch_race` | A manager is started, the status update that would record its backend fails, the backend is edited: the switch is not noticed and both backends run. |
| `start_fails` | An EventMesh manager that could not start is kept and starts later with the domain of the old spec. |
| `stopped_manager` | A worker that was busy when its manager was stopped opens a new connection and subscribes. |
| `finalizer_late` | `updateSubscription` writes the finalizer last: a Subscription deleted during its first reconciliation is gone at once and stays on EventMesh. |

### Further counterexamples

The passing runs leave out some failures because the code does not keep the
property under them. Each counterexample is reproduced by the change named here.

* `ReadyMeansControllerRuns`, `ControllerSafety.cfg` with `FaultKinds = {"stop"}`:
  `Stop` fails after it cancelled the controller, the change is taken back: Ready,
  and no subscription controller.
* `NoManagerLeftRunning`, `ControllerSafety.cfg` with `FaultKinds = {}`: NATS is created
  and reconciled, the spec is edited to EventMesh and the resource deleted before the
  switch. Deletion stops the manager of the backend the spec names now
  (`controller.go:434`); the NATS manager runs on after the resource is gone.
* `ReadyMeansPublisherDeployed` and `ReadyMeansControllerRuns`, `ControllerSafety.cfg`
  with `FaultKinds = {"outage", "status"}` and `MaxFaults = 2`: the resource is Ready
  on EventMesh and is edited to NATS while NATS is down. The old proxy and manager are
  removed, the connection to NATS fails with a terminal error, the status update that
  would record it fails too, and a terminal error is not retried: Ready stays.
* `ConnectionHasHandlers`, `SwitchRace.cfg` with `FaultKinds = {}` and
  `MaxEdits = 3`: NATS, EventMesh, NATS; the second connection has no reconnect and
  disconnect handlers, which are registered once (`connection.go:57`).
* `EndsDelivering`, `JetStreamLiveness.cfg` with `FaultKinds = {"outage", "storage"}`
  and `MaxFaults = 2`: the server loses its consumers between the two passes of
  `SyncSubscription`, the new consumer is bound to nothing, and no later pass
  notices.
* `EndsDelivering`, `JetStreamLiveness.cfg` with `MaxInFlight = {n1, n2}` and
  `FaultKinds = {}`: the process crashes after maxInFlight was changed and before the
  consumer was updated. The new process asks to subscribe with the new value, the
  NATS client (external, `CanSubscribe`) refuses because the consumer has the old one,
  and `syncConsumerMaxInFlight` (`jetstream.go:659`), which would update it, comes
  after the call that fails.
* `ConsumersGoWithSubscription`, `JetStreamSafety.cfg` with `FaultKinds = {"service"}`:
  the Service of the sink is deleted, then the Subscription; its consumers stay until
  the next start of a manager. Failing reads of the API server (a Service that cannot
  be read counts as missing) and single failing NATS calls (`AddConsumer` succeeds,
  `Subscribe` fails) leave one behind in the same way.
* `ConsumersGoWithSubscription` and `ReadyMeansNoStaleConsumer`, `JetStreamSafety.cfg`
  with `Sink = {k1}`, `MaxInFlight = {n1}`, `FaultKinds = {}`, `MaxStarts = 2` and one of
  `MaxCrashes = 1`, `MaxStops = 1`: the new process has forgotten which consumers the
  Subscription had, and a type that was removed meanwhile keeps its consumer. The
  failures of the previous item leave a stale consumer in the same way.
* `ReadyMeansDelivering`, `JetStreamSafety.cfg` with `FaultKinds = {"storage", "outage"}`:
  the server comes back without its consumers, and the Subscription stays ready.
* `ReadyMeansDelivering`, the variant above with `MaxStops = 1`: the worker of the
  stopped manager, which read a version of the Subscription that lacked a type, deletes
  the consumer the new manager uses.
* `SinkKnown` exempts stopped managers: `cleanupv2` forgets the sink while the worker
  of that manager may be about to subscribe.
* `ReadyMeansCurrentAuth` and `NothingLeftOnEventMesh`, `EventMeshAuth.cfg` with
  `StopsBusy = TRUE`: the worker of the stopped manager goes on with old credentials,
  or creates what the cleanup has just deleted.
* `NoNeedlessDeletion` and `ReadyMeansExposed`, `EventMeshAuth.cfg` with
  `StopsBusy = TRUE` and `FaultKinds = {}`: that worker creates the subscription on
  EventMesh, the new manager reads a status without its hash and deletes it for an equal
  one; or what it creates is of an old spec, the create of the new manager finds it
  there, and the GET that follows is taken for what was to be created.
* `ReadyMeansExposed`, `EventMeshSharing.cfg` with `FaultKinds = {"server"}`: what
  a third party changes on EventMesh is wrong until the next reconciliation.
* `ReadyMeansCurrentAuth` and `EndsReady`, `EventMeshAuth.cfg` with `MaxStarts = 3`
  and `FaultKinds = {"ems", "rollback"}`: the change of the authentication fails
  half-way, the old credentials come back, and their hash is still the one in the
  status: the change that was begun is not completed.

Also seen while modelling `EventMeshSubscription`, and kept in the model as the code
has it: an error of the APIRule writes its condition without touching `ready`
(`reconciler.go:159`), and the pass that repairs this forgets the name of the
APIRule, so that the rule of a former Service is not released any more; an
`AuthorizationPolicy` whose creation failed after the APIRule was written is not
retried; the first GET after a create is taken for what was created
(`eventmesh.go:430`, so `ServerModified` leaves that moment out); a subscription that
is gone when it should be paused counts as success.

The other failures that `controller_safety` leaves out (look-ups, NATS outages, a
restart) are left out for size: each group of them was run by itself with the same
properties and without a violation, the theorems of section 4 cover all of them but
the two cases listed here, and `controller_liveness` has them all.

## 4. Proofs

`EventingControllerProofs` proves for every set of configurations and credentials,
every set of failure kinds and all bounds, with cached or direct reads:

| Theorem | Statement |
|---|---|
| `TypeCorrect` | `Spec => []TypeOK` |
| `OneController` | `Spec => []OneControllerPerBackend` |
| `NoRolesLeft` | `Spec => []NoClusterRolesLeftBehind` |
| `FinalizerHeld` | `Spec => FinalizerHeldUntilCleanedUp` |
| `CredentialsCurrent` | `Spec => []CredentialsInUse` |
| `ReadyConsistent` | `Spec => []ReadyIsConsistent` |

*Assumptions:* the bounds are natural numbers, `CachedReads` is a Boolean,
`NoConfig` is not a configuration and `NoCreds` not a credential.

*Argument.* `TypeOK` alone is not inductive: `StopSubManager` subtracts one from
`live`, and `live \in Nat` needs that a running manager is counted. `TypeInv`
adds `ManagersOK` (a slot has one live controller exactly when it is running, it
runs only if started, it is started only if built) and `HandlesBackend` (the steps
that build or switch a manager are reached only with a backend in the spec).
`OneControllerPerBackend` follows from `ManagersOK`.

The cluster roles need the history of the resource. `FinalizerInv` says: a copy
marked fresh equals the resource, and a cached copy with the finalizer that is not
being deleted can only be behind in ways that keep the finalizer and the backend
(`CacheOK`); while a handler works for a backend the resource has the finalizer
and a backend that is not nil, because the one worker that could remove it is busy
(`BackendHeld`); the same holds while cluster roles exist (`RolesHeld`, which uses
the CRD's rule that a backend cannot be removed); and a worker in a deletion with
the latest version has stopped the manager and removed the roles before it gets to
the finalizer, while one with an old version conflicts (`DeletionOK`). `FinalizerHeld` follows with `PresenceInv`: only an existing
resource has the finalizer, and no handler but `removeFinalizer` takes it away.

`CredentialsInv` states that the manager's credentials are those of the Reconciler
while it runs, and that it does not run between the stop and the moment the new
credentials are kept.

`StatusInv` states what a handler has collected in its copy when it gets to its next
step (`CopyOK`): the active backend after `SyncStatusActiveBackend`, an available
backend from `proxy` on, a hash at `state`. `ReadyIsConsistent` alone is not
inductive because the copy is completed over many steps and written at the end; and
the copy of a deletion contradicts itself once the roles are deleted, which is safe
because from there on it is dropped (`DroppedStep`).

`EventingReadyProofs`, from the same assumptions:

| Theorem | Hypothesis | Statement |
|---|---|---|
| `ReadyDeployed` | not both `"outage"` and `"status"` in `FaultKinds` | `Spec => []ReadyMeansPublisherDeployed` |
| `ReadyServes` | the same, and no `"stop"` | `Spec => []ReadyMeansControllerRuns` |

*Argument.* Both properties speak of a settled resource, and Ready is published by the
last of many steps. `ProgressInv` follows the publisher and the manager from the step
that deploys or starts them (`Applied`, `Controlled`) to the status update
(`ReadySync`), and says that the published Ready is still right when the queue is empty
(`SettledGood`). What breaks it, an edit, a publisher that is taken away, a crash, has
to put a request into the queue; and a reconciliation that undoes the deployment has to
publish another state or come back. That a terminal error does neither when its status
update fails is the first hypothesis. `WorkInv` is what this rests on: with nothing
queued the handler works on what the cache holds, only an outage makes an error
terminal, and the flag `started` goes with a live controller, which is true unless
`Stop` fails half-way: the second hypothesis. Every other failure, crashes and
stale reads are covered.

`JetStreamSubscriptionProofs`, for all types, sinks, managers and bounds, with cached
or direct reads:

| Theorem | Statement |
|---|---|
| `TypeCorrect` | `Spec => []TypeOK` |
| `SinkFound` | `Spec => []SinkKnown` |
| `NoLoss` | `Spec => NoMessageLoss` |

*Assumptions:* bounds are natural numbers, there is a sink and a value of
maxInFlight, `NoSink` is no sink, `NoConsumer` no consumer. *Argument.* `SinkInv`
adds to `SinkKnown` where the worker is: the sink is stored before the second pass,
and in a deletion the subscriptions not yet visited are in `todo`, so none is left
when the sink goes. `FreshInv` says that a copy with the latest `resourceVersion`
equals the resource, and that its worker therefore knows the types of the spec and
deletes only in a deletion (`Informed`); this is what excuses or forbids each
deletion of a consumer in `NoLoss`. `PhaseInv` orders the managers.

`JetStreamReadyProofs`, from the same assumptions:

| Theorem | Hypothesis | Statement |
|---|---|---|
| `ReadyDelivers` | `MaxStops = 0`, no `"storage"` | `Spec => []ReadyMeansDelivering` |
| `ReadyNoStale` | `NothingForgotten` | `Spec => []ReadyMeansNoStaleConsumer` |
| `ConsumersGo` | `NothingForgotten` | `Spec => []ConsumersGoWithSubscription` |

`NothingForgotten` says that there is neither a stop nor a crash, and that no call to
the API server, to NATS or for the Service fails on its own; outages and lost status
updates remain. *Argument.* `BaseInv`: one manager works, on the copy the cache holds,
with the types of that copy. `DeliveryInv` has, for each manager, that a subscription it
holds valid is a consumer bound to it (`Bound`), that its worker has subscribed to every
type it has visited (`Progress`) and that a Subscription at rest is delivered
(`Delivered`); it holds with crashes, outages and failing calls. `StaleInv` runs the
other way, from the consumers on the server to the entries of `js.subscriptions`: while
the manager runs every consumer has an entry, and in the middle of an operation those
without one are among the types still to be visited (`Tracked`); no consumer exists
before the finalizer (`FinalizerFirst`). An entry is the only memory of a consumer, so
whatever makes a manager forget it falls under the hypothesis; section 3 has a
counterexample for each part of the hypotheses.

`EventMeshSubscriptionProofs`, for all Subscriptions, Services, credentials, managers
and bounds:

| Theorem | Statement |
|---|---|
| `TypeCorrect` | `Spec => []TypeOK` |
| `OneRule` | `Spec => []OneRulePerService` |
| `NothingLeft` | `~Late /\ ~StopsBusy` implies `Spec => []NothingLeftOnEventMesh` |

*Assumptions:* bounds are natural numbers, `MaxAuth` is positive, `None` and
`NoService` are no names in use, and `None` is no credential and no subscription on
EventMesh. *Argument.* `TypeInv` adds that a worker has what its
step needs (`WorkersEquipped`: a Service, a content, the subscription it read).
`OneRulePerService` needs `NoRuleYet`: from the list to the create, a worker of the
running manager that found no APIRule is still right, because a worker whose context
is cancelled cannot create one. `LeftInv` carries the deletion: only the running
manager's worker is busy, with a Subscription that exists (`OneBusy`); a worker
without the finalizer in its copy is in a deletion and past the request to EventMesh
(`Releasing`); what is gone is gone on EventMesh (`GoneForGood`). The hypothesis is
needed: `finalizer_late` and the counterexamples above show both exceptions.

`EventMeshReadyProofs` and `EventMeshDeletionProofs`, from the same assumptions:

| Theorem | Hypothesis | Statement |
|---|---|---|
| `ReadyAuth` | `~StopsBusy`, no `"rollback"` | `Spec => []ReadyMeansCurrentAuth` |
| `ReadyExposed` | `~StopsBusy`, no `"server"` | `Spec => []ReadyMeansExposed` |
| `NoNeedless` | `~StopsBusy` | `Spec => NoNeedlessDeletion` |

*Argument.* A Subscription that is neither queued nor being worked on is one the
controller believes to know (`Known`), and what is said of a ready one must hold then.
`BaseInv`: only the worker of the running manager is busy, and what it is about to create
is not there, so that a conflict is not taken for success. `AuthInv` orders the
credentials: the hash in the status is never newer than what EventMesh has, and that is
never newer than those in use; a worker that resumes or has created left EventMesh with
its own. The order is what `"rollback"` takes away. `ExposedInv` says that the hashes of
what was asked for and of what was taken agree (`SameHashes`, which a change by a third
party ends), what the worker knows of EventMesh and of the APIRule it means to reuse
(`Sending`, `Reusing`), and that as long as the Subscription is not queued again its
worker is right about the spec and the rule (`Working`): another Subscription may take
the rule over, the gateway may reject it and the garbage collector remove it, but each
of these queues the owners. `KeptInv` adds for histories without a failure
that the status has the hash of what is on EventMesh unless the worker holds a newer one
to write (`Recorded`, `Recalls`); `FaultsCounted` shows that a failure is never taken
back, so that the part proved is closed under steps. A hash compared before a delete is
therefore the hash of what is deleted.

`EventDeliveryProofs`, for all messages and limits:

| Theorem | Statement |
|---|---|
| `TypeCorrect` | `Spec => []TypeOK`, with attempts at most MaxDeliver |
| `GivenUpLate` | `Spec => []GivenUpOnlyAfterFailures` |
| `Refinement` | `Spec => DeliversAtLeastOnce`, that is `ALO!Spec` |

*Assumption:* `Bad` is a set of messages, the limits are natural numbers and
`MaxDeliver` is positive. *Argument.* `Wired` (a bound consumer has its sink),
`HandedOut` (what is in the client was handed out), `AckedWereReceived`, and an
account kept per message, `DeliveriesSpent`: its attempts plus the callbacks about to
answer that it was refused never exceed the failures so far, but for one delivery
that is still open. Exhausted deliveries of an event the sink never got have
therefore cost MaxDeliver failures, which is what `GiveUp` of the abstract
specification asks for. The refinement then goes action by action.

The proofs have one lemma per action or group of actions. TLC checked each of these
invariants before they were proved.

Every invariant and action property of the passing runs is stated by a theorem. Where
a theorem has a hypothesis on `FaultKinds`, on `Late` and `StopsBusy` or on a bound,
section 3 has a counterexample to the statement without it; the passing runs that check
the property satisfy the hypothesis.

*Only model-checked:* the liveness properties (`DeletionCompletes`, `EndsReady`,
`EndsDelivering`, `SubscriptionDeletionCompletes`, `EventsSettle`), since fairness is
outside the prover's reach, and the four disagreements, which are refuted.

## 5. Simplifications

* Eventing: the check for a second Eventing resource (`allowedEventingCR`), the
  migration of the former eventing-controller and the NATS resource watcher's own
  failures after it started are left out. The content of the Kubernetes objects is
  one value per backend and configuration; the publisher's three Services are one.
  A missing CRD, a missing or malformed Secret and an unreadable domain are
  failures of the call that looks them up.
* JetStream: one Subscription, so that consumer names of different Subscriptions
  do not meet. Its source and typeMatching are not edited: `DeleteSubscription`
  computes the subjects of `status.types` anew from them (`jetstream.go:122`), so after a
  restart an edited source would make it miss a consumer, which the model does not show.
  The stream exists and is configured. All connections that still try
  come back together in `NatsBack`; closing a connection gracefully unbinds its
  consumers at once. `Start` succeeds or is not taken, its failures are in
  `EventingController`. `cleanupv2` is one step; its concurrent access to the maps
  of a busy worker is listed as a hazard. The conditions of the Subscription
  repeat `ready` and are left out.
* In `EventingController`, EventMesh is the manager the reconciler starts and stops;
  its cleanup is part of a `Stop` that may fail.
* EventMesh: a sink is its Service; each Subscription has a path of its own. A name
  on EventMesh is the Subscription it maps. Event type processing, the namespace and
  the fields of a subscription are one value (`Content`); hashes do not collide. The
  length of the activation timeout is not modelled: a subscription that is not active
  may be found failed or not. `AuthorizationPolicies` are not state. `Stop` is one
  step. A Subscription that is gone is not created again under the same name.
* Delivery: one consumer. The order of messages in the stream, AckWait and the delay
  of a negative acknowledgement are not measured, so that a late answer that starts the
  delay again changes nothing; a callback slower than AckWait is a failure. The answer of the sink is accepted or not; a POST whose answer is lost
  was accepted. Metrics and tracing are left out.

Not modelled: the resource watcher (its events are `WatchEvent`), the cleaners of
event types, the field by field equality of Kubernetes objects other than APIRules,
the HTTP client, metrics and Istio: string rewriting, comparison and I/O without
state a property could tell apart.

## 6. Plan

Done: all modules of section 2, their runs and proofs. Left:

1. An abstract specification of a backend switch (off, one backend, the other)
   that `EventingController` implements when no status update is lost.
2. JetStream: two Subscriptions and `DeleteInvalidConsumers`; `cleanupv2` cut at
   each of its calls.
3. `ResourceWatcher`, if its unbuffered channel is to be checked.
