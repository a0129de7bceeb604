----------------------- MODULE JetStreamSubscription -----------------------
(***************************************************************************)
(* The Subscription controller of the NATS backend: the reconciler         *)
(* (internal/controller/eventing/subscription/jetstream), the JetStream    *)
(* backend it calls (pkg/backend/jetstream) and the subscription manager   *)
(* that starts and stops both (pkg/subscriptionmanager/jetstream).         *)
(*                                                                         *)
(* One Subscription resource is followed. Every Start of the manager makes *)
(* a new backend, controller and connection; Stop does not wait for the    *)
(* controller's worker, so the workers of several managers can be active   *)
(* at once and share the consumers on the NATS server. A worker is cut     *)
(* at every call to the API server and at every event type; the calls to   *)
(* the NATS server for one type are one step, with an outcome for each of  *)
(* them that can fail.                                                     *)
(***************************************************************************)
EXTENDS Naturals

CONSTANTS
  Subject,      \* JetStream subjects: prefix, source and clean event type
  Sink,         \* sink URLs, one Kubernetes Service each
  NoSink,       \* js.sinks holds no sink
  MaxInFlight,  \* values of maxInFlightMessages
  NoConsumer,   \* the server has no such consumer
  CachedReads,  \* reads may return what the informer cache holds
  FaultKinds,   \* the kinds of failure the environment may inject
  MaxEdits,     \* bound: changes by users (Subscription, Services)
  MaxFaults,    \* bound: failures injected
  MaxStarts,    \* bound: managers started
  MaxStops,     \* bound: managers stopped by the Eventing reconciler
  MaxCrashes    \* bound: restarts of the process

ASSUME JSBoundsAssumption ==
  /\ MaxEdits \in Nat /\ MaxFaults \in Nat /\ MaxStarts \in Nat
  /\ MaxStops \in Nat /\ MaxCrashes \in Nat
ASSUME CachedReadsAssumption == CachedReads \in BOOLEAN
ASSUME NoSinkAssumption == NoSink \notin Sink
ASSUME SpecsAssumption == Sink # {} /\ MaxInFlight # {}

VARIABLES
  sub,        \* the Subscription resource in the API server
  cached,     \* the copy the informer delivered last
  fresh,      \* which copies carry the latest resourceVersion
  services,   \* the Services that exist, by the sink that names them
  natsUp,     \* the NATS server accepts connections
  consumers,  \* the consumers on the NATS server
  js,         \* the backend of each manager
  worker,     \* the controller worker of each manager
  edits, faults, starts, stops, crashes

resource == <<sub, cached, fresh>>
vars == <<resource, services, natsUp, consumers, js, worker,
          edits, faults, starts, stops, crashes>>

-----------------------------------------------------------------------------
(***************************************************************************)
(* State.                                                                  *)
(***************************************************************************)

Manager == 1..MaxStarts

\* valid: validateSpec finds nothing to complain about.
SubSpec == [types : SUBSET Subject, sink : Sink, max : MaxInFlight, valid : BOOLEAN]

\* status.types and status.ready; the conditions say nothing more.
SubStatus == [types : SUBSET Subject, ready : BOOLEAN]
NewSubStatus == [types |-> {}, ready |-> FALSE]

Subscription ==
  [present : BOOLEAN, deleting : BOOLEAN, finalizer : BOOLEAN,
   spec : SubSpec, status : SubStatus]

\* PushBound is bound # 0: the manager whose connection the server delivers to.
\* The server may still hold on to a connection that is gone.
Consumer == [max : MaxInFlight, bound : 0..MaxStarts]

ASSUME NoConsumerAssumption == NoConsumer \notin Consumer

\* Entries of js.subscriptions: valid as long as their connection is not closed.
Subscriber == {"none", "valid", "invalid"}

\* phase: the context of the controller. cleanup: Stop still has to run
\* cleanupv2 on this backend.
Backend ==
  [phase       : {"new", "running", "stopped", "dead"},
   conn        : {"connected", "reconnecting", "closed"},
   subscribers : [Subject -> Subscriber],
   sink        : Sink \cup {NoSink},
   cleanup     : BOOLEAN]

NewBackend ==
  [phase |-> "new", conn |-> "closed", subscribers |-> [s \in Subject |-> "none"],
   sink |-> NoSink, cleanup |-> FALSE]

Step ==
  {"idle", "addFinalizer", "connect", "syncTypes", "syncConsumers",
   "connectToDeleteSubs", "deleteSubs", "connectToDelete", "delete",
   "deleteConsumers", "removeFinalizer", "status"}

\* copy: the deep copy Reconcile works on; todo: what a loop still has to visit.
Worker ==
  [pc : Step, queued : BOOLEAN, spec : SubSpec, status : SubStatus,
   todo : SUBSET Subject, result : {"done", "error"}]

TypeOK ==
  /\ sub \in Subscription /\ cached \in Subscription
  /\ fresh \subseteq {0} \cup Manager
  /\ services \subseteq Sink
  /\ natsUp \in BOOLEAN
  /\ consumers \in [Subject -> Consumer \cup {NoConsumer}]
  /\ js \in [Manager -> Backend]
  /\ worker \in [Manager -> Worker]
  /\ edits \in 0..MaxEdits /\ faults \in 0..MaxFaults /\ starts \in 0..MaxStarts
  /\ stops \in 0..MaxStops /\ crashes \in 0..MaxCrashes

AnySpec == CHOOSE spec \in SubSpec : TRUE

NoSubscription ==
  [present |-> FALSE, deleting |-> FALSE, finalizer |-> FALSE,
   spec |-> AnySpec, status |-> NewSubStatus]

IdleWorker ==
  [pc |-> "idle", queued |-> FALSE, spec |-> AnySpec, status |-> NewSubStatus,
   todo |-> {}, result |-> "done"]

Init ==
  /\ sub = NoSubscription /\ cached = NoSubscription /\ fresh = {0}
  /\ services = Sink
  /\ natsUp = TRUE
  /\ consumers = [s \in Subject |-> NoConsumer]
  /\ js = [m \in Manager |-> NewBackend]
  /\ worker = [m \in Manager |-> IdleWorker]
  /\ edits = 0 /\ faults = 0 /\ starts = 0 /\ stops = 0 /\ crashes = 0

-----------------------------------------------------------------------------
(***************************************************************************)
(* Building blocks.                                                        *)
(***************************************************************************)

Fault(kind) ==
  /\ kind \in FaultKinds
  /\ faults < MaxFaults
  /\ faults' = faults + 1

\* The client reads from the informer cache, or it reads the latest version.
Readable == CachedReads \/ 0 \in fresh

\* A write to the resource: nobody else has the new version yet.
Write(obj) == sub' = obj /\ fresh' = {}

\* The keys of js.subscriptions that belong to the Subscription.
Keys(m) == {s \in Subject : js[m].subscribers[s] # "none"}

\* The server stops delivering subject s to manager m.
Unbound(m, s) ==
  IF consumers[s] # NoConsumer /\ consumers[s].bound = m
  THEN [consumers[s] EXCEPT !.bound = 0] ELSE consumers[s]

\* A closed connection invalidates its subscriptions.
Closed(backend) ==
  [backend EXCEPT
     !.conn = "closed",
     !.subscribers = [s \in Subject |-> IF @[s] = "valid" THEN "invalid" ELSE @[s]]]

\* An error of the backend: status.ready becomes false, Reconcile returns the
\* error or asks to be called again.
Fail(m) ==
  worker' = [worker EXCEPT ![m].status.ready = FALSE, ![m].result = "error",
                           ![m].pc = "status"]

\* The queue of a stopped controller takes no more requests.
Return(m, again) ==
  worker' = [worker EXCEPT ![m].pc = "idle",
                           ![m].queued = @ \/ (again /\ js[m].phase = "running")]

Visited(m, s) == worker' = [worker EXCEPT ![m].todo = @ \ {s}]

Goto(m, step, todo) == worker' = [worker EXCEPT ![m].pc = step, ![m].todo = todo]

-----------------------------------------------------------------------------
(***************************************************************************)
(* Reconcile, up to the first call of the backend.                         *)
(***************************************************************************)

Fetch(m, step, status) ==
  /\ worker[m].pc = "idle" /\ worker[m].queued /\ Readable
  /\ CachedReads \/ js[m].phase = "running"
  /\ worker' = [worker EXCEPT ![m] =
       [pc |-> step, queued |-> FALSE, spec |-> cached.spec, status |-> status,
        todo |-> {}, result |-> "done"]]
  /\ fresh' = IF 0 \in fresh THEN fresh \cup {m} ELSE fresh \ {m}
  /\ UNCHANGED <<sub, cached, services, natsUp, consumers, js, edits, starts,
                 stops, crashes>>

\* The API server does not answer, or the context is cancelled.
GetFails(m) ==
  /\ worker[m].pc = "idle" /\ worker[m].queued
  /\ \/ ~CachedReads /\ js[m].phase = "stopped" /\ UNCHANGED faults
     \/ Fault("api")
  /\ worker' = [worker EXCEPT ![m].queued = js[m].phase = "running"]
  /\ UNCHANGED <<resource, services, natsUp, consumers, js, edits, starts, stops,
                 crashes>>

ReconcileNothing(m) ==
  /\ ~cached.present \/ (cached.deleting /\ ~cached.finalizer)
  /\ Fetch(m, "idle", cached.status) /\ UNCHANGED faults

\* Mutant: what is not ready is taken to have nothing on the server.
ReconcileDeletionOfReady(m) ==
  /\ cached.present /\ cached.deleting /\ cached.finalizer
  /\ Fetch(m, IF cached.status.ready THEN "connectToDelete" ELSE "removeFinalizer",
           cached.status)
  /\ UNCHANGED faults

\* Mutant: the Subscription is validated before it is deleted.
ReconcileDeletionOfValid(m) ==
  /\ cached.present /\ cached.deleting /\ cached.finalizer
  /\ Fetch(m, IF cached.spec.valid THEN "connectToDelete" ELSE "status", cached.status)
  /\ UNCHANGED faults

ReconcileDeletion(m) ==
  /\ cached.present /\ cached.deleting /\ cached.finalizer
  /\ Fetch(m, "connectToDelete", cached.status) /\ UNCHANGED faults

ReconcileNew(m) ==
  /\ cached.present /\ ~cached.deleting /\ ~cached.finalizer
  /\ Fetch(m, "addFinalizer", cached.status) /\ UNCHANGED faults

Active == cached.present /\ ~cached.deleting /\ cached.finalizer

\* validateSubscription clears the status of a Subscription that is not valid.
ReconcileInvalidSpec(m) ==
  /\ Active /\ ~cached.spec.valid
  /\ Fetch(m, "status", NewSubStatus) /\ UNCHANGED faults

\* serviceExists reads the Service from the API server; any error counts as
\* missing, that of a cancelled context too.
ServiceExists(m) == cached.spec.sink \in services /\ js[m].phase = "running"

ServiceMissing(m) == (~ServiceExists(m) /\ UNCHANGED faults) \/ Fault("api")

\* Mutant: the consumers are deleted too.
ReconcileInvalidSinkDeletes(m) ==
  /\ Active /\ cached.spec.valid /\ ServiceMissing(m)
  /\ Fetch(m, "connectToDelete", [NewSubStatus EXCEPT !.types = cached.spec.types])

\* Without the Service of the sink only the NATS subscriptions are deleted.
ReconcileInvalidSink(m) ==
  /\ Active /\ cached.spec.valid /\ ServiceMissing(m)
  /\ Fetch(m, "connectToDeleteSubs", NewSubStatus)

\* syncEventTypes puts the types of the spec into the status.
ReconcileValid(m) ==
  /\ Active /\ cached.spec.valid /\ ServiceExists(m)
  /\ Fetch(m, "connect", [cached.status EXCEPT !.types = cached.spec.types])
  /\ UNCHANGED faults

Reconcile(m) ==
  \/ GetFails(m)
  \/ ReconcileNothing(m) \/ ReconcileDeletion(m) \/ ReconcileNew(m)
  \/ ReconcileInvalidSpec(m) \/ ReconcileInvalidSink(m) \/ ReconcileValid(m)

\* The update fails once the context is cancelled or with an old version.
AddFinalizer(m) ==
  /\ worker[m].pc = "addFinalizer"
  /\ \/ /\ m \in fresh /\ js[m].phase = "running"
        /\ Write([sub EXCEPT !.finalizer = TRUE])
        /\ Return(m, FALSE)
        /\ UNCHANGED faults
     \/ /\ \/ (m \notin fresh \/ js[m].phase # "running") /\ UNCHANGED faults
           \/ Fault("status")
        /\ Return(m, TRUE)
        /\ UNCHANGED <<sub, fresh>>
  /\ UNCHANGED <<cached, services, natsUp, consumers, js, edits, starts, stops,
                 crashes>>

-----------------------------------------------------------------------------
(***************************************************************************)
(* The backend: checkJetStreamConnection, SyncSubscription.                *)
(***************************************************************************)

ConnectSteps == {"connect", "connectToDeleteSubs", "connectToDelete"}

AfterConnect(step) ==
  CASE step = "connect"             -> "syncTypes"
    [] step = "connectToDeleteSubs" -> "deleteSubs"
    [] step = "connectToDelete"     -> "delete"

\* Mutant: only the NATS client reconnects.
CheckJetStreamConnectionWaits(m) ==
  /\ worker[m].pc \in ConnectSteps
  /\ \/ /\ js[m].conn = "connected"
        /\ Goto(m, AfterConnect(worker[m].pc), Keys(m))
     \/ /\ js[m].conn # "connected"
        /\ IF worker[m].pc = "connectToDeleteSubs" THEN Return(m, TRUE) ELSE Fail(m)
  /\ UNCHANGED <<resource, services, natsUp, consumers, js, edits, faults, starts,
                 stops, crashes>>

\* A connection that is not connected is replaced by a new one, in a backend
\* that was shut down as well.
CheckJetStreamConnection(m) ==
  /\ worker[m].pc \in ConnectSteps
  /\ \/ /\ js[m].conn = "connected" \/ natsUp
        /\ js' = [js EXCEPT ![m].conn = "connected"]
        /\ Goto(m, AfterConnect(worker[m].pc), Keys(m))
        /\ UNCHANGED faults
     \/ /\ js[m].conn # "connected"
        /\ (~natsUp /\ UNCHANGED faults) \/ Fault("nats")
        /\ IF worker[m].pc = "connectToDeleteSubs" THEN Return(m, TRUE) ELSE Fail(m)
        /\ UNCHANGED js
  /\ UNCHANGED <<resource, services, natsUp, consumers, edits, starts, stops,
                 crashes>>

\* A call to the NATS server fails.
CallFails(m) ==
  \/ js[m].conn # "connected" /\ UNCHANGED faults
  \/ Fault("nats")

\* syncSubscriptionEventType leaves alone what will be bound again later ...
BoundLater(m, s) == s \in worker[m].status.types /\ js[m].subscribers[s] = "invalid"

\* ... and, once the server was asked, what has its consumer and its type.
Kept(m, s) == s \in worker[m].status.types /\ consumers[s] # NoConsumer

\* Mutant: Unsubscribe is trusted to delete the consumer.
UnsubscribeFromJetStream(m, s) ==
  /\ js[m].conn = "connected"
  /\ consumers' = [consumers EXCEPT ![s] = Unbound(m, s)]
  /\ js' = [js EXCEPT ![m].subscribers[s] = "none"]

\* deleteSubscriptionFromJetStream.
DeleteSubscriptionFromJetStream(m, s) ==
  /\ js[m].conn = "connected"
  /\ consumers' = [consumers EXCEPT ![s] = NoConsumer]
  /\ js' = [js EXCEPT ![m].subscribers[s] = "none"]

\* Unsubscribe failed, or it succeeded and the consumer could not be deleted.
DeleteSubscriptionFails(m, s) ==
  /\ CallFails(m)
  /\ \/ UNCHANGED <<js, consumers>>
     \/ /\ consumers' = [consumers EXCEPT ![s] = Unbound(m, s)]
        /\ js' = [js EXCEPT ![m].subscribers[s] = "invalid"]

SyncSubscriptionEventType(m) ==
  /\ worker[m].pc = "syncTypes"
  /\ \E s \in worker[m].todo :
       \/ /\ BoundLater(m, s) \/ (js[m].conn = "connected" /\ Kept(m, s))
          /\ Visited(m, s) /\ UNCHANGED <<js, consumers, faults>>
       \/ /\ ~BoundLater(m, s) /\ ~Kept(m, s)
          /\ DeleteSubscriptionFromJetStream(m, s)
          /\ Visited(m, s) /\ UNCHANGED faults
       \/ /\ ~BoundLater(m, s)
          /\ \/ CallFails(m) /\ UNCHANGED <<js, consumers>>
             \/ /\ consumers[s] # NoConsumer /\ ~Kept(m, s)
                /\ DeleteSubscriptionFails(m, s)
          /\ Fail(m)
  /\ UNCHANGED <<resource, services, natsUp, edits, starts, stops, crashes>>

\* Mutant: a sink that is known is not updated.
StoreSinkOnce(m) ==
  /\ worker[m].pc = "syncTypes" /\ worker[m].todo = {}
  /\ js' = [js EXCEPT ![m].sink = IF @ = NoSink THEN worker[m].spec.sink ELSE @]
  /\ Goto(m, "syncConsumers", worker[m].status.types)
  /\ UNCHANGED <<resource, services, natsUp, consumers, edits, faults, starts,
                 stops, crashes>>

\* Mutant: only a sink that is known is updated.
StoreKnownSink(m) ==
  /\ worker[m].pc = "syncTypes" /\ worker[m].todo = {}
  /\ js' = [js EXCEPT ![m].sink = IF @ = NoSink THEN @ ELSE worker[m].spec.sink]
  /\ Goto(m, "syncConsumers", worker[m].status.types)
  /\ UNCHANGED <<resource, services, natsUp, consumers, edits, faults, starts,
                 stops, crashes>>

\* The sink is stored for the callbacks before anything is subscribed.
StoreSink(m) ==
  /\ worker[m].pc = "syncTypes" /\ worker[m].todo = {}
  /\ js' = [js EXCEPT ![m].sink = worker[m].spec.sink]
  /\ Goto(m, "syncConsumers", worker[m].status.types)
  /\ UNCHANGED <<resource, services, natsUp, consumers, edits, faults, starts,
                 stops, crashes>>

\* Mutant: the consumer is created without a limit on pending messages.
FoundOrCreatedUnlimited(m, s) ==
  IF consumers[s] = NoConsumer THEN [max |-> 0, bound |-> 0] ELSE consumers[s]

\* getOrCreateConsumer.
FoundOrCreated(m, s) ==
  IF consumers[s] = NoConsumer THEN [max |-> worker[m].spec.max, bound |-> 0]
  ELSE consumers[s]

\* The NATS client binds to a consumer nobody is bound to. The options of
\* createNATSSubscription must agree with the consumer, bindInvalidSubscriptions
\* passes none.
CanSubscribe(m, s) ==
  /\ FoundOrCreated(m, s).bound = 0
  /\ js[m].subscribers[s] = "none" => FoundOrCreated(m, s).max = worker[m].spec.max

\* One round of syncConsumerAndSubscription: the subscription is there already,
\* it is created or bound, or it belongs to someone else. Last the consumer gets
\* the maxInFlight of the spec.
SyncConsumerAndSubscription(m) ==
  /\ worker[m].pc = "syncConsumers"
  /\ \E s \in worker[m].todo :
       \/ /\ js[m].conn = "connected"
          /\ \/ /\ js[m].subscribers[s] = "valid"
                /\ consumers' = [consumers EXCEPT ![s] =
                     [FoundOrCreated(m, s) EXCEPT !.max = worker[m].spec.max]]
                /\ UNCHANGED js
             \/ /\ js[m].subscribers[s] # "valid" /\ CanSubscribe(m, s)
                /\ consumers' = [consumers EXCEPT ![s] =
                     [max |-> worker[m].spec.max, bound |-> m]]
                /\ js' = [js EXCEPT ![m].subscribers[s] = "valid"]
          /\ Visited(m, s) /\ UNCHANGED faults
       \/ /\ js[m].conn = "connected"
          /\ js[m].subscribers[s] # "valid" /\ ~CanSubscribe(m, s)
          /\ consumers' = [consumers EXCEPT ![s] = FoundOrCreated(m, s)]
          /\ Fail(m) /\ UNCHANGED <<js, faults>>
       \/ /\ CallFails(m)
          /\ \/ UNCHANGED <<consumers, js>>
             \/ /\ js[m].conn = "connected"
                /\ consumers' = [consumers EXCEPT ![s] = FoundOrCreated(m, s)]
                /\ UNCHANGED js
             \/ /\ js[m].conn = "connected"
                /\ js[m].subscribers[s] # "valid" /\ CanSubscribe(m, s)
                /\ consumers' = [consumers EXCEPT ![s] =
                     [FoundOrCreated(m, s) EXCEPT !.bound = m]]
                /\ js' = [js EXCEPT ![m].subscribers[s] = "valid"]
          /\ Fail(m)
  /\ UNCHANGED <<resource, services, natsUp, edits, starts, stops, crashes>>

Synced(m) ==
  /\ worker[m].pc = "syncConsumers" /\ worker[m].todo = {}
  /\ worker' = [worker EXCEPT ![m].pc = "status", ![m].status.ready = TRUE]
  /\ UNCHANGED <<resource, services, natsUp, consumers, js, edits, faults,
                 starts, stops, crashes>>

\* updateSubscriptionStatus: reads the resource again and writes the status
\* unless it is equal.
UpdateSubscriptionStatus(m) ==
  /\ worker[m].pc = "status" /\ Readable
  /\ LET equal == cached.present /\ cached.status = worker[m].status
         writes == cached.present /\ 0 \in fresh /\ js[m].phase = "running"
     IN
     \/ equal /\ Return(m, worker[m].result = "error") /\ UNCHANGED <<sub, fresh, faults>>
     \/ /\ ~equal /\ writes
        /\ Write([sub EXCEPT !.status = worker[m].status])
        /\ Return(m, worker[m].result = "error") /\ UNCHANGED faults
     \/ /\ ~equal
        /\ (~writes /\ UNCHANGED faults) \/ Fault("status")
        /\ Return(m, TRUE) /\ UNCHANGED <<sub, fresh>>
  /\ UNCHANGED <<cached, services, natsUp, consumers, js, edits, starts, stops,
                 crashes>>

-----------------------------------------------------------------------------
(***************************************************************************)
(* The backend: DeleteSubscriptionsOnly and DeleteSubscription.            *)
(***************************************************************************)

DeleteSubscriptionsOnly(m) ==
  /\ worker[m].pc = "deleteSubs"
  /\ \/ \E s \in worker[m].todo :
          /\ consumers' = [consumers EXCEPT ![s] = Unbound(m, s)]
          /\ js' = [js EXCEPT ![m].subscribers[s] = "none"]
          /\ Visited(m, s)
          /\ UNCHANGED faults
     \/ /\ \E s \in worker[m].todo : js[m].subscribers[s] = "valid"
        /\ Fault("nats") /\ Return(m, TRUE)
        /\ UNCHANGED <<js, consumers>>
     \/ /\ worker[m].todo = {} /\ Goto(m, "status", {})
        /\ UNCHANGED <<js, consumers, faults>>
  /\ UNCHANGED <<resource, services, natsUp, edits, starts, stops, crashes>>

\* The first loop of DeleteSubscription, over js.subscriptions.
DeleteSubscription(m) ==
  /\ worker[m].pc = "delete"
  /\ \/ \E s \in worker[m].todo :
          \/ DeleteSubscriptionFromJetStream(m, s) /\ Visited(m, s) /\ UNCHANGED faults
          \/ DeleteSubscriptionFails(m, s) /\ Fail(m)
     \/ /\ worker[m].todo = {} /\ Goto(m, "deleteConsumers", worker[m].status.types)
        /\ UNCHANGED <<js, consumers, faults>>
  /\ UNCHANGED <<resource, services, natsUp, edits, starts, stops, crashes>>

\* The second loop, over status.types; then the sink is forgotten. The code
\* computes the subject of a type anew from spec.source and spec.typeMatching,
\* which users do not edit in this model.
DeleteConsumers(m) ==
  /\ worker[m].pc = "deleteConsumers"
  /\ \/ \E s \in worker[m].todo :
          \/ /\ js[m].conn = "connected"
             /\ consumers' = [consumers EXCEPT ![s] = NoConsumer]
             /\ Visited(m, s) /\ UNCHANGED <<js, faults>>
          \/ CallFails(m) /\ Fail(m) /\ UNCHANGED <<js, consumers>>
     \/ /\ worker[m].todo = {}
        /\ js' = [js EXCEPT ![m].sink = NoSink]
        /\ Goto(m, "removeFinalizer", {}) /\ UNCHANGED <<consumers, faults>>
  /\ UNCHANGED <<resource, services, natsUp, edits, starts, stops, crashes>>

\* Without finalizers the API server removes the deleting object.
RemoveFinalizer(m) ==
  /\ worker[m].pc = "removeFinalizer"
  /\ \/ /\ m \in fresh /\ js[m].phase = "running"
        /\ Write(NoSubscription)
        /\ Return(m, FALSE) /\ UNCHANGED faults
     \/ /\ \/ (m \notin fresh \/ js[m].phase # "running") /\ UNCHANGED faults
           \/ Fault("status")
        /\ Return(m, TRUE) /\ UNCHANGED <<sub, fresh>>
  /\ UNCHANGED <<cached, services, natsUp, consumers, js, edits, starts, stops,
                 crashes>>

WorkerStep(m) ==
  \/ Reconcile(m) \/ AddFinalizer(m) \/ CheckJetStreamConnection(m)
  \/ SyncSubscriptionEventType(m) \/ StoreSink(m)
  \/ SyncConsumerAndSubscription(m) \/ Synced(m) \/ UpdateSubscriptionStatus(m)
  \/ DeleteSubscriptionsOnly(m) \/ DeleteSubscription(m) \/ DeleteConsumers(m)
  \/ RemoveFinalizer(m)

-----------------------------------------------------------------------------
(***************************************************************************)
(* The subscription manager, as the Eventing reconciler calls it.          *)
(***************************************************************************)

\* Consumers nobody is bound to and no Subscription names are deleted.
\* Subscriptions are listed by spec.types.
ValidConsumers ==
  [s \in Subject |->
     IF consumers[s] # NoConsumer /\ consumers[s].bound = 0
        /\ ~(cached.present /\ s \in cached.spec.types)
     THEN NoConsumer ELSE consumers[s]]

\* Start: a new backend connects, deletes invalid consumers, and a new
\* controller starts with what the informer has.
Start ==
  /\ starts < MaxStarts /\ natsUp /\ Readable
  /\ \A m \in Manager : js[m].phase # "running" /\ ~js[m].cleanup
  /\ starts' = starts + 1
  /\ consumers' = ValidConsumers
  /\ js' = [js EXCEPT ![starts + 1].phase = "running", ![starts + 1].conn = "connected"]
  /\ worker' = [worker EXCEPT ![starts + 1].queued = cached.present]
  /\ UNCHANGED <<resource, services, natsUp, edits, faults, stops, crashes>>

\* Stop shuts the backend down and cancels the context, and waits for nothing.
\* Closing the connection runs HandleNatsConnClose, whose requests may reach
\* the queue first. What is queued is still worked off.
Stop(m) ==
  /\ stops < MaxStops /\ js[m].phase = "running"
  /\ stops' = stops + 1
  /\ \E cleanup \in BOOLEAN :
       js' = [js EXCEPT ![m] = [Closed(@) EXCEPT !.phase = "stopped", !.cleanup = cleanup]]
  /\ consumers' = [s \in Subject |-> Unbound(m, s)]
  /\ \E queued \in {worker[m].queued, worker[m].queued \/ cached.present} :
       worker' = [worker EXCEPT ![m].queued = queued]
  /\ UNCHANGED <<resource, services, natsUp, edits, faults, starts, crashes>>

\* cleanupv2: the status of every Subscription is reset and DeleteSubscription
\* called on the backend that was shut down, which connects again. Failures are
\* logged and forgotten.
Cleanup(m) ==
  /\ js[m].cleanup
  /\ LET reached == sub.present /\ (natsUp \/ js[m].conn = "connected") IN
     /\ consumers' = IF reached
                     THEN [s \in Subject |-> IF s \in Keys(m) \cup sub.status.types
                                             THEN NoConsumer ELSE consumers[s]]
                     ELSE consumers
     /\ js' = [js EXCEPT ![m] = IF reached
                                THEN [NewBackend EXCEPT !.phase = js[m].phase, !.conn = "connected"]
                                ELSE [@ EXCEPT !.cleanup = FALSE]]
  /\ \/ /\ sub.present /\ sub.status # NewSubStatus
        /\ Write([sub EXCEPT !.status = NewSubStatus]) /\ UNCHANGED faults
     \/ /\ ~sub.present \/ sub.status = NewSubStatus
        /\ UNCHANGED <<sub, fresh, faults>>
     \/ Fault("status") /\ UNCHANGED <<sub, fresh>>
  /\ UNCHANGED <<cached, services, natsUp, worker, edits, starts, stops, crashes>>

-----------------------------------------------------------------------------
(***************************************************************************)
(* The informer cache, users, the NATS server, the process.                *)
(***************************************************************************)

\* Every running controller gets the event.
Enqueued ==
  [m \in Manager |-> IF js[m].phase = "running"
                     THEN [worker[m] EXCEPT !.queued = TRUE] ELSE worker[m]]

InformerSync ==
  /\ 0 \notin fresh
  /\ cached' = sub /\ fresh' = fresh \cup {0}
  /\ worker' = Enqueued
  /\ UNCHANGED <<sub, services, natsUp, consumers, js, edits, faults, starts,
                 stops, crashes>>

\* The periodic resync of the cache.
Resync ==
  /\ cached.present
  /\ worker' = Enqueued
  /\ UNCHANGED <<resource, services, natsUp, consumers, js, edits, faults,
                 starts, stops, crashes>>

Edit ==
  /\ edits < MaxEdits
  /\ edits' = edits + 1
  /\ UNCHANGED <<cached, natsUp, consumers, js, worker, faults, starts, stops,
                 crashes>>

\* A spec without types is not valid; for the rest of validateSpec see SubSpec.
UserSpec == {spec \in SubSpec : spec.types = {} => ~spec.valid}

CreateSubscription ==
  /\ Edit /\ ~sub.present
  /\ \E spec \in UserSpec :
       Write([NoSubscription EXCEPT !.present = TRUE, !.spec = spec])
  /\ UNCHANGED services

EditSubscription ==
  /\ Edit /\ sub.present
  /\ \E spec \in UserSpec \ {sub.spec} : Write([sub EXCEPT !.spec = spec])
  /\ UNCHANGED services

UserDeletes ==
  /\ Edit /\ sub.present /\ ~sub.deleting
  /\ Write(IF sub.finalizer THEN [sub EXCEPT !.deleting = TRUE] ELSE NoSubscription)
  /\ UNCHANGED services

\* Services come and go; the controller does not watch them.
ChangeService ==
  /\ Edit /\ "service" \in FaultKinds
  /\ \E k \in Sink : services' = IF k \in services THEN services \ {k} ELSE services \cup {k}
  /\ UNCHANGED <<sub, fresh>>

NatsDown ==
  /\ natsUp /\ Fault("outage")
  /\ natsUp' = FALSE
  /\ js' = [m \in Manager |->
              IF js[m].conn = "connected" THEN [js[m] EXCEPT !.conn = "reconnecting"] ELSE js[m]]
  /\ UNCHANGED <<resource, services, consumers, worker, edits, starts, stops, crashes>>

\* Connections that still try reconnect and keep their subscriptions. A server
\* that kept its streams in memory has lost the consumers.
NatsBack ==
  /\ ~natsUp
  /\ natsUp' = TRUE
  /\ js' = [m \in Manager |->
              IF js[m].conn = "reconnecting" THEN [js[m] EXCEPT !.conn = "connected"] ELSE js[m]]
  /\ \/ UNCHANGED consumers
     \/ "storage" \in FaultKinds /\ consumers' = [s \in Subject |-> NoConsumer]
  /\ UNCHANGED <<resource, services, worker, edits, faults, starts, stops, crashes>>

\* The reconnect attempts are exceeded: HandleNatsConnClose enqueues every
\* Subscription.
HandleNatsConnClose(m) ==
  /\ js[m].conn = "reconnecting"
  /\ js' = [js EXCEPT ![m] = Closed(@)]
  /\ consumers' = [s \in Subject |-> Unbound(m, s)]
  /\ worker' = [worker EXCEPT ![m].queued =
                  @ \/ (js[m].phase = "running" /\ cached.present)]
  /\ UNCHANGED <<resource, services, natsUp, edits, faults, starts, stops, crashes>>

\* The process restarts. The server still delivers to its connections.
Crash ==
  /\ crashes < MaxCrashes
  /\ crashes' = crashes + 1
  /\ cached' = sub /\ fresh' = {0}
  /\ js' = [m \in Manager |-> IF m <= starts THEN [NewBackend EXCEPT !.phase = "dead"]
                              ELSE js[m]]
  /\ worker' = [m \in Manager |-> IdleWorker]
  /\ UNCHANGED <<sub, services, natsUp, consumers, edits, faults, starts, stops>>

\* The server gives up a connection of a process that is gone.
ServerUnbinds ==
  /\ natsUp
  /\ \E m \in Manager :
       /\ js[m].phase = "dead"
       /\ \E s \in Subject : consumers[s] # Unbound(m, s)
       /\ consumers' = [s \in Subject |-> Unbound(m, s)]
  /\ UNCHANGED <<resource, services, natsUp, js, worker, edits, faults, starts,
                 stops, crashes>>

User == CreateSubscription \/ EditSubscription \/ UserDeletes \/ ChangeService

Next ==
  \/ \E m \in Manager : WorkerStep(m) \/ Stop(m) \/ Cleanup(m) \/ HandleNatsConnClose(m)
  \/ Start \/ InformerSync \/ Resync \/ User
  \/ NatsDown \/ NatsBack \/ Crash \/ ServerUnbinds

Spec == Init /\ [][Next]_vars

(***************************************************************************)
(* Fairness. Workers run while they have work, the informer delivers, the  *)
(* cache is resynced periodically (cmd/main.go), the Eventing reconciler   *)
(* starts a manager when none runs, an outage ends and the server notices  *)
(* dead connections. Users, failures, stops and crashes are not fair.      *)
(***************************************************************************)
Fairness ==
  /\ \A m \in Manager : WF_vars(WorkerStep(m)) /\ WF_vars(Cleanup(m))
  /\ WF_vars(InformerSync) /\ WF_vars(Resync) /\ WF_vars(Start)
  /\ WF_vars(NatsBack) /\ WF_vars(ServerUnbinds)

FairSpec == Spec /\ Fairness

-----------------------------------------------------------------------------
(***************************************************************************)
(* Properties.                                                             *)
(***************************************************************************)

\* Manager m runs, its worker has nothing to do and no older worker is busy.
Settled(m) ==
  /\ js[m].phase = "running" /\ 0 \in fresh
  /\ \A k \in Manager : worker[k].pc = "idle" /\ ~worker[k].queued

Existing == {s \in Subject : consumers[s] # NoConsumer}

ReadySubscription == sub.present /\ ~sub.deleting /\ sub.status.ready

\* Settled and ready: every event type of the spec has its consumer, bound to
\* the connection of the running manager, with the maxInFlight of the spec, and
\* the callbacks send to the sink of the spec.
ReadyMeansDelivering ==
  \A m \in Manager :
    Settled(m) /\ ReadySubscription /\ js[m].conn = "connected" =>
      /\ \A s \in sub.spec.types : consumers[s] = [max |-> sub.spec.max, bound |-> m]
      /\ js[m].sink = sub.spec.sink

\* Settled and ready: there is no consumer for a type the spec does not name,
\* however often the types changed and updates failed.
ReadyMeansNoStaleConsumer ==
  \A m \in Manager : Settled(m) /\ ReadySubscription => Existing \subseteq sub.spec.types

\* A callback always finds the sink of its Subscription: the sink is stored
\* before the first subscription and deleted after the last one. In a manager
\* that was stopped, cleanupv2 may delete it under a worker that is still busy.
SinkKnown ==
  \A m \in Manager, s \in Subject :
    js[m].phase # "stopped" /\ js[m].subscribers[s] = "valid" => js[m].sink # NoSink

\* No consumer outlives its Subscription.
ConsumersGoWithSubscription == ~sub.present => Existing = {}

\* The consumer of a type that the Subscription names is not deleted, with the
\* events that wait in it, unless the Subscription goes, the manager that
\* deletes worked on an older version, the backend is cleaned up or the server
\* lost its storage.
NoMessageLoss ==
  [][ \A s \in Existing :
        consumers'[s] = NoConsumer /\ natsUp /\ sub.present /\ ~sub.deleting /\ s \in sub.spec.types
        => \/ \E m \in Manager : js[m].cleanup
           \/ \E m \in Manager : worker'[m].todo # worker[m].todo /\ m \notin fresh
           \/ 0 \notin fresh ]_vars

\* A stopped manager whose worker is done has no subscription left on the
\* server.
StoppedManagerIsQuiet ==
  \A m \in Manager :
    js[m].phase = "stopped" /\ worker[m].pc = "idle" /\ ~worker[m].queued =>
      \A s \in Subject : js[m].subscribers[s] # "valid"

\* In the end a valid Subscription with a Service for its sink is ready and the
\* running manager receives the events of all its types, whatever the connection
\* and the process went through, as long as the server keeps its consumers:
\* unless no manager was started again, or one that was stopped still holds on
\* to a consumer.
EndsDelivering ==
  <>[](/\ sub.present /\ ~sub.deleting /\ sub.spec.valid /\ sub.spec.sink \in services
       /\ \E m \in Manager : js[m].phase = "running"
       /\ \A m \in Manager, s \in Subject :
            js[m].phase = "stopped" => js[m].subscribers[s] # "valid"
       => /\ sub.status.ready
          /\ \A s \in sub.spec.types :
               consumers[s] # NoConsumer /\ \E m \in Manager :
                 js[m].phase = "running" /\ consumers[s].bound = m)

\* A deleted Subscription is gone in the end, whatever failed on the way, as long
\* as a manager is started again after every stop and crash.
SubscriptionDeletionCompletes ==
  (sub.present /\ sub.deleting) ~>
    \/ ~sub.present
    \/ starts = MaxStarts /\ \A m \in Manager : js[m].phase # "running"

=============================================================================
