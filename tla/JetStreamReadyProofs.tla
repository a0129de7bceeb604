----------------------- MODULE JetStreamReadyProofs -----------------------
(***************************************************************************)
(* What the status Ready of a settled Subscription says about the NATS     *)
(* server, and what is left there when the Subscription is gone, for every *)
(* value of the constants in which no manager is stopped: a worker of a    *)
(* stopped manager shares the consumers with its successor (see            *)
(* StoppedManagerIsQuiet), and then Ready promises nothing.                *)
(***************************************************************************)
EXTENDS JetStreamSubscriptionProofs

-----------------------------------------------------------------------------
(***************************************************************************)
(* The base: one manager works, on the copy that the cache holds.          *)
(***************************************************************************)

\* A manager that does not run does no work and has no subscription.
Quiet(b, w) ==
  /\ b.phase # "stopped"
  /\ b.phase # "running" =>
       w.pc = "idle" /\ ~w.queued /\ \A s \in Subject : b.subscribers[s] # "valid"

\* Without a request in the queue the worker works on what the cache holds.
Copied(w) == w.pc # "idle" /\ ~w.queued => cached.present /\ w.spec = cached.spec

\* SyncSubscription works on the types of the spec; without the Service of the
\* sink the Subscription is not ready.
Typed(w) ==
  /\ \/ w.pc \in {"connect", "syncTypes", "syncConsumers"}
     \/ w.pc = "status" /\ w.status.ready
     => w.status.types = w.spec.types
  /\ w.pc \in {"connectToDeleteSubs", "deleteSubs"} => ~w.status.ready

Working(b, w) == Quiet(b, w) /\ Copied(w) /\ Typed(w)

OneRuns ==
  \A m, k \in Manager : js[m].phase = "running" /\ js[k].phase = "running" => m = k

BaseInv == OneRuns /\ \A m \in Manager : Working(js[m], worker[m])

-----------------------------------------------------------------------------
(***************************************************************************)
(* Ready: the consumers are there and bound.                               *)
(***************************************************************************)

\* The server delivers what a valid subscription of manager m asks for.
Bound(m) ==
  \A s \in Subject :
    js[m].subscribers[s] = "valid" => consumers[s] # NoConsumer /\ consumers[s].bound = m

\* Manager m has a valid subscription of s with the maxInFlight of sp.
Subscribed(m, s, sp) ==
  js[m].subscribers[s] = "valid" /\ consumers[s] # NoConsumer /\ consumers[s].max = sp.max

Delivers(m, types, sp) ==
  js[m].sink = sp.sink /\ \A s \in types : Subscribed(m, s, sp)

\* A worker nobody interrupted has subscribed to what it has visited.
Progress(m) ==
  ~worker[m].queued =>
    /\ worker[m].pc = "syncConsumers" =>
         Delivers(m, worker[m].status.types \ worker[m].todo, worker[m].spec)
    /\ worker[m].pc = "status" /\ worker[m].status.ready =>
         Delivers(m, worker[m].spec.types, worker[m].spec)

\* Manager m runs, and its worker has seen the latest version.
AtRest(m) ==
  /\ js[m].phase = "running" /\ 0 \in fresh
  /\ worker[m].pc = "idle" /\ ~worker[m].queued

Delivered(m) == AtRest(m) /\ ReadySubscription => Delivers(m, sub.spec.types, sub.spec)

Delivery(m) == Bound(m) /\ Progress(m) /\ Delivered(m)

DeliveryInv == \A m \in Manager : Delivery(m)

-----------------------------------------------------------------------------
(***************************************************************************)
(* No consumer that nobody asks for.                                       *)
(***************************************************************************)

\* A finalizer is there before the first consumer is.
Held == sub.present /\ sub.finalizer

Creating == {"connect", "syncTypes", "syncConsumers"}

\* What manager m knows of the consumers that exist: all of them while it runs, and in
\* the course of an operation those that are left to be visited.
Tracked(m) ==
  /\ worker[m].pc \notin {"connectToDeleteSubs", "deleteSubs"}
  /\ m \in fresh /\ worker[m].pc = "removeFinalizer" => sub.deleting
  /\ worker[m].pc \in Creating => Held
  /\ js[m].phase = "running" => Existing \subseteq Keys(m)
  /\ worker[m].pc = "syncTypes" => Existing \subseteq worker[m].todo \cup worker[m].status.types
  /\ worker[m].pc = "syncConsumers" =>
       Existing \subseteq worker[m].status.types /\ worker[m].todo \subseteq worker[m].status.types
  /\ worker[m].pc = "status" /\ worker[m].status.ready => Existing \subseteq worker[m].spec.types
  /\ worker[m].pc = "delete" => Existing \subseteq worker[m].todo
  /\ worker[m].pc \in {"deleteConsumers", "removeFinalizer"} => Existing = {}
  /\ AtRest(m) /\ ReadySubscription => Existing \subseteq sub.spec.types

\* Nothing exists before the first manager, which runs on, and without a finalizer.
Started ==
  /\ services = Sink /\ (fresh # {} => 0 \in fresh)
  /\ starts = 0 => Existing = {}
  /\ \A m \in Manager : m <= starts => js[m].phase = "running"

FinalizerFirst == (Active => Held) /\ (Existing # {} => Held)

StaleInv == Started /\ FinalizerFirst /\ \A m \in Manager : Tracked(m)

\* The constants under which no knowledge of a consumer gets lost: nothing restarts, and
\* no call fails that leaves a consumer behind without its entry in js.subscriptions.
NothingForgotten ==
  MaxStops = 0 /\ MaxCrashes = 0 /\ {"api", "nats", "service"} \cap FaultKinds = {}

-----------------------------------------------------------------------------
(***************************************************************************)
(* The steps of a worker, as the invariants see them.                      *)
(***************************************************************************)

\* Worker m goes on with its copy of the specification; only the end of Reconcile
\* and events of others touch the queue.
Moves(m) ==
  /\ Steps(m) /\ worker[m].pc # "idle"
  /\ worker'[m].spec = worker[m].spec
  /\ worker[m].queued => worker'[m].queued
  /\ worker'[m].pc # "idle" => worker'[m].queued = worker[m].queued
  /\ Typed(worker'[m])

\* A failure is reported with a status that is not ready.
LEMMA FailMoves ==
  ASSUME TypeOK, NEW m \in Manager, worker[m].pc # "idle", Fail(m)
  PROVE  Moves(m) /\ worker'[m].pc = "status" /\ ~worker'[m].status.ready
  BY FailSteps DEF Moves, Typed

\* The end of Reconcile.
LEMMA ReturnMoves ==
  ASSUME TypeOK, NEW m \in Manager, worker[m].pc # "idle", NEW again \in BOOLEAN,
         Return(m, again)
  PROVE  /\ Moves(m) /\ worker'[m].pc = "idle"
         /\ again /\ js[m].phase = "running" => worker'[m].queued
  BY ReturnSteps DEF Moves, Typed

\* One round of a loop.
LEMMA VisitedMoves ==
  ASSUME TypeOK, NEW m \in Manager, worker[m].pc # "idle", NEW s, Visited(m, s), Typed(worker[m])
  PROVE  /\ Moves(m) /\ worker'[m].pc = worker[m].pc /\ worker'[m].status = worker[m].status
         /\ worker'[m].todo = worker[m].todo \ {s}
  BY VisitedSteps DEF Moves, Typed

\* The next stage of an operation.
LEMMA GotoMoves ==
  ASSUME TypeOK, NEW m \in Manager, worker[m].pc # "idle", NEW step \in Step,
         NEW todo \in SUBSET Subject, Goto(m, step, todo), Typed(worker[m]),
         \/ step \in {"delete", "deleteConsumers", "removeFinalizer"}
         \/ step = "deleteSubs" /\ worker[m].pc = "connectToDeleteSubs"
         \/ step = "status" /\ worker[m].pc = "deleteSubs"
         \/ step = "syncTypes" /\ worker[m].pc = "connect"
         \/ step = "syncConsumers" /\ worker[m].pc = "syncTypes"
  PROVE  /\ Moves(m) /\ worker'[m].pc = step /\ worker'[m].todo = todo
         /\ worker'[m].status = worker[m].status
  BY GotoSteps DEF Moves, Typed

\* What SyncSubscription reports when it is through.
LEMMA SyncedMoves ==
  ASSUME TypeOK, NEW m \in Manager, Synced(m), Typed(worker[m])
  PROVE  /\ Moves(m) /\ worker'[m].pc = "status" /\ worker'[m].status.ready
         /\ worker'[m].status.types = worker[m].status.types
  <1> DEFINE st == [worker[m].status EXCEPT !.ready = TRUE]
             new == [worker[m] EXCEPT !.pc = "status", !.status = st]
  <1>1. /\ worker \in [Manager -> Worker] /\ worker[m] \in Worker /\ "status" \in Step
        /\ worker[m].pc = "syncConsumers"
    BY DEF TypeOK, Step, Synced
  <1>2. st \in SubStatus /\ st.types = worker[m].status.types /\ st.ready
    BY <1>1 DEF Worker, SubStatus
  <1>3. worker' = [worker EXCEPT ![m] = new]
    BY DEF Synced
  <1> HIDE DEF st
  <1>4. /\ new \in Worker /\ new.pc = "status" /\ new.status = st
        /\ new.spec = worker[m].spec /\ new.queued = worker[m].queued
    BY <1>1, <1>2 DEF Worker
  <1> HIDE DEF new
  <1>5. Steps(m) /\ worker'[m] = new
    BY <1>1, <1>3, <1>4 DEF Steps
  <1> QED
    BY <1>1, <1>2, <1>4, <1>5 DEF Moves, Typed

\* The steps of a worker after Fetch.
Handler(m) ==
  \/ AddFinalizer(m) \/ CheckJetStreamConnection(m)
  \/ SyncSubscriptionEventType(m) \/ StoreSink(m)
  \/ SyncConsumerAndSubscription(m) \/ Synced(m) \/ UpdateSubscriptionStatus(m)
  \/ DeleteSubscriptionsOnly(m) \/ DeleteSubscription(m) \/ DeleteConsumers(m)
  \/ RemoveFinalizer(m)

\* Only a running manager works.
LEMMA OnlyRunning ==
  ASSUME BaseInv, NEW m \in Manager, WorkerStep(m)
  PROVE  js[m].phase = "running" /\ Typed(worker[m]) /\ Copied(worker[m])
  <1>1. worker[m].pc # "idle" \/ worker[m].queued
    BY DEF WorkerStep, Reconcile, GetFails, ReconcileNothing, ReconcileDeletion, ReconcileNew,
       ReconcileInvalidSpec, ReconcileInvalidSink, ReconcileValid, Fetch, AddFinalizer,
       CheckJetStreamConnection, SyncSubscriptionEventType, StoreSink,
       SyncConsumerAndSubscription, Synced, UpdateSubscriptionStatus, DeleteSubscriptionsOnly,
       DeleteSubscription, DeleteConsumers, RemoveFinalizer, ConnectSteps
  <1> QED
    BY <1>1 DEF BaseInv, Working, Quiet

\* The steps after Fetch keep the copy and their own backend apart from the others.
LEMMA HandlerMoves ==
  ASSUME IInv, BaseInv, NEW m \in Manager, Handler(m)
  PROVE  Moves(m) /\ SameBackend(m) /\ UNCHANGED <<cached, services, starts>>
  <1>0. /\ TypeOK /\ js \in [Manager -> Backend] /\ worker[m].todo \in SUBSET Subject
        /\ worker[m].status.types \in SUBSET Subject /\ worker[m].spec.sink \in Sink
        /\ js[m].phase = "running" /\ Typed(worker[m])
    BY LocalTypes, OnlyRunning DEF Handler, WorkerStep
  <1>b. UNCHANGED js => SameBackend(m)
    BY <1>0 DEF SameBackend
  <1>1. CASE AddFinalizer(m) \/ RemoveFinalizer(m) \/ UpdateSubscriptionStatus(m)
    <2>1. /\ worker[m].pc # "idle" /\ UNCHANGED <<js, cached, services, starts>>
          /\ \E again \in BOOLEAN : Return(m, again)
      BY <1>1 DEF AddFinalizer, RemoveFinalizer, UpdateSubscriptionStatus
    <2> QED
      BY <1>0, <1>b, <2>1, ReturnMoves
  <1>2. CASE CheckJetStreamConnection(m)
    <2>1. /\ worker[m].pc # "idle" /\ worker[m].pc \in ConnectSteps
          /\ UNCHANGED <<cached, services, starts>>
      BY <1>2 DEF CheckJetStreamConnection, ConnectSteps, resource
    <2>2. CASE js' = [js EXCEPT ![m].conn = "connected"]
               /\ Goto(m, AfterConnect(worker[m].pc), Keys(m))
      <3>1. /\ \/ AfterConnect(worker[m].pc) = "delete"
               \/ AfterConnect(worker[m].pc) = "deleteSubs" /\ worker[m].pc = "connectToDeleteSubs"
               \/ AfterConnect(worker[m].pc) = "syncTypes" /\ worker[m].pc = "connect"
            /\ AfterConnect(worker[m].pc) \in Step /\ Keys(m) \in SUBSET Subject
        BY <2>1 DEF AfterConnect, ConnectSteps, Step, Keys
      <3> QED
        BY <1>0, <2>1, <2>2, <3>1, GotoMoves, ConnSet
    <2>3. CASE UNCHANGED js /\ (Return(m, TRUE) \/ Fail(m))
      BY <1>0, <1>b, <2>1, <2>3, ReturnMoves, FailMoves
    <2> QED
      BY <1>2, <2>2, <2>3 DEF CheckJetStreamConnection
  <1>3. CASE SyncSubscriptionEventType(m) \/ DeleteSubscription(m)
    <2>1. worker[m].pc # "idle" /\ UNCHANGED <<cached, services, starts>>
      BY <1>3 DEF SyncSubscriptionEventType, DeleteSubscription, resource
    <2>2. CASE \E s \in worker[m].todo :
                 /\ \/ DeleteSubscriptionFromJetStream(m, s) \/ DeleteSubscriptionFails(m, s)
                    \/ UNCHANGED <<js, consumers>>
                 /\ Visited(m, s) \/ Fail(m)
      <3>1. PICK s \in Subject : Removal(m, s) /\ (Visited(m, s) \/ Fail(m))
        BY <1>0, <2>2, RemovalTypes
      <3> QED
        BY <1>0, <2>1, <3>1, VisitedMoves, FailMoves DEF Removal
    <2>3. CASE Goto(m, "deleteConsumers", worker[m].status.types) /\ UNCHANGED js
      BY <1>0, <1>b, <2>1, <2>3, GotoMoves DEF Step
    <2> QED
      BY <1>3, <2>2, <2>3 DEF SyncSubscriptionEventType, DeleteSubscription
  <1>4. CASE StoreSink(m)
    <2>1. /\ worker[m].pc = "syncTypes" /\ js' = [js EXCEPT ![m].sink = worker[m].spec.sink]
          /\ Goto(m, "syncConsumers", worker[m].status.types)
          /\ UNCHANGED <<cached, services, starts>>
      BY <1>4 DEF StoreSink, resource
    <2>2. SameBackend(m)
      BY <1>0, <2>1, SinkSet
    <2> QED
      BY <1>0, <2>1, <2>2, GotoMoves DEF Step
  <1>5. CASE SyncConsumerAndSubscription(m)
    <2>1. PICK s \in Subject :
            /\ UNCHANGED js \/ js' = [js EXCEPT ![m].subscribers[s] = "valid"]
            /\ Visited(m, s) \/ Fail(m)
      BY <1>0, <1>5 DEF SyncConsumerAndSubscription
    <2>2. SameBackend(m)
      BY <1>0, <1>b, <2>1, SubscriberSet DEF Subscriber
    <2>3. worker[m].pc # "idle" /\ UNCHANGED <<cached, services, starts>>
      BY <1>5 DEF SyncConsumerAndSubscription, resource
    <2> QED
      BY <1>0, <2>1, <2>2, <2>3, VisitedMoves, FailMoves
  <1>6. CASE Synced(m)
    BY <1>0, <1>b, <1>6, SyncedMoves DEF Synced, resource
  <1>7. CASE DeleteSubscriptionsOnly(m)
    <2>1. \/ \E s \in Subject : js' = [js EXCEPT ![m].subscribers[s] = "none"] /\ Visited(m, s)
          \/ UNCHANGED js /\ (Return(m, TRUE) \/ Goto(m, "status", {}))
      BY <1>0, <1>7 DEF DeleteSubscriptionsOnly
    <2>2. /\ worker[m].pc = "deleteSubs" /\ UNCHANGED <<cached, services, starts>>
          /\ {} \in SUBSET Subject
      BY <1>7 DEF DeleteSubscriptionsOnly, resource
    <2> QED
      BY <1>0, <1>b, <2>1, <2>2, SubscriberSet, VisitedMoves, ReturnMoves, GotoMoves
         DEF Subscriber, Step
  <1>8. CASE DeleteConsumers(m)
    <2>1. \/ UNCHANGED js /\ \E s \in Subject : Visited(m, s) \/ Fail(m)
          \/ js' = [js EXCEPT ![m].sink = NoSink] /\ Goto(m, "removeFinalizer", {})
      BY <1>0, <1>8 DEF DeleteConsumers
    <2>2. /\ worker[m].pc = "deleteConsumers" /\ UNCHANGED <<cached, services, starts>>
          /\ {} \in SUBSET Subject
      BY <1>8 DEF DeleteConsumers, resource
    <2> QED
      BY <1>0, <1>b, <2>1, <2>2, SinkSet, VisitedMoves, FailMoves, GotoMoves DEF Step
  <1> QED
    BY <1>1, <1>2, <1>3, <1>4, <1>5, <1>6, <1>7, <1>8 DEF Handler

\* Where Reconcile goes with what it read.
Read(m) ==
  \/ worker'[m].pc = "idle" /\ (worker'[m].queued \/ ~cached.present \/ cached.deleting)
  \/ /\ ~worker'[m].queued /\ cached.present /\ worker'[m].spec = cached.spec
     /\ \/ worker'[m].pc = "connectToDelete" /\ cached.deleting
        \/ worker'[m].pc = "addFinalizer"
        \/ worker'[m].pc = "status" /\ ~worker'[m].status.ready
        \/ /\ worker'[m].pc = "connectToDeleteSubs" /\ ~worker'[m].status.ready
           /\ cached.spec.sink \notin services \/ "api" \in FaultKinds
        \/ worker'[m].pc = "connect" /\ worker'[m].status.types = cached.spec.types /\ Active

LEMMA ReconcileReads ==
  ASSUME IInv, NEW m \in Manager, js[m].phase = "running", Reconcile(m)
  PROVE  /\ Steps(m) /\ Read(m)
         /\ UNCHANGED <<sub, cached, services, consumers, js, starts>>
         /\ fresh' = fresh \/ fresh' = IF 0 \in fresh THEN fresh \cup {m} ELSE fresh \ {m}
  <1>0. /\ TypeOK /\ worker \in [Manager -> Worker] /\ worker[m] \in Worker
        /\ cached.spec \in SubSpec /\ cached.status \in SubStatus /\ NewSubStatus \in SubStatus
        /\ cached.spec.types \in SUBSET Subject
    BY NewTypes DEF IInv, TypeOK, Subscription, SubSpec
  <1>1. CASE GetFails(m)
    <2> DEFINE new == [worker[m] EXCEPT !.queued = TRUE]
    <2>1. worker' = [worker EXCEPT ![m] = new] /\ worker[m].pc = "idle"
      BY <1>1 DEF GetFails
    <2>2. new \in Worker /\ new.pc = worker[m].pc /\ new.queued
      BY <1>0 DEF Worker
    <2> HIDE DEF new
    <2>3. Steps(m) /\ worker'[m] = new
      BY <1>0, <2>1, <2>2 DEF Steps
    <2> QED
      BY <1>1, <2>1, <2>2, <2>3 DEF GetFails, Read, resource
  <1>2. ASSUME NEW step \in Step, NEW st \in SubStatus, Fetch(m, step, st)
        PROVE  /\ Steps(m) /\ worker'[m].pc = step /\ worker'[m].status = st
               /\ ~worker'[m].queued /\ worker'[m].spec = cached.spec
               /\ UNCHANGED <<sub, cached, services, consumers, js, starts>>
               /\ fresh' = IF 0 \in fresh THEN fresh \cup {m} ELSE fresh \ {m}
    <2> DEFINE new == [pc |-> step, queued |-> FALSE, spec |-> cached.spec, status |-> st,
                       todo |-> {}, result |-> "done"]
    <2>1. /\ new \in Worker /\ new.pc = step /\ new.status = st /\ ~new.queued
          /\ new.spec = cached.spec
      BY <1>0, <1>2 DEF Worker
    <2>2. worker' = [worker EXCEPT ![m] = new]
      BY <1>2 DEF Fetch
    <2> HIDE DEF new
    <2>3. Steps(m) /\ worker'[m] = new
      BY <1>0, <2>1, <2>2 DEF Steps
    <2> QED
      BY <1>2, <2>1, <2>3 DEF Fetch
  <1>s. {"idle", "connectToDelete", "addFinalizer", "status", "connectToDeleteSubs", "connect"}
          \subseteq Step
    BY DEF Step
  <1>3. CASE ReconcileNothing(m)
    BY <1>0, <1>2, <1>3, <1>s DEF ReconcileNothing, Read
  <1>4. CASE ReconcileDeletion(m)
    BY <1>0, <1>2, <1>4, <1>s DEF ReconcileDeletion, Read
  <1>5. CASE ReconcileNew(m)
    BY <1>0, <1>2, <1>5, <1>s DEF ReconcileNew, Read
  <1>6. CASE ReconcileInvalidSpec(m)
    BY <1>0, <1>2, <1>6, <1>s DEF ReconcileInvalidSpec, Read, Active, NewSubStatus
  <1>7. CASE ReconcileInvalidSink(m)
    <2>1. cached.spec.sink \notin services \/ "api" \in FaultKinds
      BY <1>7 DEF ReconcileInvalidSink, ServiceMissing, ServiceExists, Fault
    <2> QED
      BY <1>0, <1>2, <1>7, <1>s, <2>1 DEF ReconcileInvalidSink, Read, Active, NewSubStatus
  <1>8. CASE ReconcileValid(m)
    <2> DEFINE st == [cached.status EXCEPT !.types = cached.spec.types]
    <2>1. st \in SubStatus /\ st.types = cached.spec.types
      BY <1>0 DEF SubStatus
    <2>2. Fetch(m, "connect", st) /\ Active
      BY <1>8 DEF ReconcileValid
    <2> HIDE DEF st
    <2> QED
      BY <1>2, <1>s, <2>1, <2>2 DEF Read, Active
  <1> QED
    BY <1>1, <1>3, <1>4, <1>5, <1>6, <1>7, <1>8 DEF Reconcile

-----------------------------------------------------------------------------
(***************************************************************************)
(* The base invariant.                                                     *)
(***************************************************************************)

\* The worker of a running manager: the others are quiet and stay so.
LEMMA BaseFrame ==
  ASSUME BaseInv, NEW m \in Manager, js[m].phase = "running", Steps(m), SameBackend(m),
         Copied(worker[m])', Typed(worker'[m])
  PROVE  BaseInv'
  <1>1. \A k \in Manager : js'[k].phase = js[k].phase
    BY DEF SameBackend
  <1>2. ASSUME NEW k \in Manager, k # m
        PROVE  Working(js[k], worker[k])'
    <2>1. js'[k] = js[k] /\ worker'[k] = worker[k] /\ js[k].phase # "running"
      BY <1>2 DEF BaseInv, OneRuns, SameBackend, Steps
    <2>2. Quiet(js[k], worker[k])
      BY DEF BaseInv, Working
    <2> QED
      BY <2>1, <2>2 DEF Working, Quiet, Copied, Typed
  <1>3. Working(js[m], worker[m])'
    BY <1>1 DEF Working, Quiet
  <1> QED
    BY <1>1, <1>2, <1>3 DEF BaseInv, OneRuns

LEMMA WorkerStepBase ==
  ASSUME IInv, BaseInv, NEW m \in Manager, WorkerStep(m)
  PROVE  BaseInv'
  <1>0. js[m].phase = "running" /\ Typed(worker[m]) /\ Copied(worker[m])
    BY OnlyRunning
  <1>1. CASE Handler(m)
    <2>1. Moves(m) /\ SameBackend(m) /\ cached' = cached
      BY <1>1, HandlerMoves
    <2>2. Copied(worker[m])'
      BY <1>0, <2>1 DEF Moves, Copied
    <2> QED
      BY <1>0, <2>1, <2>2, BaseFrame DEF Moves
  <1>2. CASE Reconcile(m)
    <2>1. Steps(m) /\ Read(m) /\ UNCHANGED <<cached, js>> /\ js \in [Manager -> Backend]
      BY <1>0, <1>2, ReconcileReads, LocalTypes
    <2>2. SameBackend(m)
      BY <2>1 DEF SameBackend
    <2>3. Copied(worker[m])' /\ Typed(worker'[m])
      BY <2>1 DEF Read, Copied, Typed
    <2> QED
      BY <1>0, <2>1, <2>2, <2>3, BaseFrame
  <1> QED
    BY <1>1, <1>2 DEF WorkerStep, Handler

\* No worker makes a step, and running managers may get a request.
Undisturbed ==
  /\ SameWork
  /\ \A k \in Manager :
       /\ worker'[k].spec = worker[k].spec
       /\ worker[k].queued => worker'[k].queued
       /\ worker'[k].queued => worker[k].queued \/ js[k].phase = "running"

\* The backends keep their phase and get no subscription.
NothingNew ==
  /\ js' \in [Manager -> Backend]
  /\ \A k \in Manager :
       /\ js'[k].phase = js[k].phase
       /\ \A s \in Subject : js'[k].subscribers[s] = "valid" => js[k].subscribers[s] = "valid"

LEMMA EventBase ==
  ASSUME BaseInv, Undisturbed, NothingNew,
         \/ cached' = cached
         \/ \A k \in Manager : js[k].phase = "running" => worker'[k].queued
  PROVE  BaseInv'
  <1>1. ASSUME NEW k \in Manager
        PROVE  Working(js[k], worker[k])'
    <2>1. Quiet(js[k], worker[k]) /\ Copied(worker[k]) /\ Typed(worker[k])
      BY DEF BaseInv, Working
    <2>2. Quiet(js[k], worker[k])'
      BY <2>1 DEF Quiet, Undisturbed, SameWork, NothingNew
    <2>3. Typed(worker[k])'
      BY <2>1 DEF Typed, Undisturbed, SameWork
    <2>4. Copied(worker[k])'
      BY <2>1 DEF Copied, Quiet, Undisturbed, SameWork
    <2> QED
      BY <2>2, <2>3, <2>4 DEF Working
  <1>2. OneRuns'
    BY DEF BaseInv, OneRuns, NothingNew
  <1> QED
    BY <1>1, <1>2 DEF BaseInv

\* A request for one manager.
LEMMA QueuedUndisturbed ==
  ASSUME TypeOK, NEW m \in Manager, NEW q \in BOOLEAN, worker' = [worker EXCEPT ![m].queued = q],
         worker[m].queued => q, q => worker[m].queued \/ js[m].phase = "running"
  PROVE  Undisturbed /\ worker'[m].queued = q
  <1> DEFINE new == [worker[m] EXCEPT !.queued = q]
  <1>1. worker \in [Manager -> Worker] /\ worker[m] \in Worker
    BY DEF TypeOK
  <1>2. worker' = [worker EXCEPT ![m] = new]
    OBVIOUS
  <1>3. new.spec = worker[m].spec /\ new.queued = q
    BY <1>1 DEF Worker
  <1> HIDE DEF new
  <1>4. worker'[m] = new /\ \A k \in Manager : k # m => worker'[k] = worker[k]
    BY <1>1, <1>2
  <1>5. SameWork
    BY QueuedWork
  <1> QED
    BY <1>3, <1>4, <1>5 DEF Undisturbed

\* A request for every manager that runs.
LEMMA EnqueuedUndisturbed ==
  ASSUME TypeOK, worker' = Enqueued
  PROVE  Undisturbed /\ \A k \in Manager : js[k].phase = "running" => worker'[k].queued
  <1>1. worker \in [Manager -> Worker]
    BY DEF TypeOK
  <1>2. ASSUME NEW k \in Manager
        PROVE  /\ [worker[k] EXCEPT !.queued = TRUE].queued
               /\ [worker[k] EXCEPT !.queued = TRUE].spec = worker[k].spec
    BY <1>1 DEF Worker
  <1>3. SameWork
    BY EnqueuedWork
  <1> QED
    BY <1>1, <1>2, <1>3 DEF Enqueued, Undisturbed

\* A closed connection invalidates the subscriptions of one backend, nothing else
\* touches them.
SameSubscribers(k) ==
  js'[k].subscribers = js[k].subscribers /\ js'[k].sink = js[k].sink

LEMMA CloseEvent ==
  ASSUME IInv, NEW m \in Manager, HandleNatsConnClose(m)
  PROVE  /\ Undisturbed /\ NothingNew
         /\ \A k \in Manager : k # m => SameSubscribers(k)
         /\ \A s \in Subject : js'[m].subscribers[s] # "valid"
         /\ js[m].phase = "running" /\ cached.present => worker'[m].queued
         /\ \A s \in Subject : consumers'[s] = Unbound(m, s)
  <1>0. /\ TypeOK /\ js \in [Manager -> Backend] /\ js[m] \in Backend
        /\ worker[m].queued \in BOOLEAN /\ cached.present \in BOOLEAN
    BY DEF IInv, TypeOK, Worker, Subscription
  <1> DEFINE q == worker[m].queued \/ (js[m].phase = "running" /\ cached.present)
  <1>1. worker' = [worker EXCEPT ![m].queued = q] /\ q \in BOOLEAN
    BY <1>0 DEF HandleNatsConnClose
  <1>2. Undisturbed /\ worker'[m].queued = q
    BY <1>0, <1>1, QueuedUndisturbed
  <1>3. js' = [js EXCEPT ![m] = Closed(js[m])]
    BY DEF HandleNatsConnClose
  <1>4. /\ Closed(js[m]) \in Backend /\ Closed(js[m]).phase = js[m].phase
        /\ \A s \in Subject : Closed(js[m]).subscribers[s] # "valid"
    BY <1>0, ClosedType
  <1>5. js'[m] = Closed(js[m]) /\ \A k \in Manager : k # m => js'[k] = js[k]
    BY <1>0, <1>3
  <1>6. NothingNew
    BY <1>0, <1>3, <1>4, <1>5 DEF NothingNew
  <1> QED
    BY <1>2, <1>4, <1>5, <1>6 DEF HandleNatsConnClose, SameSubscribers

LEMMA OtherEvent ==
  ASSUME IInv, InformerSync \/ Resync \/ User \/ NatsDown \/ NatsBack \/ ServerUnbinds
  PROVE  /\ Undisturbed /\ NothingNew /\ \A k \in Manager : SameSubscribers(k)
         /\ \/ cached' = cached
            \/ \A k \in Manager : js[k].phase = "running" => worker'[k].queued
  <1>0. /\ TypeOK /\ js \in [Manager -> Backend] /\ worker \in [Manager -> Worker]
    BY DEF IInv, TypeOK
  <1>1. CASE InformerSync \/ Resync
    BY <1>0, <1>1, EnqueuedUndisturbed DEF InformerSync, Resync, NothingNew, SameSubscribers
  <1>2. CASE User \/ ServerUnbinds
    <2>1. UNCHANGED <<worker, js, cached>>
      BY <1>2 DEF User, CreateSubscription, EditSubscription, UserDeletes, ChangeService, Edit,
         ServerUnbinds, resource
    <2> QED
      BY <1>0, <2>1 DEF Undisturbed, SameWork, NothingNew, SameSubscribers
  <1>3. CASE NatsDown \/ NatsBack
    <2>1. UNCHANGED <<worker, cached>>
      BY <1>3 DEF NatsDown, NatsBack, resource
    <2>2. ASSUME NEW k \in Manager, NEW c \in {"connected", "reconnecting"}
          PROVE  LET new == [js[k] EXCEPT !.conn = c] IN
                 /\ new \in Backend /\ new.phase = js[k].phase
                 /\ new.sink = js[k].sink /\ new.subscribers = js[k].subscribers
      BY <1>0 DEF Backend
    <2>3. NothingNew /\ \A k \in Manager : SameSubscribers(k)
      <3>1. CASE NatsDown
        BY <1>0, <2>2, <3>1 DEF NatsDown, NothingNew, SameSubscribers
      <3>2. CASE NatsBack
        BY <1>0, <2>2, <3>2 DEF NatsBack, NothingNew, SameSubscribers
      <3> QED
        BY <1>3, <3>1, <3>2
    <2> QED
      BY <1>0, <2>1, <2>3 DEF Undisturbed, SameWork
  <1> QED
    BY <1>1, <1>2, <1>3

\* Without Stop a manager starts when none runs, with an idle worker and an empty
\* backend.
LEMMA StartRuns ==
  ASSUME IInv, BaseInv, Start
  PROVE  /\ UNCHANGED <<resource, services>> /\ consumers' = ValidConsumers
         /\ starts' = starts + 1 /\ starts + 1 \in Manager /\ worker' \in [Manager -> Worker]
         /\ \A k \in Manager : js[k].phase # "running"
         /\ \A k \in Manager : k # starts + 1 => js'[k] = js[k] /\ worker'[k] = worker[k]
         /\ js'[starts + 1].phase = "running"
         /\ js'[starts + 1].subscribers = js[starts + 1].subscribers
         /\ worker'[starts + 1].pc = "idle"
         /\ worker'[starts + 1].queued = cached.present
  <1> DEFINE n == starts + 1
             new == [js[n] EXCEPT !.phase = "running", !.conn = "connected"]
             w == [worker[n] EXCEPT !.queued = cached.present]
  <1>1. /\ n \in Manager /\ n > starts /\ js \in [Manager -> Backend] /\ js[n] \in Backend
        /\ worker \in [Manager -> Worker] /\ worker[n] \in Worker /\ cached.present \in BOOLEAN
    BY JSBoundsAssumption DEF IInv, TypeOK, Start, Manager, Subscription
  <1>2. js[n].phase = "new"
    BY <1>1 DEF IInv, PhaseInv
  <1>3. worker[n].pc = "idle"
    BY <1>1, <1>2 DEF BaseInv, Working, Quiet
  <1>4. js' = [js EXCEPT ![n] = new] /\ worker' = [worker EXCEPT ![n] = w]
    BY DEF Start
  <1>5. new.phase = "running" /\ new.subscribers = js[n].subscribers
    BY <1>1 DEF Backend
  <1>6. w \in Worker /\ w.pc = worker[n].pc /\ w.queued = cached.present
    BY <1>1 DEF Worker
  <1>7. /\ UNCHANGED <<resource, services>> /\ consumers' = ValidConsumers /\ starts' = n
        /\ \A k \in Manager : js[k].phase # "running"
    BY DEF Start
  <1> HIDE DEF new, w, n
  <1>8. /\ js'[n] = new /\ worker'[n] = w /\ worker' \in [Manager -> Worker]
        /\ \A k \in Manager : k # n => js'[k] = js[k] /\ worker'[k] = worker[k]
    BY <1>1, <1>4, <1>6
  <1> QED
    BY <1>1, <1>3, <1>5, <1>6, <1>7, <1>8 DEF n

\* After a restart nothing runs.
LEMMA CrashStops ==
  ASSUME IInv, BaseInv, Crash
  PROVE  \A k \in Manager :
           /\ js'[k].phase \in {"new", "dead"} /\ worker'[k].pc = "idle" /\ ~worker'[k].queued
           /\ \A s \in Subject : js'[k].subscribers[s] # "valid"
  <1> SUFFICES ASSUME NEW k \in Manager
               PROVE  /\ js'[k].phase \in {"new", "dead"} /\ worker'[k].pc = "idle"
                      /\ ~worker'[k].queued
                      /\ \A s \in Subject : js'[k].subscribers[s] # "valid"
    OBVIOUS
  <1> DEFINE dead == [NewBackend EXCEPT !.phase = "dead"]
  <1>1. dead.phase = "dead" /\ \A s \in Subject : dead.subscribers[s] # "valid"
    BY DEF NewBackend
  <1>2. js'[k] = IF k <= starts THEN dead ELSE js[k]
    BY DEF Crash
  <1> HIDE DEF dead
  <1>3. k > starts => js[k].phase = "new" /\ \A s \in Subject : js[k].subscribers[s] # "valid"
    BY DEF IInv, PhaseInv, BaseInv, Working, Quiet
  <1>4. k <= starts \/ k > starts
    BY DEF IInv, TypeOK, Manager
  <1>5. worker'[k].pc = "idle" /\ ~worker'[k].queued
    BY DEF Crash, IdleWorker
  <1> QED
    BY <1>1, <1>2, <1>3, <1>4, <1>5

\* Without Stop nothing is cleaned up either.
LEMMA NoStop ==
  ASSUME MaxStops = 0, IInv, BaseInv, NEW m \in Manager
  PROVE  ~Stop(m) /\ ~Cleanup(m)
  <1>1. stops = 0
    BY DEF IInv, TypeOK
  <1>2. ~Stop(m)
    BY <1>1 DEF Stop
  <1>3. ~js[m].cleanup
    BY DEF IInv, PhaseInv, BaseInv, Working, Quiet
  <1> QED
    BY <1>2, <1>3 DEF Cleanup

\* The base invariant holds initially.
LEMMA InitBase ==
  ASSUME Init
  PROVE  BaseInv
  BY DEF Init, BaseInv, OneRuns, Working, Quiet, Copied, Typed, NewBackend, IdleWorker

\* It is inductive when no manager is stopped.
LEMMA NextBase ==
  ASSUME MaxStops = 0, IInv, BaseInv, [Next]_vars
  PROVE  BaseInv'
  <1>1. CASE UNCHANGED vars
    BY <1>1 DEF vars, resource, BaseInv, OneRuns, Working, Quiet, Copied, Typed
  <1>2. CASE \E m \in Manager : WorkerStep(m)
    BY <1>2, WorkerStepBase
  <1>3. CASE \E m \in Manager : HandleNatsConnClose(m)
    <2>1. cached' = cached
      BY <1>3 DEF HandleNatsConnClose, resource
    <2> QED
      BY <1>3, <2>1, CloseEvent, EventBase
  <1>4. CASE InformerSync \/ Resync \/ User \/ NatsDown \/ NatsBack \/ ServerUnbinds
    BY <1>4, OtherEvent, EventBase
  <1>5. CASE Start
    <2>1. ASSUME NEW k \in Manager PROVE Working(js[k], worker[k])'
      <3>1. Quiet(js[k], worker[k]) /\ Copied(worker[k]) /\ Typed(worker[k])
        BY DEF BaseInv, Working
      <3>2. UNCHANGED cached
        BY <1>5, StartRuns DEF resource
      <3>3. CASE k = starts + 1
        BY <1>5, <3>3, StartRuns DEF Working, Quiet, Copied, Typed
      <3>4. CASE k # starts + 1
        BY <1>5, <3>1, <3>2, <3>4, StartRuns DEF Working, Quiet, Copied, Typed
      <3> QED
        BY <3>3, <3>4
    <2>2. OneRuns'
      BY <1>5, StartRuns DEF OneRuns
    <2> QED
      BY <2>1, <2>2 DEF BaseInv
  <1>6. CASE Crash
    BY <1>6, CrashStops DEF BaseInv, OneRuns, Working, Quiet, Copied, Typed
  <1>7. CASE \E m \in Manager : Stop(m) \/ Cleanup(m)
    BY <1>7, NoStop
  <1> QED
    BY <1>1, <1>2, <1>3, <1>4, <1>5, <1>6, <1>7 DEF Next

\* It holds in every behaviour in which no manager is stopped.
LEMMA BaseInductive ==
  ASSUME MaxStops = 0
  PROVE  Spec => [](IInv /\ BaseInv)
  <1>1. Init => BaseInv
    BY InitBase
  <1>2. IInv /\ BaseInv /\ [Next]_vars => BaseInv'
    BY NextBase
  <1> QED
    BY <1>1, <1>2, Inductive, PTL DEF Spec

-----------------------------------------------------------------------------
(***************************************************************************)
(* Delivery.                                                               *)
(***************************************************************************)

\* A manager that does not run has nothing to deliver.
LEMMA QuietDelivers ==
  ASSUME NEW m \in Manager, (Quiet(js[m], worker[m]) /\ js[m].phase # "running")'
  PROVE  Delivery(m)'
  BY DEF Quiet, Delivery, Bound, Progress, Delivered, AtRest

\* The worker of a running manager: the others are quiet.
LEMMA DeliveryFrame ==
  ASSUME BaseInv, BaseInv', NEW m \in Manager, js[m].phase = "running", SameBackend(m),
         Delivery(m)'
  PROVE  DeliveryInv'
  <1>1. ASSUME NEW k \in Manager, k # m
        PROVE  Delivery(k)'
    <2>1. js[k].phase # "running" /\ js'[k] = js[k]
      BY <1>1 DEF BaseInv, OneRuns, SameBackend
    <2>2. Quiet(js[k], worker[k])'
      BY DEF BaseInv, Working
    <2> QED
      BY <2>1, <2>2, QuietDelivers
  <1> QED
    BY <1>1 DEF DeliveryInv

\* Away from syncConsumers and a status that is ready, valid subscriptions are all
\* that counts.
LEMMA Elsewhere ==
  ASSUME NEW m \in Manager, Bound(m)', worker'[m].pc # "syncConsumers",
         worker'[m].pc = "status" => ~worker'[m].status.ready,
         worker'[m].pc = "idle" => ~AtRest(m)' \/ ~ReadySubscription'
  PROVE  Delivery(m)'
  BY DEF Delivery, Progress, Delivered, AtRest

\* Nothing is done to subscriptions and consumers.
LEMMA SameBound ==
  ASSUME NEW m \in Manager, Bound(m), js'[m].subscribers = js[m].subscribers, UNCHANGED consumers
  PROVE  Bound(m)'
  BY DEF Bound

\* Removing a subscription, wholly, in part or not at all, leaves no valid one without
\* its consumer.
LEMMA RemovalBound ==
  ASSUME IInv, NEW m \in Manager, NEW s \in Subject, Bound(m),
         \/ DeleteSubscriptionFromJetStream(m, s) \/ DeleteSubscriptionFails(m, s)
         \/ UNCHANGED <<js, consumers>>
         \/ /\ consumers' = [consumers EXCEPT ![s] = Unbound(m, s)]
            /\ js' = [js EXCEPT ![m].subscribers[s] = "none"]
  PROVE  Bound(m)'
  <1>0. TypeOK /\ consumers \in [Subject -> Consumer \cup {NoConsumer}]
    BY LocalTypes
  <1>1. CASE UNCHANGED <<js, consumers>>
    BY <1>1 DEF Bound
  <1>2. ASSUME NEW c, NEW v \in {"none", "invalid"}, consumers' = [consumers EXCEPT ![s] = c],
               js' = [js EXCEPT ![m].subscribers[s] = v]
        PROVE  Bound(m)'
    <2>1. /\ js'[m].subscribers[s] = v
          /\ \A x \in Subject : x # s => js'[m].subscribers[x] = js[m].subscribers[x]
      BY <1>0, <1>2, SubscriberSet DEF Subscriber
    <2>2. \A x \in Subject : x # s => consumers'[x] = consumers[x]
      BY <1>0, <1>2
    <2> QED
      BY <2>1, <2>2 DEF Bound
  <1> QED
    BY <1>1, <1>2 DEF DeleteSubscriptionFromJetStream, DeleteSubscriptionFails

\* The worker after Fetch: writes to the resource.
LEMMA WriteDelivers ==
  ASSUME IInv, BaseInv, NEW m \in Manager, Delivery(m),
         AddFinalizer(m) \/ RemoveFinalizer(m) \/ UpdateSubscriptionStatus(m)
  PROVE  Delivery(m)'
  <1>0. /\ TypeOK /\ js[m].phase = "running" /\ Copied(worker[m]) /\ Typed(worker[m])
        /\ CacheOK
    BY OnlyRunning DEF WorkerStep, IInv, FreshInv
  <1>1. UNCHANGED <<js, consumers, cached>> /\ worker[m].pc # "idle"
    BY DEF AddFinalizer, RemoveFinalizer, UpdateSubscriptionStatus
  <1>2. Bound(m)'
    BY <1>1, SameBound DEF Delivery
  <1>3. \/ (\E again \in BOOLEAN : Return(m, again)) /\ fresh' = {}
        \/ Return(m, TRUE)
        \/ /\ worker[m].pc = "status" /\ cached.present /\ cached.status = worker[m].status
           /\ (\E again \in BOOLEAN : Return(m, again)) /\ UNCHANGED <<sub, fresh>>
    BY DEF AddFinalizer, RemoveFinalizer, UpdateSubscriptionStatus, Write
  <1>4. CASE (\E again \in BOOLEAN : Return(m, again)) /\ fresh' = {}
    <2>1. worker'[m].pc = "idle" /\ ~AtRest(m)'
      BY <1>0, <1>1, <1>4, ReturnMoves DEF AtRest
    <2> QED
      BY <1>2, <2>1, Elsewhere
  <1>5. CASE Return(m, TRUE)
    <2>1. worker'[m].pc = "idle" /\ ~AtRest(m)'
      BY <1>0, <1>1, <1>5, ReturnMoves DEF AtRest
    <2> QED
      BY <1>2, <2>1, Elsewhere
  <1>6. CASE /\ worker[m].pc = "status" /\ cached.present /\ cached.status = worker[m].status
             /\ (\E again \in BOOLEAN : Return(m, again)) /\ UNCHANGED <<sub, fresh>>
    <2>1. worker'[m].pc = "idle" /\ (worker[m].queued => worker'[m].queued)
      BY <1>0, <1>1, <1>6, ReturnMoves DEF Moves
    <2>2. ASSUME AtRest(m)', ReadySubscription'
          PROVE  Delivers(m, sub.spec.types, sub.spec)'
      <3>1. cached = sub /\ worker[m].status.ready /\ ~worker[m].queued
        BY <1>0, <1>6, <2>1, <2>2 DEF AtRest, ReadySubscription, CacheOK
      <3>2. worker[m].spec = sub.spec
        BY <1>0, <1>6, <3>1 DEF Copied
      <3>3. Delivers(m, sub.spec.types, sub.spec)
        BY <1>6, <3>1, <3>2 DEF Delivery, Progress
      <3> QED
        BY <1>1, <1>6, <3>3 DEF Delivers, Subscribed
    <2> QED
      BY <1>2, <2>1, <2>2 DEF Delivery, Progress, Delivered
  <1> QED
    BY <1>3, <1>4, <1>5, <1>6

\* The connection, the first pass and the deletion.
LEMMA RemovalDelivers ==
  ASSUME IInv, BaseInv, NEW m \in Manager, Delivery(m),
         \/ CheckJetStreamConnection(m) \/ SyncSubscriptionEventType(m)
         \/ DeleteSubscriptionsOnly(m) \/ DeleteSubscription(m) \/ DeleteConsumers(m)
  PROVE  Delivery(m)'
  <1>0. /\ TypeOK /\ js \in [Manager -> Backend] /\ worker[m].todo \in SUBSET Subject
        /\ worker[m].status.types \in SUBSET Subject
        /\ consumers \in [Subject -> Consumer \cup {NoConsumer}] /\ {} \in SUBSET Subject
        /\ js[m].phase = "running" /\ Typed(worker[m]) /\ SinkOK(js[m], worker[m]) /\ Bound(m)
    BY LocalTypes, OnlyRunning DEF WorkerStep, Delivery
  <1>1. CASE CheckJetStreamConnection(m)
    <2>1. worker[m].pc # "idle" /\ worker[m].pc \in ConnectSteps /\ UNCHANGED consumers
      BY <1>1 DEF CheckJetStreamConnection, ConnectSteps
    <2>2. CASE js' = [js EXCEPT ![m].conn = "connected"]
               /\ Goto(m, AfterConnect(worker[m].pc), Keys(m))
      <3>1. /\ AfterConnect(worker[m].pc) \in {"delete", "deleteSubs", "syncTypes"}
            /\ Keys(m) \in SUBSET Subject
        BY <2>1 DEF AfterConnect, ConnectSteps, Keys
      <3>2. worker'[m].pc \in {"delete", "deleteSubs", "syncTypes"}
        BY <1>0, <2>2, <3>1, GotoSteps DEF Step
      <3>3. Bound(m)'
        BY <1>0, <2>1, <2>2, ConnSet, SameBound
      <3> QED
        BY <3>2, <3>3, Elsewhere
    <2>3. CASE UNCHANGED js /\ (Return(m, TRUE) \/ Fail(m))
      <3>1. Bound(m)'
        BY <1>0, <2>1, <2>3, SameBound
      <3>2. CASE Return(m, TRUE)
        <4>1. worker'[m].pc = "idle" /\ ~AtRest(m)'
          BY <1>0, <2>1, <3>2, ReturnMoves DEF AtRest
        <4> QED
          BY <3>1, <4>1, Elsewhere
      <3>3. CASE Fail(m)
        BY <1>0, <2>1, <3>1, <3>3, FailMoves, Elsewhere
      <3> QED
        BY <2>3, <3>2, <3>3
    <2> QED
      BY <1>1, <2>2, <2>3 DEF CheckJetStreamConnection
  <1>2. CASE SyncSubscriptionEventType(m) \/ DeleteSubscription(m)
    <2>1. worker[m].pc \in {"syncTypes", "delete"}
      BY <1>2 DEF SyncSubscriptionEventType, DeleteSubscription
    <2>2. CASE \E s \in worker[m].todo :
                 /\ \/ DeleteSubscriptionFromJetStream(m, s) \/ DeleteSubscriptionFails(m, s)
                    \/ UNCHANGED <<js, consumers>>
                 /\ Visited(m, s) \/ Fail(m)
      <3>1. PICK s \in Subject : Visited(m, s) \/ Fail(m)
        BY <1>0, <2>2
      <3>2. Bound(m)'
        BY <1>0, <2>2, RemovalBound
      <3>3. worker'[m].pc \in {"syncTypes", "delete"} \/ Fail(m)
        BY <1>0, <2>1, <3>1, VisitedSteps
      <3> QED
        BY <1>0, <2>1, <3>2, <3>3, FailMoves, Elsewhere
    <2>3. CASE Goto(m, "deleteConsumers", worker[m].status.types) /\ UNCHANGED <<js, consumers>>
      <3>1. worker'[m].pc = "deleteConsumers"
        BY <1>0, <2>3, GotoSteps DEF Step
      <3> QED
        BY <1>0, <2>3, <3>1, SameBound, Elsewhere
    <2> QED
      BY <1>2, <2>2, <2>3 DEF SyncSubscriptionEventType, DeleteSubscription
  <1>3. CASE DeleteSubscriptionsOnly(m)
    <2>1. worker[m].pc = "deleteSubs" /\ ~worker[m].status.ready
      BY <1>0, <1>3 DEF DeleteSubscriptionsOnly, Typed
    <2>2. CASE \E s \in Subject : /\ consumers' = [consumers EXCEPT ![s] = Unbound(m, s)]
                                  /\ js' = [js EXCEPT ![m].subscribers[s] = "none"]
                                  /\ Visited(m, s)
      <3>1. worker'[m].pc = "deleteSubs"
        BY <1>0, <2>1, <2>2, VisitedSteps
      <3> QED
        BY <1>0, <2>2, <3>1, RemovalBound, Elsewhere
    <2>3. CASE UNCHANGED <<js, consumers>> /\ Return(m, TRUE)
      <3>1. worker'[m].pc = "idle" /\ ~AtRest(m)'
        BY <1>0, <2>1, <2>3, ReturnMoves DEF AtRest
      <3> QED
        BY <1>0, <2>3, <3>1, SameBound, Elsewhere
    <2>4. CASE UNCHANGED <<js, consumers>> /\ Goto(m, "status", {})
      <3>1. worker'[m].pc = "status" /\ ~worker'[m].status.ready
        BY <1>0, <2>1, <2>4, GotoSteps DEF Step
      <3> QED
        BY <1>0, <2>4, <3>1, SameBound, Elsewhere
    <2> QED
      BY <1>0, <1>3, <2>2, <2>3, <2>4 DEF DeleteSubscriptionsOnly
  <1>4. CASE DeleteConsumers(m)
    <2>1. worker[m].pc = "deleteConsumers" /\ \A s \in Subject : js[m].subscribers[s] # "valid"
      BY <1>0, <1>4 DEF DeleteConsumers, SinkOK
    <2>2. \/ UNCHANGED js /\ \E s \in Subject : Visited(m, s) \/ Fail(m)
          \/ js' = [js EXCEPT ![m].sink = NoSink] /\ Goto(m, "removeFinalizer", {})
      BY <1>0, <1>4 DEF DeleteConsumers
    <2>3. js'[m].subscribers = js[m].subscribers
      BY <1>0, <2>2, SinkSet
    <2>4. Bound(m)'
      BY <2>1, <2>3 DEF Bound
    <2>5. worker'[m].pc \in {"deleteConsumers", "removeFinalizer"} \/ Fail(m)
      BY <1>0, <2>1, <2>2, VisitedSteps, GotoSteps DEF Step
    <2> QED
      BY <1>0, <2>1, <2>4, <2>5, FailMoves, Elsewhere
  <1> QED
    BY <1>1, <1>2, <1>3, <1>4

\* What a round of the second pass leaves on the server for type s.
LEMMA RoundResult ==
  ASSUME IInv, NEW m \in Manager, NEW s \in Subject, Bound(m),
         \/ UNCHANGED <<consumers, js>>
         \/ /\ js[m].subscribers[s] # "valid" /\ UNCHANGED js
            /\ consumers' = [consumers EXCEPT ![s] = FoundOrCreated(m, s)]
         \/ /\ js[m].subscribers[s] = "valid" /\ UNCHANGED js
            /\ consumers' = [consumers EXCEPT ![s] = FoundOrCreated(m, s)]
         \/ /\ js[m].subscribers[s] = "valid" /\ UNCHANGED js
            /\ consumers' = [consumers EXCEPT ![s] =
                 [FoundOrCreated(m, s) EXCEPT !.max = worker[m].spec.max]]
         \/ /\ consumers' = [consumers EXCEPT ![s] = [max |-> worker[m].spec.max, bound |-> m]]
            /\ js' = [js EXCEPT ![m].subscribers[s] = "valid"]
         \/ /\ consumers' = [consumers EXCEPT ![s] = [FoundOrCreated(m, s) EXCEPT !.bound = m]]
            /\ js' = [js EXCEPT ![m].subscribers[s] = "valid"]
  PROVE  /\ Bound(m)' /\ js'[m].sink = js[m].sink
         /\ \A x \in Subject : x # s => /\ consumers'[x] = consumers[x]
                                        /\ js'[m].subscribers[x] = js[m].subscribers[x]
  <1>0. /\ TypeOK /\ consumers \in [Subject -> Consumer \cup {NoConsumer}]
        /\ NoConsumer \notin Consumer
    BY LocalTypes, NoConsumerAssumption
  <1>1. \A x \in Subject : x # s => consumers'[x] = consumers[x]
    BY <1>0
  <1>2. /\ js'[m].sink = js[m].sink
        /\ \A x \in Subject : x # s => js'[m].subscribers[x] = js[m].subscribers[x]
    BY <1>0, SubscriberSet DEF Subscriber
  <1>3. js'[m].subscribers[s] = "valid" => consumers'[s] # NoConsumer /\ consumers'[s].bound = m
    <2>1. CASE UNCHANGED <<consumers, js>>
      BY <2>1 DEF Bound
    <2>2. CASE js[m].subscribers[s] # "valid" /\ UNCHANGED js
      BY <2>2
    <2>3. CASE /\ js[m].subscribers[s] = "valid"
               /\ \/ consumers' = [consumers EXCEPT ![s] = FoundOrCreated(m, s)]
                  \/ consumers' = [consumers EXCEPT ![s] =
                       [FoundOrCreated(m, s) EXCEPT !.max = worker[m].spec.max]]
      <3>1. /\ consumers[s] \in Consumer /\ consumers[s].bound = m
            /\ FoundOrCreated(m, s) = consumers[s] /\ worker[m].spec.max \in MaxInFlight
        <4>1. worker[m].spec.max \in MaxInFlight
          BY LocalTypes DEF SubSpec
        <4> QED
          BY <1>0, <2>3, <4>1 DEF Bound, FoundOrCreated
      <3>2. [consumers[s] EXCEPT !.max = worker[m].spec.max] \in Consumer
            /\ [consumers[s] EXCEPT !.max = worker[m].spec.max].bound = m
        BY <3>1 DEF Consumer
      <3>3. consumers'[s] \in {consumers[s], [consumers[s] EXCEPT !.max = worker[m].spec.max]}
        BY <1>0, <2>3, <3>1
      <3> QED
        BY <1>0, <3>1, <3>2, <3>3
    <2>4. CASE consumers' = [consumers EXCEPT ![s] = [max |-> worker[m].spec.max, bound |-> m]]
      BY <1>0, <2>4, FoundType
    <2>5. CASE consumers' = [consumers EXCEPT ![s] = [FoundOrCreated(m, s) EXCEPT !.bound = m]]
      <3>1. /\ [FoundOrCreated(m, s) EXCEPT !.bound = m] \in Consumer
            /\ FoundOrCreated(m, s) \in Consumer
        BY <1>0, FoundType
      <3>2. [FoundOrCreated(m, s) EXCEPT !.bound = m].bound = m
        BY <3>1 DEF Consumer
      <3> QED
        BY <1>0, <2>5, <3>1, <3>2
    <2> QED
      BY <2>1, <2>2, <2>3, <2>4, <2>5
  <1> QED
    BY <1>1, <1>2, <1>3 DEF Bound

\* The second pass.
LEMMA SyncDelivers ==
  ASSUME IInv, BaseInv, NEW m \in Manager, Delivery(m), SyncConsumerAndSubscription(m)
  PROVE  Delivery(m)'
  <1>0. /\ TypeOK /\ worker[m].todo \in SUBSET Subject /\ js \in [Manager -> Backend]
        /\ worker[m].status.types \in SUBSET Subject /\ worker[m].spec.max \in MaxInFlight
        /\ consumers \in [Subject -> Consumer \cup {NoConsumer}] /\ NoConsumer \notin Consumer
        /\ Typed(worker[m]) /\ Bound(m) /\ worker[m].pc = "syncConsumers"
    BY LocalTypes, OnlyRunning, NoConsumerAssumption
       DEF WorkerStep, Delivery, SyncConsumerAndSubscription, SubSpec
  <1>1. PICK s \in worker[m].todo :
          \/ /\ \/ /\ js[m].subscribers[s] = "valid"
                   /\ consumers' = [consumers EXCEPT ![s] =
                        [FoundOrCreated(m, s) EXCEPT !.max = worker[m].spec.max]]
                   /\ UNCHANGED js
                \/ /\ consumers' = [consumers EXCEPT ![s] =
                        [max |-> worker[m].spec.max, bound |-> m]]
                   /\ js' = [js EXCEPT ![m].subscribers[s] = "valid"]
             /\ Visited(m, s)
          \/ /\ \/ UNCHANGED <<consumers, js>>
                \/ /\ UNCHANGED js
                   /\ consumers' = [consumers EXCEPT ![s] = FoundOrCreated(m, s)]
                \/ /\ consumers' = [consumers EXCEPT ![s] =
                        [FoundOrCreated(m, s) EXCEPT !.bound = m]]
                   /\ js' = [js EXCEPT ![m].subscribers[s] = "valid"]
             /\ Fail(m)
    BY DEF SyncConsumerAndSubscription
  <1>s. s \in Subject
    BY <1>0
  <1>2. /\ Bound(m)' /\ js'[m].sink = js[m].sink
        /\ \A x \in Subject : x # s => /\ consumers'[x] = consumers[x]
                                       /\ js'[m].subscribers[x] = js[m].subscribers[x]
    BY <1>0, <1>1, <1>s, RoundResult
  <1>3. CASE Fail(m)
    BY <1>0, <1>2, <1>3, FailMoves, Elsewhere
  <1>4. CASE Visited(m, s) /\ ~Fail(m)
    <2>1. /\ worker'[m].pc = "syncConsumers" /\ worker'[m].todo = worker[m].todo \ {s}
          /\ worker'[m].status = worker[m].status /\ worker'[m].spec = worker[m].spec
          /\ worker'[m].queued = worker[m].queued
      BY <1>0, <1>4, VisitedSteps
    <2>2. js'[m].subscribers[s] = "valid" /\ consumers'[s].max = worker[m].spec.max
      <3>1. CASE /\ js[m].subscribers[s] = "valid" /\ UNCHANGED js
                 /\ consumers' = [consumers EXCEPT ![s] =
                      [FoundOrCreated(m, s) EXCEPT !.max = worker[m].spec.max]]
        <4>1. FoundOrCreated(m, s) \in Consumer
          BY <1>0, <1>s, FoundType
        <4>2. [FoundOrCreated(m, s) EXCEPT !.max = worker[m].spec.max].max = worker[m].spec.max
          BY <4>1 DEF Consumer
        <4> QED
          BY <1>0, <1>s, <3>1, <4>2
      <3>2. CASE /\ consumers' = [consumers EXCEPT ![s] =
                      [max |-> worker[m].spec.max, bound |-> m]]
                 /\ js' = [js EXCEPT ![m].subscribers[s] = "valid"]
        BY <1>0, <1>s, <3>2, SubscriberSet DEF Subscriber
      <3> QED
        BY <1>1, <1>4, <3>1, <3>2
    <2>3. consumers'[s] # NoConsumer
      BY <1>2, <1>s, <2>2 DEF Bound
    <2>4. ASSUME ~worker[m].queued
          PROVE  Delivers(m, worker[m].status.types \ worker[m].todo, worker[m].spec)'
      <3>1. Delivers(m, worker[m].status.types \ worker[m].todo, worker[m].spec)
        BY <1>0, <2>4 DEF Delivery, Progress
      <3>2. \A x \in worker'[m].status.types \ worker'[m].todo :
              x = s \/ (x \in worker[m].status.types \ worker[m].todo /\ x # s /\ x \in Subject)
        BY <1>0, <2>1
      <3> QED
        BY <1>2, <2>1, <2>2, <2>3, <3>1, <3>2 DEF Delivers, Subscribed
    <2> QED
      BY <1>2, <2>1, <2>4 DEF Delivery, Progress, Delivered, AtRest
  <1> QED
    BY <1>1, <1>3, <1>4

\* Before the second pass and after it.
LEMMA StageDelivers ==
  ASSUME IInv, BaseInv, NEW m \in Manager, Delivery(m), StoreSink(m) \/ Synced(m)
  PROVE  Delivery(m)'
  <1>0. /\ TypeOK /\ worker[m].status.types \in SUBSET Subject /\ worker[m].spec.sink \in Sink
        /\ Typed(worker[m]) /\ Bound(m)
    BY LocalTypes, OnlyRunning DEF WorkerStep, Delivery
  <1>1. CASE StoreSink(m)
    <2>1. /\ js' = [js EXCEPT ![m].sink = worker[m].spec.sink] /\ UNCHANGED consumers
          /\ Goto(m, "syncConsumers", worker[m].status.types)
      BY <1>1 DEF StoreSink
    <2>2. js'[m].sink = worker[m].spec.sink /\ js'[m].subscribers = js[m].subscribers
      BY <1>0, <2>1, SinkSet
    <2>3. /\ worker'[m].pc = "syncConsumers" /\ worker'[m].spec = worker[m].spec
          /\ worker'[m].todo = worker[m].status.types /\ worker'[m].status = worker[m].status
      BY <1>0, <2>1, GotoSteps DEF Step
    <2>4. Bound(m)'
      BY <1>0, <2>1, <2>2, SameBound
    <2>5. Delivers(m, worker[m].status.types \ worker[m].todo, worker[m].spec)'
      BY <2>2, <2>3 DEF Delivers
    <2> QED
      BY <2>3, <2>4, <2>5 DEF Delivery, Progress, Delivered, AtRest
  <1>2. CASE Synced(m)
    <2>1. /\ worker[m].pc = "syncConsumers" /\ worker[m].todo = {} /\ UNCHANGED <<js, consumers>>
          /\ worker[m].status.types = worker[m].spec.types
      BY <1>0, <1>2 DEF Synced, Typed
    <2>2. /\ worker'[m].pc = "status" /\ worker'[m].spec = worker[m].spec
          /\ worker[m].queued => worker'[m].queued
      BY <1>0, <1>2, SyncedMoves DEF Moves
    <2>3. ~worker[m].queued => Delivers(m, worker[m].spec.types, worker[m].spec)
      BY <2>1 DEF Delivery, Progress
    <2>4. ~worker'[m].queued => Delivers(m, worker[m].spec.types, worker[m].spec)'
      BY <2>1, <2>2, <2>3 DEF Delivers, Subscribed
    <2>5. Bound(m)'
      BY <1>0, <2>1, SameBound
    <2> QED
      BY <2>2, <2>4, <2>5 DEF Delivery, Progress, Delivered, AtRest
  <1> QED
    BY <1>1, <1>2

\* A request is taken up, or Reconcile has nothing to do.
LEMMA ReconcileDelivers ==
  ASSUME IInv, BaseInv, NEW m \in Manager, Delivery(m), Reconcile(m)
  PROVE  Delivery(m)'
  <1>1. /\ Read(m) /\ UNCHANGED <<sub, cached, consumers, js>>
        /\ 0 \in fresh' => 0 \in fresh
        /\ CacheOK /\ Bound(m)
    <2>1. js[m].phase = "running"
      BY OnlyRunning DEF WorkerStep
    <2> QED
      BY <2>1, ReconcileReads DEF IInv, FreshInv, Delivery, Manager
  <1>2. Bound(m)'
    BY <1>1, SameBound
  <1>3. worker'[m].pc = "idle" => ~AtRest(m)' \/ ~ReadySubscription'
    BY <1>1 DEF Read, AtRest, ReadySubscription, CacheOK
  <1>4. worker'[m].pc # "syncConsumers" /\ (worker'[m].pc = "status" => ~worker'[m].status.ready)
    BY <1>1 DEF Read
  <1> QED
    BY <1>2, <1>3, <1>4, Elsewhere

\* Events around the workers: a manager keeps what it has, or it is asked to
\* reconcile again.
LEMMA EventDelivers ==
  ASSUME IInv, BaseInv, NEW k \in Manager, Delivery(k), Undisturbed, NothingNew,
         \/ /\ SameSubscribers(k)
            /\ \A s \in Subject : js[k].subscribers[s] = "valid" => consumers'[s] = consumers[s]
         \/ /\ \A s \in Subject : js'[k].subscribers[s] # "valid"
            /\ js[k].phase = "running" /\ cached.present => worker'[k].queued
            /\ UNCHANGED resource,
         UNCHANGED <<sub, fresh>> \/ fresh' = {} \/ (js[k].phase = "running" => worker'[k].queued)
  PROVE  Delivery(k)'
  <1>1. /\ worker'[k].pc = worker[k].pc /\ worker'[k].status = worker[k].status
        /\ worker'[k].todo = worker[k].todo /\ worker'[k].spec = worker[k].spec
        /\ js'[k].phase = js[k].phase
        /\ worker[k].queued => worker'[k].queued
    BY DEF Undisturbed, SameWork, NothingNew
  <1>2. Quiet(js[k], worker[k]) /\ Copied(worker[k]) /\ CacheOK
    BY DEF BaseInv, Working, IInv, FreshInv
  <1>t. /\ worker[k].status.types \in SUBSET Subject /\ worker[k].spec.types \in SUBSET Subject
        /\ sub.spec.types \in SUBSET Subject
    BY DEF IInv, TypeOK, Worker, SubStatus, SubSpec, Subscription
  <1>3. CASE /\ SameSubscribers(k)
             /\ \A s \in Subject : js[k].subscribers[s] = "valid" => consumers'[s] = consumers[s]
    <2>1. ASSUME NEW types \in SUBSET Subject, NEW sp, Delivers(k, types, sp)
          PROVE  js'[k].sink = sp.sink /\ \A s \in types :
                   js'[k].subscribers[s] = "valid" /\ consumers'[s] # NoConsumer /\ consumers'[s].max = sp.max
      BY <1>3, <2>1 DEF Delivers, Subscribed, SameSubscribers
    <2>2. Bound(k)'
      BY <1>3 DEF Delivery, Bound, SameSubscribers
    <2>3. Progress(k)'
      <3>1. CASE worker'[k].queued
        BY <3>1 DEF Progress
      <3>2. CASE ~worker'[k].queued
        <4>1. Progress(k) /\ ~worker[k].queued
          BY <1>1, <3>2 DEF Delivery
        <4>2. worker[k].pc = "syncConsumers" =>
                Delivers(k, worker[k].status.types \ worker[k].todo, worker[k].spec)'
          <5> SUFFICES ASSUME worker[k].pc = "syncConsumers"
                       PROVE  Delivers(k, worker[k].status.types \ worker[k].todo, worker[k].spec)'
            OBVIOUS
          <5> DEFINE types == worker[k].status.types \ worker[k].todo
          <5>1. types \in SUBSET Subject /\ types' = types
            BY <1>1, <1>t
          <5>2. Delivers(k, types, worker[k].spec)
            BY <4>1 DEF Progress
          <5> HIDE DEF types
          <5>3. Delivers(k, types, worker[k].spec)'
            BY <1>1, <2>1, <5>1, <5>2 DEF Delivers, Subscribed
          <5> QED
            BY <5>3 DEF types
        <4>3. worker[k].pc = "status" /\ worker[k].status.ready =>
                Delivers(k, worker[k].spec.types, worker[k].spec)'
          <5> SUFFICES ASSUME worker[k].pc = "status", worker[k].status.ready
                       PROVE  Delivers(k, worker[k].spec.types, worker[k].spec)'
            OBVIOUS
          <5>1. Delivers(k, worker[k].spec.types, worker[k].spec)
            BY <4>1 DEF Progress
          <5>2. /\ js'[k].sink = worker[k].spec.sink
                /\ \A s \in worker[k].spec.types :
                     /\ js'[k].subscribers[s] = "valid" /\ consumers'[s] # NoConsumer
                     /\ consumers'[s].max = worker[k].spec.max
            BY <1>t, <2>1, <5>1
          <5> QED
            BY <1>1, <5>2 DEF Delivers, Subscribed
        <4> QED
          BY <1>1, <4>2, <4>3 DEF Progress
      <3> QED
        BY <3>1, <3>2
    <2>4. Delivered(k)'
      <3>1. CASE UNCHANGED <<sub, fresh>>
        BY <1>1, <1>t, <2>1, <3>1
           DEF Delivery, Delivered, AtRest, ReadySubscription, Delivers, Subscribed
      <3>2. CASE fresh' = {} \/ (js[k].phase = "running" => worker'[k].queued)
        BY <1>1, <3>2 DEF Delivered, AtRest
      <3> QED
        BY <3>1, <3>2
    <2> QED
      BY <2>2, <2>3, <2>4 DEF Delivery
  <1>4. CASE /\ \A s \in Subject : js'[k].subscribers[s] # "valid"
             /\ js[k].phase = "running" /\ cached.present => worker'[k].queued
             /\ UNCHANGED resource
    <2>1. worker'[k].pc # "idle" => worker'[k].queued
      BY <1>1, <1>2, <1>4 DEF Quiet, Copied
    <2>2. ~AtRest(k)' \/ ~ReadySubscription'
      BY <1>1, <1>2, <1>4 DEF AtRest, ReadySubscription, CacheOK, resource
    <2> QED
      BY <1>4, <2>1, <2>2 DEF Delivery, Bound, Progress, Delivered
  <1> QED
    BY <1>3, <1>4

\* Letting go of the consumers of another manager.
LEMMA UnboundOther ==
  ASSUME NEW m \in Manager, NEW k \in Manager, k # m, Bound(k), NEW s \in Subject,
         js[k].subscribers[s] = "valid"
  PROVE  Unbound(m, s) = consumers[s]
  BY DEF Bound, Unbound

\* Delivery holds initially.
LEMMA InitDelivers ==
  ASSUME Init
  PROVE  DeliveryInv
  BY DEF Init, DeliveryInv, Delivery, Bound, Progress, Delivered, AtRest, NewBackend, IdleWorker

\* A step of a worker keeps it.
LEMMA WorkerStepDelivers ==
  ASSUME MaxStops = 0, IInv, BaseInv, DeliveryInv, NEW m \in Manager, WorkerStep(m)
  PROVE  DeliveryInv'
  <1>1. js[m].phase = "running" /\ Delivery(m) /\ js \in [Manager -> Backend]
    BY OnlyRunning DEF DeliveryInv, IInv, TypeOK
  <1>2. BaseInv'
    BY WorkerStepBase
  <1>3. SameBackend(m)
    <2>1. CASE Handler(m)
      BY <2>1, HandlerMoves
    <2>2. CASE Reconcile(m)
      BY <1>1, <2>2, ReconcileReads DEF SameBackend
    <2> QED
      BY <2>1, <2>2 DEF WorkerStep, Handler
  <1>4. Delivery(m)'
    BY <1>1, WriteDelivers, RemovalDelivers, SyncDelivers, StageDelivers, ReconcileDelivers
       DEF WorkerStep
  <1> QED
    BY <1>1, <1>2, <1>3, <1>4, DeliveryFrame

\* It is inductive, unless the server loses its storage or a manager is stopped.
LEMMA NextDelivers ==
  ASSUME MaxStops = 0, "storage" \notin FaultKinds, IInv, BaseInv, DeliveryInv, [Next]_vars
  PROVE  DeliveryInv'
  <1>0. BaseInv' /\ TypeOK /\ 0 \notin Manager
    BY NextBase DEF IInv, Manager
  <1>1. CASE UNCHANGED vars
    BY <1>1 DEF vars, resource, DeliveryInv, Delivery, Bound, Progress, Delivered, AtRest,
       ReadySubscription, Delivers, Subscribed
  <1>2. CASE \E m \in Manager : WorkerStep(m)
    BY <1>2, WorkerStepDelivers
  <1>3. CASE \E m \in Manager : HandleNatsConnClose(m)
    <2>1. PICK m \in Manager : HandleNatsConnClose(m)
      BY <1>3
    <2>2. UNCHANGED resource
      BY <2>1 DEF HandleNatsConnClose
    <2>3. Delivery(m)'
      BY <2>1, <2>2, CloseEvent, EventDelivers DEF DeliveryInv, resource
    <2>4. ASSUME NEW k \in Manager, k # m
          PROVE  Delivery(k)'
      <3>1. \A s \in Subject : js[k].subscribers[s] = "valid" => consumers'[s] = consumers[s]
        BY <2>1, <2>4, CloseEvent, UnboundOther DEF DeliveryInv, Delivery
      <3> QED
        BY <2>1, <2>2, <2>4, <3>1, CloseEvent, EventDelivers DEF DeliveryInv, resource
    <2> QED
      BY <2>3, <2>4 DEF DeliveryInv
  <1>4. CASE InformerSync \/ Resync \/ User \/ NatsDown \/ NatsBack \/ ServerUnbinds
    <2> SUFFICES ASSUME NEW k \in Manager
                 PROVE  Delivery(k)'
      BY DEF DeliveryInv
    <2>1. \A s \in Subject : js[k].subscribers[s] = "valid" => consumers'[s] = consumers[s]
      <3>1. CASE ServerUnbinds
        <4>1. PICK m \in Manager : js[m].phase = "dead"
                                   /\ consumers' = [s \in Subject |-> Unbound(m, s)]
          BY <3>1 DEF ServerUnbinds
        <4>2. CASE k = m
          BY <4>1, <4>2 DEF BaseInv, Working, Quiet
        <4>3. CASE k # m
          BY <4>1, <4>3, UnboundOther DEF DeliveryInv, Delivery
        <4> QED
          BY <4>2, <4>3
      <3>2. CASE InformerSync \/ Resync \/ User \/ NatsDown \/ NatsBack
        BY <3>2 DEF InformerSync, Resync, User, CreateSubscription, EditSubscription, UserDeletes,
           ChangeService, Edit, NatsDown, NatsBack
      <3> QED
        BY <1>4, <3>1, <3>2
    <2>2. UNCHANGED <<sub, fresh>> \/ fresh' = {} \/ (js[k].phase = "running" => worker'[k].queued)
      <3>1. CASE InformerSync
        BY <1>0, <3>1, EnqueuedUndisturbed DEF InformerSync
      <3>2. CASE Resync \/ User \/ NatsDown \/ NatsBack \/ ServerUnbinds
        BY <3>2 DEF Resync, User, CreateSubscription, EditSubscription, UserDeletes,
           ChangeService, NatsDown, NatsBack, ServerUnbinds, Write, resource
      <3> QED
        BY <1>4, <3>1, <3>2
    <2> QED
      BY <1>4, <2>1, <2>2, OtherEvent, EventDelivers DEF DeliveryInv
  <1>5. CASE Start
    <2> SUFFICES ASSUME NEW k \in Manager
                 PROVE  Delivery(k)'
      BY DEF DeliveryInv
    <2>1. UNCHANGED <<sub, fresh>> /\ CacheOK
      BY <1>5, StartRuns DEF resource, IInv, FreshInv
    <2>2. js'[k].phase # "running" \/ k = starts + 1
      BY <1>5, StartRuns
    <2>3. CASE js'[k].phase # "running"
      BY <1>0, <2>3, QuietDelivers DEF BaseInv, Working
    <2>4. CASE k = starts + 1
      <3>1. /\ \A s \in Subject : js'[k].subscribers[s] # "valid"
            /\ worker'[k].pc = "idle" /\ worker'[k].queued = cached.present
        BY <1>5, <2>4, StartRuns DEF BaseInv, Working, Quiet
      <3> QED
        BY <2>1, <3>1
           DEF Delivery, Bound, Progress, Delivered, AtRest, ReadySubscription, CacheOK
    <2> QED
      BY <2>2, <2>3, <2>4
  <1>6. CASE Crash
    BY <1>0, <1>6, CrashStops, QuietDelivers DEF DeliveryInv, BaseInv, Working
  <1>7. CASE \E m \in Manager : Stop(m) \/ Cleanup(m)
    BY <1>7, NoStop
  <1> QED
    BY <1>1, <1>2, <1>3, <1>4, <1>5, <1>6, <1>7 DEF Next

\* When a Subscription is Ready and no request is left, SyncSubscription has bound every
\* consumer of the spec to the running connection, with the maxInFlight of the spec,
\* and js.sinks holds its sink: whatever calls to the API server and to NATS failed,
\* however often the connection broke and the process restarted. The two hypotheses
\* are needed: a server that loses its storage says nothing to the reconciler, and
\* the worker of a stopped manager deletes consumers of its successor.
THEOREM ReadyDelivers ==
  ASSUME MaxStops = 0, "storage" \notin FaultKinds
  PROVE  Spec => []ReadyMeansDelivering
  <1>1. Init => DeliveryInv
    BY InitDelivers
  <1>2. IInv /\ BaseInv /\ DeliveryInv /\ [Next]_vars => DeliveryInv'
    BY NextDelivers
  <1>3. IInv /\ DeliveryInv => ReadyMeansDelivering
    <2> SUFFICES ASSUME IInv, DeliveryInv, NEW m \in Manager, Settled(m), ReadySubscription
                 PROVE  /\ \A s \in sub.spec.types : consumers[s] = [max |-> sub.spec.max, bound |-> m]
                        /\ js[m].sink = sub.spec.sink
      BY DEF ReadyMeansDelivering
    <2>1. Delivers(m, sub.spec.types, sub.spec) /\ Bound(m)
      BY DEF DeliveryInv, Delivery, Delivered, AtRest, Settled
    <2>2. ASSUME NEW s \in sub.spec.types
          PROVE  consumers[s] = [max |-> sub.spec.max, bound |-> m]
      <3>1. /\ s \in Subject /\ consumers[s] \in Consumer \cup {NoConsumer}
        BY DEF IInv, TypeOK, Subscription, SubSpec
      <3>2. consumers[s] \in Consumer /\ consumers[s].max = sub.spec.max /\ consumers[s].bound = m
        BY <2>1, <3>1 DEF Delivers, Subscribed, Bound
      <3> QED
        BY <3>2 DEF Consumer
    <2> QED
      BY <2>1, <2>2 DEF Delivers
  <1> QED
    BY <1>1, <1>2, <1>3, BaseInductive, PTL DEF Spec

-----------------------------------------------------------------------------
(***************************************************************************)
(* Stale consumers.                                                        *)
(***************************************************************************)

\* A manager that does not run tracks nothing.
LEMMA QuietTracks ==
  ASSUME NEW m \in Manager, (Quiet(js[m], worker[m]) /\ js[m].phase # "running")'
  PROVE  Tracked(m)'
  BY DEF Quiet, Tracked, AtRest, Creating

\* A step of the worker of a running manager that does not write the resource.
LEMMA TrackedFrame ==
  ASSUME IInv, BaseInv, BaseInv', StaleInv, NEW m \in Manager, js[m].phase = "running",
         SameBackend(m), UNCHANGED <<services, starts>>, Tracked(m)', FinalizerFirst',
         fresh' # {} => 0 \in fresh'
  PROVE  StaleInv'
  <1>1. ASSUME NEW k \in Manager, k # m
        PROVE  Tracked(k)'
    <2>1. js[k].phase # "running" /\ js'[k] = js[k]
      BY <1>1 DEF BaseInv, OneRuns, SameBackend
    <2>2. Quiet(js[k], worker[k])'
      BY DEF BaseInv, Working
    <2> QED
      BY <2>1, <2>2, QuietTracks
  <1>2. starts # 0
    <2>1. starts = 0 => m > starts
      BY DEF Manager
    <2> QED
      BY <2>1 DEF IInv, PhaseInv
  <1>3. Started'
    BY <1>2 DEF StaleInv, Started, SameBackend
  <1> QED
    BY <1>1, <1>3 DEF StaleInv

\* Events around the workers.
LEMMA EventTracked ==
  ASSUME IInv, BaseInv, StaleInv, Undisturbed, NothingNew, UNCHANGED <<services, starts>>,
         Existing' \subseteq Existing, \A k \in Manager : Keys(k) \subseteq Keys(k)',
         Held => Held',
         \/ UNCHANGED resource
         \/ fresh' = {} /\ cached' = cached
         \/ /\ fresh' = fresh \cup {0} /\ sub' = sub /\ cached' = sub
            /\ \A k \in Manager : js[k].phase = "running" => worker'[k].queued
  PROVE  StaleInv'
  <1>1. Started'
    BY DEF StaleInv, Started, NothingNew, resource
  <1>2. FinalizerFirst'
    BY DEF StaleInv, FinalizerFirst, Active, Held, resource
  <1>3. ASSUME NEW k \in Manager
        PROVE  Tracked(k)'
    <2>1. /\ worker'[k].pc = worker[k].pc /\ worker'[k].status = worker[k].status
          /\ worker'[k].todo = worker[k].todo /\ worker'[k].spec = worker[k].spec
          /\ js'[k].phase = js[k].phase /\ k # 0
          /\ worker[k].queued => worker'[k].queued
      BY DEF Undisturbed, SameWork, NothingNew, Manager
    <2>2. Tracked(k)
      BY DEF StaleInv
    <2>3. k \in fresh' => k \in fresh /\ sub' = sub
      BY <2>1 DEF resource
    <2>4. AtRest(k)' /\ ReadySubscription' => AtRest(k) /\ ReadySubscription /\ sub' = sub
      BY <2>1 DEF AtRest, ReadySubscription, resource
    <2>5. Keys(k) \subseteq Keys(k)'
      OBVIOUS
    <2> QED
      BY <2>1, <2>2, <2>3, <2>4, <2>5 DEF Tracked
  <1> QED
    BY <1>1, <1>2, <1>3 DEF StaleInv

\* A connection that is closed leaves the keys of js.subscriptions and the consumers.
LEMMA CloseTracked ==
  ASSUME IInv, BaseInv, StaleInv, NEW m \in Manager, HandleNatsConnClose(m)
  PROVE  StaleInv'
  <1>0. TypeOK /\ js \in [Manager -> Backend] /\ js[m] \in Backend
    BY DEF IInv, TypeOK
  <1>1. Undisturbed /\ NothingNew /\ \A k \in Manager : k # m => SameSubscribers(k)
    BY CloseEvent
  <1>2. UNCHANGED <<resource, services, starts>>
    BY DEF HandleNatsConnClose
  <1>3. Existing' \subseteq Existing
    BY CloseEvent DEF Existing, Unbound
  <1>4. ASSUME NEW s \in Subject, js[m].subscribers[s] # "none"
        PROVE  js'[m].subscribers[s] # "none"
    <2> DEFINE subs == [x \in Subject |-> IF js[m].subscribers[x] = "valid" THEN "invalid"
                                          ELSE js[m].subscribers[x]]
    <2>1. js'[m] = [js[m] EXCEPT !.conn = "closed", !.subscribers = subs]
      BY <1>0 DEF HandleNatsConnClose, Closed
    <2>2. subs[s] # "none"
      BY <1>4
    <2> HIDE DEF subs
    <2>3. js'[m].subscribers = subs
      BY <1>0, <2>1 DEF Backend
    <2> QED
      BY <2>2, <2>3
  <1>5. \A k \in Manager : Keys(k) \subseteq Keys(k)'
    BY <1>1, <1>4 DEF Keys, SameSubscribers
  <1>6. Held => Held'
    BY <1>2 DEF Held, resource
  <1> QED
    BY <1>1, <1>2, <1>3, <1>5, <1>6, EventTracked

\* Other events: users, the cache, the server.
LEMMA OtherTracked ==
  ASSUME NothingForgotten, IInv, BaseInv, StaleInv,
         InformerSync \/ Resync \/ User \/ NatsDown \/ NatsBack \/ ServerUnbinds
  PROVE  StaleInv'
  <1>0. TypeOK /\ sub \in Subscription
    BY DEF IInv, TypeOK
  <1>1. Undisturbed /\ NothingNew /\ \A k \in Manager : Keys(k) \subseteq Keys(k)'
    BY OtherEvent DEF Keys, SameSubscribers
  <1>2. UNCHANGED <<services, starts>>
    BY DEF InformerSync, Resync, User, CreateSubscription, EditSubscription, UserDeletes,
       ChangeService, Edit, NatsDown, NatsBack, ServerUnbinds, NothingForgotten
  <1>3. Existing' \subseteq Existing
    BY DEF Existing, InformerSync, Resync, User, CreateSubscription, EditSubscription,
       UserDeletes, ChangeService, Edit, NatsDown, NatsBack, ServerUnbinds, Unbound
  <1>4. CASE InformerSync
    <2>1. \A k \in Manager : js[k].phase = "running" => worker'[k].queued
      BY <1>0, <1>4, EnqueuedUndisturbed DEF InformerSync
    <2>2. Held => Held'
      BY <1>4 DEF InformerSync, Held
    <2> QED
      BY <1>1, <1>2, <1>3, <1>4, <2>1, <2>2, EventTracked DEF InformerSync
  <1>5. CASE User
    <2>1. fresh' = {} /\ cached' = cached
      BY <1>5 DEF User, CreateSubscription, EditSubscription, UserDeletes, ChangeService, Edit,
         Write, NothingForgotten
    <2>2. Held => Held'
      <3>1. CASE CreateSubscription
        BY <3>1 DEF CreateSubscription, Held
      <3>2. CASE EditSubscription
        <4>1. PICK sp \in SubSpec : sub' = [sub EXCEPT !.spec = sp]
          BY <3>2 DEF EditSubscription, Write, UserSpec
        <4> QED
          BY <1>0, <4>1 DEF Held, Subscription
      <3>3. CASE UserDeletes
        BY <1>0, <3>3 DEF UserDeletes, Write, Held, Subscription
      <3>4. CASE ChangeService
        BY <3>4 DEF ChangeService, NothingForgotten
      <3> QED
        BY <1>5, <3>1, <3>2, <3>3, <3>4 DEF User
    <2> QED
      BY <1>1, <1>2, <1>3, <2>1, <2>2, EventTracked
  <1>6. CASE Resync \/ NatsDown \/ NatsBack \/ ServerUnbinds
    <2>1. UNCHANGED resource /\ (Held => Held')
      BY <1>6 DEF Resync, NatsDown, NatsBack, ServerUnbinds, resource, Held
    <2> QED
      BY <1>1, <1>2, <1>3, <2>1, EventTracked
  <1> QED
    BY <1>4, <1>5, <1>6

\* The first manager starts with nothing on the server.
LEMMA StartTracked ==
  ASSUME IInv, BaseInv, BaseInv', StaleInv, Start
  PROVE  StaleInv'
  <1>1. starts = 0
    <2>1. starts \in Nat /\ starts # 0 => 1 \in Manager /\ 1 <= starts
      BY JSBoundsAssumption DEF IInv, TypeOK, Manager
    <2>2. starts \in Nat
      BY JSBoundsAssumption DEF IInv, TypeOK
    <2> QED
      BY <2>1, <2>2, StartRuns DEF StaleInv, Started
  <1>2. Existing' = {}
    <2>1. Existing = {}
      BY <1>1 DEF StaleInv, Started
    <2> QED
      BY <2>1, StartRuns DEF Existing, ValidConsumers
  <1>3. UNCHANGED <<resource, services>> /\ starts' = starts + 1 /\ js'[starts + 1].phase = "running"
    BY StartRuns
  <1>4. Started'
    BY <1>1, <1>2, <1>3 DEF StaleInv, Started, Manager, resource
  <1>5. FinalizerFirst'
    BY <1>2, <1>3 DEF StaleInv, FinalizerFirst, Active, Held, resource
  <1>6. ASSUME NEW k \in Manager
        PROVE  Tracked(k)'
    <2>1. CASE k = starts + 1
      <3>1. worker'[k].pc = "idle"
        BY <2>1, StartRuns
      <3> QED
        BY <1>2, <3>1 DEF Tracked, Creating
    <2>2. CASE k # starts + 1
      <3>1. js'[k].phase # "running" /\ Quiet(js[k], worker[k])'
        BY <2>2, StartRuns DEF BaseInv, Working
      <3> QED
        BY <3>1, QuietTracks
    <2> QED
      BY <2>1, <2>2
  <1> QED
    BY <1>4, <1>5, <1>6 DEF StaleInv

\* A worker that reports a failure or ends, with what exists known as before.
LEMMA EndTracked ==
  ASSUME NEW m \in Manager, Tracked(m), Existing' \subseteq Existing, Keys(m) \subseteq Keys(m)',
         js'[m].phase = js[m].phase,
         \/ worker'[m].pc = "status" /\ ~worker'[m].status.ready
         \/ worker'[m].pc = "idle" /\ (~AtRest(m)' \/ ~ReadySubscription')
  PROVE  Tracked(m)'
  <1>1. worker'[m].pc = "status" => ~AtRest(m)'
    BY DEF AtRest
  <1> QED
    BY <1>1 DEF Tracked, Creating

\* A deleted subscription takes its consumer with it; one that could not be deleted keeps
\* its entry.
LEMMA RemovalTracked ==
  ASSUME IInv, NEW m \in Manager, NEW s \in Subject
  PROVE  /\ DeleteSubscriptionFromJetStream(m, s) =>
              Existing' = Existing \ {s} /\ Keys(m)' = Keys(m) \ {s}
         /\ DeleteSubscriptionFails(m, s) =>
              Existing' \subseteq Existing /\ Keys(m) \subseteq Keys(m)'
  <1>0. TypeOK /\ consumers \in [Subject -> Consumer \cup {NoConsumer}]
    BY LocalTypes
  <1>1. ASSUME DeleteSubscriptionFromJetStream(m, s)
        PROVE  Existing' = Existing \ {s} /\ Keys(m)' = Keys(m) \ {s}
    <2>1. /\ js'[m].subscribers[s] = "none"
          /\ \A x \in Subject : x # s => js'[m].subscribers[x] = js[m].subscribers[x]
      BY <1>0, <1>1, SubscriberSet DEF DeleteSubscriptionFromJetStream, Subscriber
    <2>2. consumers' = [consumers EXCEPT ![s] = NoConsumer]
      BY <1>1 DEF DeleteSubscriptionFromJetStream
    <2>3. Existing' = Existing \ {s}
      BY <1>0, <2>2 DEF Existing
    <2>4. Keys(m)' = Keys(m) \ {s}
      BY <2>1 DEF Keys
    <2> QED
      BY <2>3, <2>4
  <1>2. ASSUME DeleteSubscriptionFails(m, s)
        PROVE  Existing' \subseteq Existing /\ Keys(m) \subseteq Keys(m)'
    <2>1. CASE UNCHANGED <<js, consumers>>
      BY <2>1 DEF Existing, Keys
    <2>2. CASE /\ consumers' = [consumers EXCEPT ![s] = Unbound(m, s)]
               /\ js' = [js EXCEPT ![m].subscribers[s] = "invalid"]
      <3>1. /\ js'[m].subscribers[s] = "invalid"
            /\ \A x \in Subject : x # s => js'[m].subscribers[x] = js[m].subscribers[x]
        BY <1>0, <2>2, SubscriberSet DEF Subscriber
      <3>2. \A x \in Subject : consumers[x] = NoConsumer => consumers'[x] = NoConsumer
        BY <1>0, <2>2 DEF Unbound
      <3> QED
        BY <3>1, <3>2 DEF Existing, Keys
    <2> QED
      BY <1>2, <2>1, <2>2 DEF DeleteSubscriptionFails
  <1> QED
    BY <1>1, <1>2

\* A call fails only without a connection.
LEMMA CallsFail ==
  ASSUME NothingForgotten, NEW m \in Manager, CallFails(m)
  PROVE  js[m].conn # "connected"
  BY DEF CallFails, Fault, NothingForgotten

\* The connection and the first pass: what the spec does not name is deleted.
LEMMA FirstPassTracked ==
  ASSUME IInv, BaseInv, NEW m \in Manager, Tracked(m), UNCHANGED resource,
         CheckJetStreamConnection(m) \/ SyncSubscriptionEventType(m)
  PROVE  Tracked(m)' /\ Existing' \subseteq Existing
  <1>0. /\ TypeOK /\ worker[m].todo \in SUBSET Subject
        /\ worker[m].status.types \in SUBSET Subject /\ js[m].phase = "running"
        /\ SameBackend(m) /\ Existing \subseteq Keys(m) /\ (Held => Held')
    BY LocalTypes, OnlyRunning, HandlerMoves DEF WorkerStep, Handler, Tracked, Held, resource
  <1>1. CASE CheckJetStreamConnection(m)
    <2>1. worker[m].pc # "idle" /\ worker[m].pc \in ConnectSteps /\ Existing' = Existing
      BY <1>1 DEF CheckJetStreamConnection, ConnectSteps, Existing
    <2>2. CASE js' = [js EXCEPT ![m].conn = "connected"]
               /\ Goto(m, AfterConnect(worker[m].pc), Keys(m))
      <3>1. /\ \/ AfterConnect(worker[m].pc) = "delete"
               \/ AfterConnect(worker[m].pc) = "syncTypes" /\ worker[m].pc = "connect"
            /\ AfterConnect(worker[m].pc) \in Step /\ Keys(m) \in SUBSET Subject
        BY <2>1 DEF AfterConnect, ConnectSteps, Step, Keys, Tracked
      <3>2. worker'[m].pc = AfterConnect(worker[m].pc) /\ worker'[m].todo = Keys(m)
        BY <1>0, <2>2, <3>1, GotoSteps
      <3>3. Keys(m)' = Keys(m)
        BY <1>0, <2>2, ConnSet DEF Keys
      <3> QED
        BY <1>0, <2>1, <3>1, <3>2, <3>3 DEF Tracked, Creating, AtRest
    <2>3. CASE UNCHANGED js /\ (Return(m, TRUE) \/ Fail(m))
      <3>1. \/ worker'[m].pc = "status" /\ ~worker'[m].status.ready
            \/ worker'[m].pc = "idle" /\ ~AtRest(m)'
        BY <1>0, <2>1, <2>3, ReturnMoves, FailMoves DEF AtRest
      <3> QED
        BY <2>1, <2>3, <3>1, EndTracked DEF Keys
    <2> QED
      BY <1>1, <2>2, <2>3 DEF CheckJetStreamConnection
  <1>2. CASE SyncSubscriptionEventType(m)
    <2>1. PICK s \in worker[m].todo :
            \/ s \in worker[m].status.types /\ Visited(m, s) /\ UNCHANGED <<js, consumers>>
            \/ DeleteSubscriptionFromJetStream(m, s) /\ Visited(m, s)
            \/ UNCHANGED <<js, consumers>> /\ Fail(m)
            \/ DeleteSubscriptionFails(m, s) /\ Fail(m)
      BY <1>2 DEF SyncSubscriptionEventType, BoundLater, Kept
    <2>2. s \in Subject /\ worker[m].pc = "syncTypes"
          /\ Existing \subseteq worker[m].todo \cup worker[m].status.types /\ Held
      BY <1>0, <1>2, <2>1 DEF SyncSubscriptionEventType, Tracked, Creating
    <2>3. CASE Visited(m, s) /\ ~Fail(m)
      <3>1. /\ worker'[m].pc = "syncTypes" /\ worker'[m].todo = worker[m].todo \ {s}
            /\ worker'[m].status = worker[m].status
        BY <1>0, <2>2, <2>3, VisitedSteps
      <3>2. /\ Existing' \subseteq worker'[m].todo \cup worker'[m].status.types
            /\ Existing' \subseteq Existing /\ Existing' \subseteq Keys(m)'
        <4>1. CASE s \in worker[m].status.types /\ UNCHANGED <<js, consumers>>
          <5>1. Existing' = Existing /\ Keys(m)' = Keys(m)
            BY <4>1 DEF Existing, Keys
          <5> QED
            BY <1>0, <2>2, <3>1, <4>1, <5>1
        <4>2. CASE DeleteSubscriptionFromJetStream(m, s)
          BY <1>0, <2>2, <3>1, <4>2, RemovalTracked
        <4> QED
          BY <2>1, <2>3, <4>1, <4>2
      <3> QED
        BY <1>0, <2>2, <3>1, <3>2 DEF Tracked, Creating, AtRest
    <2>4. CASE Fail(m)
      <3>1. worker'[m].pc = "status" /\ ~worker'[m].status.ready
        BY <1>0, <2>2, <2>4, FailMoves
      <3>2. CASE UNCHANGED <<js, consumers>>
        BY <3>1, <3>2, EndTracked DEF Existing, Keys
      <3>3. CASE DeleteSubscriptionFails(m, s)
        BY <1>0, <2>2, <3>1, <3>3, EndTracked, RemovalTracked DEF SameBackend
      <3>4. worker[m].pc # worker'[m].pc
        BY <2>2, <3>1
      <3>5. ~Visited(m, s)
        BY <1>0, <3>4, VisitedSteps
      <3> QED
        BY <2>1, <3>2, <3>3, <3>5
    <2> QED
      BY <2>1, <2>3, <2>4
  <1> QED
    BY <1>1, <1>2

\* The second pass creates consumers of the spec, each with its entry.
LEMMA SecondPassTracked ==
  ASSUME NothingForgotten, IInv, BaseInv, NEW m \in Manager, Tracked(m), UNCHANGED resource,
         StoreSink(m) \/ SyncConsumerAndSubscription(m) \/ Synced(m)
  PROVE  Tracked(m)' /\ Held'
  <1>0. /\ TypeOK /\ worker[m].todo \in SUBSET Subject
        /\ worker[m].status.types \in SUBSET Subject /\ worker[m].spec.sink \in Sink
        /\ consumers \in [Subject -> Consumer \cup {NoConsumer}]
        /\ js[m].phase = "running" /\ Typed(worker[m])
        /\ SameBackend(m) /\ Existing \subseteq Keys(m) /\ (Held => Held')
    BY LocalTypes, OnlyRunning, HandlerMoves DEF WorkerStep, Handler, Tracked, Held, resource
  <1>1. CASE StoreSink(m)
    <2>1. /\ worker[m].pc = "syncTypes" /\ worker[m].todo = {} /\ UNCHANGED consumers
          /\ js' = [js EXCEPT ![m].sink = worker[m].spec.sink]
          /\ Goto(m, "syncConsumers", worker[m].status.types)
      BY <1>1 DEF StoreSink
    <2>2. Held' /\ Existing \subseteq worker[m].status.types
      BY <1>0, <2>1 DEF Tracked, Creating
    <2>3. Keys(m)' = Keys(m) /\ Existing' = Existing
      BY <1>0, <2>1, SinkSet DEF Keys, Existing
    <2>4. /\ worker'[m].pc = "syncConsumers" /\ worker'[m].todo = worker[m].status.types
          /\ worker'[m].status = worker[m].status
      BY <1>0, <2>1, GotoSteps DEF Step
    <2> QED
      BY <1>0, <2>2, <2>3, <2>4 DEF Tracked, Creating, AtRest
  <1>2. CASE Synced(m)
    <2>1. /\ worker[m].pc = "syncConsumers" /\ UNCHANGED <<consumers, js>>
      BY <1>2 DEF Synced
    <2>2. Held' /\ Existing \subseteq worker[m].spec.types
      BY <1>0, <2>1 DEF Tracked, Creating, Typed
    <2>3. Keys(m)' = Keys(m) /\ Existing' = Existing
      BY <2>1 DEF Keys, Existing
    <2>4. worker'[m].pc = "status" /\ worker'[m].spec = worker[m].spec
      BY <1>0, <1>2, SyncedMoves DEF Moves
    <2> QED
      BY <1>0, <2>2, <2>3, <2>4 DEF Tracked, Creating, AtRest
  <1>3. CASE SyncConsumerAndSubscription(m)
    <2>1. /\ worker[m].pc = "syncConsumers" /\ Existing \subseteq worker[m].status.types
          /\ worker[m].todo \subseteq worker[m].status.types /\ Held'
      BY <1>0, <1>3 DEF SyncConsumerAndSubscription, Tracked, Creating
    <2>2. PICK s \in worker[m].todo :
            \/ /\ \/ js[m].subscribers[s] = "valid" /\ UNCHANGED js
                  \/ js' = [js EXCEPT ![m].subscribers[s] = "valid"]
               /\ \E c : consumers' = [consumers EXCEPT ![s] = c]
               /\ Visited(m, s)
            \/ /\ ~CanSubscribe(m, s) /\ UNCHANGED js /\ Fail(m)
               /\ consumers' = [consumers EXCEPT ![s] = FoundOrCreated(m, s)]
            \/ UNCHANGED <<consumers, js>> /\ Fail(m)
      BY <1>3, CallsFail DEF SyncConsumerAndSubscription
    <2>s. s \in Subject
      BY <1>0
    <2>3. CASE /\ \/ js[m].subscribers[s] = "valid" /\ UNCHANGED js
                  \/ js' = [js EXCEPT ![m].subscribers[s] = "valid"]
               /\ \E c : consumers' = [consumers EXCEPT ![s] = c]
               /\ Visited(m, s)
      <3>1. /\ js'[m].subscribers[s] = "valid"
            /\ \A x \in Subject : x # s => js'[m].subscribers[x] = js[m].subscribers[x]
        BY <1>0, <2>3, <2>s, SubscriberSet DEF Subscriber
      <3>2. Keys(m) \cup {s} \subseteq Keys(m)'
        BY <2>s, <3>1 DEF Keys
      <3>3. Existing' \subseteq Existing \cup {s}
        BY <1>0, <2>3 DEF Existing
      <3>4. /\ worker'[m].pc = "syncConsumers" /\ worker'[m].todo = worker[m].todo \ {s}
            /\ worker'[m].status = worker[m].status
        BY <1>0, <2>1, <2>3, VisitedSteps
      <3> QED
        BY <1>0, <2>1, <3>2, <3>3, <3>4 DEF Tracked, Creating, AtRest
    <2>4. CASE UNCHANGED js /\ Fail(m) /\ Existing' \subseteq Existing
      <3>1. worker'[m].pc = "status" /\ ~worker'[m].status.ready
        BY <1>0, <2>1, <2>4, FailMoves
      <3> QED
        BY <2>1, <2>4, <3>1, EndTracked DEF Keys
    <2>5. CASE /\ ~CanSubscribe(m, s) /\ UNCHANGED js /\ Fail(m)
               /\ consumers' = [consumers EXCEPT ![s] = FoundOrCreated(m, s)]
      <3>1. consumers[s] # NoConsumer
        BY <2>5 DEF CanSubscribe, FoundOrCreated
      <3>2. Existing' \subseteq Existing
        BY <1>0, <2>5, <2>s, <3>1 DEF Existing
      <3> QED
        BY <2>4, <2>5, <3>2
    <2>6. CASE UNCHANGED <<consumers, js>> /\ Fail(m)
      BY <2>4, <2>6 DEF Existing
    <2> QED
      BY <2>2, <2>3, <2>5, <2>6
  <1> QED
    BY <1>1, <1>2, <1>3

\* The deletion: all that exists has an entry, and every entry is visited.
LEMMA DeletionTracked ==
  ASSUME IInv, BaseInv, NEW m \in Manager, Tracked(m), UNCHANGED resource,
         DeleteSubscriptionsOnly(m) \/ DeleteSubscription(m) \/ DeleteConsumers(m)
  PROVE  Tracked(m)' /\ Existing' \subseteq Existing
  <1>0. /\ TypeOK /\ worker[m].todo \in SUBSET Subject
        /\ worker[m].status.types \in SUBSET Subject /\ {} \in SUBSET Subject
        /\ consumers \in [Subject -> Consumer \cup {NoConsumer}]
        /\ js[m].phase = "running" /\ SameBackend(m) /\ Existing \subseteq Keys(m)
    BY LocalTypes, OnlyRunning, HandlerMoves DEF WorkerStep, Handler, Tracked
  <1>1. ~DeleteSubscriptionsOnly(m)
    BY DEF DeleteSubscriptionsOnly, Tracked
  <1>2. CASE DeleteSubscription(m)
    <2>1. worker[m].pc = "delete" /\ Existing \subseteq worker[m].todo
      BY <1>2 DEF DeleteSubscription, Tracked
    <2>2. ASSUME NEW s \in worker[m].todo, DeleteSubscriptionFromJetStream(m, s), Visited(m, s)
          PROVE  Tracked(m)' /\ Existing' \subseteq Existing
      <3>1. Existing' = Existing \ {s} /\ Keys(m)' = Keys(m) \ {s}
        BY <1>0, <2>2, RemovalTracked
      <3>2. worker'[m].pc = "delete" /\ worker'[m].todo = worker[m].todo \ {s}
        BY <1>0, <2>1, <2>2, VisitedSteps
      <3> QED
        BY <1>0, <2>1, <3>1, <3>2 DEF Tracked, Creating, AtRest
    <2>3. ASSUME NEW s \in worker[m].todo, DeleteSubscriptionFails(m, s), Fail(m)
          PROVE  Tracked(m)' /\ Existing' \subseteq Existing
      <3>1. worker'[m].pc = "status" /\ ~worker'[m].status.ready
        BY <1>0, <2>1, <2>3, FailMoves
      <3> QED
        BY <1>0, <2>3, <3>1, EndTracked, RemovalTracked DEF SameBackend
    <2>4. CASE /\ worker[m].todo = {} /\ Goto(m, "deleteConsumers", worker[m].status.types)
               /\ UNCHANGED <<js, consumers>>
      <3>1. worker'[m].pc = "deleteConsumers"
        BY <1>0, <2>4, GotoSteps DEF Step
      <3>2. Existing' = Existing /\ Existing = {} /\ Keys(m)' = Keys(m)
        BY <2>1, <2>4 DEF Existing, Keys
      <3> QED
        BY <3>1, <3>2 DEF Tracked, Creating, AtRest
    <2> QED
      BY <1>2, <2>2, <2>3, <2>4 DEF DeleteSubscription
  <1>3. CASE DeleteConsumers(m)
    <2>1. worker[m].pc = "deleteConsumers" /\ Existing = {}
      BY <1>3 DEF DeleteConsumers, Tracked
    <2>2. m \in fresh' => sub'.deleting
      BY <2>1 DEF IInv, FreshInv, Informed, Deleting, resource
    <2>3. Existing' = {}
      <3>1. \/ UNCHANGED consumers
            \/ \E s \in Subject : consumers' = [consumers EXCEPT ![s] = NoConsumer]
        BY <1>0, <1>3 DEF DeleteConsumers
      <3> QED
        BY <1>0, <2>1, <3>1 DEF Existing
    <2>4. \/ worker'[m].pc \in {"deleteConsumers", "removeFinalizer"}
          \/ worker'[m].pc = "status" /\ ~worker'[m].status.ready
      <3>1. (\E s \in Subject : Visited(m, s)) \/ Fail(m) \/ Goto(m, "removeFinalizer", {})
        BY <1>0, <1>3 DEF DeleteConsumers
      <3> QED
        BY <1>0, <2>1, <3>1, VisitedSteps, FailMoves, GotoSteps DEF Step
    <2> QED
      BY <2>1, <2>2, <2>3, <2>4 DEF Tracked, Creating, AtRest
  <1> QED
    BY <1>1, <1>2, <1>3

\* Writes to the resource: the finalizer goes when nothing exists, and a status that is
\* equal leaves what the worker found out about the consumers.
LEMMA WriteTracked ==
  ASSUME IInv, BaseInv, StaleInv, NEW m \in Manager,
         AddFinalizer(m) \/ RemoveFinalizer(m) \/ UpdateSubscriptionStatus(m)
  PROVE  Tracked(m)' /\ FinalizerFirst' /\ (fresh' # {} => 0 \in fresh')
  <1>0. /\ TypeOK /\ js[m].phase = "running" /\ Copied(worker[m]) /\ Typed(worker[m])
        /\ CacheOK /\ sub \in Subscription /\ Tracked(m)
    BY OnlyRunning DEF WorkerStep, IInv, FreshInv, TypeOK, StaleInv
  <1>1. UNCHANGED <<js, consumers, cached>> /\ worker[m].pc # "idle"
    BY DEF AddFinalizer, RemoveFinalizer, UpdateSubscriptionStatus
  <1>2. Existing' = Existing /\ Keys(m)' = Keys(m)
    BY <1>1 DEF Existing, Keys
  <1>3. \/ /\ fresh' = {} /\ (\E again \in BOOLEAN : Return(m, again))
           /\ sub' = [sub EXCEPT !.finalizer = TRUE] \/ sub' = [sub EXCEPT !.status = worker[m].status]
        \/ /\ fresh' = {} /\ (\E again \in BOOLEAN : Return(m, again))
           /\ m \in fresh /\ worker[m].pc = "removeFinalizer"
        \/ Return(m, TRUE) /\ UNCHANGED <<sub, fresh>>
        \/ /\ worker[m].pc = "status" /\ cached.present /\ cached.status = worker[m].status
           /\ (\E again \in BOOLEAN : Return(m, again)) /\ UNCHANGED <<sub, fresh>>
    BY DEF AddFinalizer, RemoveFinalizer, UpdateSubscriptionStatus, Write
  <1>4. CASE /\ fresh' = {} /\ (\E again \in BOOLEAN : Return(m, again))
             /\ sub' = [sub EXCEPT !.finalizer = TRUE] \/ sub' = [sub EXCEPT !.status = worker[m].status]
    <2>1. worker'[m].pc = "idle" /\ ~AtRest(m)'
      BY <1>0, <1>1, <1>4, ReturnMoves DEF AtRest
    <2>2. Held => Held'
      BY <1>0, <1>4 DEF Held, Subscription
    <2>3. FinalizerFirst'
      BY <1>1, <1>2, <2>2 DEF StaleInv, FinalizerFirst, Active
    <2> QED
      BY <1>0, <1>1, <1>2, <1>4, <2>1, <2>3, EndTracked
  <1>5. CASE /\ fresh' = {} /\ (\E again \in BOOLEAN : Return(m, again))
             /\ m \in fresh /\ worker[m].pc = "removeFinalizer"
    <2>1. worker'[m].pc = "idle" /\ ~AtRest(m)'
      BY <1>0, <1>1, <1>5, ReturnMoves DEF AtRest
    <2>2. Existing = {} /\ sub.deleting
      BY <1>0, <1>5 DEF Tracked
    <2>3. cached = sub
      BY <1>0, <1>5 DEF StaleInv, Started, CacheOK
    <2>4. FinalizerFirst'
      BY <1>1, <1>2, <2>2, <2>3 DEF FinalizerFirst, Active
    <2> QED
      BY <1>0, <1>1, <1>2, <1>5, <2>1, <2>4, EndTracked
  <1>6. CASE UNCHANGED <<sub, fresh>>
    <2>1. FinalizerFirst' /\ (fresh' # {} => 0 \in fresh')
      BY <1>1, <1>2, <1>6 DEF StaleInv, FinalizerFirst, Started, Active, Held
    <2>2. CASE Return(m, TRUE)
      <3>1. worker'[m].pc = "idle" /\ ~AtRest(m)'
        BY <1>0, <1>1, <2>2, ReturnMoves DEF AtRest
      <3> QED
        BY <1>0, <1>1, <1>2, <2>1, <3>1, EndTracked
    <2>3. CASE /\ worker[m].pc = "status" /\ cached.present /\ cached.status = worker[m].status
               /\ \E again \in BOOLEAN : Return(m, again)
      <3>1. worker'[m].pc = "idle" /\ (worker[m].queued => worker'[m].queued)
        BY <1>0, <1>1, <2>3, ReturnMoves DEF Moves
      <3>2. ASSUME AtRest(m)', ReadySubscription'
            PROVE  Existing' \subseteq sub'.spec.types
        <4>1. cached = sub /\ worker[m].status.ready /\ ~worker[m].queued
          BY <1>0, <1>6, <2>3, <3>1, <3>2 DEF AtRest, ReadySubscription, CacheOK
        <4>2. worker[m].spec = sub.spec
          BY <1>0, <2>3, <4>1 DEF Copied
        <4> QED
          BY <1>0, <1>2, <1>6, <2>3, <4>1, <4>2 DEF Tracked
      <3>3. js[m].phase = "running" /\ Existing \subseteq Keys(m)
        BY <1>0 DEF Tracked
      <3> QED
        BY <1>2, <2>1, <3>1, <3>2, <3>3 DEF Tracked, Creating
    <2> QED
      BY <1>0, <1>3, <1>6, <2>2, <2>3, <1>4, <1>5
  <1> QED
    BY <1>3, <1>4, <1>5, <1>6

\* A request is taken up: consumers are created for a Subscription with its finalizer.
LEMMA ReconcileTracked ==
  ASSUME NothingForgotten, IInv, BaseInv, StaleInv, NEW m \in Manager, Reconcile(m)
  PROVE  Tracked(m)' /\ FinalizerFirst' /\ (fresh' # {} => 0 \in fresh')
  <1>0. js[m].phase = "running" /\ Tracked(m) /\ CacheOK /\ cached.spec.sink \in Sink
    BY OnlyRunning DEF WorkerStep, StaleInv, IInv, FreshInv, TypeOK, Subscription, SubSpec
  <1>1. /\ Read(m) /\ UNCHANGED <<sub, cached, services, consumers, js>>
        /\ fresh' = fresh \/ fresh' = IF 0 \in fresh THEN fresh \cup {m} ELSE fresh \ {m}
    BY <1>0, ReconcileReads
  <1>2. (fresh' # {} => 0 \in fresh') /\ (0 \in fresh' => 0 \in fresh)
    BY <1>1 DEF StaleInv, Started, Manager
  <1>3. Existing' = Existing /\ Keys(m)' = Keys(m) /\ Held' = Held
    BY <1>1 DEF Existing, Keys, Held
  <1>4. FinalizerFirst'
    BY <1>1, <1>3 DEF StaleInv, FinalizerFirst, Active
  <1>5. worker'[m].pc # "connectToDeleteSubs"
    BY <1>0, <1>1 DEF Read, StaleInv, Started, NothingForgotten
  <1>6. worker'[m].pc = "idle" => ~AtRest(m)' \/ ~ReadySubscription'
    BY <1>0, <1>1, <1>2 DEF Read, AtRest, ReadySubscription, CacheOK
  <1>7. worker'[m].pc = "connect" => Held
    BY <1>1 DEF Read, StaleInv, FinalizerFirst
  <1>8. Tracked(m)'
    <2>1. /\ worker'[m].pc \in {"idle", "connectToDelete", "addFinalizer", "status", "connect"}
          /\ worker'[m].pc = "status" => ~worker'[m].status.ready
      BY <1>1, <1>5 DEF Read
    <2>2. Existing \subseteq Keys(m) /\ js'[m].phase = js[m].phase
      BY <1>0, <1>1 DEF Tracked
    <2>3. worker'[m].pc # "idle" => ~AtRest(m)'
      BY DEF AtRest
    <2> QED
      BY <1>3, <1>6, <1>7, <2>1, <2>2, <2>3 DEF Tracked, Creating
  <1> QED
    BY <1>2, <1>4, <1>8

\* A step of a worker keeps the invariant.
LEMMA WorkerStepTracked ==
  ASSUME NothingForgotten, IInv, BaseInv, BaseInv', StaleInv, NEW m \in Manager, WorkerStep(m)
  PROVE  StaleInv'
  <1>1. js[m].phase = "running" /\ Tracked(m) /\ js \in [Manager -> Backend]
    BY OnlyRunning DEF StaleInv, IInv, TypeOK
  <1>2. SameBackend(m) /\ UNCHANGED <<services, starts>>
    <2>1. CASE Handler(m)
      BY <2>1, HandlerMoves
    <2>2. CASE Reconcile(m)
      BY <1>1, <2>2, ReconcileReads DEF SameBackend
    <2> QED
      BY <2>1, <2>2 DEF WorkerStep, Handler
  <1>3. CASE UNCHANGED resource /\ Tracked(m)' /\ (Existing' \subseteq Existing \/ Held')
    <2>1. FinalizerFirst' /\ (fresh' # {} => 0 \in fresh')
      BY <1>3 DEF StaleInv, FinalizerFirst, Started, Active, Held, resource
    <2> QED
      BY <1>1, <1>2, <1>3, <2>1, TrackedFrame
  <1>4. CASE \/ CheckJetStreamConnection(m) \/ SyncSubscriptionEventType(m)
             \/ StoreSink(m) \/ SyncConsumerAndSubscription(m) \/ Synced(m)
             \/ DeleteSubscriptionsOnly(m) \/ DeleteSubscription(m) \/ DeleteConsumers(m)
    <2>1. UNCHANGED resource
      BY <1>4 DEF CheckJetStreamConnection, SyncSubscriptionEventType, StoreSink,
         SyncConsumerAndSubscription, Synced, DeleteSubscriptionsOnly, DeleteSubscription,
         DeleteConsumers
    <2>2. Tracked(m)' /\ (Existing' \subseteq Existing \/ Held')
      BY <1>1, <1>4, <2>1, FirstPassTracked, SecondPassTracked, DeletionTracked
    <2> QED
      BY <1>3, <2>1, <2>2
  <1>5. CASE AddFinalizer(m) \/ RemoveFinalizer(m) \/ UpdateSubscriptionStatus(m) \/ Reconcile(m)
    BY <1>1, <1>2, <1>5, WriteTracked, ReconcileTracked, TrackedFrame
  <1> QED
    BY <1>4, <1>5 DEF WorkerStep

\* The invariant holds initially.
LEMMA InitTracked ==
  ASSUME Init
  PROVE  StaleInv
  <1>1. Existing = {} /\ ~cached.present /\ services = Sink /\ starts = 0 /\ fresh = {0}
    BY DEF Init, Existing, NoSubscription
  <1>2. \A m \in Manager : worker[m].pc = "idle" /\ js[m].phase = "new"
    BY DEF Init, IdleWorker, NewBackend
  <1>3. Started /\ FinalizerFirst
    BY <1>1 DEF Started, FinalizerFirst, Active, Manager
  <1> QED
    BY <1>1, <1>2, <1>3 DEF StaleInv, Tracked, Creating, AtRest

\* It is inductive as long as nothing is forgotten.
LEMMA NextTracked ==
  ASSUME NothingForgotten, IInv, BaseInv, StaleInv, [Next]_vars
  PROVE  StaleInv'
  <1>0. BaseInv' /\ MaxStops = 0
    BY NextBase DEF NothingForgotten
  <1>1. CASE UNCHANGED vars
    BY <1>1 DEF vars, resource, StaleInv, Started, FinalizerFirst, Tracked, AtRest,
       ReadySubscription, Existing, Keys, Held, Active
  <1>2. CASE \E m \in Manager : WorkerStep(m)
    BY <1>0, <1>2, WorkerStepTracked
  <1>3. CASE \E m \in Manager : HandleNatsConnClose(m)
    BY <1>3, CloseTracked
  <1>4. CASE InformerSync \/ Resync \/ User \/ NatsDown \/ NatsBack \/ ServerUnbinds
    BY <1>4, OtherTracked
  <1>5. CASE Start
    BY <1>0, <1>5, StartTracked
  <1>6. ~Crash
    BY DEF Crash, IInv, TypeOK, NothingForgotten
  <1>7. CASE \E m \in Manager : Stop(m) \/ Cleanup(m)
    BY <1>0, <1>7, NoStop
  <1> QED
    BY <1>1, <1>2, <1>3, <1>4, <1>5, <1>6, <1>7 DEF Next

\* It holds in every such behaviour.
LEMMA StaleInductive ==
  ASSUME NothingForgotten
  PROVE  Spec => []StaleInv
  <1>0. MaxStops = 0
    BY DEF NothingForgotten
  <1>1. Init => StaleInv
    BY InitTracked
  <1>2. IInv /\ BaseInv /\ StaleInv /\ [Next]_vars => StaleInv'
    BY NextTracked
  <1> QED
    BY <1>0, <1>1, <1>2, BaseInductive, PTL DEF Spec

\* When a Subscription is Ready and no request is left, syncSubscriptionEventType has
\* deleted every consumer the spec does not name: however often the types were edited,
\* status updates failed, the connection was lost and the server's storage went. The
\* hypotheses are needed: js.subscriptions is all the reconciler knows of old types,
\* and a restart, a failed unsubscribe or a missing Service empties it.
THEOREM ReadyNoStale ==
  ASSUME NothingForgotten
  PROVE  Spec => []ReadyMeansNoStaleConsumer
  <1>1. StaleInv => ReadyMeansNoStaleConsumer
    BY DEF StaleInv, Tracked, AtRest, Settled, ReadyMeansNoStaleConsumer
  <1> QED
    BY <1>1, StaleInductive, PTL

\* DeleteSubscription deletes every consumer before the finalizer goes, and none is created
\* for a Subscription without a finalizer, or after it: the cache may be old, edits and
\* deletions may come between any two calls.
THEOREM ConsumersGo ==
  ASSUME NothingForgotten
  PROVE  Spec => []ConsumersGoWithSubscription
  <1>1. StaleInv => ConsumersGoWithSubscription
    BY DEF StaleInv, FinalizerFirst, Held, ConsumersGoWithSubscription
  <1> QED
    BY <1>1, StaleInductive, PTL

=============================================================================
