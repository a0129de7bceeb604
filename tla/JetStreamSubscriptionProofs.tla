-------------------- MODULE JetStreamSubscriptionProofs --------------------
(***************************************************************************)
(* Proofs about JetStreamSubscription, for every set of event types, sinks *)
(* and failure kinds, any number of managers, and all bounds.              *)
(***************************************************************************)
EXTENDS JetStreamSubscription, TLAPS

-----------------------------------------------------------------------------
(***************************************************************************)
(* The inductive invariant.                                                *)
(***************************************************************************)

Syncing == {"connect", "syncTypes"}

Deleting == {"connectToDelete", "delete", "deleteConsumers"}

CacheOK == 0 \in fresh => cached = sub

\* A worker whose copy carries the latest resourceVersion knows the event types
\* of the spec, and it deletes consumers only in a deletion.
Informed(m) ==
  /\ worker[m].pc \in Syncing => worker[m].status.types = sub.spec.types
  /\ worker[m].pc \in Deleting => sub.deleting

FreshInv == CacheOK /\ \A m \in Manager : m \in fresh => Informed(m)

\* A backend b that was not stopped has the sink whenever its worker w subscribes
\* or has subscribed, and no subscription when the sink is forgotten.
SinkOK(b, w) ==
  b.phase # "stopped" =>
    /\ \A s \in Subject : b.subscribers[s] = "valid" => b.sink # NoSink
    /\ w.pc = "syncConsumers" => b.sink # NoSink
    /\ w.pc = "delete" => \A s \in Subject : b.subscribers[s] = "valid" => s \in w.todo
    /\ w.pc = "deleteConsumers" => \A s \in Subject : b.subscribers[s] # "valid"

SinkInv == \A m \in Manager : SinkOK(js[m], worker[m])

\* Managers are started one after the other, and cleaned up once stopped.
PhaseInv ==
  \A m \in Manager :
    /\ m > starts => js[m].phase = "new"
    /\ js[m].cleanup => js[m].phase = "stopped"

IInv == TypeOK /\ FreshInv /\ SinkInv /\ PhaseInv

-----------------------------------------------------------------------------
(***************************************************************************)
(* Types of the building blocks.                                           *)
(***************************************************************************)

\* There is a specification.
LEMMA AnySpecType == AnySpec \in SubSpec
  <1>1. PICK k \in Sink, n \in MaxInFlight : TRUE
    BY SpecsAssumption
  <1>2. [types |-> {}, sink |-> k, max |-> n, valid |-> FALSE] \in SubSpec
    BY DEF SubSpec
  <1> QED
    BY <1>2 DEF AnySpec

\* What a run starts with is well typed.
LEMMA NewTypes ==
  /\ NewSubStatus \in SubStatus /\ NoSubscription \in Subscription
  /\ NewBackend \in Backend /\ IdleWorker \in Worker
  <1>1. NewSubStatus \in SubStatus
    BY DEF NewSubStatus, SubStatus
  <1>2. NoSubscription \in Subscription
    BY <1>1, AnySpecType DEF NoSubscription, Subscription
  <1>3. NewBackend \in Backend
    BY DEF NewBackend, Backend, Subscriber
  <1>4. IdleWorker \in Worker
    BY <1>1, AnySpecType DEF IdleWorker, Worker, Step
  <1> QED
    BY <1>1, <1>2, <1>3, <1>4

\* Failures stay within their bound.
LEMMA FaultType ==
  ASSUME TypeOK, (\E kind \in {"api", "status", "nats", "outage"} : Fault(kind)) \/ UNCHANGED faults
  PROVE  faults' \in 0..MaxFaults
  BY JSBoundsAssumption DEF Fault, TypeOK

\* The server lets go of a consumer and keeps it.
LEMMA UnboundType ==
  ASSUME TypeOK, NEW m \in Manager, NEW s \in Subject
  PROVE  /\ Unbound(m, s) \in Consumer \cup {NoConsumer}
         /\ consumers[s] # NoConsumer => Unbound(m, s) # NoConsumer
  <1>1. consumers[s] \in Consumer \cup {NoConsumer} /\ 0 \in 0..MaxStarts
    BY JSBoundsAssumption DEF TypeOK
  <1>2. ASSUME consumers[s] \in Consumer
        PROVE  [consumers[s] EXCEPT !.bound = 0] \in Consumer
    BY <1>1, <1>2 DEF Consumer
  <1> QED
    BY <1>1, <1>2, NoConsumerAssumption DEF Unbound

\* A consumer that is found, created, updated or bound is a consumer.
LEMMA FoundType ==
  ASSUME TypeOK, NEW m \in Manager, NEW s \in Subject
  PROVE  /\ FoundOrCreated(m, s) \in Consumer
         /\ [FoundOrCreated(m, s) EXCEPT !.max = worker[m].spec.max] \in Consumer
         /\ [FoundOrCreated(m, s) EXCEPT !.bound = m] \in Consumer
         /\ [max |-> worker[m].spec.max, bound |-> m] \in Consumer
  <1>1. /\ consumers[s] \in Consumer \cup {NoConsumer} /\ 0 \in 0..MaxStarts
        /\ m \in 0..MaxStarts /\ worker[m].spec.max \in MaxInFlight
    BY JSBoundsAssumption DEF TypeOK, Manager, Worker, SubSpec
  <1>2. FoundOrCreated(m, s) \in Consumer
    BY <1>1 DEF FoundOrCreated, Consumer
  <1> HIDE DEF FoundOrCreated
  <1> QED
    BY <1>1, <1>2 DEF Consumer

\* A backend whose connection is closed has no valid subscription.
LEMMA ClosedType ==
  ASSUME NEW b \in Backend
  PROVE  /\ Closed(b) \in Backend /\ Closed(b).phase = b.phase /\ Closed(b).cleanup = b.cleanup
         /\ Closed(b).sink = b.sink
         /\ \A s \in Subject : Closed(b).subscribers[s] # "valid"
  <1> DEFINE subs == [s \in Subject |-> IF b.subscribers[s] = "valid" THEN "invalid" ELSE b.subscribers[s]]
  <1>1. subs \in [Subject -> Subscriber] /\ \A s \in Subject : subs[s] # "valid"
    BY DEF Backend, Subscriber
  <1>2. Closed(b) = [b EXCEPT !.conn = "closed", !.subscribers = subs]
    BY DEF Closed
  <1> HIDE DEF subs
  <1> QED
    BY <1>1, <1>2 DEF Backend

-----------------------------------------------------------------------------
(***************************************************************************)
(* What the ends of an action do to the workers.                           *)
(***************************************************************************)

\* Worker m has made a step, the others have not.
Steps(m) ==
  /\ worker' \in [Manager -> Worker]
  /\ \A k \in Manager : k # m => worker'[k] = worker[k]

\* After an error a worker writes the status.
LEMMA FailSteps ==
  ASSUME TypeOK, NEW m \in Manager, Fail(m)
  PROVE  /\ Steps(m) /\ worker'[m].pc = "status" /\ ~worker'[m].status.ready
         /\ worker'[m].spec = worker[m].spec /\ worker'[m].queued = worker[m].queued
  <1> DEFINE st == [worker[m].status EXCEPT !.ready = FALSE]
             new == [worker[m] EXCEPT !.status = st, !.result = "error", !.pc = "status"]
  <1>1. worker \in [Manager -> Worker] /\ worker[m] \in Worker /\ "status" \in Step
    BY DEF TypeOK, Step
  <1>2. st \in SubStatus /\ ~st.ready
    BY <1>1 DEF Worker, SubStatus
  <1>3. worker' = [worker EXCEPT ![m] = new]
    BY DEF Fail
  <1> HIDE DEF st
  <1>4. /\ new \in Worker /\ new.pc = "status" /\ new.status = st
        /\ new.spec = worker[m].spec /\ new.queued = worker[m].queued
    BY <1>1, <1>2 DEF Worker
  <1> HIDE DEF new
  <1> QED
    BY <1>1, <1>2, <1>3, <1>4 DEF Steps

\* A worker whose Reconcile returns is idle.
LEMMA ReturnSteps ==
  ASSUME TypeOK, NEW m \in Manager, NEW again \in BOOLEAN, Return(m, again)
  PROVE  /\ Steps(m) /\ worker'[m].pc = "idle" /\ worker'[m].spec = worker[m].spec
         /\ worker'[m].queued = (worker[m].queued \/ (again /\ js[m].phase = "running"))
  <1> DEFINE q == worker[m].queued \/ (again /\ js[m].phase = "running")
             new == [worker[m] EXCEPT !.pc = "idle", !.queued = q]
  <1>1. worker \in [Manager -> Worker] /\ worker[m] \in Worker /\ "idle" \in Step
    BY DEF TypeOK, Step
  <1>2. q \in BOOLEAN
    BY <1>1 DEF Worker
  <1>3. worker' = [worker EXCEPT ![m] = new]
    BY DEF Return
  <1> HIDE DEF q
  <1>4. /\ new \in Worker /\ new.pc = "idle" /\ new.spec = worker[m].spec /\ new.queued = q
    BY <1>1, <1>2 DEF Worker
  <1> HIDE DEF new
  <1>5. Steps(m) /\ worker'[m] = new
    BY <1>1, <1>3, <1>4 DEF Steps
  <1> QED
    BY <1>4, <1>5 DEF q

\* A worker that goes on keeps the status it computed.
LEMMA GotoSteps ==
  ASSUME TypeOK, NEW m \in Manager, NEW step \in Step, NEW todo \in SUBSET Subject,
         Goto(m, step, todo)
  PROVE  /\ Steps(m) /\ worker'[m].pc = step /\ worker'[m].todo = todo
         /\ worker'[m].status = worker[m].status /\ worker'[m].spec = worker[m].spec
         /\ worker'[m].queued = worker[m].queued
  <1> DEFINE new == [worker[m] EXCEPT !.pc = step, !.todo = todo]
  <1>1. worker \in [Manager -> Worker] /\ worker[m] \in Worker
    BY DEF TypeOK
  <1>2. worker' = [worker EXCEPT ![m] = new]
    BY DEF Goto
  <1>3. /\ new \in Worker /\ new.pc = step /\ new.todo = todo /\ new.status = worker[m].status
        /\ new.spec = worker[m].spec /\ new.queued = worker[m].queued
    BY <1>1 DEF Worker
  <1> HIDE DEF new
  <1> QED
    BY <1>1, <1>2, <1>3 DEF Steps

\* A loop has one element less to visit.
LEMMA VisitedSteps ==
  ASSUME TypeOK, NEW m \in Manager, NEW s, Visited(m, s)
  PROVE  /\ Steps(m) /\ worker'[m].pc = worker[m].pc
         /\ worker'[m].todo = worker[m].todo \ {s}
         /\ worker'[m].status = worker[m].status /\ worker'[m].spec = worker[m].spec
         /\ worker'[m].queued = worker[m].queued
  <1> DEFINE todo == worker[m].todo \ {s}
             new == [worker[m] EXCEPT !.todo = todo]
  <1>1. worker \in [Manager -> Worker] /\ worker[m] \in Worker
    BY DEF TypeOK
  <1>2. worker' = [worker EXCEPT ![m] = new]
    BY DEF Visited
  <1>3. todo \in SUBSET Subject
    BY <1>1 DEF Worker
  <1> HIDE DEF todo
  <1>4. /\ new \in Worker /\ new.pc = worker[m].pc /\ new.todo = todo
        /\ new.status = worker[m].status /\ new.spec = worker[m].spec
        /\ new.queued = worker[m].queued
    BY <1>1, <1>3 DEF Worker
  <1> HIDE DEF new
  <1> QED
    BY <1>1, <1>2, <1>4 DEF Steps, todo

-----------------------------------------------------------------------------
(***************************************************************************)
(* Steps of a worker between Fetch and the status update.                  *)
(***************************************************************************)

\* v follows w without new knowledge of the resource.
Follows(w, v) ==
  /\ v.pc \in Syncing => w.pc \in Syncing /\ v.status.types = w.status.types
  /\ v.pc \in Deleting => w.pc \in Deleting

Local(m) ==
  /\ UNCHANGED <<resource, services, natsUp, edits, starts, stops, crashes>>
  /\ faults' \in 0..MaxFaults
  /\ consumers' \in [Subject -> Consumer \cup {NoConsumer}]
  /\ js' \in [Manager -> Backend]
  /\ \A k \in Manager : k # m => js'[k] = js[k]
  /\ js'[m].phase = js[m].phase /\ js'[m].cleanup = js[m].cleanup
  /\ Steps(m) /\ Follows(worker[m], worker'[m]) /\ SinkOK(js'[m], worker'[m])

\* A step of one worker on its own backend keeps the invariant.
LEMMA LocalSafe ==
  ASSUME IInv, NEW m \in Manager, Local(m)
  PROVE  IInv'
  <1>1. TypeOK'
    BY DEF IInv, TypeOK, Local, Steps, resource
  <1>2. FreshInv'
    BY DEF IInv, FreshInv, CacheOK, Informed, Local, Steps, Follows, resource
  <1>3. SinkInv'
    BY DEF IInv, SinkInv, Local, Steps
  <1>4. PhaseInv'
    BY DEF IInv, PhaseInv, Local
  <1> QED
    BY <1>1, <1>2, <1>3, <1>4 DEF IInv

\* A worker that ends its work has no more duties.
LEMMA EndFollows ==
  ASSUME IInv, NEW m \in Manager, worker'[m].pc \in {"status", "idle", "removeFinalizer"},
         js'[m].phase # "stopped" =>
           \A s \in Subject : js'[m].subscribers[s] = "valid" => js'[m].sink # NoSink
  PROVE  Follows(worker[m], worker'[m]) /\ SinkOK(js'[m], worker'[m])
  BY DEF Follows, SinkOK, Syncing, Deleting

\* What a worker and its backend hold.
LEMMA LocalTypes ==
  ASSUME IInv, NEW m \in Manager
  PROVE  /\ TypeOK /\ js \in [Manager -> Backend] /\ js[m] \in Backend
         /\ worker[m] \in Worker /\ worker[m].todo \in SUBSET Subject
         /\ worker[m].status.types \in SUBSET Subject
         /\ worker[m].spec \in SubSpec /\ worker[m].spec.sink \in Sink
         /\ worker[m].result \in {"done", "error"}
         /\ consumers \in [Subject -> Consumer \cup {NoConsumer}]
         /\ SinkOK(js[m], worker[m])
  BY DEF IInv, TypeOK, Worker, SubStatus, SubSpec, SinkInv

\* Backend m changes its own entry: the map of the others is not touched.
SameBackend(m) ==
  /\ js' \in [Manager -> Backend]
  /\ \A k \in Manager : k # m => js'[k] = js[k]
  /\ js'[m].phase = js[m].phase /\ js'[m].cleanup = js[m].cleanup

\* A backend changes one entry of js.subscriptions.
LEMMA SubscriberSet ==
  ASSUME TypeOK, NEW m \in Manager, NEW s \in Subject, NEW v \in Subscriber,
         js' = [js EXCEPT ![m].subscribers[s] = v]
  PROVE  /\ SameBackend(m) /\ js'[m].sink = js[m].sink /\ js'[m].subscribers[s] = v
         /\ \A x \in Subject : x # s => js'[m].subscribers[x] = js[m].subscribers[x]
  <1> DEFINE subs == [js[m].subscribers EXCEPT ![s] = v]
             new == [js[m] EXCEPT !.subscribers = subs]
  <1>1. js \in [Manager -> Backend] /\ js[m] \in Backend
        /\ js[m].subscribers \in [Subject -> Subscriber]
    BY DEF TypeOK, Backend
  <1>2. /\ subs \in [Subject -> Subscriber] /\ subs[s] = v
        /\ \A x \in Subject : x # s => subs[x] = js[m].subscribers[x]
    BY <1>1
  <1>3. js' = [js EXCEPT ![m] = new]
    OBVIOUS
  <1> HIDE DEF subs
  <1>4. /\ new \in Backend /\ new.subscribers = subs /\ new.sink = js[m].sink
        /\ new.phase = js[m].phase /\ new.cleanup = js[m].cleanup
    BY <1>1, <1>2 DEF Backend
  <1> HIDE DEF new
  <1> QED
    BY <1>1, <1>2, <1>3, <1>4 DEF SameBackend

\* A backend changes its entry of js.sinks.
LEMMA SinkSet ==
  ASSUME TypeOK, NEW m \in Manager, NEW k \in Sink \cup {NoSink}, js' = [js EXCEPT ![m].sink = k]
  PROVE  SameBackend(m) /\ js'[m].sink = k /\ js'[m].subscribers = js[m].subscribers
  <1> DEFINE new == [js[m] EXCEPT !.sink = k]
  <1>1. js \in [Manager -> Backend] /\ js[m] \in Backend
    BY DEF TypeOK
  <1>2. /\ new \in Backend /\ new.subscribers = js[m].subscribers /\ new.sink = k
        /\ new.phase = js[m].phase /\ new.cleanup = js[m].cleanup
    BY <1>1 DEF Backend
  <1> HIDE DEF new
  <1>3. js' = [js EXCEPT ![m] = new]
    BY DEF new
  <1> QED
    BY <1>1, <1>2, <1>3 DEF SameBackend

\* A backend opens a connection.
LEMMA ConnSet ==
  ASSUME TypeOK, NEW m \in Manager, js' = [js EXCEPT ![m].conn = "connected"]
  PROVE  SameBackend(m) /\ js'[m].sink = js[m].sink /\ js'[m].subscribers = js[m].subscribers
  <1> DEFINE new == [js[m] EXCEPT !.conn = "connected"]
  <1>1. js \in [Manager -> Backend] /\ js[m] \in Backend
    BY DEF TypeOK
  <1>2. /\ new \in Backend /\ new.subscribers = js[m].subscribers /\ new.sink = js[m].sink
        /\ new.phase = js[m].phase /\ new.cleanup = js[m].cleanup
    BY <1>1 DEF Backend
  <1> HIDE DEF new
  <1>3. js' = [js EXCEPT ![m] = new]
    BY DEF new
  <1> QED
    BY <1>1, <1>2, <1>3 DEF SameBackend

\* checkJetStreamConnection connects or fails, in every operation that starts with it.
LEMMA CheckJetStreamConnectionSafe ==
  ASSUME IInv, NEW m \in Manager, CheckJetStreamConnection(m)
  PROVE  IInv'
  <1>0. /\ TypeOK /\ js \in [Manager -> Backend] /\ SinkOK(js[m], worker[m])
        /\ consumers' \in [Subject -> Consumer \cup {NoConsumer}]
        /\ worker[m].pc \in ConnectSteps
    BY LocalTypes DEF CheckJetStreamConnection
  <1>f. faults' \in 0..MaxFaults
    BY <1>0, FaultType DEF CheckJetStreamConnection
  <1>u. UNCHANGED <<resource, services, natsUp, edits, starts, stops, crashes>>
    BY DEF CheckJetStreamConnection
  <1>1. CASE js' = [js EXCEPT ![m].conn = "connected"] /\ Goto(m, AfterConnect(worker[m].pc), Keys(m))
    <2>1. SameBackend(m) /\ js'[m].sink = js[m].sink /\ js'[m].subscribers = js[m].subscribers
      BY <1>0, <1>1, ConnSet
    <2>2. /\ AfterConnect(worker[m].pc) \in {"syncTypes", "deleteSubs", "delete"}
          /\ AfterConnect(worker[m].pc) = "syncTypes" => worker[m].pc = "connect"
          /\ AfterConnect(worker[m].pc) = "delete" => worker[m].pc = "connectToDelete"
      BY <1>0 DEF AfterConnect, ConnectSteps
    <2>3. Keys(m) \in SUBSET Subject /\ AfterConnect(worker[m].pc) \in Step
      BY <2>2 DEF Keys, Step
    <2>4. /\ Steps(m) /\ worker'[m].pc = AfterConnect(worker[m].pc)
          /\ worker'[m].todo = Keys(m) /\ worker'[m].status = worker[m].status
      BY <1>0, <1>1, <2>3, GotoSteps
    <2>5. Follows(worker[m], worker'[m])
      BY <2>2, <2>4 DEF Follows, Syncing, Deleting
    <2>6. SinkOK(js'[m], worker'[m])
      BY <1>0, <2>1, <2>2, <2>4 DEF SinkOK, Keys, SameBackend
    <2>7. Local(m)
      BY <1>0, <1>f, <1>u, <2>1, <2>4, <2>5, <2>6 DEF Local, SameBackend
    <2> QED
      BY <2>7, LocalSafe
  <1>2. CASE js' = js /\ (Return(m, TRUE) \/ Fail(m))
    <2>1. Steps(m) /\ worker'[m].pc \in {"idle", "status"}
      BY <1>0, <1>2, ReturnSteps, FailSteps
    <2>2. Follows(worker[m], worker'[m]) /\ SinkOK(js'[m], worker'[m])
      BY <1>0, <1>2, <2>1, EndFollows DEF SinkOK
    <2>3. Local(m)
      BY <1>0, <1>f, <1>u, <1>2, <2>1, <2>2 DEF Local
    <2> QED
      BY <2>3, LocalSafe
  <1> QED
    BY <1>1, <1>2 DEF CheckJetStreamConnection

\* What a request to delete the subscription of a type may have done.
Removal(m, s) ==
  /\ SameBackend(m) /\ js'[m].sink = js[m].sink
  /\ js'[m].subscribers[s] \in {js[m].subscribers[s], "none", "invalid"}
  /\ \A x \in Subject : x # s => js'[m].subscribers[x] = js[m].subscribers[x]
  /\ consumers' \in [Subject -> Consumer \cup {NoConsumer}]

\* Deleting one subscription, wholly, in part or not at all.
LEMMA RemovalTypes ==
  ASSUME IInv, NEW m \in Manager, NEW s \in Subject,
         \/ DeleteSubscriptionFromJetStream(m, s) \/ DeleteSubscriptionFails(m, s)
         \/ UNCHANGED <<js, consumers>>
  PROVE  Removal(m, s)
  <1>0. TypeOK /\ consumers \in [Subject -> Consumer \cup {NoConsumer}]
        /\ js \in [Manager -> Backend]
    BY LocalTypes
  <1>1. CASE UNCHANGED <<js, consumers>>
    BY <1>0, <1>1 DEF Removal, SameBackend
  <1>2. CASE DeleteSubscriptionFromJetStream(m, s)
    BY <1>0, <1>2, SubscriberSet DEF DeleteSubscriptionFromJetStream, Removal, Subscriber
  <1>3. CASE consumers' = [consumers EXCEPT ![s] = Unbound(m, s)]
             /\ js' = [js EXCEPT ![m].subscribers[s] = "invalid"]
    BY <1>0, <1>3, SubscriberSet, UnboundType DEF Removal, Subscriber
  <1> QED
    BY <1>1, <1>2, <1>3 DEF DeleteSubscriptionFails

\* No removal makes a subscription valid: the sink may stay what it is.
LEMMA RemovalEnds ==
  ASSUME IInv, NEW m \in Manager, NEW s \in Subject, Removal(m, s),
         worker'[m].pc \in {"status", "idle", "removeFinalizer"}
  PROVE  Follows(worker[m], worker'[m]) /\ SinkOK(js'[m], worker'[m])
  <1>1. SinkOK(js[m], worker[m])
    BY LocalTypes
  <1>2. js'[m].phase # "stopped" =>
          \A x \in Subject : js'[m].subscribers[x] = "valid" => js'[m].sink # NoSink
    BY <1>1 DEF SinkOK, Removal, SameBackend
  <1> QED
    BY <1>2, EndFollows

\* The first pass of SyncSubscription drops what the spec does not name.
LEMMA SyncSubscriptionEventTypeSafe ==
  ASSUME IInv, NEW m \in Manager, SyncSubscriptionEventType(m)
  PROVE  IInv'
  <1>0. TypeOK /\ SinkOK(js[m], worker[m]) /\ worker[m].todo \in SUBSET Subject
        /\ worker[m].pc = "syncTypes"
    BY LocalTypes DEF SyncSubscriptionEventType
  <1>f. faults' \in 0..MaxFaults
    BY <1>0, FaultType
       DEF SyncSubscriptionEventType, CallFails, DeleteSubscriptionFails
  <1>u. UNCHANGED <<resource, services, natsUp, edits, starts, stops, crashes>>
    BY DEF SyncSubscriptionEventType
  <1>1. PICK s \in worker[m].todo :
          /\ \/ DeleteSubscriptionFromJetStream(m, s) \/ DeleteSubscriptionFails(m, s)
             \/ UNCHANGED <<js, consumers>>
          /\ Visited(m, s) \/ Fail(m)
    BY DEF SyncSubscriptionEventType
  <1>s. s \in Subject
    BY <1>0
  <1>2. Removal(m, s)
    BY <1>1, <1>s, RemovalTypes
  <1>3. /\ Steps(m) /\ Follows(worker[m], worker'[m]) /\ SinkOK(js'[m], worker'[m])
    <2>1. CASE Fail(m)
      BY <1>0, <1>2, <1>s, <2>1, FailSteps, RemovalEnds
    <2>2. CASE Visited(m, s)
      <3>1. /\ Steps(m) /\ worker'[m].pc = "syncTypes" /\ worker'[m].status = worker[m].status
        BY <1>0, <2>2, VisitedSteps
      <3>2. Follows(worker[m], worker'[m])
        BY <1>0, <3>1 DEF Follows, Syncing, Deleting
      <3>3. SinkOK(js'[m], worker'[m])
        BY <1>0, <1>2, <3>1 DEF SinkOK, Removal, SameBackend
      <3> QED
        BY <3>1, <3>2, <3>3
    <2> QED
      BY <1>1, <2>1, <2>2
  <1>4. Local(m)
    BY <1>f, <1>u, <1>2, <1>3 DEF Local, Removal, SameBackend
  <1> QED
    BY <1>4, LocalSafe

\* The sink is stored before the second pass.
LEMMA StoreSinkSafe ==
  ASSUME IInv, NEW m \in Manager, StoreSink(m)
  PROVE  IInv'
  <1>0. /\ TypeOK /\ worker[m].spec.sink \in Sink
        /\ worker[m].status.types \in SUBSET Subject /\ worker[m].pc = "syncTypes"
        /\ consumers' \in [Subject -> Consumer \cup {NoConsumer}]
    BY LocalTypes DEF StoreSink
  <1>1. SameBackend(m) /\ js'[m].sink = worker[m].spec.sink
    BY <1>0, SinkSet DEF StoreSink
  <1>2. Steps(m) /\ worker'[m].pc = "syncConsumers"
    BY <1>0, GotoSteps DEF StoreSink, Step
  <1>3. js'[m].sink # NoSink
    BY <1>0, <1>1, NoSinkAssumption
  <1>4. Follows(worker[m], worker'[m]) /\ SinkOK(js'[m], worker'[m])
    BY <1>2, <1>3 DEF Follows, SinkOK, Syncing, Deleting
  <1>5. Local(m)
    BY <1>0, <1>1, <1>2, <1>4 DEF Local, SameBackend, StoreSink, TypeOK
  <1> QED
    BY <1>5, LocalSafe

\* The second pass creates, updates and binds consumers.
LEMMA SyncConsumerAndSubscriptionSafe ==
  ASSUME IInv, NEW m \in Manager, SyncConsumerAndSubscription(m)
  PROVE  IInv'
  <1>0. /\ TypeOK /\ SinkOK(js[m], worker[m]) /\ worker[m].todo \in SUBSET Subject
        /\ worker[m].pc = "syncConsumers" /\ js \in [Manager -> Backend]
        /\ consumers \in [Subject -> Consumer \cup {NoConsumer}]
    BY LocalTypes DEF SyncConsumerAndSubscription
  <1>f. faults' \in 0..MaxFaults
    BY <1>0, FaultType DEF SyncConsumerAndSubscription, CallFails
  <1>u. UNCHANGED <<resource, services, natsUp, edits, starts, stops, crashes>>
    BY DEF SyncConsumerAndSubscription
  <1>1. PICK s \in worker[m].todo :
          /\ \/ UNCHANGED consumers
             \/ consumers' = [consumers EXCEPT ![s] = FoundOrCreated(m, s)]
             \/ consumers' = [consumers EXCEPT ![s] = [FoundOrCreated(m, s) EXCEPT !.max = worker[m].spec.max]]
             \/ consumers' = [consumers EXCEPT ![s] = [FoundOrCreated(m, s) EXCEPT !.bound = m]]
             \/ consumers' = [consumers EXCEPT ![s] = [max |-> worker[m].spec.max, bound |-> m]]
          /\ UNCHANGED js \/ js' = [js EXCEPT ![m].subscribers[s] = "valid"]
          /\ Visited(m, s) \/ Fail(m)
    BY DEF SyncConsumerAndSubscription
  <1>s. s \in Subject
    BY <1>0
  <1>2. consumers' \in [Subject -> Consumer \cup {NoConsumer}]
    <2>1. \E c \in Consumer : consumers' \in {consumers, [consumers EXCEPT ![s] = c]}
      BY <1>0, <1>1, <1>s, FoundType
    <2> QED
      BY <1>0, <2>1
  <1>3. SameBackend(m) /\ js'[m].sink = js[m].sink
    BY <1>0, <1>1, <1>s, SubscriberSet DEF SameBackend, Subscriber
  <1>4. js'[m].phase # "stopped" => js'[m].sink # NoSink
    BY <1>0, <1>3 DEF SinkOK, SameBackend
  <1>5. Steps(m) /\ worker'[m].pc \in {"syncConsumers", "status"}
    BY <1>0, <1>1, VisitedSteps, FailSteps
  <1>6. Follows(worker[m], worker'[m]) /\ SinkOK(js'[m], worker'[m])
    BY <1>4, <1>5 DEF Follows, SinkOK, Syncing, Deleting
  <1>7. Local(m)
    BY <1>f, <1>u, <1>2, <1>3, <1>5, <1>6 DEF Local, SameBackend
  <1> QED
    BY <1>7, LocalSafe

\* SyncSubscription returns.
LEMMA SyncedSafe ==
  ASSUME IInv, NEW m \in Manager, Synced(m)
  PROVE  IInv'
  <1> DEFINE st == [worker[m].status EXCEPT !.ready = TRUE]
             new == [worker[m] EXCEPT !.pc = "status", !.status = st]
  <1>0. /\ TypeOK /\ SinkOK(js[m], worker[m]) /\ worker[m] \in Worker
        /\ worker \in [Manager -> Worker] /\ "status" \in Step
    BY LocalTypes DEF TypeOK, Step
  <1>1. st \in SubStatus
    BY <1>0 DEF Worker, SubStatus
  <1>2. worker' = [worker EXCEPT ![m] = new]
    BY DEF Synced
  <1> HIDE DEF st
  <1>3. new \in Worker /\ new.pc = "status"
    BY <1>0, <1>1 DEF Worker
  <1> HIDE DEF new
  <1>4. Steps(m) /\ worker'[m].pc = "status"
    BY <1>0, <1>2, <1>3 DEF Steps
  <1>5. Follows(worker[m], worker'[m]) /\ SinkOK(js'[m], worker'[m])
    BY <1>0, <1>4, EndFollows DEF SinkOK, Synced
  <1>6. Local(m)
    BY <1>0, <1>4, <1>5 DEF Local, Synced, TypeOK
  <1> QED
    BY <1>6, LocalSafe

\* DeleteSubscriptionsOnly and the first loop of DeleteSubscription.
LEMMA DeleteSubscriptionsOnlySafe ==
  ASSUME IInv, NEW m \in Manager, DeleteSubscriptionsOnly(m)
  PROVE  IInv'
  <1>0. /\ TypeOK /\ SinkOK(js[m], worker[m]) /\ worker[m].todo \in SUBSET Subject
        /\ worker[m].pc = "deleteSubs" /\ js \in [Manager -> Backend]
        /\ consumers \in [Subject -> Consumer \cup {NoConsumer}]
    BY LocalTypes DEF DeleteSubscriptionsOnly
  <1>f. faults' \in 0..MaxFaults
    BY <1>0, FaultType DEF DeleteSubscriptionsOnly
  <1>u. UNCHANGED <<resource, services, natsUp, edits, starts, stops, crashes>>
    BY DEF DeleteSubscriptionsOnly
  <1>1. CASE UNCHANGED <<js, consumers>> /\ (Return(m, TRUE) \/ Goto(m, "status", {}))
    <2>r. Return(m, TRUE) => Steps(m) /\ worker'[m].pc = "idle"
      BY <1>0, ReturnSteps
    <2>g. Goto(m, "status", {}) => Steps(m) /\ worker'[m].pc = "status"
      <3>1. "status" \in Step /\ {} \in SUBSET Subject
        BY DEF Step
      <3> QED
        BY <1>0, <3>1, GotoSteps
    <2>1. Steps(m) /\ worker'[m].pc \in {"idle", "status"}
      BY <1>1, <2>r, <2>g
    <2>2. Follows(worker[m], worker'[m]) /\ SinkOK(js'[m], worker'[m])
      BY <1>0, <1>1, <2>1, EndFollows DEF SinkOK
    <2>3. Local(m)
      BY <1>0, <1>f, <1>u, <1>1, <2>1, <2>2 DEF Local
    <2> QED
      BY <2>3, LocalSafe
  <1>2. ASSUME NEW s \in worker[m].todo, consumers' = [consumers EXCEPT ![s] = Unbound(m, s)],
               js' = [js EXCEPT ![m].subscribers[s] = "none"], Visited(m, s)
        PROVE  IInv'
    <2>s. s \in Subject
      BY <1>0
    <2>1. /\ SameBackend(m) /\ js'[m].sink = js[m].sink /\ js'[m].subscribers[s] = "none"
          /\ \A x \in Subject : x # s => js'[m].subscribers[x] = js[m].subscribers[x]
      BY <1>0, <1>2, <2>s, SubscriberSet DEF Subscriber
    <2>2. consumers' \in [Subject -> Consumer \cup {NoConsumer}]
      BY <1>0, <1>2, <2>s, UnboundType
    <2>3. Steps(m) /\ worker'[m].pc = "deleteSubs"
      BY <1>0, <1>2, VisitedSteps
    <2>4. Follows(worker[m], worker'[m]) /\ SinkOK(js'[m], worker'[m])
      BY <1>0, <2>1, <2>3 DEF Follows, SinkOK, Syncing, Deleting, SameBackend
    <2>5. Local(m)
      BY <1>f, <1>u, <2>1, <2>2, <2>3, <2>4 DEF Local, SameBackend
    <2> QED
      BY <2>5, LocalSafe
  <1> QED
    BY <1>1, <1>2 DEF DeleteSubscriptionsOnly

\* The first loop: what is still subscribed is still to be visited.
LEMMA DeleteSubscriptionSafe ==
  ASSUME IInv, NEW m \in Manager, DeleteSubscription(m)
  PROVE  IInv'
  <1>0. /\ TypeOK /\ SinkOK(js[m], worker[m]) /\ worker[m].todo \in SUBSET Subject
        /\ worker[m].pc = "delete" /\ js \in [Manager -> Backend]
        /\ consumers \in [Subject -> Consumer \cup {NoConsumer}]
        /\ worker[m].status.types \in SUBSET Subject
    BY LocalTypes DEF DeleteSubscription
  <1>f. faults' \in 0..MaxFaults
    BY <1>0, FaultType DEF DeleteSubscription, DeleteSubscriptionFails, CallFails
  <1>u. UNCHANGED <<resource, services, natsUp, edits, starts, stops, crashes>>
    BY DEF DeleteSubscription
  <1>1. ASSUME NEW s \in worker[m].todo, DeleteSubscriptionFromJetStream(m, s), Visited(m, s)
        PROVE  IInv'
    <2>s. s \in Subject
      BY <1>0
    <2>1. Removal(m, s)
      BY <1>1, <2>s, RemovalTypes
    <2>2. js'[m].subscribers[s] = "none"
      BY <1>0, <1>1, <2>s, SubscriberSet DEF DeleteSubscriptionFromJetStream, Subscriber
    <2>3. Steps(m) /\ worker'[m].pc = "delete" /\ worker'[m].todo = worker[m].todo \ {s}
      BY <1>0, <1>1, VisitedSteps
    <2>4. Follows(worker[m], worker'[m])
      BY <1>0, <2>3 DEF Follows, Syncing, Deleting
    <2>5. SinkOK(js'[m], worker'[m])
      BY <1>0, <2>1, <2>2, <2>3 DEF SinkOK, Removal, SameBackend
    <2>6. Local(m)
      BY <1>f, <1>u, <2>1, <2>3, <2>4, <2>5 DEF Local, Removal, SameBackend
    <2> QED
      BY <2>6, LocalSafe
  <1>2. ASSUME NEW s \in worker[m].todo, DeleteSubscriptionFails(m, s), Fail(m)
        PROVE  IInv'
    <2>s. s \in Subject
      BY <1>0
    <2>1. Removal(m, s)
      BY <1>2, <2>s, RemovalTypes
    <2>2. Steps(m) /\ worker'[m].pc = "status"
      BY <1>0, <1>2, FailSteps
    <2>3. Follows(worker[m], worker'[m]) /\ SinkOK(js'[m], worker'[m])
      BY <2>s, <2>1, <2>2, RemovalEnds
    <2>4. Local(m)
      BY <1>f, <1>u, <2>1, <2>2, <2>3 DEF Local, Removal, SameBackend
    <2> QED
      BY <2>4, LocalSafe
  <1>3. CASE /\ worker[m].todo = {} /\ Goto(m, "deleteConsumers", worker[m].status.types)
             /\ UNCHANGED <<js, consumers>>
    <2>1. Steps(m) /\ worker'[m].pc = "deleteConsumers"
      BY <1>0, <1>3, GotoSteps DEF Step
    <2>2. Follows(worker[m], worker'[m]) /\ SinkOK(js'[m], worker'[m])
      BY <1>0, <1>3, <2>1 DEF Follows, SinkOK, Syncing, Deleting
    <2>3. Local(m)
      BY <1>0, <1>f, <1>u, <1>3, <2>1, <2>2 DEF Local
    <2> QED
      BY <2>3, LocalSafe
  <1> QED
    BY <1>1, <1>2, <1>3 DEF DeleteSubscription

\* The second loop of DeleteSubscription: the sink goes after the last subscription.
LEMMA DeleteConsumersSafe ==
  ASSUME IInv, NEW m \in Manager, DeleteConsumers(m)
  PROVE  IInv'
  <1>0. /\ TypeOK /\ SinkOK(js[m], worker[m]) /\ worker[m].todo \in SUBSET Subject
        /\ worker[m].pc = "deleteConsumers" /\ js \in [Manager -> Backend]
        /\ consumers \in [Subject -> Consumer \cup {NoConsumer}]
    BY LocalTypes DEF DeleteConsumers
  <1>f. faults' \in 0..MaxFaults
    BY <1>0, FaultType DEF DeleteConsumers, CallFails
  <1>u. UNCHANGED <<resource, services, natsUp, edits, starts, stops, crashes>>
    BY DEF DeleteConsumers
  <1>1. ASSUME NEW s \in worker[m].todo, Visited(m, s) \/ Fail(m), UNCHANGED js,
               consumers' \in {consumers, [consumers EXCEPT ![s] = NoConsumer]}
        PROVE  IInv'
    <2>1. Steps(m) /\ worker'[m].pc \in {"deleteConsumers", "status"}
      BY <1>0, <1>1, VisitedSteps, FailSteps
    <2>2. Follows(worker[m], worker'[m]) /\ SinkOK(js'[m], worker'[m])
      BY <1>0, <1>1, <2>1 DEF Follows, SinkOK, Syncing, Deleting
    <2>3. consumers' \in [Subject -> Consumer \cup {NoConsumer}]
      BY <1>0, <1>1
    <2>4. Local(m)
      BY <1>0, <1>f, <1>u, <1>1, <2>1, <2>2, <2>3 DEF Local
    <2> QED
      BY <2>4, LocalSafe
  <1>2. CASE /\ js' = [js EXCEPT ![m].sink = NoSink] /\ Goto(m, "removeFinalizer", {})
             /\ UNCHANGED consumers
    <2>1. SameBackend(m) /\ js'[m].subscribers = js[m].subscribers
      BY <1>0, <1>2, SinkSet
    <2>2. Steps(m) /\ worker'[m].pc = "removeFinalizer"
      BY <1>0, <1>2, GotoSteps DEF Step
    <2>3. Follows(worker[m], worker'[m]) /\ SinkOK(js'[m], worker'[m])
      BY <1>0, <2>1, <2>2, EndFollows DEF SinkOK, SameBackend
    <2>4. Local(m)
      BY <1>0, <1>f, <1>u, <1>2, <2>1, <2>2, <2>3 DEF Local, SameBackend
    <2> QED
      BY <2>4, LocalSafe
  <1> QED
    BY <1>1, <1>2 DEF DeleteConsumers

-----------------------------------------------------------------------------
(***************************************************************************)
(* The first and the last steps of Reconcile.                              *)
(***************************************************************************)

\* A reconciliation that starts from the latest version is informed.
LEMMA FetchSafe ==
  ASSUME IInv, NEW m \in Manager, NEW step \in Step, NEW st \in SubStatus, Fetch(m, step, st),
         faults' \in 0..MaxFaults,
         step \notin {"syncConsumers", "delete", "deleteConsumers"},
         step \in Syncing => st.types = cached.spec.types,
         step \in Deleting => cached.deleting
  PROVE  IInv'
  <1> DEFINE new == [pc |-> step, queued |-> FALSE, spec |-> cached.spec, status |-> st,
                     todo |-> {}, result |-> "done"]
  <1>0. TypeOK /\ worker \in [Manager -> Worker] /\ cached.spec \in SubSpec /\ SinkInv
    BY DEF IInv, TypeOK, Subscription
  <1>1. worker' = [worker EXCEPT ![m] = new]
    BY DEF Fetch
  <1>2. new \in Worker /\ new.pc = step /\ new.status = st
    BY <1>0 DEF Worker
  <1> HIDE DEF new
  <1>3. Steps(m) /\ worker'[m] = new
    BY <1>0, <1>1, <1>2 DEF Steps
  <1>4. TypeOK'
    BY <1>0, <1>3 DEF TypeOK, Steps, Fetch
  <1>z. 0 \notin Manager
    BY DEF Manager
  <1>5. FreshInv'
    <2>1. CacheOK'
      BY <1>z DEF IInv, FreshInv, CacheOK, Fetch
    <2>2. ASSUME NEW k \in Manager, k # m, k \in fresh'
          PROVE  Informed(k)'
      BY <1>3, <2>2 DEF IInv, FreshInv, Informed, Steps, Fetch
    <2>3. ASSUME m \in fresh'
          PROVE  Informed(m)'
      <3>1. cached = sub
        BY <2>3 DEF Fetch, IInv, FreshInv, CacheOK
      <3> QED
        BY <1>2, <1>3, <3>1 DEF Informed, Fetch
    <2> QED
      BY <2>1, <2>2, <2>3 DEF FreshInv
  <1>6. SinkInv'
    BY <1>0, <1>2, <1>3 DEF SinkInv, SinkOK, Steps, Fetch
  <1>7. PhaseInv'
    BY DEF IInv, PhaseInv, Fetch
  <1> QED
    BY <1>4, <1>5, <1>6, <1>7 DEF IInv

\* The Subscription cannot be read.
LEMMA GetFailsSafe ==
  ASSUME IInv, NEW m \in Manager, GetFails(m)
  PROVE  IInv'
  <1> DEFINE q == js[m].phase = "running"
             new == [worker[m] EXCEPT !.queued = q]
  <1>0. TypeOK /\ SinkOK(js[m], worker[m]) /\ worker[m] \in Worker
        /\ worker \in [Manager -> Worker] /\ worker[m].pc = "idle"
    BY LocalTypes DEF TypeOK, GetFails
  <1>f. faults' \in 0..MaxFaults
    BY <1>0, FaultType DEF GetFails
  <1>1. q \in BOOLEAN
    OBVIOUS
  <1>2. worker' = [worker EXCEPT ![m] = new]
    BY DEF GetFails
  <1> HIDE DEF q
  <1>3. new \in Worker /\ new.pc = "idle"
    BY <1>0, <1>1 DEF Worker
  <1> HIDE DEF new
  <1>4. Steps(m) /\ worker'[m].pc = "idle"
    BY <1>0, <1>2, <1>3 DEF Steps
  <1>5. Follows(worker[m], worker'[m]) /\ SinkOK(js'[m], worker'[m])
    BY <1>0, <1>4, EndFollows DEF SinkOK, GetFails
  <1>6. Local(m)
    BY <1>0, <1>f, <1>4, <1>5 DEF Local, GetFails, TypeOK
  <1> QED
    BY <1>6, LocalSafe

\* Reconcile, up to its first call after the read.
LEMMA ReconcileSafe ==
  ASSUME IInv, NEW m \in Manager, Reconcile(m)
  PROVE  IInv'
  <1>0. TypeOK /\ cached \in Subscription /\ cached.status \in SubStatus /\ cached.spec \in SubSpec
    BY DEF IInv, TypeOK, Subscription
  <1>f. faults' \in 0..MaxFaults
    BY <1>0, FaultType
       DEF Reconcile, GetFails, ReconcileNothing, ReconcileDeletion, ReconcileNew,
           ReconcileInvalidSpec, ReconcileInvalidSink, ReconcileValid, ServiceMissing
  <1>1. CASE GetFails(m)
    BY <1>1, GetFailsSafe
  <1>2. CASE ReconcileNothing(m)
    BY <1>0, <1>2, <1>f, FetchSafe DEF ReconcileNothing, Step, Syncing, Deleting
  <1>3. CASE ReconcileDeletion(m)
    BY <1>0, <1>3, <1>f, FetchSafe DEF ReconcileDeletion, Step, Syncing, Deleting
  <1>4. CASE ReconcileNew(m)
    BY <1>0, <1>4, <1>f, FetchSafe DEF ReconcileNew, Step, Syncing, Deleting
  <1>5. CASE ReconcileInvalidSpec(m)
    BY <1>5, <1>f, NewTypes, FetchSafe DEF ReconcileInvalidSpec, Step, Syncing, Deleting
  <1>6. CASE ReconcileInvalidSink(m)
    BY <1>6, <1>f, NewTypes, FetchSafe DEF ReconcileInvalidSink, Step, Syncing, Deleting
  <1>7. CASE ReconcileValid(m)
    <2> DEFINE st == [cached.status EXCEPT !.types = cached.spec.types]
    <2>1. st \in SubStatus /\ st.types = cached.spec.types
      BY <1>0 DEF SubStatus, SubSpec
    <2>2. Fetch(m, "connect", st)
      BY <1>7 DEF ReconcileValid
    <2> HIDE DEF st
    <2> QED
      BY <1>f, <2>1, <2>2, FetchSafe DEF Step, Syncing, Deleting
  <1> QED
    BY <1>1, <1>2, <1>3, <1>4, <1>5, <1>6, <1>7 DEF Reconcile

\* After a write nobody has the latest version.
LEMMA WriteSafe ==
  ASSUME IInv, NEW m \in Manager, sub' \in Subscription,
         fresh' = {} \/ UNCHANGED <<sub, fresh>>,
         UNCHANGED <<cached, services, natsUp, consumers, js, edits, starts, stops, crashes>>,
         faults' \in 0..MaxFaults, Steps(m), worker'[m].pc = "idle"
  PROVE  IInv'
  <1>1. TypeOK'
    BY DEF IInv, TypeOK, Steps
  <1>2. FreshInv'
    BY DEF IInv, FreshInv, CacheOK, Informed, Steps, Syncing, Deleting
  <1>3. SinkInv'
    BY DEF IInv, SinkInv, SinkOK, Steps
  <1>4. PhaseInv'
    BY DEF IInv, PhaseInv
  <1> QED
    BY <1>1, <1>2, <1>3, <1>4 DEF IInv

\* The finalizer is added and the reconciliation ends.
LEMMA AddFinalizerSafe ==
  ASSUME IInv, NEW m \in Manager, AddFinalizer(m)
  PROVE  IInv'
  <1>0. TypeOK /\ sub \in Subscription
    BY DEF IInv, TypeOK
  <1>f. faults' \in 0..MaxFaults
    BY <1>0, FaultType DEF AddFinalizer
  <1>1. [sub EXCEPT !.finalizer = TRUE] \in Subscription
    BY <1>0 DEF Subscription
  <1>2. sub' \in Subscription /\ (fresh' = {} \/ UNCHANGED <<sub, fresh>>)
    BY <1>0, <1>1 DEF AddFinalizer, Write
  <1>3. Steps(m) /\ worker'[m].pc = "idle"
    BY <1>0, ReturnSteps DEF AddFinalizer
  <1> QED
    BY <1>f, <1>2, <1>3, WriteSafe DEF AddFinalizer

\* The finalizer is removed.
LEMMA RemoveFinalizerSafe ==
  ASSUME IInv, NEW m \in Manager, RemoveFinalizer(m)
  PROVE  IInv'
  <1>0. TypeOK /\ sub \in Subscription
    BY DEF IInv, TypeOK
  <1>f. faults' \in 0..MaxFaults
    BY <1>0, FaultType DEF RemoveFinalizer
  <1>2. sub' \in Subscription /\ (fresh' = {} \/ UNCHANGED <<sub, fresh>>)
    BY <1>0, NewTypes DEF RemoveFinalizer, Write
  <1>3. Steps(m) /\ worker'[m].pc = "idle"
    BY <1>0, ReturnSteps DEF RemoveFinalizer
  <1> QED
    BY <1>f, <1>2, <1>3, WriteSafe DEF RemoveFinalizer

\* The status is written.
LEMMA UpdateSubscriptionStatusSafe ==
  ASSUME IInv, NEW m \in Manager, UpdateSubscriptionStatus(m)
  PROVE  IInv'
  <1>0. TypeOK /\ sub \in Subscription /\ worker[m].status \in SubStatus
    BY DEF IInv, TypeOK, Worker
  <1>f. faults' \in 0..MaxFaults
    BY <1>0, FaultType DEF UpdateSubscriptionStatus
  <1>1. [sub EXCEPT !.status = worker[m].status] \in Subscription
    BY <1>0 DEF Subscription
  <1>2. sub' \in Subscription /\ (fresh' = {} \/ UNCHANGED <<sub, fresh>>)
    BY <1>0, <1>1 DEF UpdateSubscriptionStatus, Write
  <1>3. \E again \in BOOLEAN : Return(m, again)
    BY DEF UpdateSubscriptionStatus
  <1>4. Steps(m) /\ worker'[m].pc = "idle"
    BY <1>0, <1>3, ReturnSteps
  <1> QED
    BY <1>f, <1>2, <1>4, WriteSafe DEF UpdateSubscriptionStatus

\* Every step of a worker keeps the invariant.
LEMMA WorkerStepSafe ==
  ASSUME IInv, NEW m \in Manager, WorkerStep(m)
  PROVE  IInv'
  BY ReconcileSafe, AddFinalizerSafe, CheckJetStreamConnectionSafe,
     SyncSubscriptionEventTypeSafe, StoreSinkSafe, SyncConsumerAndSubscriptionSafe, SyncedSafe,
     UpdateSubscriptionStatusSafe, DeleteSubscriptionsOnlySafe, DeleteSubscriptionSafe,
     DeleteConsumersSafe, RemoveFinalizerSafe
     DEF WorkerStep

-----------------------------------------------------------------------------
(***************************************************************************)
(* The manager, the informer cache, users, the NATS server, the process.   *)
(***************************************************************************)

\* Requests may be queued; no worker makes a step.
SameWork ==
  /\ worker' \in [Manager -> Worker]
  /\ \A k \in Manager : /\ worker'[k].pc = worker[k].pc /\ worker'[k].status = worker[k].status
                        /\ worker'[k].todo = worker[k].todo

\* No backend is revived, none gets a subscription or loses its sink.
SameSinks ==
  /\ js' \in [Manager -> Backend]
  /\ \A k \in Manager : js'[k].phase # "stopped" =>
       /\ js[k].phase # "stopped" /\ js'[k].sink = js[k].sink
       /\ \A s \in Subject : js'[k].subscribers[s] = "valid" => js[k].subscribers[s] = "valid"

\* A step that leaves workers and resource alone keeps FreshInv.
LEMMA SameFresh ==
  ASSUME IInv, UNCHANGED resource, SameWork
  PROVE  FreshInv'
  BY DEF IInv, FreshInv, CacheOK, Informed, SameWork, resource

\* A step that leaves workers and sinks alone keeps SinkInv.
LEMMA SameSinkInv ==
  ASSUME IInv, SameWork, SameSinks
  PROVE  SinkInv'
  BY DEF IInv, SinkInv, SinkOK, SameWork, SameSinks

\* A request in the queue changes no work.
LEMMA QueuedWork ==
  ASSUME TypeOK, NEW m \in Manager, NEW q \in BOOLEAN, worker' = [worker EXCEPT ![m].queued = q]
  PROVE  SameWork
  <1> DEFINE new == [worker[m] EXCEPT !.queued = q]
  <1>1. worker \in [Manager -> Worker] /\ worker[m] \in Worker
    BY DEF TypeOK
  <1>2. worker' = [worker EXCEPT ![m] = new]
    OBVIOUS
  <1>3. /\ new \in Worker /\ new.pc = worker[m].pc /\ new.status = worker[m].status
        /\ new.todo = worker[m].todo
    BY <1>1 DEF Worker
  <1> HIDE DEF new
  <1> QED
    BY <1>1, <1>2, <1>3 DEF SameWork

\* Nor do requests in all queues.
LEMMA EnqueuedWork ==
  ASSUME TypeOK, worker' = Enqueued
  PROVE  SameWork
  <1>1. worker \in [Manager -> Worker]
    BY DEF TypeOK
  <1>2. ASSUME NEW k \in Manager
        PROVE  LET new == [worker[k] EXCEPT !.queued = TRUE] IN
               /\ new \in Worker /\ new.pc = worker[k].pc /\ new.status = worker[k].status
               /\ new.todo = worker[k].todo
    BY <1>1 DEF Worker
  <1> QED
    BY <1>1, <1>2 DEF Enqueued, SameWork

\* The server lets go of all consumers of a manager.
LEMMA UnboundAll ==
  ASSUME TypeOK, NEW m \in Manager, consumers' = [s \in Subject |-> Unbound(m, s)]
  PROVE  consumers' \in [Subject -> Consumer \cup {NoConsumer}]
  BY UnboundType

\* A manager starts with an empty backend and an idle worker.
LEMMA StartSafe ==
  ASSUME IInv, Start
  PROVE  IInv'
  <1> DEFINE n == starts + 1
             new == [js[n] EXCEPT !.phase = "running", !.conn = "connected"]
  <1>0. /\ TypeOK /\ n \in Manager /\ n \in 0..MaxStarts /\ n > starts
        /\ js \in [Manager -> Backend] /\ cached.present \in BOOLEAN
        /\ starts \in Nat
    BY JSBoundsAssumption DEF IInv, TypeOK, Start, Manager, Subscription
  <1>u. /\ UNCHANGED <<resource, services, natsUp, edits, faults, stops, crashes>>
        /\ starts' = n /\ js' = [js EXCEPT ![n] = new] /\ consumers' = ValidConsumers
        /\ worker' = [worker EXCEPT ![n].queued = cached.present]
        /\ \A k \in Manager : ~js[k].cleanup
    BY DEF Start
  <1>1. js[n].phase = "new" /\ js[n] \in Backend
    BY <1>0 DEF IInv, PhaseInv
  <1>2. /\ new \in Backend /\ new.phase = "running" /\ new.cleanup = js[n].cleanup
        /\ new.sink = js[n].sink /\ new.subscribers = js[n].subscribers
    BY <1>1 DEF Backend
  <1>3. SameWork
    BY <1>0, <1>u, QueuedWork
  <1>4. consumers' \in [Subject -> Consumer \cup {NoConsumer}]
    BY <1>0, <1>u DEF ValidConsumers, TypeOK
  <1>n. \A k \in Manager : k > n => k # n /\ k > starts
    BY <1>0 DEF Manager
  <1> HIDE DEF new, n
  <1>5. SameSinks
    BY <1>0, <1>u, <1>1, <1>2 DEF SameSinks
  <1>6. TypeOK'
    BY <1>0, <1>u, <1>3, <1>4, <1>5 DEF TypeOK, SameWork, SameSinks, resource
  <1>7. PhaseInv'
    <2>1. \A k \in Manager : k # n => js'[k] = js[k]
      BY <1>0, <1>u
    <2>2. js'[n] = new
      BY <1>0, <1>u
    <2>3. \A k \in Manager : ~js'[k].cleanup
      BY <1>0, <1>u, <1>2, <2>1, <2>2
    <2>4. \A k \in Manager : k > starts' => js'[k].phase = "new"
      BY <1>u, <1>n, <2>1 DEF IInv, PhaseInv
    <2> QED
      BY <2>3, <2>4 DEF PhaseInv
  <1> QED
    BY <1>u, <1>3, <1>5, <1>6, <1>7, SameFresh, SameSinkInv DEF IInv

\* Stop closes the connection and does not wait for the worker.
LEMMA StopSafe ==
  ASSUME IInv, NEW m \in Manager, Stop(m)
  PROVE  IInv'
  <1>0. TypeOK /\ js \in [Manager -> Backend] /\ js[m] \in Backend /\ worker[m] \in Worker
    BY DEF IInv, TypeOK
  <1>1. PICK cleanup \in BOOLEAN :
          js' = [js EXCEPT ![m] = [Closed(js[m]) EXCEPT !.phase = "stopped", !.cleanup = cleanup]]
    BY DEF Stop
  <1> DEFINE new == [Closed(js[m]) EXCEPT !.phase = "stopped", !.cleanup = cleanup]
  <1>2. new \in Backend /\ new.phase = "stopped"
    <2>1. Closed(js[m]) \in Backend
      BY <1>0, ClosedType
    <2> QED
      BY <2>1 DEF Backend
  <1>3. js' = [js EXCEPT ![m] = new]
    BY <1>1
  <1> HIDE DEF new
  <1>4. SameSinks
    BY <1>0, <1>2, <1>3 DEF SameSinks
  <1>5. SameWork
    <2>1. PICK q \in {worker[m].queued, worker[m].queued \/ cached.present} :
            worker' = [worker EXCEPT ![m].queued = q]
      BY DEF Stop
    <2>2. q \in BOOLEAN
      BY <1>0 DEF Worker
    <2> QED
      BY <1>0, <2>1, <2>2, QueuedWork
  <1>6. stops' \in 0..MaxStops
    BY <1>0, JSBoundsAssumption DEF Stop, TypeOK
  <1>7. TypeOK'
    BY <1>0, <1>4, <1>5, <1>6, UnboundAll DEF TypeOK, Stop, SameSinks, SameWork, resource
  <1>8. PhaseInv'
    BY <1>0, <1>2, <1>3 DEF IInv, PhaseInv, Stop
  <1>9. UNCHANGED resource
    BY DEF Stop
  <1> QED
    BY <1>4, <1>5, <1>7, <1>8, <1>9, SameFresh, SameSinkInv DEF IInv

\* cleanupv2 of a stopped manager, whose backend the invariant excuses.
LEMMA CleanupSafe ==
  ASSUME IInv, NEW m \in Manager, Cleanup(m)
  PROVE  IInv'
  <1>0. /\ TypeOK /\ js \in [Manager -> Backend] /\ js[m] \in Backend /\ sub \in Subscription
        /\ js[m].phase = "stopped" /\ consumers \in [Subject -> Consumer \cup {NoConsumer}]
    BY DEF IInv, TypeOK, PhaseInv, Cleanup
  <1>f. faults' \in 0..MaxFaults
    BY <1>0, FaultType DEF Cleanup
  <1> DEFINE b1 == [NewBackend EXCEPT !.phase = js[m].phase, !.conn = "connected"]
             b2 == [js[m] EXCEPT !.cleanup = FALSE]
  <1>1. b1 \in Backend /\ b1.phase = "stopped" /\ b2 \in Backend /\ b2.phase = "stopped"
    BY <1>0, NewTypes DEF Backend
  <1>2. js' = [js EXCEPT ![m] = b1] \/ js' = [js EXCEPT ![m] = b2]
    BY DEF Cleanup
  <1> HIDE DEF b1, b2
  <1>3. /\ js' \in [Manager -> Backend] /\ js'[m].phase = "stopped"
        /\ \A k \in Manager : k # m => js'[k] = js[k]
    BY <1>0, <1>1, <1>2
  <1>4. consumers' \in [Subject -> Consumer \cup {NoConsumer}]
    BY <1>0 DEF Cleanup
  <1>5. [sub EXCEPT !.status = NewSubStatus] \in Subscription
    BY <1>0, NewTypes DEF Subscription
  <1>6. sub' \in Subscription /\ (fresh' = {} \/ UNCHANGED <<sub, fresh>>)
    BY <1>0, <1>5 DEF Cleanup, Write
  <1>7. TypeOK'
    BY <1>0, <1>f, <1>3, <1>4, <1>6 DEF TypeOK, Cleanup
  <1>8. FreshInv'
    BY <1>6 DEF IInv, FreshInv, CacheOK, Informed, Cleanup
  <1>9. SinkInv'
    BY <1>3 DEF IInv, SinkInv, SinkOK, Cleanup
  <1>10. PhaseInv'
    BY <1>0, <1>3 DEF IInv, PhaseInv, Cleanup
  <1> QED
    BY <1>7, <1>8, <1>9, <1>10 DEF IInv

\* The closed connection invalidates subscriptions and fills the queue.
LEMMA HandleNatsConnCloseSafe ==
  ASSUME IInv, NEW m \in Manager, HandleNatsConnClose(m)
  PROVE  IInv'
  <1>0. TypeOK /\ js \in [Manager -> Backend] /\ js[m] \in Backend /\ worker[m] \in Worker
        /\ cached.present \in BOOLEAN
    BY DEF IInv, TypeOK, Subscription
  <1>1. /\ Closed(js[m]) \in Backend /\ Closed(js[m]).phase = js[m].phase
        /\ Closed(js[m]).cleanup = js[m].cleanup
        /\ Closed(js[m]).sink = js[m].sink
        /\ \A s \in Subject : Closed(js[m]).subscribers[s] # "valid"
    BY <1>0, ClosedType
  <1>2. js' = [js EXCEPT ![m] = Closed(js[m])]
    BY DEF HandleNatsConnClose
  <1>3. SameSinks
    BY <1>0, <1>1, <1>2 DEF SameSinks
  <1>4. SameWork
    <2> DEFINE q == worker[m].queued \/ (js[m].phase = "running" /\ cached.present)
    <2>1. q \in BOOLEAN
      BY <1>0 DEF Worker
    <2>2. worker' = [worker EXCEPT ![m].queued = q]
      BY DEF HandleNatsConnClose
    <2> HIDE DEF q
    <2> QED
      BY <1>0, <2>1, <2>2, QueuedWork
  <1>5. TypeOK'
    BY <1>0, <1>3, <1>4, UnboundAll DEF TypeOK, HandleNatsConnClose, SameSinks, SameWork, resource
  <1>6. PhaseInv'
    BY <1>0, <1>1, <1>2 DEF IInv, PhaseInv, HandleNatsConnClose
  <1>7. UNCHANGED resource
    BY DEF HandleNatsConnClose
  <1> QED
    BY <1>3, <1>4, <1>5, <1>6, <1>7, SameFresh, SameSinkInv DEF IInv

\* The informer and its resync.
LEMMA InformerSafe ==
  ASSUME IInv, InformerSync \/ Resync
  PROVE  IInv'
  <1>0. TypeOK /\ worker' = Enqueued /\ js' = js
    BY DEF IInv, InformerSync, Resync
  <1>1. SameWork
    BY <1>0, EnqueuedWork
  <1>2. SameSinks
    BY <1>0 DEF SameSinks, TypeOK
  <1>3. TypeOK'
    BY <1>0, <1>1 DEF TypeOK, SameWork, InformerSync, Resync, resource
  <1>4. FreshInv'
    <2>1. CASE Resync
      BY <1>1, <2>1, SameFresh DEF Resync
    <2>2. CASE InformerSync
      <3>1. 0 \notin Manager
        BY DEF Manager
      <3> QED
        BY <1>1, <2>2, <3>1 DEF IInv, FreshInv, CacheOK, Informed, SameWork, InformerSync
    <2> QED
      BY <2>1, <2>2
  <1>5. PhaseInv'
    BY <1>0 DEF IInv, PhaseInv, InformerSync, Resync
  <1> QED
    BY <1>1, <1>2, <1>3, <1>4, <1>5, SameSinkInv DEF IInv

\* Users write the Subscription and Services: copies are not the latest any more.
LEMMA UserSafe ==
  ASSUME IInv, User
  PROVE  IInv'
  <1>e. Edit
    BY DEF User, CreateSubscription, EditSubscription, UserDeletes, ChangeService
  <1>0. /\ TypeOK /\ sub \in Subscription
        /\ UNCHANGED <<cached, natsUp, consumers, js, worker, faults, starts, stops, crashes>>
    BY <1>e DEF IInv, TypeOK, Edit
  <1>1. edits' \in 0..MaxEdits
    BY <1>0, <1>e, JSBoundsAssumption DEF TypeOK, Edit
  <1>2. services' \subseteq Sink
    BY <1>0 DEF TypeOK, User, CreateSubscription, EditSubscription, UserDeletes, ChangeService
  <1>3. sub' \in Subscription /\ (fresh' = {} \/ UNCHANGED <<sub, fresh>>)
    <2>1. CASE CreateSubscription
      <3>1. PICK spec \in UserSpec : Write([NoSubscription EXCEPT !.present = TRUE, !.spec = spec])
        BY <2>1 DEF CreateSubscription
      <3>2. [NoSubscription EXCEPT !.present = TRUE, !.spec = spec] \in Subscription
        BY NewTypes DEF Subscription, UserSpec
      <3> QED
        BY <3>1, <3>2 DEF Write
    <2>2. CASE EditSubscription
      <3>1. PICK spec \in UserSpec : Write([sub EXCEPT !.spec = spec])
        BY <2>2 DEF EditSubscription
      <3>2. [sub EXCEPT !.spec = spec] \in Subscription
        BY <1>0 DEF Subscription, UserSpec
      <3> QED
        BY <3>1, <3>2 DEF Write
    <2>3. CASE UserDeletes
      <3>1. [sub EXCEPT !.deleting = TRUE] \in Subscription
        BY <1>0 DEF Subscription
      <3> QED
        BY <2>3, <3>1, NewTypes DEF UserDeletes, Write
    <2>4. CASE ChangeService
      BY <1>0, <2>4 DEF ChangeService
    <2> QED
      BY <2>1, <2>2, <2>3, <2>4 DEF User
  <1>4. TypeOK'
    BY <1>0, <1>1, <1>2, <1>3 DEF TypeOK
  <1>5. FreshInv'
    BY <1>0, <1>3 DEF IInv, FreshInv, CacheOK, Informed
  <1>6. SinkInv' /\ PhaseInv'
    BY <1>0 DEF IInv, SinkInv, SinkOK, PhaseInv
  <1> QED
    BY <1>4, <1>5, <1>6 DEF IInv

\* The NATS server goes, comes back, loses its storage, lets go of consumers.
LEMMA NatsSafe ==
  ASSUME IInv, NatsDown \/ NatsBack \/ ServerUnbinds
  PROVE  IInv'
  <1>0. /\ TypeOK /\ js \in [Manager -> Backend] /\ worker' = worker
        /\ UNCHANGED <<resource, services, edits, starts, stops, crashes>>
    BY DEF IInv, TypeOK, NatsDown, NatsBack, ServerUnbinds
  <1>f. faults' \in 0..MaxFaults
    BY <1>0, FaultType DEF NatsDown, NatsBack, ServerUnbinds
  <1>1. natsUp' \in BOOLEAN /\ consumers' \in [Subject -> Consumer \cup {NoConsumer}]
    <2>1. CASE NatsDown \/ NatsBack
      BY <1>0, <2>1 DEF TypeOK, NatsDown, NatsBack
    <2>2. CASE ServerUnbinds
      BY <1>0, <2>2, UnboundAll DEF TypeOK, ServerUnbinds
    <2> QED
      BY <2>1, <2>2
  <1>2. /\ js' \in [Manager -> Backend]
        /\ \A k \in Manager :
             /\ js'[k].phase = js[k].phase /\ js'[k].cleanup = js[k].cleanup
             /\ js'[k].sink = js[k].sink /\ js'[k].subscribers = js[k].subscribers
    <2>1. ASSUME NEW k \in Manager, NEW c \in {"connected", "reconnecting"}
          PROVE  LET new == [js[k] EXCEPT !.conn = c] IN
                 /\ new \in Backend /\ new.phase = js[k].phase /\ new.cleanup = js[k].cleanup
                 /\ new.sink = js[k].sink /\ new.subscribers = js[k].subscribers
      BY <1>0 DEF Backend
    <2>2. CASE NatsDown
      BY <1>0, <2>1, <2>2 DEF NatsDown
    <2>3. CASE NatsBack
      BY <1>0, <2>1, <2>3 DEF NatsBack
    <2>4. CASE ServerUnbinds
      BY <1>0, <2>4 DEF ServerUnbinds
    <2> QED
      BY <2>2, <2>3, <2>4
  <1>3. SameWork /\ SameSinks
    BY <1>0, <1>2 DEF SameWork, SameSinks, TypeOK
  <1>4. TypeOK'
    BY <1>0, <1>f, <1>1, <1>2 DEF TypeOK, resource
  <1>5. PhaseInv'
    BY <1>0, <1>2 DEF IInv, PhaseInv
  <1> QED
    BY <1>0, <1>3, <1>4, <1>5, SameFresh, SameSinkInv DEF IInv

\* A restart empties the backends.
LEMMA CrashSafe ==
  ASSUME IInv, Crash
  PROVE  IInv'
  <1>0. TypeOK /\ js \in [Manager -> Backend] /\ starts \in Nat
    BY JSBoundsAssumption DEF IInv, TypeOK
  <1> DEFINE dead == [NewBackend EXCEPT !.phase = "dead"]
  <1>1. /\ dead \in Backend /\ dead.phase = "dead" /\ dead.cleanup = FALSE
        /\ \A s \in Subject : dead.subscribers[s] # "valid"
    BY NewTypes DEF Backend, NewBackend
  <1>2. js' = [m \in Manager |-> IF m <= starts THEN dead ELSE js[m]]
    BY DEF Crash
  <1> HIDE DEF dead
  <1>3. worker' \in [Manager -> Worker] /\ \A k \in Manager : worker'[k].pc = "idle"
    BY NewTypes DEF Crash, IdleWorker
  <1>4. js' \in [Manager -> Backend]
        /\ \A k \in Manager : js'[k] = dead \/ (js'[k] = js[k] /\ k > starts)
    BY <1>0, <1>1, <1>2 DEF Manager
  <1>c. crashes' \in 0..MaxCrashes
    BY <1>0, JSBoundsAssumption DEF TypeOK, Crash
  <1>5. TypeOK'
    BY <1>0, <1>3, <1>4, <1>c DEF TypeOK, Crash
  <1>6. FreshInv'
    BY <1>3 DEF FreshInv, CacheOK, Informed, Crash, Manager
  <1>7. SinkInv'
    BY <1>1, <1>3, <1>4 DEF IInv, SinkInv, SinkOK
  <1>8. PhaseInv'
    <2>1. \A k \in Manager : k > starts => js'[k] = js[k]
      BY <1>0, <1>2 DEF Manager
    <2> QED
      BY <1>0, <1>1, <1>4, <2>1 DEF IInv, PhaseInv, Crash
  <1> QED
    BY <1>5, <1>6, <1>7, <1>8 DEF IInv

-----------------------------------------------------------------------------
(***************************************************************************)
(* Invariance.                                                             *)
(***************************************************************************)

\* The invariant holds initially.
LEMMA InitSafe ==
  ASSUME Init
  PROVE  IInv
  <1>1. /\ 0 \in 0..MaxEdits /\ 0 \in 0..MaxFaults /\ 0 \in 0..MaxStarts
        /\ 0 \in 0..MaxStops /\ 0 \in 0..MaxCrashes
    BY JSBoundsAssumption
  <1>2. TypeOK
    BY <1>1, NewTypes DEF Init, TypeOK
  <1>3. FreshInv
    BY DEF Init, FreshInv, CacheOK, Manager
  <1>4. SinkInv
    BY DEF Init, SinkInv, SinkOK, NewBackend, IdleWorker
  <1>5. PhaseInv
    BY DEF Init, PhaseInv, NewBackend
  <1> QED
    BY <1>2, <1>3, <1>4, <1>5 DEF IInv

\* It is inductive.
LEMMA NextSafe ==
  ASSUME IInv, [Next]_vars
  PROVE  IInv'
  <1>1. CASE UNCHANGED vars
    BY <1>1 DEF vars, resource, IInv, TypeOK, FreshInv, CacheOK, Informed, SinkInv, PhaseInv
  <1>2. CASE \E m \in Manager : WorkerStep(m) \/ Stop(m) \/ Cleanup(m) \/ HandleNatsConnClose(m)
    BY <1>2, WorkerStepSafe, StopSafe, CleanupSafe, HandleNatsConnCloseSafe
  <1>3. CASE Start \/ InformerSync \/ Resync \/ User
    BY <1>3, StartSafe, InformerSafe, UserSafe
  <1>4. CASE NatsDown \/ NatsBack \/ Crash \/ ServerUnbinds
    BY <1>4, NatsSafe, CrashSafe
  <1> QED
    BY <1>1, <1>2, <1>3, <1>4 DEF Next

\* It holds in every behaviour.
LEMMA Inductive == Spec => []IInv
  <1>1. Init => IInv
    BY InitSafe
  <1>2. IInv /\ [Next]_vars => IInv'
    BY NextSafe
  <1> QED
    BY <1>1, <1>2, PTL DEF Spec

\* Every variable keeps its type: Reconcile and the backend never work on a
\* Subscription, a consumer or an event type that is not there.
THEOREM TypeCorrect == Spec => []TypeOK
  <1>1. IInv => TypeOK
    BY DEF IInv
  <1> QED
    BY <1>1, Inductive, PTL

\* The callback of a subscription finds the sink in js.sinks, through outages,
\* failed calls, deletions and restarts, in every manager that was not stopped.
THEOREM SinkFound == Spec => []SinkKnown
  <1>1. IInv => SinkKnown
    BY DEF IInv, SinkInv, SinkOK, SinkKnown
  <1> QED
    BY <1>1, Inductive, PTL

-----------------------------------------------------------------------------
(***************************************************************************)
(* Consumers that are deleted.                                             *)
(***************************************************************************)

\* What NoMessageLoss demands of a step.
LossExcused ==
  \A s \in Existing :
    consumers'[s] = NoConsumer /\ natsUp /\ sub.present /\ ~sub.deleting /\ s \in sub.spec.types
    => \/ \E m \in Manager : js[m].cleanup
       \/ \E m \in Manager : worker'[m].todo # worker[m].todo /\ m \notin fresh
       \/ 0 \notin fresh

\* The step deletes no consumer.
Keeps == \A s \in Subject : consumers[s] # NoConsumer => consumers'[s] # NoConsumer

\* A step that deletes no consumer is excused.
LEMMA KeepsExcused ==
  ASSUME Keeps
  PROVE  LossExcused
  BY DEF Keeps, LossExcused, Existing

\* A worker that deletes consumer s and ticks it off.
LEMMA VisitExcused ==
  ASSUME IInv, NEW m \in Manager, NEW s \in worker[m].todo, Visited(m, s),
         \A x \in Subject : x # s /\ consumers[x] # NoConsumer => consumers'[x] # NoConsumer,
         m \in fresh => sub.deleting \/ s \notin sub.spec.types
  PROVE  LossExcused
  <1>1. worker'[m].todo = worker[m].todo \ {s}
    BY VisitedSteps DEF IInv
  <1>2. worker'[m].todo # worker[m].todo
    BY <1>1
  <1> QED
    BY <1>2 DEF LossExcused, Existing

\* The first pass deletes what the version it read does not name.
LEMMA SyncTypesExcused ==
  ASSUME IInv, NEW m \in Manager, SyncSubscriptionEventType(m)
  PROVE  LossExcused
  <1>0. /\ TypeOK /\ worker[m].todo \in SUBSET Subject /\ worker[m].pc = "syncTypes"
        /\ consumers \in [Subject -> Consumer \cup {NoConsumer}]
    BY LocalTypes DEF SyncSubscriptionEventType
  <1>1. m \in fresh => worker[m].status.types = sub.spec.types
    BY <1>0 DEF IInv, FreshInv, Informed, Syncing
  <1>2. PICK s \in worker[m].todo :
          \/ UNCHANGED consumers
          \/ consumers' = [consumers EXCEPT ![s] = Unbound(m, s)]
          \/ /\ ~Kept(m, s) /\ Visited(m, s)
             /\ consumers' = [consumers EXCEPT ![s] = NoConsumer]
    BY DEF SyncSubscriptionEventType, DeleteSubscriptionFromJetStream, DeleteSubscriptionFails
  <1>s. s \in Subject
    BY <1>0
  <1>3. CASE UNCHANGED consumers
    BY <1>3, KeepsExcused DEF Keeps
  <1>4. CASE consumers' = [consumers EXCEPT ![s] = Unbound(m, s)]
    BY <1>0, <1>s, <1>4, UnboundType, KeepsExcused DEF Keeps
  <1>5. CASE /\ ~Kept(m, s) /\ Visited(m, s)
             /\ consumers' = [consumers EXCEPT ![s] = NoConsumer]
    <2>1. \A x \in Subject : x # s /\ consumers[x] # NoConsumer => consumers'[x] # NoConsumer
      BY <1>0, <1>5
    <2>2. CASE consumers[s] = NoConsumer
      BY <2>1, <2>2, KeepsExcused DEF Keeps
    <2>3. CASE consumers[s] # NoConsumer
      <3>1. m \in fresh => s \notin sub.spec.types
        BY <1>1, <1>5, <2>3 DEF Kept
      <3> QED
        BY <1>5, <2>1, <3>1, VisitExcused
    <2> QED
      BY <2>2, <2>3
  <1> QED
    BY <1>2, <1>3, <1>4, <1>5

\* A deletion with the latest version is one of a Subscription that is going.
LEMMA DeletionExcused ==
  ASSUME IInv, NEW m \in Manager, DeleteSubscription(m) \/ DeleteConsumers(m)
  PROVE  LossExcused
  <1>0. /\ TypeOK /\ worker[m].todo \in SUBSET Subject /\ worker[m].pc \in Deleting
        /\ consumers \in [Subject -> Consumer \cup {NoConsumer}]
    BY LocalTypes DEF DeleteSubscription, DeleteConsumers, Deleting
  <1>1. m \in fresh => sub.deleting
    BY <1>0 DEF IInv, FreshInv, Informed
  <1>2. \/ UNCHANGED consumers
        \/ \E s \in worker[m].todo :
             \/ consumers' = [consumers EXCEPT ![s] = Unbound(m, s)]
             \/ Visited(m, s) /\ consumers' = [consumers EXCEPT ![s] = NoConsumer]
    BY DEF DeleteSubscription, DeleteConsumers, DeleteSubscriptionFromJetStream, DeleteSubscriptionFails
  <1>3. CASE UNCHANGED consumers
    BY <1>3, KeepsExcused DEF Keeps
  <1>4. ASSUME NEW s \in worker[m].todo, consumers' = [consumers EXCEPT ![s] = Unbound(m, s)]
        PROVE  LossExcused
    BY <1>0, <1>4, UnboundType, KeepsExcused DEF Keeps
  <1>5. ASSUME NEW s \in worker[m].todo, Visited(m, s),
               consumers' = [consumers EXCEPT ![s] = NoConsumer]
        PROVE  LossExcused
    <2>1. \A x \in Subject : x # s /\ consumers[x] # NoConsumer => consumers'[x] # NoConsumer
      BY <1>0, <1>5
    <2> QED
      BY <1>1, <1>5, <2>1, VisitExcused
  <1> QED
    BY <1>2, <1>3, <1>4, <1>5

\* The second pass deletes nothing.
LEMMA SyncConsumerKeeps ==
  ASSUME IInv, NEW m \in Manager, SyncConsumerAndSubscription(m)
  PROVE  Keeps
  <1>0. /\ TypeOK /\ worker[m].todo \in SUBSET Subject
        /\ consumers \in [Subject -> Consumer \cup {NoConsumer}]
    BY LocalTypes
  <1>1. PICK s \in worker[m].todo :
          \/ UNCHANGED consumers
          \/ consumers' = [consumers EXCEPT ![s] = FoundOrCreated(m, s)]
          \/ consumers' = [consumers EXCEPT ![s] = [FoundOrCreated(m, s) EXCEPT !.max = worker[m].spec.max]]
          \/ consumers' = [consumers EXCEPT ![s] = [FoundOrCreated(m, s) EXCEPT !.bound = m]]
          \/ consumers' = [consumers EXCEPT ![s] = [max |-> worker[m].spec.max, bound |-> m]]
    BY DEF SyncConsumerAndSubscription
  <1>2. PICK c \in Consumer : consumers' \in {consumers, [consumers EXCEPT ![s] = c]}
    BY <1>0, <1>1, FoundType
  <1>3. c # NoConsumer
    BY NoConsumerAssumption
  <1> QED
    BY <1>0, <1>2, <1>3 DEF Keeps

\* Letting go of a consumer does not delete it.
LEMMA UnboundKeeps ==
  ASSUME TypeOK, NEW m \in Manager,
         \/ consumers' = [s \in Subject |-> Unbound(m, s)]
         \/ \E s \in Subject : consumers' = [consumers EXCEPT ![s] = Unbound(m, s)]
         \/ UNCHANGED consumers
  PROVE  Keeps
  <1>1. consumers \in [Subject -> Consumer \cup {NoConsumer}]
    BY DEF TypeOK
  <1> QED
    BY <1>1, UnboundType DEF Keeps

\* DeleteInvalidConsumers at Start keeps what the Subscription names.
LEMMA StartExcused ==
  ASSUME IInv, Start
  PROVE  LossExcused
  <1>1. 0 \in fresh => cached = sub
    BY DEF IInv, FreshInv, CacheOK
  <1> QED
    BY <1>1 DEF Start, ValidConsumers, LossExcused, Existing

\* Every step of a worker is excused.
LEMMA WorkerStepExcused ==
  ASSUME IInv, NEW m \in Manager, WorkerStep(m)
  PROVE  LossExcused
  <1>0. TypeOK /\ worker[m].todo \in SUBSET Subject
    BY LocalTypes
  <1>1. CASE SyncSubscriptionEventType(m)
    BY <1>1, SyncTypesExcused
  <1>2. CASE DeleteSubscription(m) \/ DeleteConsumers(m)
    BY <1>2, DeletionExcused
  <1>3. CASE SyncConsumerAndSubscription(m)
    BY <1>3, SyncConsumerKeeps, KeepsExcused
  <1>4. CASE DeleteSubscriptionsOnly(m)
    <2>1. UNCHANGED consumers \/ \E s \in worker[m].todo :
            consumers' = [consumers EXCEPT ![s] = Unbound(m, s)]
      BY <1>4 DEF DeleteSubscriptionsOnly
    <2> QED
      BY <1>0, <2>1, UnboundKeeps, KeepsExcused
  <1>5. CASE UNCHANGED consumers
    BY <1>5, KeepsExcused DEF Keeps
  <1>6. CASE Reconcile(m)
    <2>1. UNCHANGED consumers
      BY <1>6 DEF Reconcile, GetFails, ReconcileNothing, ReconcileDeletion, ReconcileNew,
         ReconcileInvalidSpec, ReconcileInvalidSink, ReconcileValid, Fetch
    <2> QED
      BY <2>1, <1>5
  <1> QED
    BY <1>1, <1>2, <1>3, <1>4, <1>5, <1>6
       DEF WorkerStep, AddFinalizer, CheckJetStreamConnection, StoreSink, Synced,
           UpdateSubscriptionStatus, RemoveFinalizer

\* Every step is.
LEMMA NextExcused ==
  ASSUME IInv, Next
  PROVE  LossExcused
  <1>0. TypeOK
    BY DEF IInv
  <1>1. CASE \E m \in Manager : WorkerStep(m)
    BY <1>1, WorkerStepExcused
  <1>2. CASE \E m \in Manager : Cleanup(m)
    BY <1>2 DEF Cleanup, LossExcused
  <1>3. CASE \E m \in Manager : Stop(m) \/ HandleNatsConnClose(m)
    BY <1>0, <1>3, UnboundKeeps, KeepsExcused DEF Stop, HandleNatsConnClose
  <1>4. CASE Start
    BY <1>4, StartExcused
  <1>5. CASE UNCHANGED consumers
    BY <1>5, KeepsExcused DEF Keeps
  <1>6. CASE NatsBack
    BY <1>6 DEF NatsBack, LossExcused
  <1>7. CASE ServerUnbinds
    BY <1>0, <1>7, UnboundKeeps, KeepsExcused DEF ServerUnbinds
  <1> QED
    BY <1>1, <1>2, <1>3, <1>4, <1>5, <1>6, <1>7
       DEF Next, InformerSync, Resync, User, CreateSubscription, EditSubscription, UserDeletes,
           ChangeService, Edit, NatsDown, Crash

\* syncSubscriptionEventType, DeleteSubscription and DeleteInvalidConsumers delete a
\* consumer the Subscription names only on an old version of the Subscription,
\* in any order of workers of old and new managers.
THEOREM NoLoss == Spec => NoMessageLoss
  <1>1. IInv /\ [Next]_vars => [LossExcused]_vars
    BY NextExcused
  <1> QED
    BY <1>1, Inductive, PTL DEF Spec, NoMessageLoss, LossExcused

=============================================================================
