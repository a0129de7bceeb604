--------------------------- MODULE EventDelivery ---------------------------
(***************************************************************************)
(* The delivery of events on the NATS backend: one consumer on the server, *)
(* the NATS subscription bound to it and its callback                      *)
(* (pkg/backend/jetstream/jetstream.go, getCallback). Every delivery of a   *)
(* message runs the callback in a goroutine of its own, side by side with  *)
(* the others and with late ones of the same message; the server hands out *)
(* a message again when it was not acknowledged in time.                   *)
(***************************************************************************)
EXTENDS Naturals, FiniteSets

CONSTANTS
  Msg,           \* the messages of the stream that match the consumer
  Bad,           \* those that cannot be converted to a CloudEvent
  MaxInFlight,   \* MaxAckPending of the consumer
  MaxDeliver,    \* jsConsumerMaxRedeliver: deliveries of a message
  FaultKinds,    \* the kinds of failure the environment may inject
  MaxFaults      \* bound: failures injected

ASSUME DeliveryAssumption ==
  /\ Bad \subseteq Msg
  /\ MaxDeliver \in Nat \ {0} /\ MaxFaults \in Nat /\ MaxInFlight \in Nat

VARIABLES
  state,      \* the messages, as the consumer sees them
  attempts,   \* how often the consumer handed out each
  consumer,   \* the consumer exists
  bound,      \* a NATS subscription is bound to it
  sinkKnown,  \* js.sinks has the sink of the Subscription
  copy,       \* where each delivery of each message is in the client
  received,   \* the messages the sink accepted
  faults

vars == <<state, attempts, consumer, bound, sinkKnown, copy, received, faults>>

-----------------------------------------------------------------------------
\* new: not handed out yet; pending: waits for an acknowledgement; delayed:
\* negatively acknowledged; due: to be handed out again; exhausted: given up.
MsgState == {"unpublished", "new", "pending", "delayed", "due", "acked", "exhausted"}

Unacked == {"pending", "delayed", "due"}

Delivery == 1..MaxDeliver

\* none: not handed out or over; queued: waits in the client; the others are
\* steps of the callback.
CopyStep == {"none", "queued", "load", "info", "send", "nak", "ack"}

TypeOK ==
  /\ state \in [Msg -> MsgState]
  /\ attempts \in [Msg -> 0..MaxDeliver]
  /\ consumer \in BOOLEAN /\ bound \in BOOLEAN /\ sinkKnown \in BOOLEAN
  /\ copy \in [Msg -> [Delivery -> CopyStep]]
  /\ received \subseteq Msg
  /\ faults \in 0..MaxFaults

NoCopies == [m \in Msg |-> [k \in Delivery |-> "none"]]

Init ==
  /\ state = [m \in Msg |-> "unpublished"]
  /\ attempts = [m \in Msg |-> 0]
  /\ consumer = TRUE /\ bound = FALSE /\ sinkKnown = FALSE
  /\ copy = NoCopies
  /\ received = {} /\ faults = 0

Fault(kind) ==
  /\ kind \in FaultKinds
  /\ faults < MaxFaults
  /\ faults' = faults + 1

-----------------------------------------------------------------------------
(***************************************************************************)
(* The NATS server.                                                        *)
(***************************************************************************)

Publish(m) ==
  /\ consumer /\ state[m] = "unpublished"
  /\ state' = [state EXCEPT ![m] = "new"]
  /\ UNCHANGED <<attempts, consumer, bound, sinkKnown, copy, received, faults>>

InFlight == {m \in Msg : state[m] \in Unacked}

\* Mutant: MaxDeliver is not part of the consumer configuration.
MayDeliverAgain(m) == TRUE

MayDeliver(m) == attempts[m] < MaxDeliver

\* MaxAckPending holds back what was not handed out yet.
Deliver(m) ==
  /\ consumer /\ bound /\ MayDeliver(m)
  /\ \/ state[m] = "due"
     \/ state[m] = "new" /\ Cardinality(InFlight) < MaxInFlight
  /\ state' = [state EXCEPT ![m] = "pending"]
  /\ attempts' = [attempts EXCEPT ![m] = @ + 1]
  /\ copy' = [copy EXCEPT ![m][attempts[m] + 1] = "queued"]
  /\ UNCHANGED <<consumer, bound, sinkKnown, received, faults>>

InClient(m) == \E k \in Delivery : copy[m][k] # "none"

\* What becomes of a message whose time is over.
Overdue(m) == IF MayDeliver(m) THEN "due" ELSE "exhausted"

\* AckWait is over. While a copy is still in the client, this is a failure:
\* the callback is slower than AckWait allows.
AckWaitElapsed(m) ==
  /\ consumer /\ state[m] = "pending"
  /\ IF InClient(m) THEN Fault("slow") ELSE UNCHANGED faults
  /\ state' = [state EXCEPT ![m] = Overdue(m)]
  /\ UNCHANGED <<attempts, consumer, bound, sinkKnown, copy, received>>

NakDelayElapsed(m) ==
  /\ consumer /\ state[m] = "delayed"
  /\ state' = [state EXCEPT ![m] = Overdue(m)]
  /\ UNCHANGED <<attempts, consumer, bound, sinkKnown, copy, received, faults>>

-----------------------------------------------------------------------------
(***************************************************************************)
(* The callback.                                                           *)
(***************************************************************************)

Goto(m, k, step) == copy' = [copy EXCEPT ![m][k] = step]

\* The callback returns; nothing is acknowledged by that.
Return(m, k) == Goto(m, k, "none")

\* asyncCallback starts a goroutine.
Callback(m, k) ==
  /\ copy[m][k] = "queued" /\ Goto(m, k, "load")
  /\ UNCHANGED <<state, attempts, consumer, bound, sinkKnown, received, faults>>

LoadSink(m, k) ==
  /\ copy[m][k] = "load"
  /\ IF sinkKnown THEN Goto(m, k, "info") ELSE Return(m, k)
  /\ UNCHANGED <<state, attempts, consumer, bound, sinkKnown, received, faults>>

\* Mutant: what cannot be converted is tried again at once.
ConvertAgain(m, k) ==
  /\ copy[m][k] = "info"
  /\ \/ consumer /\ Goto(m, k, IF m \in Bad THEN "load" ELSE "send") /\ UNCHANGED faults
     \/ ~consumer /\ Return(m, k) /\ UNCHANGED faults
     \/ consumer /\ Fault("info") /\ Return(m, k)
  /\ UNCHANGED <<state, attempts, consumer, bound, sinkKnown, received>>

\* ConsumerInfo asks the server; then the message is converted.
ConsumerInfoAndConvert(m, k) ==
  /\ copy[m][k] = "info"
  /\ \/ /\ consumer /\ UNCHANGED faults
        /\ IF m \in Bad THEN Return(m, k) ELSE Goto(m, k, "send")
     \/ ~consumer /\ Return(m, k) /\ UNCHANGED faults
     \/ consumer /\ Fault("info") /\ Return(m, k)
  /\ UNCHANGED <<state, attempts, consumer, bound, sinkKnown, received>>

\* Mutant: the event is dispatched, whatever the result.
SendUnchecked(m, k) ==
  /\ copy[m][k] = "send" /\ Goto(m, k, "ack")
  /\ \/ received' = received \cup {m} /\ UNCHANGED faults
     \/ Fault("send") /\ received' \in {received, received \cup {m}}
  /\ UNCHANGED <<state, attempts, consumer, bound, sinkKnown>>

\* The sink accepts the event, refuses it, or accepts it and the answer is lost.
Send(m, k) ==
  /\ copy[m][k] = "send"
  /\ \/ received' = received \cup {m} /\ Goto(m, k, "ack") /\ UNCHANGED faults
     \/ /\ Fault("send") /\ Goto(m, k, "nak")
        /\ received' \in {received, received \cup {m}}
  /\ UNCHANGED <<state, attempts, consumer, bound, sinkKnown>>

\* The answer to the server concerns a message it waits for, whichever delivery it
\* is about, or it has no effect; one that gets lost is not noticed or only logged.
Answer(m, k, step, from, to) ==
  /\ copy[m][k] = step
  /\ \/ /\ state' = [state EXCEPT ![m] = IF consumer /\ @ \in from THEN to ELSE @]
        /\ UNCHANGED faults
     \/ Fault("answer") /\ UNCHANGED state
  /\ Return(m, k)
  /\ UNCHANGED <<attempts, consumer, bound, sinkKnown, received>>

\* The delay is not measured: a late answer that starts it again changes nothing, and
\* a message whose delay is over stays due.
NakWithDelay(m, k) == Answer(m, k, "nak", {"pending"}, "delayed")

Ack(m, k) == Answer(m, k, "ack", Unacked, "acked")

-----------------------------------------------------------------------------
(***************************************************************************)
(* SyncSubscription, DeleteSubscription and DeleteSubscriptionsOnly, as    *)
(* far as the delivery goes, and the end of the process.                   *)
(***************************************************************************)

\* Mutant: the NATS subscription is bound before the sink is stored.
BindFirst ==
  /\ consumer /\ (~bound \/ ~sinkKnown)
  /\ bound' = TRUE /\ sinkKnown' = bound
  /\ UNCHANGED <<state, attempts, consumer, copy, received, faults>>

\* The sink is stored before the NATS subscription is bound.
SyncSubscription ==
  /\ consumer /\ ~bound
  /\ bound' = TRUE /\ sinkKnown' = TRUE
  /\ UNCHANGED <<state, attempts, consumer, copy, received, faults>>

\* Unsubscribe: what waits in the client is dropped, running callbacks go on.
Unsubscribed ==
  /\ bound' = FALSE
  /\ copy' = [m \in Msg |-> [k \in Delivery |->
                IF copy[m][k] = "queued" THEN "none" ELSE copy[m][k]]]

\* The Service of the sink is missing.
DeleteSubscriptionsOnly ==
  /\ consumer /\ bound /\ Fault("service") /\ Unsubscribed
  /\ UNCHANGED <<state, attempts, consumer, sinkKnown, received>>

DeleteSubscription ==
  /\ consumer /\ consumer' = FALSE /\ Unsubscribed
  /\ UNCHANGED <<state, attempts, sinkKnown, received, faults>>

\* ... and then its entry in js.sinks.
DeleteSink ==
  /\ ~consumer /\ sinkKnown /\ sinkKnown' = FALSE
  /\ UNCHANGED <<state, attempts, consumer, bound, copy, received, faults>>

Crash ==
  /\ Fault("crash") /\ bound' = FALSE /\ sinkKnown' = FALSE
  /\ copy' = NoCopies
  /\ UNCHANGED <<state, attempts, consumer, received>>

CallbackStep(m, k) ==
  \/ LoadSink(m, k) \/ ConsumerInfoAndConvert(m, k) \/ Send(m, k)
  \/ NakWithDelay(m, k) \/ Ack(m, k)

Next ==
  \/ \E m \in Msg :
       \/ Publish(m) \/ Deliver(m) \/ AckWaitElapsed(m) \/ NakDelayElapsed(m)
       \/ \E k \in Delivery : Callback(m, k) \/ CallbackStep(m, k)
  \/ SyncSubscription \/ DeleteSubscriptionsOnly \/ DeleteSubscription \/ DeleteSink \/ Crash

Spec == Init /\ [][Next]_vars

(***************************************************************************)
(* Fairness. The client calls back for what it holds and each goroutine    *)
(* goes on; timers run out; the server takes messages in the order of the  *)
(* stream, so that none is passed over forever; the reconciler binds a     *)
(* consumer again. Publishing, failures and deletions are not fair.        *)
(***************************************************************************)
Fairness ==
  /\ WF_vars(SyncSubscription)
  /\ \A m \in Msg :
       /\ SF_vars(Deliver(m))
       /\ WF_vars(AckWaitElapsed(m)) /\ WF_vars(NakDelayElapsed(m))
       /\ \A k \in Delivery : WF_vars(Callback(m, k) \/ CallbackStep(m, k))

FairSpec == Spec /\ Fairness

-----------------------------------------------------------------------------
(***************************************************************************)
(* Properties.                                                             *)
(***************************************************************************)

\* An event the consumer gives up without the sink ever having accepted it has
\* cost as many failures as MaxDeliver allows deliveries: no path through the
\* callback wastes a delivery by itself.
GivenUpOnlyAfterFailures ==
  \A m \in Msg \ (Bad \cup received) : state[m] = "exhausted" => faults >= MaxDeliver

\* The refinement: what a message is to the abstract specification.
FateOf(m) ==
  IF state[m] = "unpublished" THEN "unpublished"
  ELSE IF state[m] = "acked" THEN "done"
  ELSE IF state[m] = "exhausted" THEN "givenUp"
  ELSE IF consumer THEN "waiting" ELSE "deleted"

ALO == INSTANCE AtLeastOnce
         WITH fate <- [m \in Msg |-> FateOf(m)], failures <- faults

\* The callback, the NATS client and the server implement at-least-once
\* delivery: no event is acknowledged that the sink did not accept.
DeliversAtLeastOnce == ALO!Spec

\* Every published message is settled in the end, or its consumer is deleted: a
\* message that cannot be converted holds the others up only for a while.
EventsSettle ==
  \A m \in Msg :
    state[m] = "new" ~> (~consumer \/ state[m] = "acked" \/ state[m] = "exhausted")

=============================================================================
