------------------------ MODULE EventDeliveryProofs ------------------------
(***************************************************************************)
(* EventDelivery implements AtLeastOnce for every set of messages, every   *)
(* MaxDeliver, MaxInFlight and number of failures.                         *)
(***************************************************************************)
EXTENDS EventDelivery, FiniteSetTheorems, TLAPS

\* A NATS subscription is bound only to a consumer, with the sink stored, and
\* only a bound one has messages that wait; while there is a consumer, every
\* callback finds the sink.
Wired ==
  /\ bound => consumer /\ sinkKnown
  /\ \A m \in Msg, k \in Delivery :
       /\ copy[m][k] = "queued" => bound
       /\ copy[m][k] # "none" /\ consumer => sinkKnown

\* What is in the client was handed out, and only events are sent.
HandedOut ==
  /\ \A m \in Msg : state[m] \in {"unpublished", "new"} => attempts[m] = 0
  /\ \A m \in Msg, k \in Delivery :
       /\ copy[m][k] # "none" => k <= attempts[m]
       /\ copy[m][k] \in {"send", "nak", "ack"} => m \notin Bad

\* What is acknowledged, or about to be, was accepted by the sink.
AckedWereReceived ==
  \A m \in Msg :
    /\ state[m] = "acked" => m \in received
    /\ \A k \in Delivery : copy[m][k] = "ack" => m \in received

\* The deliveries of m whose callback is about to answer that it was not sent.
NakSet(c) == {k \in Delivery : c[k] = "nak"}

Naks(m) == NakSet(copy[m])

\* The last delivery may still succeed.
Open(m) == IF state[m] = "pending" /\ InClient(m) THEN 1 ELSE 0

\* Every delivery of an event the sink does not have was spent on a failure,
\* but for the one that is open; a failure that is still to be answered for has
\* not been charged yet.
Account(m) == attempts[m] + Cardinality(Naks(m)) <= faults + Open(m)

DeliveriesSpent == consumer => \A m \in Msg \ (Bad \cup received) : Account(m)

IInv ==
  /\ TypeOK /\ Wired /\ HandedOut /\ AckedWereReceived
  /\ DeliveriesSpent /\ GivenUpOnlyAfterFailures

-----------------------------------------------------------------------------
(***************************************************************************)
(* Lemmas on failures and on the copies in the client.                     *)
(***************************************************************************)

\* Failures stay within their bound and count.
LEMMA FaultType ==
  ASSUME TypeOK, NEW kind, Fault(kind)
  PROVE  faults' \in 0..MaxFaults /\ faults' = faults + 1
  BY DeliveryAssumption DEF TypeOK, Fault

\* There are finitely many deliveries to count.
LEMMA NakSetFinite ==
  ASSUME NEW c
  PROVE  IsFiniteSet(NakSet(c)) /\ Cardinality(NakSet(c)) \in Nat
<1>1. IsFiniteSet(Delivery)
  BY DeliveryAssumption, FS_Interval DEF Delivery
<1>2. IsFiniteSet(NakSet(c))
  BY <1>1, FS_Subset DEF NakSet
<1> QED BY <1>2, FS_CardinalityType

\* How many are about to answer, when one of them goes to another step.
LEMMA NakSetStep ==
  ASSUME NEW c \in [Delivery -> CopyStep], NEW d, NEW j \in Delivery, NEW step \in CopyStep,
         d = [c EXCEPT ![j] = step]
  PROVE  /\ c[j] # "nak" /\ step # "nak" => Cardinality(NakSet(d)) = Cardinality(NakSet(c))
         /\ c[j] # "nak" /\ step = "nak" => Cardinality(NakSet(d)) = Cardinality(NakSet(c)) + 1
         /\ c[j] = "nak" /\ step # "nak" => Cardinality(NakSet(d)) = Cardinality(NakSet(c)) - 1
<1>1. c[j] # "nak" /\ step # "nak" => NakSet(d) = NakSet(c)
  BY DEF NakSet
<1>2. c[j] # "nak" /\ step = "nak" => NakSet(d) = NakSet(c) \cup {j} /\ j \notin NakSet(c)
  BY DEF NakSet
<1>3. c[j] = "nak" /\ step # "nak" => NakSet(d) = NakSet(c) \ {j} /\ j \in NakSet(c)
  BY DEF NakSet
<1>4. IsFiniteSet(NakSet(c))
  BY NakSetFinite
<1>5. j \notin NakSet(c) => Cardinality(NakSet(c) \cup {j}) = Cardinality(NakSet(c)) + 1
  BY <1>4, FS_AddElement
<1>6. j \in NakSet(c) => Cardinality(NakSet(c) \ {j}) = Cardinality(NakSet(c)) - 1
  BY <1>4, FS_RemoveElement
<1> QED BY <1>1, <1>2, <1>3, <1>5, <1>6

\* One delivery of one message goes to another step.
LEMMA GotoCopy ==
  ASSUME TypeOK, NEW x \in Msg, NEW j \in Delivery, NEW step \in CopyStep, Goto(x, j, step)
  PROVE  /\ copy' \in [Msg -> [Delivery -> CopyStep]]
         /\ copy'[x] = [copy[x] EXCEPT ![j] = step]
         /\ \A m \in Msg \ {x} : copy'[m] = copy[m]
         /\ \A m \in Msg, k \in Delivery :
              copy'[m][k] = IF m = x /\ k = j THEN step ELSE copy[m][k]
  BY DEF TypeOK, Goto

\* Unsubscribe drops what waits in the client and nothing else.
LEMMA UnsubscribedCopy ==
  ASSUME TypeOK, Unsubscribed
  PROVE  /\ copy' \in [Msg -> [Delivery -> CopyStep]]
         /\ \A m \in Msg, k \in Delivery :
              copy'[m][k] = IF copy[m][k] = "queued" THEN "none" ELSE copy[m][k]
         /\ \A m \in Msg : Naks(m)' = Naks(m)
<1>1. /\ copy' \in [Msg -> [Delivery -> CopyStep]]
      /\ \A m \in Msg, k \in Delivery :
           copy'[m][k] = IF copy[m][k] = "queued" THEN "none" ELSE copy[m][k]
  BY DEF TypeOK, Unsubscribed, CopyStep
<1> QED BY <1>1 DEF Naks, NakSet

\* A process that has just started runs no callback.
LEMMA NoCopiesType ==
  /\ NoCopies \in [Msg -> [Delivery -> CopyStep]]
  /\ \A m \in Msg, k \in Delivery : NoCopies[m][k] = "none"
  /\ \A m \in Msg : Cardinality(NakSet(NoCopies[m])) = 0
<1>1. /\ NoCopies \in [Msg -> [Delivery -> CopyStep]]
      /\ \A m \in Msg, k \in Delivery : NoCopies[m][k] = "none"
  BY DEF NoCopies, CopyStep
<1>2. \A m \in Msg : NakSet(NoCopies[m]) = {}
  BY <1>1 DEF NakSet
<1> QED BY <1>1, <1>2, FS_EmptySet

\* The account of a message is in order when deliveries and state are as before
\* and failures and answers changed as they may.
LEMMA SpentKept ==
  ASSUME IInv, NEW m \in Msg \ (Bad \cup received), consumer,
         attempts'[m] = attempts[m], state'[m] = state[m], copy'[m] = copy[m],
         faults' = faults \/ faults' = faults + 1
  PROVE  Account(m)'
<1>1. Open(m)' = Open(m) /\ Open(m) \in {0, 1}
  BY DEF Open, InClient
<1>2. Cardinality(Naks(m))' = Cardinality(Naks(m)) /\ Cardinality(Naks(m)) \in Nat
  BY NakSetFinite DEF Naks
<1>3. attempts[m] \in Nat /\ faults \in Nat
  BY DeliveryAssumption DEF IInv, TypeOK
<1>4. attempts[m] + Cardinality(Naks(m)) <= faults + Open(m)
  BY DEF IInv, DeliveriesSpent, Account
<1> QED BY <1>1, <1>2, <1>3, <1>4 DEF Account

\* The invariant holds initially.
LEMMA InitIInv == Init => IInv
<1> SUFFICES ASSUME Init PROVE IInv
  OBVIOUS
<1>1. TypeOK
  <2>1. /\ state \in [Msg -> MsgState] /\ attempts \in [Msg -> 0..MaxDeliver]
        /\ faults \in 0..MaxFaults /\ received \subseteq Msg
    BY DeliveryAssumption DEF Init, MsgState
  <2>2. consumer \in BOOLEAN /\ bound \in BOOLEAN /\ sinkKnown \in BOOLEAN
    BY DEF Init
  <2> QED BY <2>1, <2>2, NoCopiesType DEF TypeOK, Init
<1>2. Wired /\ HandedOut /\ AckedWereReceived /\ GivenUpOnlyAfterFailures
  BY NoCopiesType DEF Init, Wired, HandedOut, AckedWereReceived, GivenUpOnlyAfterFailures
<1>3. DeliveriesSpent
  BY NoCopiesType DEF Init, DeliveriesSpent, Account, Naks, Open
<1> QED BY <1>1, <1>2, <1>3 DEF IInv

-----------------------------------------------------------------------------
(***************************************************************************)
(* The server preserves the invariant.                                     *)
(***************************************************************************)

\* A message is published.
LEMMA PublishIInv ==
  ASSUME IInv, NEW x \in Msg, Publish(x)
  PROVE  IInv'
<1>1. TypeOK'
  BY DEF IInv, TypeOK, Publish, MsgState
<1>2. Wired' /\ HandedOut'
  BY DEF IInv, TypeOK, Wired, HandedOut, Publish
<1>3. AckedWereReceived' /\ GivenUpOnlyAfterFailures'
  BY DEF IInv, TypeOK, AckedWereReceived, GivenUpOnlyAfterFailures, Publish
<1>4. DeliveriesSpent'
  <2> SUFFICES ASSUME consumer, NEW m \in Msg \ (Bad \cup received) PROVE Account(m)'
    BY DEF DeliveriesSpent, Publish
  <2>1. CASE m # x
    BY <2>1, SpentKept DEF IInv, TypeOK, Publish
  <2>2. CASE m = x
    <3>1. state[x] = "unpublished" /\ state'[x] = "new" /\ copy'[x] = copy[x]
      BY DEF IInv, TypeOK, Publish
    <3>2. Open(x) = 0 /\ Open(x)' = 0 /\ Naks(x)' = Naks(x)
      BY <3>1 DEF Open, Naks
    <3> QED BY <2>2, <3>2 DEF IInv, DeliveriesSpent, Account, Publish
  <2> QED BY <2>1, <2>2
<1> QED BY <1>1, <1>2, <1>3, <1>4 DEF IInv

\* The server hands a message out, which costs one of its deliveries.
LEMMA DeliverIInv ==
  ASSUME IInv, NEW x \in Msg, Deliver(x)
  PROVE  IInv'
<1> DEFINE j == attempts[x] + 1
<1>1. j \in Delivery /\ attempts[x] \in Nat
  BY DeliveryAssumption DEF IInv, TypeOK, Deliver, MayDeliver, Delivery
<1>2. copy[x][j] = "none"
  BY <1>1 DEF IInv, HandedOut
<1>3. Goto(x, j, "queued") /\ "queued" \in CopyStep
  BY DEF Deliver, Goto, CopyStep
<1>4. /\ copy' \in [Msg -> [Delivery -> CopyStep]]
      /\ copy'[x] = [copy[x] EXCEPT ![j] = "queued"]
      /\ \A m \in Msg \ {x} : copy'[m] = copy[m]
      /\ \A m \in Msg, k \in Delivery :
           copy'[m][k] = IF m = x /\ k = j THEN "queued" ELSE copy[m][k]
  <2> HIDE DEF j
  <2> QED BY <1>1, <1>3, GotoCopy DEF IInv
<1>5. attempts' = [attempts EXCEPT ![x] = j] /\ state' = [state EXCEPT ![x] = "pending"]
  BY DEF Deliver, IInv, TypeOK
<1> HIDE DEF j
<1>6. TypeOK'
  <2>1. state' \in [Msg -> MsgState] /\ attempts' \in [Msg -> 0..MaxDeliver]
    BY <1>1, <1>5, DeliveryAssumption DEF IInv, TypeOK, MsgState, Delivery
  <2> QED BY <1>4, <2>1 DEF IInv, TypeOK, Deliver
<1>7. Wired'
  BY <1>4 DEF IInv, Wired, Deliver
<1>8. HandedOut'
  BY <1>1, <1>4, <1>5 DEF IInv, TypeOK, HandedOut, Delivery, j
<1>9. AckedWereReceived' /\ GivenUpOnlyAfterFailures'
  BY <1>4, <1>5 DEF IInv, TypeOK, AckedWereReceived, GivenUpOnlyAfterFailures, Deliver
<1>10. DeliveriesSpent'
  <2> SUFFICES ASSUME consumer, NEW m \in Msg \ (Bad \cup received) PROVE Account(m)'
    BY DEF DeliveriesSpent, Deliver
  <2>1. CASE m # x
    BY <1>4, <1>5, <2>1, SpentKept DEF IInv, TypeOK, Deliver
  <2>2. CASE m = x
    <3>1. Open(x) = 0 /\ Open(x)' = 1
      BY <1>1, <1>4, <1>5 DEF Open, InClient, Deliver, IInv, TypeOK
    <3>2. Cardinality(Naks(x))' = Cardinality(Naks(x)) /\ Cardinality(Naks(x)) \in Nat
      <4>1. copy[x] \in [Delivery -> CopyStep]
        BY DEF IInv, TypeOK
      <4> QED BY <1>1, <1>2, <1>3, <1>4, <4>1, NakSetStep, NakSetFinite DEF Naks
    <3>3. attempts'[x] = attempts[x] + 1 /\ faults' = faults /\ faults \in Nat
      BY <1>5, DeliveryAssumption DEF IInv, TypeOK, Deliver, j
    <3>4. Account(x)
      BY <2>2 DEF IInv, DeliveriesSpent
    <3> QED BY <1>1, <2>2, <3>1, <3>2, <3>3, <3>4 DEF Account
  <2> QED BY <2>1, <2>2
<1> QED BY <1>6, <1>7, <1>8, <1>9, <1>10 DEF IInv

\* A message whose time is over.
LEMMA OverdueIInv ==
  ASSUME IInv, NEW x \in Msg, consumer,
         UNCHANGED <<attempts, consumer, bound, sinkKnown, copy, received>>,
         state[x] \in {"pending", "delayed"}, state' = [state EXCEPT ![x] = Overdue(x)],
         faults' \in 0..MaxFaults, faults' = faults \/ faults' = faults + 1,
         state[x] = "pending" /\ InClient(x) => faults' = faults + 1
  PROVE  IInv'
<1>1. state' \in [Msg -> MsgState] /\ state'[x] \in {"due", "exhausted"}
  BY DEF IInv, TypeOK, MsgState, Overdue
<1>2. TypeOK'
  BY <1>1 DEF IInv, TypeOK
<1>3. Wired' /\ HandedOut' /\ AckedWereReceived'
  BY <1>1 DEF IInv, TypeOK, Wired, HandedOut, AckedWereReceived
<1>4. \A m \in Msg \ (Bad \cup received) : Account(m)'
  <2> SUFFICES ASSUME NEW m \in Msg \ (Bad \cup received) PROVE Account(m)'
    OBVIOUS
  <2>1. CASE m # x
    BY <2>1, SpentKept DEF IInv, TypeOK
  <2>2. CASE m = x
    <3>1. Open(x)' = 0 /\ (Open(x) = 0 \/ (Open(x) = 1 /\ faults' = faults + 1))
      BY <1>1 DEF Open
    <3>2. Cardinality(Naks(x))' = Cardinality(Naks(x)) /\ Cardinality(Naks(x)) \in Nat
      BY NakSetFinite DEF Naks
    <3>3. Account(x) /\ attempts[x] \in Nat /\ faults \in Nat
      BY <2>2, DeliveryAssumption DEF IInv, TypeOK, DeliveriesSpent
    <3> QED BY <2>2, <3>1, <3>2, <3>3 DEF Account
  <2> QED BY <2>1, <2>2
<1>5. GivenUpOnlyAfterFailures'
  <2> SUFFICES ASSUME NEW m \in Msg \ (Bad \cup received), state'[m] = "exhausted"
               PROVE  faults' >= MaxDeliver
    BY DEF GivenUpOnlyAfterFailures
  <2>1. faults \in Nat /\ faults' \in Nat /\ MaxDeliver \in Nat
    BY DeliveryAssumption DEF IInv, TypeOK
  <2>2. CASE m # x
    BY <2>1, <2>2 DEF IInv, TypeOK, GivenUpOnlyAfterFailures
  <2>3. CASE m = x
    <3>0. ~MayDeliver(x)
      BY <2>3 DEF IInv, TypeOK, Overdue
    <3>1. attempts[x] = MaxDeliver
      <4>1. attempts[x] \in 0..MaxDeliver
        BY DEF IInv, TypeOK
      <4> QED BY <2>1, <3>0, <4>1 DEF MayDeliver
    <3>2. Account(x)' /\ Open(x)' = 0 /\ Cardinality(Naks(x))' \in Nat
      BY <1>1, <1>4, <2>3, NakSetFinite DEF Open, Naks
    <3> QED BY <2>1, <3>1, <3>2 DEF Account
  <2> QED BY <2>2, <2>3
<1> QED BY <1>2, <1>3, <1>4, <1>5 DEF IInv, DeliveriesSpent

\* AckWait and the delay of a negative acknowledgement run out.
LEMMA TimersIInv ==
  ASSUME IInv, NEW x \in Msg, AckWaitElapsed(x) \/ NakDelayElapsed(x)
  PROVE  IInv'
<1>1. faults' \in 0..MaxFaults /\ (faults' = faults \/ faults' = faults + 1)
  BY FaultType DEF IInv, TypeOK, AckWaitElapsed, NakDelayElapsed
<1>2. state[x] = "pending" /\ InClient(x) => faults' = faults + 1
  BY FaultType DEF IInv, AckWaitElapsed, NakDelayElapsed
<1> QED BY <1>1, <1>2, OverdueIInv DEF AckWaitElapsed, NakDelayElapsed

-----------------------------------------------------------------------------
(***************************************************************************)
(* The callback preserves the invariant.                                   *)
(***************************************************************************)

\* What the steps of a callback have in common.
LEMMA StepIInv ==
  ASSUME IInv, NEW x \in Msg, NEW j \in Delivery, NEW step \in CopyStep,
         step # "queued", copy[x][j] # "none", Goto(x, j, step),
         UNCHANGED <<attempts, consumer, bound, sinkKnown>>,
         received' = received \/ received' = received \cup {x},
         faults' \in 0..MaxFaults, faults' = faults \/ faults' = faults + 1,
         step \in {"send", "nak", "ack"} => x \notin Bad, step = "ack" => x \in received',
         \/ state' = state
         \/ state[x] \in Unacked /\ state' = [state EXCEPT ![x] = "delayed"]
         \/ state[x] \in Unacked /\ state' = [state EXCEPT ![x] = "acked"] /\ x \in received',
         consumer /\ x \notin Bad \cup received' => Account(x)'
  PROVE  IInv'
<1>1. /\ copy' \in [Msg -> [Delivery -> CopyStep]]
      /\ \A m \in Msg \ {x} : copy'[m] = copy[m]
      /\ \A m \in Msg, k \in Delivery :
           copy'[m][k] = IF m = x /\ k = j THEN step ELSE copy[m][k]
  <2>1. TypeOK
    BY DEF IInv
  <2> QED BY <2>1 DEF TypeOK, Goto
<1>2. /\ state' \in [Msg -> MsgState]
      /\ \A m \in Msg \ {x} : state'[m] = state[m]
      /\ state'[x] = state[x] \/ state'[x] = "delayed" \/ (state'[x] = "acked" /\ x \in received')
  BY DEF IInv, TypeOK, MsgState
<1>3. TypeOK'
  BY <1>1, <1>2 DEF IInv, TypeOK
<1>4. Wired'
  BY <1>1 DEF IInv, Wired
<1>5. HandedOut'
  BY <1>1, <1>2 DEF IInv, HandedOut
<1>6. AckedWereReceived'
  BY <1>1, <1>2 DEF IInv, AckedWereReceived
<1>7. GivenUpOnlyAfterFailures'
  BY <1>2, DeliveryAssumption DEF IInv, TypeOK, GivenUpOnlyAfterFailures
<1>8. DeliveriesSpent'
  <2> SUFFICES ASSUME consumer, NEW m \in Msg \ (Bad \cup received') PROVE Account(m)'
    BY DEF DeliveriesSpent
  <2>1. CASE m # x
    BY <1>1, <1>2, <2>1, SpentKept
  <2> QED BY <2>1
<1> QED BY <1>3, <1>4, <1>5, <1>6, <1>7, <1>8 DEF IInv

\* The account when the callback of a message moves and its state stays.
LEMMA StepAccount ==
  ASSUME IInv, consumer, NEW x \in Msg \ (Bad \cup received), NEW j \in Delivery,
         NEW step \in CopyStep, copy[x][j] # "none", Goto(x, j, step),
         UNCHANGED attempts, faults' = faults \/ faults' = faults + 1,
         \/ /\ copy[x][j] = "nak" /\ step = "none"
            /\ state'[x] = state[x] \/ state'[x] = "delayed"
         \/ /\ copy[x][j] # "nak" /\ step # "nak" /\ state' = state
            /\ step # "none" \/ faults' = faults + 1
         \/ copy[x][j] # "nak" /\ step = "nak" /\ state' = state /\ faults' = faults + 1
  PROVE  Account(x)'
<1>1. /\ copy[x] \in [Delivery -> CopyStep]
      /\ copy'[x] = [copy[x] EXCEPT ![j] = step] /\ copy'[x][j] = step
  BY GotoCopy DEF IInv, TypeOK
<1>2. /\ Open(x) \in {0, 1} /\ Open(x)' \in {0, 1}
      /\ step # "none" /\ state' = state => Open(x)' = Open(x)
  BY <1>1 DEF Open, InClient
<1>3. Cardinality(Naks(x)) \in Nat /\ Cardinality(Naks(x))' \in Nat
  BY NakSetFinite DEF Naks
<1>4. /\ copy[x][j] # "nak" /\ step # "nak" => Cardinality(Naks(x))' = Cardinality(Naks(x))
      /\ copy[x][j] # "nak" /\ step = "nak" => Cardinality(Naks(x))' = Cardinality(Naks(x)) + 1
      /\ copy[x][j] = "nak" /\ step # "nak" => Cardinality(Naks(x))' = Cardinality(Naks(x)) - 1
  BY <1>1, NakSetStep DEF Naks
<1>5. Account(x) /\ attempts[x] \in Nat /\ faults \in Nat
  BY DeliveryAssumption DEF IInv, TypeOK, DeliveriesSpent
<1> QED BY <1>2, <1>3, <1>4, <1>5 DEF Account

\* The client calls back for a delivery it holds.
LEMMA CallbackIInv ==
  ASSUME IInv, NEW x \in Msg, NEW j \in Delivery, Callback(x, j)
  PROVE  IInv'
<1>1. Goto(x, j, "load") /\ "load" \in CopyStep /\ copy[x][j] = "queued"
  BY DEF Callback, CopyStep
<1>2. consumer /\ x \notin Bad \cup received => Account(x)'
  BY <1>1, StepAccount DEF Callback
<1> QED BY <1>1, <1>2, StepIInv DEF Callback, IInv, TypeOK

\* The callback looks the sink up; it finds it, by Wired.
LEMMA LoadSinkIInv ==
  ASSUME IInv, NEW x \in Msg, NEW j \in Delivery, LoadSink(x, j)
  PROVE  IInv'
<1>1. PICK step \in {"info", "none"} : Goto(x, j, step) /\ (step = "none" => ~sinkKnown)
  BY DEF LoadSink, Return
<1>2. copy[x][j] = "load" /\ step \in CopyStep
  BY DEF LoadSink, CopyStep
<1>3. consumer => step # "none"
  BY <1>1, <1>2 DEF IInv, Wired
<1>4. consumer /\ x \notin Bad \cup received => Account(x)'
  BY <1>1, <1>2, <1>3, StepAccount DEF LoadSink
<1> QED BY <1>1, <1>2, <1>4, StepIInv DEF LoadSink, IInv, TypeOK

\* Metadata and conversion: what cannot be converted is left unanswered.
LEMMA ConsumerInfoAndConvertIInv ==
  ASSUME IInv, NEW x \in Msg, NEW j \in Delivery, ConsumerInfoAndConvert(x, j)
  PROVE  IInv'
<1>1. PICK step \in {"send", "none"} :
        /\ Goto(x, j, step)
        /\ step = "send" => x \notin Bad
        /\ step = "none" => ~consumer \/ x \in Bad \/ faults' = faults + 1
  BY FaultType DEF ConsumerInfoAndConvert, Return, IInv
<1>2. copy[x][j] = "info" /\ step \in CopyStep
  BY DEF ConsumerInfoAndConvert, CopyStep
<1>3. faults' \in 0..MaxFaults /\ (faults' = faults \/ faults' = faults + 1)
  BY FaultType DEF ConsumerInfoAndConvert, IInv, TypeOK
<1>4. consumer /\ x \notin Bad \cup received => Account(x)'
  BY <1>1, <1>2, <1>3, StepAccount DEF ConsumerInfoAndConvert
<1> QED BY <1>1, <1>2, <1>3, <1>4, StepIInv DEF ConsumerInfoAndConvert

\* The event is posted to the sink.
LEMMA SendIInv ==
  ASSUME IInv, NEW x \in Msg, NEW j \in Delivery, Send(x, j)
  PROVE  IInv'
<1>1. PICK step \in {"ack", "nak"} :
        /\ Goto(x, j, step)
        /\ step = "ack" => x \in received'
        /\ step = "nak" => faults' = faults + 1
  BY FaultType DEF Send, IInv
<1>2. copy[x][j] = "send" /\ step \in CopyStep /\ x \notin Bad
  BY DEF Send, CopyStep, IInv, HandedOut
<1>3. faults' \in 0..MaxFaults /\ (faults' = faults \/ faults' = faults + 1)
  BY FaultType DEF Send, IInv, TypeOK
<1>4. received' = received \/ received' = received \cup {x}
  BY DEF Send
<1>5. consumer /\ x \notin Bad \cup received' => Account(x)'
  BY <1>1, <1>2, <1>3, <1>4, StepAccount DEF Send
<1> QED BY <1>1, <1>2, <1>3, <1>4, <1>5, StepIInv DEF Send

\* A refused event is negatively acknowledged.
LEMMA NakWithDelayIInv ==
  ASSUME IInv, NEW x \in Msg, NEW j \in Delivery, NakWithDelay(x, j)
  PROVE  IInv'
<1>1. Goto(x, j, "none") /\ "none" \in CopyStep /\ copy[x][j] = "nak"
  BY DEF NakWithDelay, Answer, Return, CopyStep
<1>2. faults' \in 0..MaxFaults /\ (faults' = faults \/ faults' = faults + 1)
  BY FaultType DEF NakWithDelay, Answer, IInv, TypeOK
<1>3. \/ state' = state
      \/ state[x] = "pending" /\ state' = [state EXCEPT ![x] = "delayed"]
  BY DEF NakWithDelay, Answer, IInv, TypeOK
<1>4. state'[x] = state[x] \/ state'[x] = "delayed"
  BY <1>3 DEF IInv, TypeOK
<1>5. consumer /\ x \notin Bad \cup received => Account(x)'
  BY <1>1, <1>2, <1>4, StepAccount DEF NakWithDelay, Answer
<1> QED BY <1>1, <1>2, <1>3, <1>5, StepIInv DEF NakWithDelay, Answer, Unacked

\* An accepted event is acknowledged, maybe for a later delivery.
LEMMA AckIInv ==
  ASSUME IInv, NEW x \in Msg, NEW j \in Delivery, Ack(x, j)
  PROVE  IInv'
<1>1. Goto(x, j, "none") /\ "none" \in CopyStep /\ copy[x][j] = "ack"
  BY DEF Ack, Answer, Return, CopyStep
<1>2. faults' \in 0..MaxFaults /\ (faults' = faults \/ faults' = faults + 1)
  BY FaultType DEF Ack, Answer, IInv, TypeOK
<1>3. \/ state' = state
      \/ state[x] \in Unacked /\ state' = [state EXCEPT ![x] = "acked"]
  BY DEF Ack, Answer, IInv, TypeOK
<1>4. x \in received
  BY <1>1 DEF IInv, AckedWereReceived
<1> QED BY <1>1, <1>2, <1>3, <1>4, StepIInv DEF Ack, Answer

-----------------------------------------------------------------------------
(***************************************************************************)
(* The reconciler and the end of the process preserve the invariant.       *)
(***************************************************************************)

\* The sink is stored, then the consumer is bound.
LEMMA SyncSubscriptionIInv ==
  ASSUME IInv, SyncSubscription
  PROVE  IInv'
<1>1. TypeOK'
  BY DEF IInv, TypeOK, SyncSubscription
<1>2. Wired' /\ HandedOut' /\ AckedWereReceived' /\ GivenUpOnlyAfterFailures'
  BY DEF IInv, Wired, HandedOut, AckedWereReceived, GivenUpOnlyAfterFailures, SyncSubscription
<1>3. DeliveriesSpent'
  BY SpentKept DEF IInv, DeliveriesSpent, SyncSubscription
<1> QED BY <1>1, <1>2, <1>3 DEF IInv

\* The subscription goes, the consumer stays.
LEMMA DeleteSubscriptionsOnlyIInv ==
  ASSUME IInv, DeleteSubscriptionsOnly
  PROVE  IInv'
<1>1. /\ copy' \in [Msg -> [Delivery -> CopyStep]]
      /\ \A m \in Msg, k \in Delivery :
           copy'[m][k] = IF copy[m][k] = "queued" THEN "none" ELSE copy[m][k]
      /\ \A m \in Msg : Naks(m)' = Naks(m)
  BY UnsubscribedCopy DEF IInv, DeleteSubscriptionsOnly
<1>2. bound' = FALSE
  BY DEF DeleteSubscriptionsOnly, Unsubscribed
<1>3. faults' \in 0..MaxFaults /\ faults' = faults + 1
  BY FaultType DEF IInv, DeleteSubscriptionsOnly
<1>4. TypeOK'
  BY <1>1, <1>2, <1>3 DEF IInv, TypeOK, DeleteSubscriptionsOnly
<1>5. Wired' /\ HandedOut' /\ AckedWereReceived'
  BY <1>1, <1>2 DEF IInv, Wired, HandedOut, AckedWereReceived, DeleteSubscriptionsOnly
<1>6. GivenUpOnlyAfterFailures'
  BY <1>3, DeliveryAssumption DEF IInv, TypeOK, GivenUpOnlyAfterFailures, DeleteSubscriptionsOnly
<1>7. DeliveriesSpent'
  <2> SUFFICES ASSUME NEW m \in Msg \ (Bad \cup received) PROVE Account(m)'
    BY DEF DeliveriesSpent, DeleteSubscriptionsOnly
  <2>1. Open(m) \in {0, 1} /\ Open(m)' \in {0, 1}
    BY DEF Open
  <2>2. Cardinality(Naks(m))' = Cardinality(Naks(m)) /\ Cardinality(Naks(m)) \in Nat
    BY <1>1, NakSetFinite DEF Naks
  <2>3. Account(m) /\ attempts[m] \in Nat /\ faults \in Nat /\ attempts' = attempts
    BY DeliveryAssumption DEF IInv, TypeOK, DeliveriesSpent, DeleteSubscriptionsOnly
  <2> QED BY <1>3, <2>1, <2>2, <2>3 DEF Account
<1> QED BY <1>4, <1>5, <1>6, <1>7 DEF IInv

\* Subscription and consumer go.
LEMMA DeleteSubscriptionIInv ==
  ASSUME IInv, DeleteSubscription
  PROVE  IInv'
<1>1. /\ copy' \in [Msg -> [Delivery -> CopyStep]]
      /\ \A m \in Msg, k \in Delivery :
           copy'[m][k] = IF copy[m][k] = "queued" THEN "none" ELSE copy[m][k]
  BY UnsubscribedCopy DEF IInv, DeleteSubscription
<1>2. bound' = FALSE /\ consumer' = FALSE
  BY DEF DeleteSubscription, Unsubscribed
<1>3. TypeOK'
  BY <1>1, <1>2 DEF IInv, TypeOK, DeleteSubscription
<1>4. Wired' /\ HandedOut' /\ AckedWereReceived'
  BY <1>1, <1>2 DEF IInv, Wired, HandedOut, AckedWereReceived, DeleteSubscription
<1>5. DeliveriesSpent' /\ GivenUpOnlyAfterFailures'
  BY <1>2 DEF IInv, DeliveriesSpent, GivenUpOnlyAfterFailures, DeleteSubscription
<1> QED BY <1>3, <1>4, <1>5 DEF IInv

\* The sink is forgotten when the consumer is gone.
LEMMA DeleteSinkIInv ==
  ASSUME IInv, DeleteSink
  PROVE  IInv'
<1>1. TypeOK'
  BY DEF IInv, TypeOK, DeleteSink
<1>2. Wired' /\ HandedOut' /\ AckedWereReceived'
  BY DEF IInv, Wired, HandedOut, AckedWereReceived, DeleteSink
<1>3. DeliveriesSpent' /\ GivenUpOnlyAfterFailures'
  BY DEF IInv, DeliveriesSpent, GivenUpOnlyAfterFailures, DeleteSink
<1> QED BY <1>1, <1>2, <1>3 DEF IInv

\* A restart drops every callback that runs.
LEMMA CrashIInv ==
  ASSUME IInv, Crash
  PROVE  IInv'
<1>1. /\ copy' \in [Msg -> [Delivery -> CopyStep]]
      /\ \A m \in Msg, k \in Delivery : copy'[m][k] = "none"
      /\ \A m \in Msg : Cardinality(Naks(m))' = 0
  BY NoCopiesType DEF Crash, Naks
<1>2. faults' \in 0..MaxFaults /\ faults' = faults + 1
  BY FaultType DEF IInv, Crash
<1>3. TypeOK'
  BY <1>1, <1>2 DEF IInv, TypeOK, Crash
<1>4. Wired' /\ HandedOut' /\ AckedWereReceived'
  BY <1>1 DEF IInv, Wired, HandedOut, AckedWereReceived, Crash
<1>5. GivenUpOnlyAfterFailures'
  BY <1>2, DeliveryAssumption DEF IInv, TypeOK, GivenUpOnlyAfterFailures, Crash
<1>6. DeliveriesSpent'
  <2> SUFFICES ASSUME consumer, NEW m \in Msg \ (Bad \cup received) PROVE Account(m)'
    BY DEF DeliveriesSpent, Crash
  <2>1. Open(m) \in {0, 1} /\ Open(m)' = 0
    BY <1>1 DEF Open, InClient
  <2>2. Cardinality(Naks(m)) \in Nat
    BY NakSetFinite DEF Naks
  <2>3. Account(m) /\ attempts[m] \in Nat /\ faults \in Nat /\ attempts' = attempts
    BY DeliveryAssumption DEF IInv, TypeOK, DeliveriesSpent, Crash
  <2> QED BY <1>1, <1>2, <2>1, <2>2, <2>3 DEF Account
<1> QED BY <1>3, <1>4, <1>5, <1>6 DEF IInv

\* The invariant is inductive.
LEMMA NextIInv == IInv /\ [Next]_vars => IInv'
<1> SUFFICES ASSUME IInv, [Next]_vars PROVE IInv'
  OBVIOUS
<1>1. ASSUME NEW m \in Msg, Publish(m) \/ Deliver(m) \/ AckWaitElapsed(m) \/ NakDelayElapsed(m)
      PROVE  IInv'
  BY <1>1, PublishIInv, DeliverIInv, TimersIInv
<1>2. ASSUME NEW m \in Msg, NEW k \in Delivery, Callback(m, k) \/ CallbackStep(m, k)
      PROVE  IInv'
  BY <1>2, CallbackIInv, LoadSinkIInv, ConsumerInfoAndConvertIInv, SendIInv,
     NakWithDelayIInv, AckIInv DEF CallbackStep
<1>3. CASE SyncSubscription \/ DeleteSubscriptionsOnly \/ DeleteSubscription
           \/ DeleteSink \/ Crash
  BY <1>3, SyncSubscriptionIInv, DeleteSubscriptionsOnlyIInv, DeleteSubscriptionIInv,
     DeleteSinkIInv, CrashIInv
<1>4. CASE UNCHANGED vars
  <2>1. TypeOK' /\ Wired' /\ HandedOut' /\ AckedWereReceived' /\ GivenUpOnlyAfterFailures'
    BY <1>4 DEF vars, IInv, TypeOK, Wired, HandedOut, AckedWereReceived,
       GivenUpOnlyAfterFailures
  <2>2. DeliveriesSpent'
    BY <1>4, SpentKept DEF vars, IInv, DeliveriesSpent
  <2> QED BY <2>1, <2>2 DEF IInv
<1> QED BY <1>1, <1>2, <1>3, <1>4 DEF Next

\* The inductive invariant holds in every behaviour.
THEOREM Inductive == Spec => []IInv
  BY InitIInv, NextIInv, PTL DEF Spec

\* Types, with the limit of deliveries: no path of server and callback hands a
\* message out more often than MaxDeliver allows.
THEOREM TypeCorrect == Spec => []TypeOK
  BY Inductive, PTL DEF IInv

\* An event that is given up without having reached the sink has cost MaxDeliver
\* failures, however its callbacks, late ones included, are interleaved.
THEOREM GivenUpLate == Spec => []GivenUpOnlyAfterFailures
  BY Inductive, PTL DEF IInv

-----------------------------------------------------------------------------
(***************************************************************************)
(* The refinement, action by action.                                       *)
(***************************************************************************)

Fates == [m \in Msg |-> FateOf(m)]

\* An action that leaves the fates, what was received and the failures alone.
LEMMA Stutters ==
  ASSUME \A m \in Msg : FateOf(m)' = FateOf(m), UNCHANGED <<received, faults>>
  PROVE  UNCHANGED ALO!absVars
  BY DEF ALO!absVars

\* An action that only counts a failure.
LEMMA Fails ==
  ASSUME \A m \in Msg : FateOf(m)' = FateOf(m), UNCHANGED received, faults' = faults + 1
  PROVE  ALO!Next
  BY DEF ALO!Fail, ALO!Next

\* One message changes its fate.
LEMMA OneFate ==
  ASSUME NEW x \in Msg, NEW f, FateOf(x)' = f,
         \A m \in Msg \ {x} : FateOf(m)' = FateOf(m)
  PROVE  Fates' = [Fates EXCEPT ![x] = f]
  BY DEF Fates

\* Publish is Publish of the abstract specification.
LEMMA PublishRefines ==
  ASSUME IInv, NEW x \in Msg, Publish(x)
  PROVE  ALO!Next
<1>1. FateOf(x) = "unpublished" /\ FateOf(x)' = "waiting"
  BY DEF FateOf, Publish, IInv, TypeOK
<1>2. \A m \in Msg \ {x} : FateOf(m)' = FateOf(m)
  BY DEF FateOf, Publish, IInv, TypeOK
<1>3. ALO!Publish(x)
  BY <1>1, <1>2, OneFate DEF ALO!Publish, Publish, Fates
<1> QED BY <1>3 DEF ALO!Next

\* Handing a message out does not change its fate.
LEMMA DeliverRefines ==
  ASSUME IInv, NEW x \in Msg, Deliver(x)
  PROVE  UNCHANGED ALO!absVars
<1>1. \A m \in Msg : FateOf(m)' = FateOf(m)
  BY DEF FateOf, Deliver, IInv, TypeOK
<1> QED BY <1>1, Stutters DEF Deliver

\* A message whose time is over is handed out again or given up.
LEMMA OverdueRefines ==
  ASSUME IInv, IInv', NEW x \in Msg, consumer, UNCHANGED <<consumer, received>>,
         state[x] \in {"pending", "delayed"}, state' = [state EXCEPT ![x] = Overdue(x)],
         faults' = faults \/ faults' = faults + 1
  PROVE  [ALO!Next]_(ALO!absVars)
<1>1. \A m \in Msg \ {x} : FateOf(m)' = FateOf(m)
  BY DEF FateOf, IInv, TypeOK
<1>2. CASE Overdue(x) = "due"
  <2>1. \A m \in Msg : FateOf(m)' = FateOf(m)
    BY <1>1, <1>2 DEF FateOf, IInv, TypeOK
  <2> QED BY <2>1, Stutters, Fails
<1>3. CASE Overdue(x) = "exhausted"
  <2>1. FateOf(x) = "waiting" /\ FateOf(x)' = "givenUp" /\ state'[x] = "exhausted"
    BY <1>3 DEF FateOf, IInv, TypeOK
  <2>2. x \in Bad \/ x \in received \/ faults' >= MaxDeliver
    BY <2>1 DEF IInv, GivenUpOnlyAfterFailures
  <2>3. ALO!GiveUp(x)
    BY <1>1, <2>1, <2>2, OneFate DEF ALO!GiveUp, ALO!MayFail, Fates
  <2> QED BY <2>3 DEF ALO!Next
<1> QED BY <1>2, <1>3 DEF Overdue

\* A timer that finds the deliveries used up is GiveUp.
LEMMA TimersRefine ==
  ASSUME IInv, IInv', NEW x \in Msg, AckWaitElapsed(x) \/ NakDelayElapsed(x)
  PROVE  [ALO!Next]_(ALO!absVars)
  BY OverdueRefines DEF AckWaitElapsed, NakDelayElapsed, Fault

\* An accepted event is Receive.
LEMMA SendRefines ==
  ASSUME IInv, NEW x \in Msg, NEW j \in Delivery, Send(x, j)
  PROVE  ALO!Next
<1>1. x \notin Bad /\ state[x] # "unpublished"
  BY DEF Send, IInv, TypeOK, HandedOut, Delivery
<1>2. \A m \in Msg : FateOf(m)' = FateOf(m)
  BY DEF FateOf, Send
<1>3. FateOf(x) # "unpublished"
  BY <1>1 DEF FateOf
<1>4. CASE received' = received \cup {x}
  <2>1. ALO!Receive(x)
    BY <1>1, <1>2, <1>3, <1>4 DEF ALO!Receive, ALO!MayFail, Send, Fault
  <2> QED BY <2>1 DEF ALO!Next
<1>5. CASE received' = received /\ faults' = faults + 1
  BY <1>2, <1>5, Fails
<1> QED BY <1>4, <1>5 DEF Send, Fault

\* An acknowledgement is Finish, or repeats one.
LEMMA AckRefines ==
  ASSUME IInv, NEW x \in Msg, NEW j \in Delivery, Ack(x, j)
  PROVE  [ALO!Next]_(ALO!absVars)
<1>1. x \in received
  BY DEF Ack, Answer, IInv, AckedWereReceived
<1>2. CASE UNCHANGED state /\ (faults' = faults \/ faults' = faults + 1)
  <2>1. \A m \in Msg : FateOf(m)' = FateOf(m)
    BY <1>2 DEF FateOf, Ack, Answer
  <2> QED BY <1>2, <2>1, Stutters, Fails DEF Ack, Answer
<1>3. CASE /\ consumer /\ state[x] \in Unacked
           /\ state' = [state EXCEPT ![x] = "acked"] /\ UNCHANGED faults
  <2>1. FateOf(x) = "waiting" /\ FateOf(x)' = "done"
    BY <1>3 DEF FateOf, Unacked, IInv, TypeOK
  <2>2. \A m \in Msg \ {x} : FateOf(m)' = FateOf(m)
    BY <1>3 DEF FateOf, Ack, Answer, IInv, TypeOK
  <2>3. ALO!Finish(x)
    BY <1>1, <1>3, <2>1, <2>2, OneFate DEF ALO!Finish, Fates, Ack, Answer
  <2> QED BY <2>3 DEF ALO!Next
<1> QED BY <1>2, <1>3 DEF Ack, Answer, Fault, IInv, TypeOK

\* A negative acknowledgement changes no fate.
LEMMA NakRefines ==
  ASSUME IInv, NEW x \in Msg, NEW j \in Delivery, NakWithDelay(x, j)
  PROVE  [ALO!Next]_(ALO!absVars)
<1>1. \A m \in Msg : FateOf(m)' = FateOf(m)
  BY DEF FateOf, NakWithDelay, Answer, IInv, TypeOK
<1> QED BY <1>1, Stutters, Fails DEF NakWithDelay, Answer, Fault

\* Deleting the consumer is Delete.
LEMMA DeleteRefines ==
  ASSUME IInv, DeleteSubscription
  PROVE  ALO!Next
<1>1. \A m \in Msg : FateOf(m)' = IF FateOf(m) = "waiting" THEN "deleted" ELSE FateOf(m)
  BY DEF FateOf, DeleteSubscription
<1>2. ALO!Delete
  BY <1>1 DEF ALO!Delete, DeleteSubscription
<1> QED BY <1>2 DEF ALO!Next

\* The other actions change no fate: they stutter or count a failure.
LEMMA OthersRefine ==
  ASSUME IInv,
         \/ \E x \in Msg, j \in Delivery :
              Callback(x, j) \/ LoadSink(x, j) \/ ConsumerInfoAndConvert(x, j)
         \/ SyncSubscription \/ DeleteSubscriptionsOnly \/ DeleteSink \/ Crash
  PROVE  [ALO!Next]_(ALO!absVars)
<1>1. UNCHANGED <<state, consumer, received>> /\ (faults' = faults \/ faults' = faults + 1)
  BY DEF Callback, LoadSink, ConsumerInfoAndConvert, SyncSubscription,
     DeleteSubscriptionsOnly, DeleteSink, Crash, Fault
<1>2. \A m \in Msg : FateOf(m)' = FateOf(m)
  BY <1>1 DEF FateOf
<1> QED BY <1>1, <1>2, Stutters, Fails

\* Every step is a step of AtLeastOnce or a stutter.
LEMMA NextRefines == IInv /\ IInv' /\ [Next]_vars => [ALO!Next]_(ALO!absVars)
<1> SUFFICES ASSUME IInv, IInv', [Next]_vars PROVE [ALO!Next]_(ALO!absVars)
  OBVIOUS
<1>1. ASSUME NEW m \in Msg, Publish(m) \/ Deliver(m) \/ AckWaitElapsed(m) \/ NakDelayElapsed(m)
      PROVE  [ALO!Next]_(ALO!absVars)
  BY <1>1, PublishRefines, DeliverRefines, TimersRefine
<1>2. ASSUME NEW m \in Msg, NEW k \in Delivery, Callback(m, k) \/ CallbackStep(m, k)
      PROVE  [ALO!Next]_(ALO!absVars)
  BY <1>2, OthersRefine, SendRefines, NakRefines, AckRefines DEF CallbackStep
<1>3. CASE SyncSubscription \/ DeleteSubscriptionsOnly \/ DeleteSubscription
           \/ DeleteSink \/ Crash
  BY <1>3, OthersRefine, DeleteRefines
<1>4. CASE UNCHANGED vars
  BY <1>4, Stutters DEF vars, FateOf
<1> QED BY <1>1, <1>2, <1>3, <1>4 DEF Next

\* Initial states are initial states.
LEMMA InitRefines == Init => ALO!Init
  BY DEF Init, ALO!Init, FateOf

\* The callback, the client and the consumer implement at-least-once delivery,
\* for every set of messages and every limit: what is acknowledged was accepted
\* by the sink, and what is given up has cost MaxDeliver failures.
THEOREM Refinement == Spec => DeliversAtLeastOnce
  BY Inductive, InitRefines, NextRefines, PTL DEF Spec, ALO!Spec, DeliversAtLeastOnce

=============================================================================
