---------------------------- MODULE AtLeastOnce ----------------------------
(***************************************************************************)
(* What a Subscription on the NATS backend promises for the events         *)
(* published while it has a consumer: an event is done only after the sink *)
(* accepted it, and it is given up only if it is no event at all, if the   *)
(* sink has it, or if as many calls failed as the consumer allows          *)
(* deliveries. The sink may get an event more than once.                   *)
(***************************************************************************)
EXTENDS Naturals

CONSTANTS
  Msg,         \* the messages of the stream
  Bad,         \* those that are no CloudEvents
  MaxDeliver   \* deliveries of a message

VARIABLES
  fate,        \* what has become of each message
  received,    \* what the sink accepted
  failures     \* the calls that failed

absVars == <<fate, received, failures>>

Fate == {"unpublished", "waiting", "done", "givenUp", "deleted"}

Init ==
  /\ fate = [m \in Msg |-> "unpublished"]
  /\ received = {} /\ failures = 0

MayFail == failures' = failures \/ failures' = failures + 1

Publish(m) ==
  /\ fate[m] = "unpublished"
  /\ fate' = [fate EXCEPT ![m] = "waiting"]
  /\ UNCHANGED <<received, failures>>

Receive(m) ==
  /\ fate[m] # "unpublished" /\ m \notin Bad
  /\ received' = received \cup {m}
  /\ MayFail /\ UNCHANGED fate

Finish(m) ==
  /\ fate[m] = "waiting" /\ m \in received
  /\ fate' = [fate EXCEPT ![m] = "done"]
  /\ UNCHANGED <<received, failures>>

GiveUp(m) ==
  /\ fate[m] = "waiting"
  /\ fate' = [fate EXCEPT ![m] = "givenUp"]
  /\ MayFail
  /\ m \in Bad \/ m \in received \/ failures' >= MaxDeliver
  /\ UNCHANGED received

Fail ==
  /\ failures' = failures + 1
  /\ UNCHANGED <<fate, received>>

\* The Subscription is deleted, and its consumer with it.
Delete ==
  /\ fate' = [m \in Msg |-> IF fate[m] = "waiting" THEN "deleted" ELSE fate[m]]
  /\ UNCHANGED <<received, failures>>

Next ==
  \/ \E m \in Msg : Publish(m) \/ Receive(m) \/ Finish(m) \/ GiveUp(m)
  \/ Fail \/ Delete

Spec == Init /\ [][Next]_absVars

=============================================================================
