--------------------------- MODULE EventingStatus ---------------------------
(***************************************************************************)
(* The status of the Eventing custom resource and the helpers that set it  *)
(* (api/operator/v1alpha1/status.go and the sync functions of              *)
(* internal/controller/operator/eventing/status.go). Messages, reasons and *)
(* transition times are left out: no decision of the code reads them.      *)
(***************************************************************************)

CONSTANTS
  Built,      \* values of the settings a subscription manager gets when it is built
  Env,        \* values of the settings an EventMesh manager reads when it starts
  NoConfig    \* stands for a nil manager or a zero hash

(***************************************************************************)
(* A backend configuration. NewJetStreamManager takes all of it;           *)
(* NewEventMeshManager takes the domain only (Built), the secret and the   *)
(* event type prefix travel through the process environment that Start     *)
(* reads (Env).                                                            *)
(***************************************************************************)
Config == [built : Built, env : Env]

ASSUME NoConfigAssumption == NoConfig \notin Config

Backend == {"NATS", "EventMesh"}

\* status.state; "" before the first reconciliation.
State == {"", "Ready", "Processing", "Warning", "Error"}

ConditionType ==
  {"BackendAvailable", "PublisherProxyReady", "SubscriptionManagerReady",
   "Deleted"}

\* "Absent": no condition of that type is in status.conditions.
ConditionStatus == {"Absent", "True", "False"}

(***************************************************************************)
(* status.specHash. The hash is computed over the configuration of one     *)
(* backend, so its value is the pair it was computed from; NoHash is the   *)
(* zero a new resource starts with. Collisions are not modelled.           *)
(***************************************************************************)
NoHash == [type |-> "", cfg |-> NoConfig]
Hash == {NoHash} \cup [type : Backend, cfg : Config]

EventingStatus ==
  [state            : State,
   conditions       : [ConditionType -> ConditionStatus],
   activeBackend    : Backend \cup {""},
   specHash         : Hash,
   publisherService : BOOLEAN]

NoConditions == [c \in ConditionType |-> "Absent"]

NewStatus ==
  [state |-> "", conditions |-> NoConditions, activeBackend |-> "",
   specHash |-> NoHash, publisherService |-> FALSE]

UpdateCondition(st, type, value) == [st EXCEPT !.conditions[type] = value]

SetState(st, state) == [st EXCEPT !.state = state]

\* InitStateProcessing: only an unset state becomes Processing.
InitStateProcessing(st) ==
  IF st.state = "" THEN SetState(st, "Processing") ELSE st

\* The status part of syncStatusWithNATSErr and syncStatusWithNATSState.
WithNATSState(st, state) ==
  UpdateCondition(SetState(st, state), "BackendAvailable", "False")

\* The status part of syncStatusForEmptyBackend.
WithEmptyBackend(st) ==
  UpdateCondition(SetState(st, "Warning"), "BackendAvailable", "False")

\* Mutant: the state is not set.
WithPublisherProxyCondition(st) == UpdateCondition(st, "PublisherProxyReady", "False")

\* The status part of syncStatusWithPublisherProxyErr(WithReason).
WithPublisherProxyErr(st) ==
  UpdateCondition(SetState(st, "Error"), "PublisherProxyReady", "False")

\* The status part of syncSubManagerStatusWithNATSState,
\* syncStatusWithSubscriptionManagerErr(WithReason) and
\* syncStatusWithSubscriptionManagerFailedCondition.
WithSubManagerState(st, state) ==
  UpdateCondition(SetState(st, state), "SubscriptionManagerReady", "False")

\* The status part of syncStatusWithDeletionErr, after the caller set the state.
WithDeletionErr(st, state) ==
  UpdateCondition(SetState(st, state), "Deleted", "False")

\* SetStateProcessing and ClearConditions of a backend switch.
WithSwitchedBackend(st) ==
  [SetState(st, "Processing") EXCEPT !.conditions = NoConditions]

\* SetNATSAvailableConditionToTrue and SetEventMeshAvailableConditionToTrue.
WithBackendAvailable(st) == UpdateCondition(st, "BackendAvailable", "True")

WithSubManagerReady(st) ==
  UpdateCondition(st, "SubscriptionManagerReady", "True")

\* handleEventingState with a deployment that is not ready: ClearPublisherService,
\* SetStateProcessing, PublisherProxyReady False.
WithProxyProcessing(st) ==
  [UpdateCondition(SetState(st, "Processing"), "PublisherProxyReady", "False")
     EXCEPT !.publisherService = FALSE]

\* handleEventingState with a ready deployment: SetPublisherProxyReadyToTrue
\* (which sets the state to Ready too) and SetPublisherService.
WithProxyReady(st) ==
  [UpdateCondition(SetState(st, "Ready"), "PublisherProxyReady", "True")
     EXCEPT !.publisherService = TRUE]

\* Mutant: only the first backend is recorded.
WithFirstBackend(st, type) ==
  IF st.activeBackend = "" THEN [st EXCEPT !.activeBackend = type] ELSE st

\* SyncStatusActiveBackend.
WithActiveBackend(st, type) == [st EXCEPT !.activeBackend = type]

=============================================================================
