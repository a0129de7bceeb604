----------------------- MODULE EventMeshSubscription -----------------------
(***************************************************************************)
(* The Subscription controller of the EventMesh backend: the reconciler    *)
(* (internal/controller/eventing/subscription/eventmesh), the EventMesh    *)
(* backend it calls (pkg/backend/eventmesh) and the subscription manager   *)
(* that starts and stops both (pkg/subscriptionmanager/eventmesh).         *)
(*                                                                         *)
(* Several Subscriptions share APIRules, one per Service of their sinks.   *)
(* A worker is cut at every call to the API server and to EventMesh. Stop  *)
(* cancels the context of the calls to the API server only: a worker that  *)
(* was on its way goes on calling EventMesh until it needs the API server. *)
(***************************************************************************)
EXTENDS Naturals, FiniteSets

CONSTANTS
  Sub,          \* names of Subscriptions; each sink has a path of its own
  Service,      \* host and port of the sinks whose Service exists
  NoService,    \* a sink that does not pass the validation
  EventTypes,   \* values of spec.types, with all else the hash covers
  None,         \* no Subscription, no APIRule, no EventMesh subscription
  Late,         \* users delete Subscriptions that have no finalizer yet
  StopsBusy,    \* managers are stopped while their worker is busy
  FaultKinds,   \* the kinds of failure the environment may inject
  MaxEdits,     \* bound: changes by users
  MaxFaults,    \* bound: failures injected
  MaxStarts,    \* bound: managers started
  MaxRules,     \* bound: APIRules created
  MaxAuth       \* bound: OAuth2 client credentials

ASSUME EMBoundsAssumption ==
  /\ MaxEdits \in Nat /\ MaxFaults \in Nat /\ MaxStarts \in Nat
  /\ MaxRules \in Nat /\ MaxAuth \in Nat \ {0}
ASSUME EMSwitchAssumption == Late \in BOOLEAN /\ StopsBusy \in BOOLEAN
ASSUME EMNamesAssumption ==
  /\ NoService \notin Service /\ None \notin Sub
  /\ None \notin 1..MaxRules /\ None \notin 1..MaxAuth

VARIABLES
  sub,      \* the Subscriptions in the API server
  rule,     \* the APIRules in the API server
  server,   \* the subscriptions on EventMesh, by the Subscription they map
  cred,     \* the OAuth2 credentials in the Secret
  live,     \* the manager that runs, 0 if none
  queue,    \* the work queue of its controller
  worker,   \* the worker of each manager
  edits, faults, starts

vars == <<sub, rule, server, cred, live, queue, worker, edits, faults, starts>>

-----------------------------------------------------------------------------
(***************************************************************************)
(* State.                                                                  *)
(***************************************************************************)

Manager == 1..MaxStarts
Rule == 1..MaxRules
Auth == 1..MaxAuth

SubSpec == [svc : Service \cup {NoService}, types : EventTypes]

ConditionType == {"APIRule", "Subscribed", "Active", "Webhook", "SpecValid"}

\* What GetHash covers of an EventMesh subscription without its WebhookAuth:
\* the events and the webhook URL, which is the host of the APIRule and, if the
\* rule has it, the path of the sink.
Content == [host : Rule, path : BOOLEAN, types : EventTypes]

ServerState == {"pending", "active", "paused"}

\* conditions: those that are True, in a list that was initialised.
\* failed: FailedActivation is set. ems: EventMeshSubscriptionStatus.
SubStatus ==
  [init : BOOLEAN, conditions : SUBSET ConditionType, ready : BOOLEAN,
   rule : Rule \cup {None}, sink : Rule \cup {None},
   local : Content \cup {None}, remote : Content \cup {None}, auth : Auth \cup {None},
   ems : ServerState \cup {None}, failed : BOOLEAN]

EmptyStatus ==
  [init |-> FALSE, conditions |-> {}, ready |-> FALSE, rule |-> None, sink |-> None,
   local |-> None, remote |-> None, auth |-> None, ems |-> None, failed |-> FALSE]

Subscription ==
  [phase : {"new", "present", "deleting", "gone"}, finalizer : BOOLEAN,
   spec : SubSpec \cup {None}, status : SubStatus]

\* owners: OwnerReferences; paths: the Subscriptions whose paths have a rule.
APIRule ==
  [state : {"unused", "present", "deleted"}, svc : Service \cup {None},
   owners : SUBSET Sub, paths : SUBSET Sub, ready : BOOLEAN]

UnusedRule ==
  [state |-> "unused", svc |-> None, owners |-> {}, paths |-> {}, ready |-> FALSE]

DeletedRule == [UnusedRule EXCEPT !.state = "deleted"]

\* failing: the last delivery to the webhook failed.
ServerSub == [content : Content, auth : Auth, state : ServerState, failing : BOOLEAN]

ASSUME EMNoneAssumption == None \notin ServerSub

Step ==
  {"idle", "delete", "validation", "list", "previous", "apply", "recreate", "get",
   "pause", "updateAuth", "resume", "create", "getCreated", "update", "finalizer"}

\* obj: the object as it was read or written last; status and finalizer: those of
\* the copy Reconcile works on; reuse, seen, owners: the APIRule to reuse and
\* the Subscriptions to be exposed; got: the EventMesh subscription read.
Worker ==
  [pc : Step, s : Sub \cup {None}, obj : Subscription, status : SubStatus,
   finalizer : BOOLEAN, reuse : Rule \cup {None}, seen : APIRule, owners : SUBSET Sub,
   content : Content \cup {None}, got : ServerSub \cup {None}, auth : Auth,
   result : {"done", "again"}]

TypeOK ==
  /\ sub \in [Sub -> Subscription]
  /\ rule \in [Rule -> APIRule]
  /\ server \in [Sub -> ServerSub \cup {None}]
  /\ cred \in Auth
  /\ live \in {0} \cup Manager
  /\ queue \subseteq Sub
  /\ worker \in [Manager -> Worker]
  /\ edits \in 0..MaxEdits /\ faults \in 0..MaxFaults /\ starts \in 0..MaxStarts

NewSubscription ==
  [phase |-> "new", finalizer |-> FALSE, spec |-> None, status |-> EmptyStatus]

IdleWorker(auth) ==
  [pc |-> "idle", s |-> None, obj |-> NewSubscription, status |-> EmptyStatus,
   finalizer |-> FALSE, reuse |-> None, seen |-> UnusedRule, owners |-> {},
   content |-> None, got |-> None, auth |-> auth, result |-> "done"]

Init ==
  /\ sub = [s \in Sub |-> NewSubscription]
  /\ rule = [r \in Rule |-> UnusedRule]
  /\ server = [s \in Sub |-> None]
  /\ cred = 1 /\ live = 0 /\ queue = {}
  /\ worker = [m \in Manager |-> IdleWorker(1)]
  /\ edits = 0 /\ faults = 0 /\ starts = 0

-----------------------------------------------------------------------------
(***************************************************************************)
(* Building blocks.                                                        *)
(***************************************************************************)

Fault(kind) ==
  /\ kind \in FaultKinds
  /\ faults < MaxFaults
  /\ faults' = faults + 1

Exists(s) == sub[s].phase \in {"present", "deleting"}

\* A call to the API server fails, or its context is cancelled.
APIFails(m) == (live # m /\ UNCHANGED faults) \/ Fault("api")

\* The watches of the running controller: Subscriptions and the owners of
\* APIRules.
Enqueue(subs) ==
  queue' = IF live = 0 THEN queue ELSE queue \cup {s \in subs : Exists(s)}

\* Reconcile returns. An error or a RequeueAfter puts the request back.
Return(m, again) ==
  /\ worker' = [worker EXCEPT ![m] = IdleWorker(worker[m].auth)]
  /\ queue' = IF again /\ live = m THEN queue \cup {worker[m].s} ELSE queue

Goto(m, step) == worker' = [worker EXCEPT ![m].pc = step]

\* The end of a Reconcile with this status: updateSubscription is next.
Finish(m, status, result) ==
  worker' = [worker EXCEPT ![m].pc = "update", ![m].status = status, ![m].result = result]

\* replaceStatusCondition also computes whether the Subscription is ready.
ReplaceStatusCondition(status, type, true) ==
  LET conditions == IF true THEN status.conditions \cup {type} ELSE status.conditions \ {type}
  IN  [status EXCEPT !.conditions = conditions, !.ready = conditions = ConditionType]

\* setCondition and SetConditionAPIRuleStatus leave ready alone.
SetCondition(status, type, true) ==
  [status EXCEPT !.conditions = IF true THEN @ \cup {type} ELSE @ \ {type}]

\* CopyHashes.
CopyHashes(status, src) ==
  [status EXCEPT !.local = src.local, !.remote = src.remote, !.auth = src.auth]

\* Mutant: a first status is an empty one.
SyncInitialStatusAnew(status) ==
  IF ~status.init THEN [EmptyStatus EXCEPT !.init = TRUE]
  ELSE IF status.ready = (status.conditions = ConditionType) THEN status
  ELSE [status EXCEPT !.ready = ~@, !.rule = None, !.sink = None]

\* syncInitialStatus: a first status, or one whose ready contradicts the
\* conditions.
SyncInitialStatus(status) ==
  IF ~status.init THEN [CopyHashes(EmptyStatus, status) EXCEPT !.init = TRUE]
  ELSE IF status.ready = (status.conditions = ConditionType) THEN status
  ELSE [status EXCEPT !.ready = ~@, !.rule = None, !.sink = None]

-----------------------------------------------------------------------------
(***************************************************************************)
(* Reconcile, up to the APIRule.                                           *)
(***************************************************************************)

Fetch(m, s, step, status, finalizer) ==
  /\ live = m /\ worker[m].pc = "idle" /\ s \in queue
  /\ queue' = queue \ {s}
  /\ worker' = [worker EXCEPT ![m].pc = step, ![m].s = IF step = "idle" THEN None ELSE s,
       ![m].obj = IF step = "idle" THEN NewSubscription ELSE sub[s],
       ![m].status = status, ![m].finalizer = finalizer]
  /\ UNCHANGED <<sub, rule, server, cred, live, edits, starts>>

ReconcileNothing(m, s) ==
  /\ ~Exists(s) /\ UNCHANGED faults
  /\ Fetch(m, s, "idle", EmptyStatus, FALSE)

\* Mutant: the finalizer is set before the deletion is handled.
ReconcileDeletionWithFinalizer(m, s) ==
  /\ sub[s].phase = "deleting" /\ UNCHANGED faults
  /\ Fetch(m, s, "delete", sub[s].status, TRUE)

\* handleDeleteSubscription.
ReconcileDeletion(m, s) ==
  /\ sub[s].phase = "deleting" /\ UNCHANGED faults
  /\ Fetch(m, s, "delete", sub[s].status, FALSE)

\* validateSubscription: any error of the look-up of the Service counts.
ReconcileInvalid(m, s) ==
  /\ sub[s].phase = "present"
  /\ \/ sub[s].spec.svc = NoService /\ UNCHANGED faults
     \/ sub[s].spec.svc # NoService /\ Fault("api")
  /\ LET status == SetCondition(SyncInitialStatus(sub[s].status), "SpecValid", FALSE)
     IN  Fetch(m, s, "validation", [status EXCEPT !.ready = FALSE], TRUE)

\* syncFinalizer sets the finalizer of the copy.
ReconcileValid(m, s) ==
  /\ sub[s].phase = "present" /\ sub[s].spec.svc # NoService /\ UNCHANGED faults
  /\ Fetch(m, s, "list",
           SetCondition(SyncInitialStatus(sub[s].status), "SpecValid", TRUE), TRUE)

Reconcile(m) ==
  \E s \in Sub :
    \/ ReconcileNothing(m, s) \/ ReconcileDeletion(m, s)
    \/ ReconcileInvalid(m, s) \/ ReconcileValid(m, s)

\* updateStatus of a Subscription that is not valid, with the version read
\* first; the finalizer is not written. A terminal error is not retried.
UpdateInvalidStatus(m) ==
  /\ worker[m].pc = "validation"
  /\ LET s == worker[m].s
         equal == worker[m].obj.status = worker[m].status
     IN
     \/ /\ equal /\ UNCHANGED <<sub, faults>> /\ Return(m, FALSE)
     \/ /\ ~equal /\ live = m /\ sub[s] = worker[m].obj
        /\ sub' = [sub EXCEPT ![s].status = worker[m].status]
        /\ Return(m, TRUE) /\ UNCHANGED faults
     \/ /\ ~equal
        /\ \/ sub[s] # worker[m].obj /\ live = m /\ UNCHANGED faults
           \/ APIFails(m)
        /\ Return(m, TRUE) /\ UNCHANGED sub
  /\ UNCHANGED <<rule, server, cred, live, edits, starts>>

-----------------------------------------------------------------------------
(***************************************************************************)
(* syncAPIRule.                                                            *)
(***************************************************************************)

\* An error that is not skippable ends the Reconcile: the condition is False,
\* ready is as it was.
APIRuleError(m) ==
  Finish(m, SetCondition(worker[m].status, "APIRule", FALSE), "again")

\* Mutant: an APIRule that is not ready is not reused.
ReadyRulesForASvc(svc) ==
  {r \in Rule : rule[r].state = "present" /\ rule[r].svc = svc /\ rule[r].ready}

\* getAPIRulesForASvc and filterAPIRulesOnPort: the first match of a list.
RulesForASvc(svc) == {r \in Rule : rule[r].state = "present" /\ rule[r].svc = svc}

\* getSubscriptionsForASvc and filterSubscriptionsOnPort.
SubscriptionsForASvc(svc) == {s \in Sub : sub[s].phase = "present" /\ sub[s].spec.svc = svc}

\* createOrUpdateAPIRule reads: the rule to reuse and who has to be exposed. The
\* two lists are one step.
ListAPIRules(m) ==
  /\ worker[m].pc = "list"
  /\ LET svc == worker[m].obj.spec.svc
         rules == RulesForASvc(svc)
     IN
     \/ /\ live = m
        /\ \E r \in IF rules = {} THEN {None} ELSE rules :
             worker' = [worker EXCEPT ![m].pc = "previous", ![m].reuse = r,
               ![m].seen = IF r = None THEN UnusedRule ELSE rule[r],
               ![m].owners = SubscriptionsForASvc(svc)]
        /\ UNCHANGED faults
     \/ APIFails(m) /\ APIRuleError(m)
  /\ UNCHANGED <<sub, rule, server, cred, live, queue, edits, starts>>

\* The API server takes no APIRule without rules.
Accepted(m, owners) == live = m /\ owners # {}

Refused(m, owners) == (live = m /\ owners = {} /\ UNCHANGED faults) \/ APIFails(m)

WithOwnersAndRules(r, owners) == [rule[r] EXCEPT !.owners = owners, !.paths = owners]

\* The Subscriptions that still use APIRule r, by their status.
UsersOf(r, s) == {t \in Sub \ {s} : Exists(t) /\ sub[t].status.rule = r}

\* handlePreviousAPIRule: a rule of a former sink is deleted, or left to the
\* others that use it.
ReleaseAPIRule(m, r) ==
  LET s == worker[m].s
      owners == rule[r].owners
      users == UsersOf(r, s)
  IN
  \/ /\ live = m
     /\ rule[r].state # "present" \/ (s \notin owners /\ owners # {})
     /\ Goto(m, "apply") /\ UNCHANGED <<rule, queue, faults>>
  \/ /\ live = m /\ rule[r].state = "present" /\ owners \subseteq {s}
     /\ rule' = [rule EXCEPT ![r] = DeletedRule]
     /\ Enqueue(owners)
     /\ Goto(m, "apply") /\ UNCHANGED faults
  \/ /\ rule[r].state = "present" /\ s \in owners /\ owners # {s}
     /\ Accepted(m, users)
     /\ rule' = [rule EXCEPT ![r] = WithOwnersAndRules(r, users)]
     /\ Enqueue(owners \cup users)
     /\ Goto(m, "apply") /\ UNCHANGED faults
  \/ /\ rule[r].state = "present" /\ s \in owners /\ owners # {s}
     /\ Refused(m, users) /\ APIRuleError(m) /\ UNCHANGED <<rule, queue>>
  \/ APIFails(m) /\ APIRuleError(m) /\ UNCHANGED <<rule, queue>>

HandlePreviousAPIRule(m) ==
  /\ worker[m].pc = "previous"
  /\ IF worker[m].status.rule \in {None, worker[m].reuse}
     THEN Goto(m, "apply") /\ UNCHANGED <<rule, queue, faults>>
     ELSE ReleaseAPIRule(m, worker[m].status.rule)
  /\ UNCHANGED <<sub, server, cred, live, edits, starts>>

\* Mutant: the hash is compared only once there is one.
KymaSubModifiedOnce(status, content) == status.local = None

\* handleKymaSubModified: the hash of what is asked for is not the one taken last.
\* The feature flag of the webhook authentication is on, as featureflags.go has it:
\* both hashes are those without the authentication, which has a hash of its own.
KymaSubModified(status, content) == status.local # content

\* handleEventMeshSubModified: EventMesh has something else than what it had.
EventMeshSubModified(status, got) == got.content # status.remote

\* Mutant: the hash is compared only once there is one.
WebhookAuthKnown(m) == worker[m].status.auth = None

\* handleWebhookAuthChange has something to do.
WebhookAuthChanged(m) == worker[m].auth # worker[m].status.auth

\* The APIRule is in place. Its host becomes the sink if it is ready, else the
\* condition is False. SyncSubscription asks first whether the Subscription was
\* modified since its hash was taken.
APIRuleSynced(m, r, ready) ==
  LET w == worker[m]
      content == [host |-> r, path |-> w.s \in w.owners, types |-> w.obj.spec.types]
      named == [w.status EXCEPT !.rule = r, !.sink = IF ready THEN r ELSE @]
  IN  worker' = [worker EXCEPT ![m] =
        [w EXCEPT !.reuse = None, !.seen = UnusedRule, !.owners = {}, !.content = content,
                  !.status = SetCondition(named, "APIRule", ready),
                  !.pc = IF KymaSubModified(w.status, content) THEN "recreate" ELSE "get"]]

CreateAPIRule(m) ==
  /\ worker[m].pc = "apply" /\ worker[m].reuse = None
  /\ LET owners == worker[m].owners IN
     \/ /\ Accepted(m, owners)
        /\ \E r \in Rule :
             /\ rule[r].state = "unused" /\ \A q \in 1..(r - 1) : rule[q].state # "unused"
             /\ rule' = [rule EXCEPT ![r] =
                  [state |-> "present", svc |-> worker[m].obj.spec.svc,
                   owners |-> owners, paths |-> owners, ready |-> FALSE]]
             /\ APIRuleSynced(m, r, FALSE)
        /\ Enqueue(owners) /\ UNCHANGED faults
     \/ Refused(m, owners) /\ APIRuleError(m) /\ UNCHANGED <<rule, queue>>
  /\ UNCHANGED <<sub, server, cred, live, edits, starts>>

\* apiRuleEqual, on what may differ: Service, labels and gateway were matched.
APIRuleEqual(seen, owners) == seen.owners = owners /\ seen.paths = owners

\* The rule is as it should be, or it is updated with the version read. After an
\* update the AuthorizationPolicy is created unless there is one, which may fail.
UpdateAPIRule(m) ==
  /\ worker[m].pc = "apply" /\ worker[m].reuse # None
  /\ LET r == worker[m].reuse
         seen == worker[m].seen
         owners == worker[m].owners
         equal == APIRuleEqual(seen, owners)
     IN
     \/ /\ equal /\ APIRuleSynced(m, r, seen.ready)
        /\ UNCHANGED <<rule, queue, faults>>
     \/ /\ ~equal /\ Accepted(m, owners) /\ rule[r] = seen
        /\ rule' = [rule EXCEPT ![r] = WithOwnersAndRules(r, owners)]
        /\ Enqueue(seen.owners \cup owners)
        /\ \/ APIRuleSynced(m, r, seen.ready) /\ UNCHANGED faults
           \/ APIRuleError(m) /\ Fault("api")
     \/ /\ ~equal
        /\ (rule[r] # seen /\ live = m /\ UNCHANGED faults) \/ Refused(m, owners)
        /\ APIRuleError(m) /\ UNCHANGED <<rule, queue>>
  /\ UNCHANGED <<sub, server, cred, live, edits, starts>>

-----------------------------------------------------------------------------
(***************************************************************************)
(* SyncSubscription of the backend and what becomes of its result. Calls   *)
(* to EventMesh have no context: a stopped worker goes on.                 *)
(***************************************************************************)

\* The backend returns an error: condition Subscribed becomes False.
BackendError(m) ==
  Finish(m, ReplaceStatusCondition(worker[m].status, "Subscribed", FALSE), "again")

\* The call fails, or its effect is there and the answer is lost. Event types that
\* cannot be processed (getProcessedEventTypes) end like a first call that fails.
CallFails(m, s, effect) ==
  /\ Fault("ems") /\ BackendError(m)
  /\ server' \in {server, [server EXCEPT ![s] = effect]}

\* updateHashesInStatus, setEmsSubscriptionStatus, checkStatusActive and the
\* conditions. A subscription that is not active is waited for; when it takes
\* longer than timeoutRetryActiveEmsStatus the Reconcile ends with an error.
Outcome(m, got) ==
  LET status == [worker[m].status EXCEPT !.local = worker[m].content,
                   !.remote = got.content, !.auth = worker[m].auth, !.ems = got.state]
      active == got.state = "active"
      done   == ReplaceStatusCondition(
                  ReplaceStatusCondition(
                    ReplaceStatusCondition([status EXCEPT !.failed = ~active],
                      "Subscribed", TRUE),
                    "Active", active),
                  "Webhook", ~got.failing)
  IN  {[status |-> done, result |-> IF active THEN "done" ELSE "again"]}
        \cup IF ~active /\ status.failed THEN {[status |-> status, result |-> "again"]} ELSE {}

Synced(m, got) == \E o \in Outcome(m, got) : Finish(m, o.status, o.result)

\* deleteSubscription: what was modified is created again.
DeleteModified(m) ==
  /\ worker[m].pc = "recreate"
  /\ LET s == worker[m].s IN
     \/ /\ server' = [server EXCEPT ![s] = None]
        /\ Goto(m, "create") /\ UNCHANGED faults
     \/ CallFails(m, s, None)
  /\ UNCHANGED <<sub, rule, cred, live, queue, edits, starts>>

\* getSubscriptionIgnoreNotFound, and what follows from it.
GetSubscription(m) ==
  /\ worker[m].pc = "get"
  /\ LET got == server[worker[m].s] IN
     \/ /\ UNCHANGED faults
        /\ \/ got = None /\ Goto(m, "create")
           \/ /\ got # None /\ EventMeshSubModified(worker[m].status, got)
              /\ Goto(m, "recreate")
           \/ /\ got # None /\ ~EventMeshSubModified(worker[m].status, got)
              /\ IF WebhookAuthChanged(m)
                 THEN worker' = [worker EXCEPT ![m].pc = "pause", ![m].got = got]
                 ELSE Synced(m, got)
     \/ Fault("ems") /\ BackendError(m)
  /\ UNCHANGED <<sub, rule, server, cred, live, queue, edits, starts>>

\* One request of handleWebhookAuthChange. A subscription that is not found any
\* more ends it without an error.
WebhookAuthRequest(m, step, effect, next) ==
  /\ worker[m].pc = step
  /\ LET s == worker[m].s IN
     \/ /\ server[s] = None /\ Synced(m, worker[m].got)
        /\ UNCHANGED <<server, faults>>
     \/ /\ server[s] # None
        /\ \/ /\ server' = [server EXCEPT ![s] = effect]
              /\ UNCHANGED faults
              /\ IF next = "update" THEN Synced(m, worker[m].got) ELSE Goto(m, next)
           \/ CallFails(m, s, effect)
  /\ UNCHANGED <<sub, rule, cred, live, queue, edits, starts>>

Pause(m) ==
  WebhookAuthRequest(m, "pause", [server[worker[m].s] EXCEPT !.state = "paused"], "updateAuth")

UpdateAuth(m) ==
  WebhookAuthRequest(m, "updateAuth", [server[worker[m].s] EXCEPT !.auth = worker[m].auth], "resume")

\* Mutant: the subscription is not resumed.
ResumeMissing(m) == WebhookAuthRequest(m, "resume", server[worker[m].s], "update")

Resume(m) ==
  WebhookAuthRequest(m, "resume", [server[worker[m].s] EXCEPT !.state = "pending"], "update")

\* createSubscription: a conflict counts as success.
CreateSubscription(m) ==
  /\ worker[m].pc = "create"
  /\ LET s == worker[m].s
         new == IF server[s] # None THEN server[s]
                ELSE [content |-> worker[m].content, auth |-> worker[m].auth,
                      state |-> "pending", failing |-> FALSE]
     IN
     \/ /\ server' = [server EXCEPT ![s] = new]
        /\ Goto(m, "getCreated") /\ UNCHANGED faults
     \/ CallFails(m, s, new)
  /\ UNCHANGED <<sub, rule, cred, live, queue, edits, starts>>

GetCreated(m) ==
  /\ worker[m].pc = "getCreated"
  /\ LET got == server[worker[m].s] IN
     \/ got # None /\ Synced(m, got) /\ UNCHANGED faults
     \/ BackendError(m) /\ ((got = None /\ UNCHANGED faults) \/ Fault("ems"))
  /\ UNCHANGED <<sub, rule, server, cred, live, queue, edits, starts>>

\* Mutant: a request that fails is taken for one that found nothing.
DeleteSubscriptionOnce(m) ==
  /\ worker[m].pc = "delete"
  /\ LET s == worker[m].s IN
     /\ Finish(m, ReplaceStatusCondition(worker[m].status, "Subscribed", FALSE), "done")
     /\ \/ server' = [server EXCEPT ![s] = None] /\ UNCHANGED faults
        \/ Fault("ems") /\ UNCHANGED server
  /\ UNCHANGED <<sub, rule, cred, live, queue, edits, starts>>

\* DeleteSubscription for a Subscription that is being deleted.
DeleteSubscription(m) ==
  /\ worker[m].pc = "delete"
  /\ LET s == worker[m].s IN
     \/ /\ server' = [server EXCEPT ![s] = None]
        /\ Finish(m, ReplaceStatusCondition(worker[m].status, "Subscribed", FALSE), "done")
        /\ UNCHANGED <<queue, faults>>
     \/ /\ Fault("ems") /\ Return(m, TRUE)
        /\ server' \in {server, [server EXCEPT ![s] = None]}
  /\ UNCHANGED <<sub, rule, cred, live, edits, starts>>

-----------------------------------------------------------------------------
(***************************************************************************)
(* updateSubscription.                                                     *)
(***************************************************************************)

\* Reads the object again and writes the status if it differs. The answer to
\* that write carries the finalizers of the API server, so that one to be
\* removed may have to wait for the Reconcile this write triggers.
UpdateSubscription(m) ==
  /\ worker[m].pc = "update"
  /\ LET s == worker[m].s
         new == [sub[s] EXCEPT !.status = worker[m].status]
         written == new # sub[s]
         change == worker[m].finalizer # sub[s].finalizer
         again == worker[m].result = "again" \/ written
     IN
     \/ /\ live = m /\ Exists(s)
        /\ sub' = [sub EXCEPT ![s] = new]
        /\ UNCHANGED faults
        /\ \/ /\ change
              /\ worker' = [worker EXCEPT ![m].pc = "finalizer", ![m].obj = new]
              /\ Enqueue(IF written THEN {s} ELSE {})
           \/ /\ change => (written /\ ~worker[m].finalizer)
              /\ Return(m, again)
     \/ /\ (live = m /\ ~Exists(s) /\ UNCHANGED faults) \/ APIFails(m)
        /\ Return(m, TRUE) /\ UNCHANGED sub
  /\ UNCHANGED <<rule, server, cred, live, edits, starts>>

\* Without finalizers the API server removes the deleting object.
UpdateFinalizers(m) ==
  /\ worker[m].pc = "finalizer"
  /\ LET s == worker[m].s
         new == [sub[s] EXCEPT !.finalizer = worker[m].finalizer,
                   !.phase = IF @ = "deleting" /\ ~worker[m].finalizer THEN "gone" ELSE @]
     IN
     \/ /\ live = m /\ sub[s] = worker[m].obj
        /\ sub' = [sub EXCEPT ![s] = new]
        /\ Return(m, TRUE) /\ UNCHANGED faults
     \/ /\ (live = m /\ sub[s] # worker[m].obj /\ UNCHANGED faults) \/ APIFails(m)
        /\ Return(m, TRUE) /\ UNCHANGED sub
  /\ UNCHANGED <<rule, server, cred, live, edits, starts>>

WorkerStep(m) ==
  \/ Reconcile(m) \/ UpdateInvalidStatus(m)
  \/ ListAPIRules(m) \/ HandlePreviousAPIRule(m) \/ CreateAPIRule(m) \/ UpdateAPIRule(m)
  \/ DeleteModified(m) \/ GetSubscription(m) \/ Pause(m) \/ UpdateAuth(m) \/ Resume(m)
  \/ CreateSubscription(m) \/ GetCreated(m) \/ DeleteSubscription(m)
  \/ UpdateSubscription(m) \/ UpdateFinalizers(m)

-----------------------------------------------------------------------------
(***************************************************************************)
(* The subscription manager, as the Eventing reconciler calls it.          *)
(***************************************************************************)

\* Mutant: the credentials are not read.
StartWithoutCredentials ==
  /\ live = 0 /\ starts < MaxStarts
  /\ starts' = starts + 1 /\ live' = starts + 1
  /\ worker' = [worker EXCEPT ![starts + 1] = IdleWorker(0)]
  /\ queue' = {s \in Sub : Exists(s)}
  /\ UNCHANGED <<sub, rule, server, cred, edits, faults>>

\* A new backend and controller with the credentials of the Secret.
Start ==
  /\ live = 0 /\ starts < MaxStarts
  /\ starts' = starts + 1 /\ live' = starts + 1
  /\ worker' = [worker EXCEPT ![starts + 1] = IdleWorker(cred)]
  /\ queue' = {s \in Sub : Exists(s)}
  /\ UNCHANGED <<sub, rule, server, cred, edits, faults>>

\* Stop cancels the context and waits for nothing.
Stopping(m) ==
  /\ live = m /\ starts < MaxStarts
  /\ StopsBusy \/ worker[m].pc = "idle"
  /\ live' = 0 /\ queue' = {}
  /\ UNCHANGED <<cred, worker, edits, starts>>

\* markAllV1Alpha2SubscriptionsAsNotReady: the hashes stay. Failures are logged.
MarkAllAsNotReady(m) ==
  /\ Stopping(m)
  /\ \/ /\ sub' = [s \in Sub |->
             IF Exists(s) /\ sub[s].status.ready
             THEN [sub[s] EXCEPT !.status = CopyHashes(EmptyStatus, @)] ELSE sub[s]]
        /\ UNCHANGED faults
     \/ Fault("status") /\ UNCHANGED sub
  /\ UNCHANGED <<rule, server>>

\* cleanupEventMesh: the rules the statuses name, the statuses and the
\* subscriptions on EventMesh. Failures are logged.
CleanupEventMesh(m) ==
  /\ Stopping(m)
  /\ rule' = [r \in Rule |->
       IF rule[r].state = "present" /\ \E s \in Sub : Exists(s) /\ sub[s].status.rule = r
       THEN DeletedRule ELSE rule[r]]
  /\ sub' = [s \in Sub |-> IF Exists(s) THEN [sub[s] EXCEPT !.status = EmptyStatus] ELSE sub[s]]
  /\ \/ server' = [s \in Sub |-> IF Exists(s) THEN None ELSE server[s]] /\ UNCHANGED faults
     \/ Fault("ems") /\ UNCHANGED server

\* The process ends, and with it every worker.
Crash ==
  /\ Fault("crash") /\ live # 0 /\ starts < MaxStarts
  /\ live' = 0 /\ queue' = {}
  /\ worker' = [m \in Manager |-> IdleWorker(worker[m].auth)]
  /\ UNCHANGED <<sub, rule, server, cred, edits, starts>>

\* The periodic resync of the informers.
Resync ==
  /\ live # 0 /\ queue' = {s \in Sub : Exists(s)} /\ queue' # queue
  /\ UNCHANGED <<sub, rule, server, cred, live, worker, edits, faults, starts>>

-----------------------------------------------------------------------------
(***************************************************************************)
(* Users, API gateway, garbage collector, EventMesh.                       *)
(***************************************************************************)

Edit ==
  /\ edits < MaxEdits /\ edits' = edits + 1
  /\ UNCHANGED <<rule, server, live, worker, faults, starts>>

Written(s, obj) ==
  /\ sub' = [sub EXCEPT ![s] = obj]
  /\ queue' = IF live = 0 THEN queue ELSE queue \cup {s}

UserCreates ==
  /\ Edit /\ UNCHANGED cred
  /\ \E s \in Sub, spec \in SubSpec :
       sub[s].phase = "new" /\ Written(s, [NewSubscription EXCEPT !.phase = "present", !.spec = spec])

UserEdits ==
  /\ Edit /\ UNCHANGED cred
  /\ \E s \in Sub : \E spec \in SubSpec \ {sub[s].spec} :
       sub[s].phase = "present" /\ Written(s, [sub[s] EXCEPT !.spec = spec])

UserDeletes ==
  /\ Edit /\ UNCHANGED cred
  /\ \E s \in Sub :
       /\ sub[s].phase = "present" /\ (Late \/ sub[s].finalizer)
       /\ Written(s, [sub[s] EXCEPT !.phase = IF sub[s].finalizer THEN "deleting" ELSE "gone"])

\* New credentials in the Secret, or the former ones again.
RotateCredentials ==
  /\ Edit /\ UNCHANGED <<sub, queue>>
  /\ \E a \in Auth :
       /\ a = cred + 1 \/ ("rollback" \in FaultKinds /\ a # cred)
       /\ cred' = a

RuleChanged(r, new) ==
  /\ rule' = [rule EXCEPT ![r] = new]
  /\ Enqueue(rule[r].owners)
  /\ UNCHANGED <<sub, server, cred, live, worker, edits, starts>>

GatewayReady ==
  \E r \in Rule :
    /\ rule[r].state = "present" /\ ~rule[r].ready
    /\ RuleChanged(r, [rule[r] EXCEPT !.ready = TRUE]) /\ UNCHANGED faults

GatewayNotReady ==
  \E r \in Rule :
    /\ rule[r].state = "present" /\ rule[r].ready /\ Fault("gateway")
    /\ RuleChanged(r, [rule[r] EXCEPT !.ready = FALSE])

\* Owners that are gone are dropped, and a rule with its last owner.
GarbageCollector ==
  \E r \in Rule :
    LET left == {s \in rule[r].owners : Exists(s)} IN
    /\ rule[r].state = "present" /\ left # rule[r].owners
    /\ RuleChanged(r, IF left = {} THEN DeletedRule
                      ELSE [rule[r] EXCEPT !.owners = left])
    /\ UNCHANGED faults

ServerChanged(s, new) ==
  /\ server' = [server EXCEPT ![s] = new]
  /\ UNCHANGED <<sub, rule, cred, live, queue, worker, edits, starts>>

Activate ==
  \E s \in Sub :
    /\ server[s] # None /\ server[s].state = "pending"
    /\ ServerChanged(s, [server[s] EXCEPT !.state = "active"]) /\ UNCHANGED faults

DeliveryFails ==
  \E s \in Sub :
    /\ server[s] # None /\ ~server[s].failing /\ Fault("delivery")
    /\ ServerChanged(s, [server[s] EXCEPT !.failing = TRUE])

DeliverySucceeds ==
  \E s \in Sub :
    /\ server[s] # None /\ server[s].failing
    /\ ServerChanged(s, [server[s] EXCEPT !.failing = FALSE]) /\ UNCHANGED faults

\* Someone deletes or changes the subscription on EventMesh, not in the moment
\* between its creation and the request that reads it for the first time.
ServerModified ==
  \E s \in Sub, types \in EventTypes, deleted \in BOOLEAN :
    /\ server[s] # None /\ \A m \in Manager : worker[m].pc # "getCreated"
    /\ Fault("server")
    /\ ServerChanged(s, IF deleted THEN None ELSE [server[s] EXCEPT !.content.types = types])

Environment ==
  \/ UserCreates \/ UserEdits \/ UserDeletes \/ RotateCredentials
  \/ GatewayReady \/ GatewayNotReady \/ GarbageCollector
  \/ Activate \/ DeliveryFails \/ DeliverySucceeds \/ ServerModified

Next ==
  \/ \E m \in Manager : WorkerStep(m) \/ MarkAllAsNotReady(m) \/ CleanupEventMesh(m)
  \/ Start \/ Crash \/ Resync \/ Environment

Spec == Init /\ [][Next]_vars

(***************************************************************************)
(* Fairness. A worker with work goes on, the Eventing reconciler starts a  *)
(* manager when none runs, the informers are resynced (cmd/main.go), the   *)
(* API gateway, the garbage collector and EventMesh do their work. Users,  *)
(* failures, stops and crashes are not fair.                               *)
(***************************************************************************)
Fairness ==
  /\ \A m \in Manager : WF_vars(WorkerStep(m))
  /\ WF_vars(Start) /\ WF_vars(Resync)
  /\ WF_vars(GatewayReady) /\ WF_vars(GarbageCollector)
  /\ WF_vars(Activate) /\ WF_vars(DeliverySucceeds)

FairSpec == Spec /\ Fairness

-----------------------------------------------------------------------------
(***************************************************************************)
(* Properties.                                                             *)
(***************************************************************************)

Settled == live # 0 /\ queue = {} /\ \A m \in Manager : worker[m].pc = "idle"

ReadySub(s) == sub[s].phase = "present" /\ sub[s].status.ready

\* Settled and ready: the APIRule named in the status exists, is the one of the
\* Service in the spec, carries the path of the Subscription and has it as
\* owner, and EventMesh posts the event types of the spec to that host and path.
ReadyMeansExposed ==
  Settled => \A s \in Sub : ReadySub(s) =>
    LET r == sub[s].status.rule IN
    /\ r # None /\ sub[s].status.sink = r
    /\ rule[r].state = "present" /\ rule[r].ready /\ rule[r].svc = sub[s].spec.svc
    /\ s \in rule[r].owners \cap rule[r].paths
    /\ server[s] # None
    /\ server[s].content = [host |-> r, path |-> TRUE, types |-> sub[s].spec.types]

\* filterAPIRulesOnPort trusts the first match: a Service never has two APIRules.
OneRulePerService ==
  \A r, q \in Rule :
    rule[r].state = "present" /\ rule[q].state = "present" /\ rule[r].svc = rule[q].svc => r = q

\* A Subscription that is gone leaves nothing on EventMesh.
NothingLeftOnEventMesh ==
  \A s \in Sub :
    sub[s].phase = "gone" /\ (\A m \in Manager : worker[m].s # s) => server[s] = None

\* Settled: EventMesh calls the webhook of a ready Subscription with the
\* credentials of the running manager, and the hash in the status is theirs.
ReadyMeansCurrentAuth ==
  Settled => \A s \in Sub : ReadySub(s) /\ server[s] # None =>
    server[s].auth = worker[live].auth /\ sub[s].status.auth = server[s].auth

\* As long as nothing has failed, a subscription on EventMesh is not deleted for
\* one with the same events and the same webhook, stops of the manager included:
\* the events that wait in it would be lost.
NoNeedlessDeletion ==
  [][\A m \in Manager :
       faults = 0 /\ worker[m].pc = "recreate" /\ server[worker[m].s] # None =>
         server[worker[m].s].content # worker[m].content
         \/ server'[worker[m].s] # None]_vars

\* When users and failures leave it alone, a Subscription with a valid spec ends
\* ready, and its subscription on EventMesh ends active, with the events of the
\* spec and the credentials of the running manager; it is not left paused.
EndsReady ==
  \A s \in Sub : <>[](sub[s].phase = "present" /\ sub[s].spec.svc # NoService =>
    /\ live # 0 /\ sub[s].status.ready
    /\ server[s] # None /\ server[s].state = "active"
    /\ server[s].auth = worker[live].auth /\ server[s].content.types = sub[s].spec.types)

\* A Subscription that is being deleted is gone in the end.
SubscriptionDeletionCompletes ==
  \A s \in Sub : []<>(sub[s].phase # "deleting")

=============================================================================
