-------------------- MODULE EventMeshSubscriptionProofs --------------------
(***************************************************************************)
(* Proofs about EventMeshSubscription, for every set of Subscriptions,     *)
(* Services and event types, every set of failure kinds and all bounds.    *)
(***************************************************************************)
EXTENDS EventMeshSubscription, TLAPS

-----------------------------------------------------------------------------
(***************************************************************************)
(* The inductive invariant.                                                *)
(***************************************************************************)

Backend == {"recreate", "get", "pause", "updateAuth", "resume", "create", "getCreated"}

Patching == {"pause", "updateAuth", "resume"}

Exposing == {"list", "previous", "apply"}

\* What a worker has at hand in each of its steps.
Equipped(w) ==
  /\ w.pc # "idle" => w.s \in Sub
  /\ w.pc \in Exposing => w.obj.spec \in SubSpec /\ w.obj.spec.svc \in Service
  /\ w.pc \in Backend => w.content \in Content
  /\ w.pc \in Patching => w.got \in ServerSub

WorkersEquipped == \A m \in Manager : Equipped(worker[m])

SpecsKnown == \A s \in Sub : sub[s].phase = "present" => sub[s].spec \in SubSpec

TypeInv == TypeOK /\ WorkersEquipped /\ SpecsKnown

\* A worker that decided to create an APIRule is still right about that.
NoRuleYet ==
  live \in Manager /\ worker[live].pc \in {"previous", "apply"} /\ worker[live].reuse = None =>
    \A r \in Rule : rule[r].state = "present" => rule[r].svc # worker[live].obj.spec.svc

RuleInv == OneRulePerService /\ NoRuleYet

\* Only the worker of the running manager is busy, with a Subscription that exists.
OneBusy ==
  \A m \in Manager : worker[m].pc # "idle" => live = m /\ Exists(worker[m].s)

\* A worker takes the finalizer away only in a deletion, and after it has
\* deleted the subscription on EventMesh.
Releasing ==
  \A m \in Manager : worker[m].pc # "idle" /\ ~worker[m].finalizer =>
    /\ worker[m].pc \in {"delete", "update", "finalizer"}
    /\ sub[worker[m].s].phase = "deleting"
    /\ worker[m].pc # "delete" => server[worker[m].s] = None

GoneForGood == \A s \in Sub : sub[s].phase = "gone" => server[s] = None

\* Without late deletions and stops of a busy manager.
LeftInv == ~Late /\ ~StopsBusy => OneBusy /\ Releasing /\ GoneForGood

-----------------------------------------------------------------------------
(***************************************************************************)
(* Types of the building blocks.                                           *)
(***************************************************************************)

\* The status of a new Subscription is a status.
LEMMA EmptyStatusType == EmptyStatus \in SubStatus
  BY DEF EmptyStatus, SubStatus

\* A Subscription that was not created yet.
LEMMA NewSubscriptionType == NewSubscription \in Subscription
  BY EmptyStatusType DEF NewSubscription, Subscription

\* APIRules that do not exist.
LEMMA UnusedRuleType ==
  UnusedRule \in APIRule /\ DeletedRule \in APIRule /\ DeletedRule.state = "deleted"
  BY DEF UnusedRule, DeletedRule, APIRule

\* The worker a manager starts with.
LEMMA IdleWorkerType ==
  ASSUME NEW a \in Auth
  PROVE  IdleWorker(a) \in Worker /\ IdleWorker(a).pc = "idle"
  BY EmptyStatusType, NewSubscriptionType, UnusedRuleType DEF IdleWorker, Worker, Step

\* The helpers of the conditions keep the type of a status.
LEMMA StatusTypes ==
  ASSUME NEW st \in SubStatus, NEW type \in ConditionType, NEW true \in BOOLEAN
  PROVE  /\ SetCondition(st, type, true) \in SubStatus
         /\ ReplaceStatusCondition(st, type, true) \in SubStatus
  <1>1. st.conditions \cup {type} \in SUBSET ConditionType
    BY DEF SubStatus
  <1>2. st.conditions \ {type} \in SUBSET ConditionType
    BY DEF SubStatus
  <1>3. SetCondition(st, type, true) \in SubStatus
    BY <1>1, <1>2 DEF SubStatus, SetCondition
  <1>4. ReplaceStatusCondition(st, type, true) \in SubStatus
    <2> DEFINE c == IF true THEN st.conditions \cup {type} ELSE st.conditions \ {type}
    <2>1. c \in SUBSET ConditionType
      BY <1>1, <1>2
    <2>2. (c = ConditionType) \in BOOLEAN
      OBVIOUS
    <2> HIDE DEF c
    <2>3. [st EXCEPT !.conditions = c, !.ready = c = ConditionType] \in SubStatus
      BY <2>1, <2>2 DEF SubStatus
    <2> QED
      BY <2>3 DEF ReplaceStatusCondition, c
  <1> QED
    BY <1>3, <1>4

\* So does copying the hashes.
LEMMA CopyHashesType ==
  ASSUME NEW st \in SubStatus, NEW src \in SubStatus
  PROVE  CopyHashes(st, src) \in SubStatus
  BY DEF CopyHashes, SubStatus

\* So does syncInitialStatus.
LEMMA SyncInitialStatusType ==
  ASSUME NEW st \in SubStatus
  PROVE  SyncInitialStatus(st) \in SubStatus
  <1>1. CopyHashes(EmptyStatus, st) \in SubStatus
    BY CopyHashesType, EmptyStatusType
  <1>2. [CopyHashes(EmptyStatus, st) EXCEPT !.init = TRUE] \in SubStatus
    BY <1>1 DEF SubStatus
  <1>3. [st EXCEPT !.ready = ~@, !.rule = None, !.sink = None] \in SubStatus
    BY DEF SubStatus
  <1> QED
    BY <1>2, <1>3 DEF SyncInitialStatus

-----------------------------------------------------------------------------
(***************************************************************************)
(* What the ends of an action do to the workers.                           *)
(***************************************************************************)

\* The worker of m moves on, with the same Subscription and finalizer.
Moves(m) ==
  /\ worker' \in [Manager -> Worker]
  /\ \A k \in Manager : k # m => worker'[k] = worker[k]
  /\ worker'[m].s = worker[m].s /\ worker'[m].finalizer = worker[m].finalizer
  /\ worker'[m].obj = worker[m].obj /\ worker'[m].reuse = worker[m].reuse

\* A worker that goes on to its next call keeps what it works on.
LEMMA GotoMoves ==
  ASSUME worker \in [Manager -> Worker], NEW m \in Manager, NEW step \in Step, Goto(m, step)
  PROVE  /\ Moves(m) /\ worker'[m].pc = step
         /\ worker'[m].content = worker[m].content /\ worker'[m].got = worker[m].got
  BY DEF Goto, Moves, Worker

\* A worker that is done with the backend goes on to updateSubscription.
LEMMA FinishMoves ==
  ASSUME worker \in [Manager -> Worker], NEW m \in Manager, NEW st \in SubStatus,
         NEW result \in {"done", "again"}, Finish(m, st, result)
  PROVE  Moves(m) /\ worker'[m].pc = "update"
  <1> DEFINE new == [worker[m] EXCEPT !.pc = "update", !.status = st, !.result = result]
  <1>1. worker' = [worker EXCEPT ![m] = new]
    BY DEF Finish
  <1>0. worker[m] \in Worker /\ "update" \in Step
    BY DEF Step
  <1>2. new \in Worker /\ new.pc = "update" /\ new.s = worker[m].s
        /\ new.finalizer = worker[m].finalizer /\ new.obj = worker[m].obj
        /\ new.reuse = worker[m].reuse
    BY <1>0 DEF Worker
  <1> HIDE DEF new
  <1> QED
    BY <1>1, <1>2 DEF Moves

\* The worker of m has returned.
Idles(m) ==
  /\ worker' \in [Manager -> Worker]
  /\ \A k \in Manager : k # m => worker'[k] = worker[k]
  /\ worker'[m].pc = "idle"

\* A worker whose Reconcile returns is idle.
LEMMA ReturnIdles ==
  ASSUME TypeInv, NEW m \in Manager, NEW again, Return(m, again), worker[m].pc # "idle"
  PROVE  Idles(m) /\ queue' \subseteq Sub
  <1>1. worker[m].auth \in Auth /\ worker \in [Manager -> Worker]
    BY DEF TypeInv, TypeOK, Worker
  <1>2. Idles(m)
    BY <1>1, IdleWorkerType DEF Return, Idles
  <1>3. queue' \subseteq Sub
    BY DEF Return, TypeInv, TypeOK, WorkersEquipped, Equipped
  <1> QED
    BY <1>2, <1>3

\* An error of the APIRule ends in updateSubscription.
LEMMA APIRuleErrorMoves ==
  ASSUME TypeInv, NEW m \in Manager, APIRuleError(m)
  PROVE  Moves(m) /\ worker'[m].pc = "update"
  <1>1. worker[m].status \in SubStatus /\ worker \in [Manager -> Worker]
    BY DEF TypeInv, TypeOK, Worker
  <1>2. SetCondition(worker[m].status, "APIRule", FALSE) \in SubStatus
    BY <1>1, StatusTypes DEF ConditionType
  <1> QED
    BY <1>1, <1>2, FinishMoves DEF APIRuleError

\* An error of the backend ends in updateSubscription.
LEMMA BackendErrorMoves ==
  ASSUME TypeInv, NEW m \in Manager, BackendError(m)
  PROVE  Moves(m) /\ worker'[m].pc = "update"
  <1>1. worker[m].status \in SubStatus /\ worker \in [Manager -> Worker]
    BY DEF TypeInv, TypeOK, Worker
  <1>2. ReplaceStatusCondition(worker[m].status, "Subscribed", FALSE) \in SubStatus
    BY <1>1, StatusTypes DEF ConditionType
  <1> QED
    BY <1>1, <1>2, FinishMoves DEF BackendError

\* So does SyncSubscription when it succeeds.
LEMMA SyncedMoves ==
  ASSUME TypeInv, NEW m \in Manager, worker[m].pc \in Backend, NEW got \in ServerSub,
         Synced(m, got)
  PROVE  Moves(m) /\ worker'[m].pc = "update"
  <1> DEFINE active == got.state = "active"
             st == [worker[m].status EXCEPT !.local = worker[m].content,
                      !.remote = got.content, !.auth = worker[m].auth, !.ems = got.state]
             s0 == [st EXCEPT !.failed = ~active]
             s1 == ReplaceStatusCondition(s0, "Subscribed", TRUE)
             s2 == ReplaceStatusCondition(s1, "Active", active)
             s3 == ReplaceStatusCondition(s2, "Webhook", ~got.failing)
  <1>1. worker[m].status \in SubStatus /\ worker[m].auth \in Auth /\ worker \in [Manager -> Worker]
    BY DEF TypeInv, TypeOK, Worker
  <1>2. worker[m].content \in Content
    BY DEF TypeInv, WorkersEquipped, Equipped
  <1>3. got.content \in Content /\ got.state \in ServerState /\ got.failing \in BOOLEAN
    BY DEF ServerSub
  <1>4. st \in SubStatus
    BY <1>1, <1>2, <1>3 DEF SubStatus
  <1>5. active \in BOOLEAN
    OBVIOUS
  <1> HIDE DEF st, active
  <1>6. s0 \in SubStatus
    BY <1>4, <1>5 DEF SubStatus
  <1>c. {"Subscribed", "Active", "Webhook"} \subseteq ConditionType
    BY DEF ConditionType
  <1> HIDE DEF s0
  <1>7. s1 \in SubStatus
    BY <1>6, <1>c, StatusTypes
  <1> HIDE DEF s1
  <1>8. s2 \in SubStatus
    BY <1>7, <1>c, <1>5, StatusTypes
  <1> HIDE DEF s2
  <1>n. (~got.failing) \in BOOLEAN
    BY <1>3
  <1>9. s3 \in SubStatus
    BY <1>8, <1>c, <1>n, StatusTypes
  <1>10. \E x \in {st, s3}, result \in {"done", "again"} : Finish(m, x, result)
    <2>1. PICK o \in Outcome(m, got) : Finish(m, o.status, o.result)
      BY DEF Synced
    <2>2. CASE o = [status |-> s3, result |-> IF active THEN "done" ELSE "again"]
      BY <2>1, <2>2
    <2>3. CASE o = [status |-> st, result |-> "again"]
      BY <2>1, <2>3
    <2> QED
      BY <2>1, <2>2, <2>3 DEF Outcome, st, s0, s1, s2, s3, active
  <1> QED
    BY <1>1, <1>4, <1>9, <1>10, FinishMoves

\* After syncAPIRule a worker has the content to send to EventMesh.
LEMMA APIRuleSyncedMoves ==
  ASSUME TypeInv, NEW m \in Manager, worker[m].pc = "apply", NEW r \in Rule,
         NEW ready \in BOOLEAN, APIRuleSynced(m, r, ready)
  PROVE  /\ worker' \in [Manager -> Worker]
         /\ \A k \in Manager : k # m => worker'[k] = worker[k]
         /\ worker'[m].s = worker[m].s /\ worker'[m].finalizer = worker[m].finalizer
         /\ worker'[m].pc \in {"recreate", "get"} /\ worker'[m].content \in Content
  <1> DEFINE w == worker[m]
             content == [host |-> r, path |-> w.s \in w.owners, types |-> w.obj.spec.types]
             named == [w.status EXCEPT !.rule = r, !.sink = IF ready THEN r ELSE @]
             st == SetCondition(named, "APIRule", ready)
             pc == IF KymaSubModified(w.status, content) THEN "recreate" ELSE "get"
             new == [w EXCEPT !.reuse = None, !.seen = UnusedRule, !.owners = {},
                       !.content = content, !.status = st, !.pc = pc]
  <1>1. w \in Worker /\ w.status \in SubStatus /\ worker \in [Manager -> Worker]
    BY DEF TypeInv, TypeOK, Worker
  <1>2. w.obj.spec.types \in EventTypes
    BY DEF TypeInv, WorkersEquipped, Equipped, Exposing, SubSpec
  <1>3. content \in Content
    BY <1>2 DEF Content
  <1>4. named \in SubStatus
    BY <1>1 DEF SubStatus
  <1>5. st \in SubStatus
    BY <1>4, StatusTypes DEF ConditionType
  <1>6. pc \in {"recreate", "get"} /\ pc \in Step
    BY DEF Step
  <1>7. worker' = [worker EXCEPT ![m] = new]
    BY DEF APIRuleSynced
  <1> HIDE DEF content, st, pc
  <1>8. new \in Worker /\ new.s = w.s /\ new.finalizer = w.finalizer /\ new.pc = pc
        /\ new.content = content
    BY <1>1, <1>3, <1>5, <1>6, UnusedRuleType DEF Worker
  <1> HIDE DEF new
  <1> QED
    BY <1>1, <1>3, <1>6, <1>7, <1>8

-----------------------------------------------------------------------------
(***************************************************************************)
(* Steps of a worker between the finalizer and the status update.          *)
(***************************************************************************)

IInv == TypeInv /\ RuleInv /\ LeftInv

\* Failures stay within their bound.
LEMMA FaultType ==
  ASSUME TypeInv, (\E kind \in {"api", "ems", "status", "crash", "gateway", "delivery", "server"} :
                     Fault(kind)) \/ UNCHANGED faults
  PROVE  faults' \in 0..MaxFaults
  BY EMBoundsAssumption DEF Fault, TypeInv, TypeOK

\* What all these steps leave alone, and what they do to the worker.
Middle(m) ==
  /\ worker[m].pc \in Exposing \cup Backend
  /\ UNCHANGED <<sub, cred, live, edits, starts>>
  /\ queue' \subseteq Sub /\ faults' \in 0..MaxFaults
  /\ rule' \in [Rule -> APIRule] /\ server' \in [Sub -> ServerSub \cup {None}]
  /\ \A s \in Sub : s # worker[m].s => server'[s] = server[s]
  /\ worker' \in [Manager -> Worker]
  /\ \A k \in Manager : k # m => worker'[k] = worker[k]
  /\ worker'[m].s = worker[m].s /\ worker'[m].finalizer = worker[m].finalizer
  /\ Equipped(worker'[m])

\* A step in the middle of a reconciliation keeps types and LeftInv.
LEMMA MiddleSafe ==
  ASSUME TypeInv, LeftInv, NEW m \in Manager, Middle(m)
  PROVE  TypeInv' /\ LeftInv'
  <1>1. TypeOK'
    BY DEF TypeInv, TypeOK, Middle
  <1>2. WorkersEquipped'
    BY DEF TypeInv, WorkersEquipped, Middle
  <1>3. SpecsKnown'
    BY DEF TypeInv, SpecsKnown, Middle
  <1>4. ASSUME OneBusy, Releasing, GoneForGood
        PROVE  OneBusy' /\ Releasing' /\ GoneForGood'
    <2>1. worker[m].pc # "idle" /\ worker[m].pc \notin {"delete", "update", "finalizer"}
      BY DEF Middle, Exposing, Backend
    <2>2. live = m /\ sub[worker[m].s].phase # "gone" /\ worker[m].finalizer
      BY <1>4, <2>1 DEF OneBusy, Exists, Releasing
    <2>3. \A k \in Manager : k # m => worker'[k].pc = "idle"
      BY <1>4, <2>2 DEF OneBusy, Middle
    <2>4. OneBusy'
      BY <1>4, <2>1, <2>2, <2>3 DEF OneBusy, Exists, Middle
    <2>5. Releasing'
      <3>1. worker'[m].finalizer
        BY <2>2 DEF Middle
      <3> QED
        BY <2>3, <3>1 DEF Releasing
    <2>6. GoneForGood'
      BY <1>4, <2>2 DEF GoneForGood, Middle
    <2> QED
      BY <2>4, <2>5, <2>6
  <1> QED
    BY <1>1, <1>2, <1>3, <1>4 DEF TypeInv, LeftInv

\* No APIRule appears, none gets another Service.
RulesShrink ==
  \A r \in Rule : rule'[r].state = "present" => rule[r].state = "present" /\ rule'[r].svc = rule[r].svc

\* A step that creates no APIRule keeps RuleInv, unless it enters createOrUpdateAPIRule.
LEMMA RulesKept ==
  ASSUME TypeInv, RuleInv, NEW m \in Manager, RulesShrink, UNCHANGED live,
         \A k \in Manager : k # m => worker'[k] = worker[k],
         worker'[m].pc \in {"previous", "apply"} =>
           /\ worker[m].pc \in {"previous", "apply"}
           /\ worker'[m].reuse = worker[m].reuse /\ worker'[m].obj = worker[m].obj
  PROVE  RuleInv'
  <1>1. OneRulePerService'
    BY DEF RuleInv, OneRulePerService, RulesShrink
  <1>2. NoRuleYet'
    BY DEF RuleInv, NoRuleYet, RulesShrink
  <1> QED
    BY <1>1, <1>2 DEF RuleInv

\* The queue holds names of Subscriptions.
LEMMA EnqueueType ==
  ASSUME TypeInv, NEW subs \in SUBSET Sub, Enqueue(subs)
  PROVE  queue' \subseteq Sub
  BY DEF Enqueue, TypeInv, TypeOK

\* The look at the list of APIRules: nobody else can create the one that is missing.
LEMMA ListAPIRulesSafe ==
  ASSUME IInv, NEW m \in Manager, ListAPIRules(m)
  PROVE  IInv'
  <1> DEFINE svc == worker[m].obj.spec.svc
             rules == RulesForASvc(svc)
  <1>0. worker \in [Manager -> Worker] /\ worker[m] \in Worker /\ rule \in [Rule -> APIRule]
        /\ Equipped(worker[m])
    BY DEF IInv, TypeInv, TypeOK, WorkersEquipped
  <1>f. faults' \in 0..MaxFaults
    BY FaultType DEF ListAPIRules, APIFails, IInv
  <1>1. CASE APIFails(m) /\ APIRuleError(m)
    <2>1. Moves(m) /\ worker'[m].pc = "update"
      BY <1>1, APIRuleErrorMoves DEF IInv
    <2>2. Middle(m)
      BY <2>1, <1>0, <1>f
         DEF Middle, ListAPIRules, Moves, Equipped, Exposing, Backend, Patching, IInv, TypeInv, TypeOK
    <2>3. RuleInv'
      BY <2>1, RulesKept DEF ListAPIRules, RulesShrink, Moves, IInv
    <2> QED
      BY <2>2, <2>3, MiddleSafe DEF IInv
  <1>2. ASSUME NEW r \in IF rules = {} THEN {None} ELSE rules, live = m,
               worker' = [worker EXCEPT ![m].pc = "previous", ![m].reuse = r,
                 ![m].seen = IF r = None THEN UnusedRule ELSE rule[r],
                 ![m].owners = SubscriptionsForASvc(svc)]
        PROVE  IInv'
    <2> DEFINE seen == IF r = None THEN UnusedRule ELSE rule[r]
               owners == SubscriptionsForASvc(svc)
               new == [worker[m] EXCEPT !.pc = "previous", !.reuse = r, !.seen = seen, !.owners = owners]
    <2>1. r \in Rule \cup {None}
      BY DEF RulesForASvc
    <2>2. seen \in APIRule /\ owners \in SUBSET Sub /\ "previous" \in Step
      BY <1>0, <2>1, UnusedRuleType DEF SubscriptionsForASvc, Step
    <2>3. worker' = [worker EXCEPT ![m] = new]
      BY <1>2
    <2> HIDE DEF seen, owners
    <2>4. new \in Worker /\ new.pc = "previous" /\ new.s = worker[m].s /\ new.reuse = r
          /\ new.finalizer = worker[m].finalizer /\ new.obj = worker[m].obj
      BY <1>0, <2>1, <2>2 DEF Worker
    <2> HIDE DEF new
    <2>5. Equipped(worker'[m])
      BY <1>0, <2>3, <2>4 DEF Equipped, Exposing, Backend, Patching, ListAPIRules
    <2>6. Middle(m)
      BY <2>3, <2>4, <2>5, <1>0, <1>f
         DEF Middle, ListAPIRules, Exposing, IInv, TypeInv, TypeOK
    <2>7. OneRulePerService'
      BY DEF IInv, RuleInv, OneRulePerService, ListAPIRules
    <2>8. NoRuleYet'
      <3>1. r = None => rules = {}
        BY EMNamesAssumption DEF RulesForASvc, Rule
      <3>2. r = None => \A q \in Rule : rule[q].state = "present" => rule[q].svc # svc
        BY <3>1 DEF RulesForASvc
      <3>3. live' = m /\ rule' = rule /\ worker'[m] = new
        BY <1>0, <1>2, <2>3 DEF ListAPIRules
      <3> QED
        BY <2>4, <3>2, <3>3 DEF NoRuleYet
    <2> QED
      BY <2>6, <2>7, <2>8, MiddleSafe DEF IInv, RuleInv
  <1> QED
    BY <1>1, <1>2 DEF ListAPIRules

\* A step that only moves the worker on, and may shrink the rules.
LEMMA MovesSafe ==
  ASSUME IInv, NEW m \in Manager, worker[m].pc \in Exposing \cup Backend,
         UNCHANGED <<sub, cred, live, edits, starts>>,
         queue' \subseteq Sub, faults' \in 0..MaxFaults,
         rule' \in [Rule -> APIRule], RulesShrink,
         server' \in [Sub -> ServerSub \cup {None}],
         \A s \in Sub : s # worker[m].s => server'[s] = server[s],
         Moves(m), Equipped(worker'[m]),
         worker'[m].pc \in {"previous", "apply"} => worker[m].pc \in {"previous", "apply"}
  PROVE  IInv'
  <1>1. Middle(m)
    BY DEF Middle, Moves
  <1>2. RuleInv'
    BY RulesKept DEF Moves, IInv
  <1> QED
    BY <1>1, <1>2, MiddleSafe DEF IInv

\* updateSubscription needs nothing of the backend.
LEMMA UpdateEquipped ==
  ASSUME TypeInv, NEW m \in Manager, worker[m].pc # "idle", Moves(m), worker'[m].pc = "update"
  PROVE  Equipped(worker'[m]) /\ worker'[m].pc \notin {"previous", "apply"}
  BY DEF Equipped, Moves, TypeInv, WorkersEquipped, Exposing, Backend, Patching

\* An update of owners and paths keeps the Service of an APIRule.
LEMMA RuleUpdateType ==
  ASSUME TypeInv, NEW r \in Rule, NEW owners \in SUBSET Sub, rule[r].state = "present"
  PROVE  /\ WithOwnersAndRules(r, owners) \in APIRule
         /\ WithOwnersAndRules(r, owners).state = "present"
         /\ WithOwnersAndRules(r, owners).svc = rule[r].svc
  <1>1. rule[r] \in APIRule
    BY DEF TypeInv, TypeOK
  <1> QED
    BY <1>1 DEF WithOwnersAndRules, APIRule

\* The APIRule of the former Service is cut down or deleted.
LEMMA HandlePreviousAPIRuleSafe ==
  ASSUME IInv, NEW m \in Manager, HandlePreviousAPIRule(m)
  PROVE  IInv'
  <1>0. /\ worker \in [Manager -> Worker] /\ rule \in [Rule -> APIRule] /\ queue \subseteq Sub
        /\ server \in [Sub -> ServerSub \cup {None}]
        /\ worker[m].pc = "previous" /\ Equipped(worker[m]) /\ TypeInv
    BY DEF IInv, TypeInv, TypeOK, WorkersEquipped, HandlePreviousAPIRule
  <1>s. worker[m].s \in Sub /\ worker[m].pc \in Exposing \cup Backend
    BY <1>0 DEF Equipped, Exposing
  <1>f. faults' \in 0..MaxFaults
    BY <1>0, FaultType DEF HandlePreviousAPIRule, ReleaseAPIRule, Refused, APIFails
  <1>w. CASE Goto(m, "apply") \/ APIRuleError(m)
    <2>1. Moves(m) /\ worker'[m].pc \in {"apply", "update"}
      BY <1>w, <1>0, GotoMoves, APIRuleErrorMoves DEF Step
    <2>2. Equipped(worker'[m])
      BY <1>0, <2>1 DEF Moves, Equipped, Exposing, Backend, Patching
    <2>3. CASE rule' = rule /\ queue' = queue
      BY <1>0, <1>s, <1>f, <2>1, <2>2, <2>3, MovesSafe DEF HandlePreviousAPIRule, RulesShrink
    <2>4. ASSUME NEW r \in Rule, NEW new \in APIRule, NEW subs \in SUBSET Sub,
                 rule' = [rule EXCEPT ![r] = new], Enqueue(subs),
                 new.state = "present" => rule[r].state = "present" /\ new.svc = rule[r].svc
          PROVE  IInv'
      <3>1. queue' \subseteq Sub
        BY <1>0, <2>4, EnqueueType
      <3>2. rule' \in [Rule -> APIRule] /\ RulesShrink
        BY <1>0, <2>4 DEF RulesShrink
      <3> QED
        BY <1>0, <1>s, <1>f, <2>1, <2>2, <3>1, <3>2, MovesSafe DEF HandlePreviousAPIRule
    <2>5. CASE worker[m].status.rule \notin {None, worker[m].reuse}
      <3> DEFINE r == worker[m].status.rule
                 users == UsersOf(r, worker[m].s)
      <3>1. r \in Rule
        BY <1>0, <2>5 DEF Worker, SubStatus
      <3>2. users \in SUBSET Sub
        BY DEF UsersOf
      <3>3. rule[r].owners \in SUBSET Sub
        BY <1>0, <3>1 DEF APIRule
      <3>4. ReleaseAPIRule(m, r)
        BY <2>5 DEF HandlePreviousAPIRule
      <3> HIDE DEF r, users
      <3>5. CASE rule' = [rule EXCEPT ![r] = DeletedRule] /\ Enqueue(rule[r].owners)
        BY <3>1, <3>3, <3>5, <2>4, UnusedRuleType
      <3>6. CASE /\ rule' = [rule EXCEPT ![r] = WithOwnersAndRules(r, users)]
                 /\ Enqueue(rule[r].owners \cup users) /\ rule[r].state = "present"
        <4>1. WithOwnersAndRules(r, users) \in APIRule
              /\ WithOwnersAndRules(r, users).svc = rule[r].svc
          BY <1>0, <3>1, <3>2, <3>6, RuleUpdateType
        <4>2. rule[r].owners \cup users \in SUBSET Sub
          BY <3>2, <3>3
        <4> QED
          BY <3>1, <3>6, <4>1, <4>2, <2>4
      <3> QED
        BY <3>4, <3>5, <3>6, <2>3 DEF ReleaseAPIRule, users
    <2> QED
      BY <2>3, <2>5 DEF HandlePreviousAPIRule
  <1> QED
    BY <1>w DEF HandlePreviousAPIRule, ReleaseAPIRule

\* A new APIRule is the only one of its Service, by NoRuleYet.
LEMMA CreateAPIRuleSafe ==
  ASSUME IInv, NEW m \in Manager, CreateAPIRule(m)
  PROVE  IInv'
  <1> DEFINE owners == worker[m].owners
             svc == worker[m].obj.spec.svc
  <1>0. /\ worker \in [Manager -> Worker] /\ rule \in [Rule -> APIRule] /\ queue \subseteq Sub
        /\ server \in [Sub -> ServerSub \cup {None}]
        /\ worker[m].pc = "apply" /\ worker[m].reuse = None /\ Equipped(worker[m]) /\ TypeInv
    BY DEF IInv, TypeInv, TypeOK, WorkersEquipped, CreateAPIRule
  <1>s. /\ worker[m].s \in Sub /\ worker[m].pc \in Exposing \cup Backend
        /\ svc \in Service /\ owners \in SUBSET Sub
    BY <1>0 DEF Equipped, Exposing, Worker
  <1>f. faults' \in 0..MaxFaults
    BY <1>0, FaultType DEF CreateAPIRule, Refused, APIFails
  <1>1. CASE APIRuleError(m) /\ UNCHANGED <<rule, queue>>
    <2>1. Moves(m) /\ worker'[m].pc = "update"
      BY <1>0, <1>1, APIRuleErrorMoves
    <2>2. Equipped(worker'[m]) /\ worker'[m].pc \notin {"previous", "apply"}
      BY <1>0, <2>1, UpdateEquipped
    <2> QED
      BY <1>0, <1>s, <1>f, <1>1, <2>1, <2>2, MovesSafe DEF CreateAPIRule, RulesShrink
  <1>2. ASSUME NEW r \in Rule, Accepted(m, owners), rule[r].state = "unused",
               rule' = [rule EXCEPT ![r] =
                 [state |-> "present", svc |-> svc, owners |-> owners, paths |-> owners,
                  ready |-> FALSE]],
               APIRuleSynced(m, r, FALSE), Enqueue(owners)
        PROVE  IInv'
    <2>1. /\ worker' \in [Manager -> Worker]
          /\ \A k \in Manager : k # m => worker'[k] = worker[k]
          /\ worker'[m].s = worker[m].s /\ worker'[m].finalizer = worker[m].finalizer
          /\ worker'[m].pc \in {"recreate", "get"} /\ worker'[m].content \in Content
      BY <1>0, <1>2, APIRuleSyncedMoves
    <2>2. Equipped(worker'[m])
      BY <1>s, <2>1 DEF Equipped, Exposing, Patching
    <2>3. queue' \subseteq Sub
      BY <1>0, <1>s, <1>2, EnqueueType
    <2>4. rule' \in [Rule -> APIRule]
      BY <1>0, <1>s, <1>2 DEF APIRule
    <2>5. Middle(m)
      BY <1>0, <1>s, <1>f, <2>1, <2>2, <2>3, <2>4 DEF Middle, CreateAPIRule
    <2>6. live = m /\ live' = m
      BY <1>2 DEF Accepted, CreateAPIRule
    <2>7. NoRuleYet'
      BY <2>1, <2>6 DEF NoRuleYet
    <2>8. \A q \in Rule : rule[q].state = "present" => rule[q].svc # svc
      BY <1>0, <2>6 DEF IInv, RuleInv, NoRuleYet
    <2>9. OneRulePerService'
      <3>1. rule'[r].svc = svc
        BY <1>0, <1>2
      <3>2. \A q \in Rule : q # r => rule'[q] = rule[q]
        BY <1>0, <1>2
      <3> QED
        BY <3>1, <3>2, <2>8 DEF IInv, RuleInv, OneRulePerService
    <2> QED
      BY <1>0, <2>5, <2>7, <2>9, MiddleSafe DEF IInv, RuleInv
  <1> QED
    BY <1>1, <1>2 DEF CreateAPIRule

\* An APIRule that is reused keeps its Service.
LEMMA UpdateAPIRuleSafe ==
  ASSUME IInv, NEW m \in Manager, UpdateAPIRule(m)
  PROVE  IInv'
  <1> DEFINE owners == worker[m].owners
             seen == worker[m].seen
             r == worker[m].reuse
  <1>0. /\ worker \in [Manager -> Worker] /\ rule \in [Rule -> APIRule] /\ queue \subseteq Sub
        /\ server \in [Sub -> ServerSub \cup {None}]
        /\ worker[m].pc = "apply" /\ worker[m].reuse # None /\ Equipped(worker[m]) /\ TypeInv
    BY DEF IInv, TypeInv, TypeOK, WorkersEquipped, UpdateAPIRule
  <1>s. /\ worker[m].s \in Sub /\ worker[m].pc \in Exposing \cup Backend
        /\ r \in Rule /\ owners \in SUBSET Sub /\ seen \in APIRule
    BY <1>0 DEF Equipped, Exposing, Worker
  <1>r. seen.ready \in BOOLEAN /\ seen.owners \in SUBSET Sub
    BY <1>s DEF APIRule
  <1>f. faults' \in 0..MaxFaults
    BY <1>0, FaultType DEF UpdateAPIRule, Refused, APIFails
  <1> HIDE DEF owners, seen, r
  <1>1. /\ worker' \in [Manager -> Worker]
        /\ \A k \in Manager : k # m => worker'[k] = worker[k]
        /\ worker'[m].s = worker[m].s /\ worker'[m].finalizer = worker[m].finalizer
        /\ worker'[m].pc \in {"recreate", "get", "update"}
        /\ Equipped(worker'[m])
    <2>1. CASE APIRuleError(m)
      BY <1>0, <2>1, APIRuleErrorMoves, UpdateEquipped DEF Moves
    <2>2. CASE APIRuleSynced(m, r, seen.ready)
      BY <1>0, <1>s, <1>r, <2>2, APIRuleSyncedMoves DEF Equipped, Exposing, Patching
    <2> QED
      BY <2>1, <2>2 DEF UpdateAPIRule, r, seen
  <1>2. rule' \in [Rule -> APIRule] /\ queue' \subseteq Sub /\ RulesShrink
    <2>1. CASE UNCHANGED <<rule, queue>>
      BY <1>0, <2>1 DEF RulesShrink
    <2>2. CASE /\ rule[r] = seen /\ rule' = [rule EXCEPT ![r] = WithOwnersAndRules(r, owners)]
               /\ Enqueue(seen.owners \cup owners)
      <3>1. WithOwnersAndRules(r, owners) \in APIRule
            /\ WithOwnersAndRules(r, owners).svc = rule[r].svc
            /\ WithOwnersAndRules(r, owners).state = rule[r].state
        BY <1>0, <1>s DEF WithOwnersAndRules, APIRule
      <3>2. seen.owners \cup owners \in SUBSET Sub
        BY <1>s, <1>r
      <3>3. queue' \subseteq Sub
        BY <1>0, <2>2, <3>2, EnqueueType
      <3> QED
        BY <1>0, <1>s, <2>2, <3>1, <3>3 DEF RulesShrink
    <2> QED
      BY <2>1, <2>2 DEF UpdateAPIRule, r, seen, owners
  <1>3. Middle(m)
    BY <1>0, <1>s, <1>f, <1>1, <1>2 DEF Middle, UpdateAPIRule
  <1>4. RuleInv'
    BY <1>0, <1>1, <1>2, RulesKept DEF IInv, UpdateAPIRule
  <1> QED
    BY <1>3, <1>4, MiddleSafe DEF IInv

-----------------------------------------------------------------------------
(***************************************************************************)
(* Steps of the backend.                                                   *)
(***************************************************************************)

\* What a worker holds while it talks to EventMesh.
LEMMA BackendTypes ==
  ASSUME TypeInv, NEW m \in Manager, worker[m].pc \in Backend
  PROVE  /\ worker \in [Manager -> Worker] /\ worker[m].s \in Sub /\ worker[m].auth \in Auth
         /\ worker[m].content \in Content /\ worker[m].pc # "idle"
         /\ server \in [Sub -> ServerSub \cup {None}]
         /\ rule \in [Rule -> APIRule] /\ queue \subseteq Sub
  BY DEF TypeInv, TypeOK, WorkersEquipped, Equipped, Backend, Worker

\* A step of the backend that moves the worker on and changes its own
\* subscription on EventMesh or nothing.
LEMMA BackendSafe ==
  ASSUME IInv, NEW m \in Manager, worker[m].pc \in Backend,
         UNCHANGED <<sub, rule, cred, live, queue, edits, starts>>,
         faults' \in 0..MaxFaults, Moves(m), Equipped(worker'[m]),
         worker'[m].pc \in Backend \cup {"update"},
         NEW new \in ServerSub \cup {None},
         server' \in {server, [server EXCEPT ![worker[m].s] = new]}
  PROVE  IInv'
  <1>1. /\ worker[m].s \in Sub /\ rule \in [Rule -> APIRule] /\ queue \subseteq Sub
        /\ server \in [Sub -> ServerSub \cup {None}]
    BY BackendTypes DEF IInv
  <1>2. worker'[m].pc \notin {"previous", "apply"}
    BY DEF Backend
  <1>3. RulesShrink
    BY DEF RulesShrink
  <1>4. /\ server' \in [Sub -> ServerSub \cup {None}]
        /\ \A s \in Sub : s # worker[m].s => server'[s] = server[s]
    BY <1>1
  <1> QED
    BY <1>1, <1>2, <1>3, <1>4, MovesSafe

\* A request to EventMesh after which the backend returns.
LEMMA UpdateStepSafe ==
  ASSUME IInv, NEW m \in Manager, worker[m].pc \in Backend,
         UNCHANGED <<sub, rule, cred, live, queue, edits, starts>>,
         faults' \in 0..MaxFaults, Moves(m), worker'[m].pc = "update",
         NEW new \in ServerSub \cup {None},
         server' \in {server, [server EXCEPT ![worker[m].s] = new]}
  PROVE  IInv'
  <1>1. Equipped(worker'[m])
    BY BackendTypes, UpdateEquipped DEF IInv
  <1> QED
    BY <1>1, BackendSafe

\* A request to EventMesh after which the backend goes on.
LEMMA GotoStepSafe ==
  ASSUME IInv, NEW m \in Manager, worker[m].pc \in Backend,
         UNCHANGED <<sub, rule, cred, live, queue, edits, starts>>,
         faults' \in 0..MaxFaults, NEW step \in Backend, Goto(m, step),
         step \in Patching => worker[m].pc \in Patching,
         NEW new \in ServerSub \cup {None},
         server' \in {server, [server EXCEPT ![worker[m].s] = new]}
  PROVE  IInv'
  <1>1. worker \in [Manager -> Worker] /\ step \in Step
    BY BackendTypes DEF IInv, Backend, Step
  <1>2. /\ Moves(m) /\ worker'[m].pc = step
        /\ worker'[m].content = worker[m].content /\ worker'[m].got = worker[m].got
    BY <1>1, GotoMoves
  <1>3. Equipped(worker[m]) /\ worker[m].pc # "idle" /\ step \notin Exposing
    BY DEF IInv, TypeInv, WorkersEquipped, Backend, Exposing
  <1>4. Equipped(worker'[m])
    BY <1>2, <1>3 DEF Equipped, Moves
  <1> QED
    BY <1>2, <1>4, BackendSafe

\* The subscription on EventMesh is deleted because a hash changed.
LEMMA DeleteModifiedSafe ==
  ASSUME IInv, NEW m \in Manager, DeleteModified(m)
  PROVE  IInv'
  <1>0. TypeInv /\ worker[m].pc \in Backend
    BY DEF IInv, DeleteModified, Backend
  <1>f. faults' \in 0..MaxFaults
    BY <1>0, FaultType DEF DeleteModified, CallFails
  <1>1. CASE Goto(m, "create") /\ server' = [server EXCEPT ![worker[m].s] = None]
    BY <1>0, <1>1, <1>f, GotoStepSafe DEF DeleteModified, Backend, Patching
  <1>2. CASE CallFails(m, worker[m].s, None)
    <2>1. Moves(m) /\ worker'[m].pc = "update"
      BY <1>0, <1>2, BackendErrorMoves DEF CallFails
    <2> QED
      BY <1>0, <1>2, <1>f, <2>1, UpdateStepSafe DEF DeleteModified, CallFails
  <1> QED
    BY <1>1, <1>2 DEF DeleteModified

\* The subscription on EventMesh is read and compared.
LEMMA GetSubscriptionSafe ==
  ASSUME IInv, NEW m \in Manager, GetSubscription(m)
  PROVE  IInv'
  <1> DEFINE got == server[worker[m].s]
  <1>0. TypeInv /\ worker[m].pc \in Backend
    BY DEF IInv, GetSubscription, Backend
  <1>t. /\ worker[m].s \in Sub /\ worker[m].content \in Content
        /\ worker \in [Manager -> Worker] /\ worker[m] \in Worker
        /\ got \in ServerSub \cup {None}
    BY <1>0, BackendTypes
  <1>f. faults' \in 0..MaxFaults
    BY <1>0, FaultType DEF GetSubscription
  <1>u. UNCHANGED <<sub, rule, cred, live, queue, edits, starts>> /\ server' = server
    BY DEF GetSubscription
  <1>1. CASE Goto(m, "create") \/ Goto(m, "recreate")
    BY <1>0, <1>1, <1>f, <1>u, GotoStepSafe DEF Backend, Patching
  <1>2. CASE BackendError(m)
    <2>1. Moves(m) /\ worker'[m].pc = "update"
      BY <1>0, <1>2, BackendErrorMoves
    <2> QED
      BY <1>0, <1>u, <1>f, <2>1, UpdateStepSafe
  <1>3. CASE got # None /\ Synced(m, got)
    <2>1. Moves(m) /\ worker'[m].pc = "update"
      BY <1>0, <1>t, <1>3, SyncedMoves
    <2> QED
      BY <1>0, <1>u, <1>f, <2>1, UpdateStepSafe
  <1>4. CASE got # None /\ worker' = [worker EXCEPT ![m].pc = "pause", ![m].got = got]
    <2> DEFINE new == [worker[m] EXCEPT !.pc = "pause", !.got = got]
    <2>1. got \in ServerSub
      BY <1>t, <1>4
    <2>2. worker' = [worker EXCEPT ![m] = new]
      BY <1>4
    <2>3. "pause" \in Step
      BY DEF Step
    <2> HIDE DEF got
    <2>4. /\ new \in Worker /\ new.pc = "pause" /\ new.got = got /\ new.s = worker[m].s
          /\ new.finalizer = worker[m].finalizer /\ new.obj = worker[m].obj
          /\ new.reuse = worker[m].reuse /\ new.content = worker[m].content
      BY <1>t, <2>1, <2>3 DEF Worker
    <2> HIDE DEF new
    <2>5. Moves(m)
      BY <1>t, <2>2, <2>4 DEF Moves
    <2>6. Equipped(worker'[m]) /\ worker'[m].pc \in Backend
      BY <1>t, <2>1, <2>2, <2>4 DEF Equipped, Exposing, Backend
    <2> QED
      BY <1>0, <1>u, <1>f, <2>5, <2>6, BackendSafe
  <1> QED
    BY <1>1, <1>2, <1>3, <1>4 DEF GetSubscription

\* One of the three requests that change the webhook authentication.
LEMMA WebhookAuthRequestSafe ==
  ASSUME IInv, NEW m \in Manager, NEW step \in Patching, NEW next \in Patching \cup {"update"},
         NEW effect, server[worker[m].s] # None => effect \in ServerSub,
         WebhookAuthRequest(m, step, effect, next)
  PROVE  IInv'
  <1>0. TypeInv /\ worker[m].pc \in Backend /\ worker[m].pc \in Patching
    BY DEF IInv, WebhookAuthRequest, Backend, Patching
  <1>g. worker[m].got \in ServerSub
    BY <1>0 DEF TypeInv, WorkersEquipped, Equipped
  <1>f. faults' \in 0..MaxFaults
    BY <1>0, FaultType DEF WebhookAuthRequest, CallFails
  <1>u. UNCHANGED <<sub, rule, cred, live, queue, edits, starts>>
    BY DEF WebhookAuthRequest
  <1>1. CASE server[worker[m].s] = None
    <2>1. Synced(m, worker[m].got) /\ server' = server
      BY <1>1 DEF WebhookAuthRequest
    <2>2. Moves(m) /\ worker'[m].pc = "update"
      BY <1>0, <1>g, <2>1, SyncedMoves
    <2> QED
      BY <1>0, <1>u, <1>f, <2>1, <2>2, UpdateStepSafe
  <1>2. CASE server[worker[m].s] # None
    <2>e. effect \in ServerSub
      BY <1>2
    <2>1. CASE server' = [server EXCEPT ![worker[m].s] = effect] /\ next = "update"
               /\ Synced(m, worker[m].got)
      <3>1. Moves(m) /\ worker'[m].pc = "update"
        BY <1>0, <1>g, <2>1, SyncedMoves
      <3> QED
        BY <1>0, <1>u, <1>f, <2>1, <2>e, <3>1, UpdateStepSafe
    <2>2. CASE server' = [server EXCEPT ![worker[m].s] = effect] /\ next # "update"
               /\ Goto(m, next)
      BY <1>0, <1>u, <1>f, <2>2, <2>e, GotoStepSafe DEF Backend, Patching
    <2>3. CASE CallFails(m, worker[m].s, effect)
      <3>1. Moves(m) /\ worker'[m].pc = "update"
        BY <1>0, <2>3, BackendErrorMoves DEF CallFails
      <3> QED
        BY <1>0, <1>u, <1>f, <2>3, <2>e, <3>1, UpdateStepSafe DEF CallFails
    <2> QED
      BY <1>2, <2>1, <2>2, <2>3 DEF WebhookAuthRequest
  <1> QED
    BY <1>1, <1>2

\* Pause, update and resume.
LEMMA WebhookAuthSafe ==
  ASSUME IInv, NEW m \in Manager, Pause(m) \/ UpdateAuth(m) \/ Resume(m)
  PROVE  IInv'
  <1>0. worker[m].pc \in Backend
    BY DEF Pause, UpdateAuth, Resume, WebhookAuthRequest, Backend
  <1>1. worker[m].auth \in Auth /\ server[worker[m].s] \in ServerSub \cup {None}
    BY <1>0, BackendTypes DEF IInv
  <1>2. server[worker[m].s] # None =>
          /\ [server[worker[m].s] EXCEPT !.state = "paused"] \in ServerSub
          /\ [server[worker[m].s] EXCEPT !.auth = worker[m].auth] \in ServerSub
          /\ [server[worker[m].s] EXCEPT !.state = "pending"] \in ServerSub
    BY <1>1 DEF ServerSub, ServerState
  <1>3. CASE Pause(m)
    BY <1>2, <1>3, WebhookAuthRequestSafe DEF Pause, Patching
  <1>4. CASE UpdateAuth(m)
    BY <1>2, <1>4, WebhookAuthRequestSafe DEF UpdateAuth, Patching
  <1>5. CASE Resume(m)
    BY <1>2, <1>5, WebhookAuthRequestSafe DEF Resume, Patching
  <1> QED
    BY <1>3, <1>4, <1>5

\* The subscription is created on EventMesh for a Subscription that exists.
LEMMA CreateSubscriptionSafe ==
  ASSUME IInv, NEW m \in Manager, CreateSubscription(m)
  PROVE  IInv'
  <1> DEFINE s == worker[m].s
             new == IF server[s] # None THEN server[s]
                    ELSE [content |-> worker[m].content, auth |-> worker[m].auth,
                          state |-> "pending", failing |-> FALSE]
  <1>0. TypeInv /\ worker[m].pc \in Backend
    BY DEF IInv, CreateSubscription, Backend
  <1>t. /\ worker[m].content \in Content /\ worker[m].auth \in Auth
        /\ server[s] \in ServerSub \cup {None}
    BY <1>0, BackendTypes
  <1>n. new \in ServerSub
    BY <1>t DEF ServerSub, ServerState
  <1>f. faults' \in 0..MaxFaults
    BY <1>0, FaultType DEF CreateSubscription, CallFails
  <1>u. UNCHANGED <<sub, rule, cred, live, queue, edits, starts>>
    BY DEF CreateSubscription
  <1>c. \/ server' = [server EXCEPT ![s] = new] /\ Goto(m, "getCreated")
        \/ CallFails(m, s, new)
    BY DEF CreateSubscription
  <1> HIDE DEF new
  <1>1. CASE server' = [server EXCEPT ![s] = new] /\ Goto(m, "getCreated")
    BY <1>0, <1>u, <1>f, <1>n, <1>1, GotoStepSafe DEF Backend, Patching
  <1>2. CASE CallFails(m, s, new)
    <2>1. Moves(m) /\ worker'[m].pc = "update"
      BY <1>0, <1>2, BackendErrorMoves DEF CallFails
    <2> QED
      BY <1>0, <1>u, <1>f, <1>n, <1>2, <2>1, UpdateStepSafe DEF CallFails
  <1> QED
    BY <1>c, <1>1, <1>2

\* It is read back.
LEMMA GetCreatedSafe ==
  ASSUME IInv, NEW m \in Manager, GetCreated(m)
  PROVE  IInv'
  <1> DEFINE got == server[worker[m].s]
  <1>0. TypeInv /\ worker[m].pc \in Backend
    BY DEF IInv, GetCreated, Backend
  <1>t. got \in ServerSub \cup {None}
    BY <1>0, BackendTypes
  <1>f. faults' \in 0..MaxFaults
    BY <1>0, FaultType DEF GetCreated
  <1>u. UNCHANGED <<sub, rule, cred, live, queue, edits, starts>> /\ server' = server
    BY DEF GetCreated
  <1>1. Moves(m) /\ worker'[m].pc = "update"
    <2>1. CASE got # None /\ Synced(m, got)
      BY <1>0, <1>t, <2>1, SyncedMoves
    <2>2. CASE BackendError(m)
      BY <1>0, <2>2, BackendErrorMoves
    <2> QED
      BY <2>1, <2>2 DEF GetCreated
  <1> QED
    BY <1>0, <1>u, <1>f, <1>1, UpdateStepSafe

-----------------------------------------------------------------------------
(***************************************************************************)
(* The first and the last steps of Reconcile.                              *)
(***************************************************************************)

\* A reconciliation that starts has what its first step needs.
LEMMA FetchSafe ==
  ASSUME IInv, NEW m \in Manager, NEW s \in Sub,
         NEW step \in {"idle", "delete", "validation", "list"}, NEW st \in SubStatus,
         NEW finalizer \in BOOLEAN, Fetch(m, s, step, st, finalizer),
         faults' \in 0..MaxFaults,
         step # "idle" => Exists(s),
         step = "list" => sub[s].spec \in SubSpec /\ sub[s].spec.svc \in Service,
         step # "idle" /\ ~finalizer => step = "delete" /\ sub[s].phase = "deleting"
  PROVE  IInv'
  <1> DEFINE w == worker[m]
             ws == IF step = "idle" THEN None ELSE s
             obj == IF step = "idle" THEN NewSubscription ELSE sub[s]
             new == [w EXCEPT !.pc = step, !.s = ws, !.obj = obj, !.status = st,
                       !.finalizer = finalizer]
  <1>0. /\ TypeInv /\ worker \in [Manager -> Worker] /\ w \in Worker
        /\ sub[s] \in Subscription /\ queue \subseteq Sub
    BY DEF IInv, TypeInv, TypeOK
  <1>1. ws \in Sub \cup {None} /\ obj \in Subscription /\ step \in Step
    BY <1>0, NewSubscriptionType DEF Step
  <1>2. worker' = [worker EXCEPT ![m] = new]
    BY DEF Fetch
  <1>e. step # "idle" => ws = s /\ obj = sub[s]
    OBVIOUS
  <1> HIDE DEF ws, obj
  <1>3. /\ new \in Worker /\ new.pc = step /\ new.s = ws /\ new.obj = obj
        /\ new.finalizer = finalizer
    BY <1>0, <1>1 DEF Worker
  <1> HIDE DEF new
  <1>4. /\ worker' \in [Manager -> Worker] /\ worker'[m] = new
        /\ \A k \in Manager : k # m => worker'[k] = worker[k]
    BY <1>0, <1>2, <1>3
  <1>5. TypeOK'
    BY <1>0, <1>4 DEF TypeInv, TypeOK, Fetch
  <1>6. Equipped(new)
    BY <1>e, <1>3 DEF Equipped, Exposing, Backend, Patching
  <1>7. WorkersEquipped' /\ SpecsKnown'
    BY <1>0, <1>4, <1>6 DEF TypeInv, WorkersEquipped, SpecsKnown, Fetch
  <1>8. RuleInv'
    BY <1>0, <1>3, <1>4, RulesKept DEF IInv, RulesShrink, Fetch
  <1>9. ASSUME OneBusy, Releasing, GoneForGood
        PROVE  OneBusy' /\ Releasing' /\ GoneForGood'
    <2>1. \A k \in Manager : k # m => worker'[k].pc = "idle"
      BY <1>4, <1>9 DEF OneBusy, Fetch
    <2>2. OneBusy'
      BY <1>e, <1>3, <1>4, <2>1 DEF OneBusy, Exists, Fetch
    <2>3. Releasing'
      BY <1>e, <1>3, <1>4, <2>1 DEF Releasing, Fetch
    <2>4. GoneForGood'
      BY <1>9 DEF GoneForGood, Fetch
    <2> QED
      BY <2>2, <2>3, <2>4
  <1> QED
    BY <1>5, <1>7, <1>8, <1>9 DEF IInv, TypeInv, LeftInv

\* Reconcile, up to its first call after the read.
LEMMA ReconcileSafe ==
  ASSUME IInv, NEW m \in Manager, Reconcile(m)
  PROVE  IInv'
  <1>1. PICK s \in Sub : \/ ReconcileNothing(m, s) \/ ReconcileDeletion(m, s)
                         \/ ReconcileInvalid(m, s) \/ ReconcileValid(m, s)
    BY DEF Reconcile
  <1>0. /\ TypeInv /\ sub[s] \in Subscription /\ sub[s].status \in SubStatus
        /\ sub[s].phase = "present" => sub[s].spec \in SubSpec
    BY DEF IInv, TypeInv, TypeOK, SpecsKnown, Subscription
  <1>f. faults' \in 0..MaxFaults
    BY <1>0, <1>1, FaultType DEF ReconcileNothing, ReconcileDeletion, ReconcileInvalid, ReconcileValid
  <1>i. SyncInitialStatus(sub[s].status) \in SubStatus
    BY <1>0, SyncInitialStatusType
  <1>c. /\ SetCondition(SyncInitialStatus(sub[s].status), "SpecValid", FALSE) \in SubStatus
        /\ SetCondition(SyncInitialStatus(sub[s].status), "SpecValid", TRUE) \in SubStatus
    BY <1>i, StatusTypes DEF ConditionType
  <1>2. CASE ReconcileNothing(m, s)
    BY <1>2, <1>f, EmptyStatusType, FetchSafe DEF ReconcileNothing
  <1>3. CASE ReconcileDeletion(m, s)
    BY <1>0, <1>3, <1>f, FetchSafe DEF ReconcileDeletion, Exists
  <1>4. CASE ReconcileInvalid(m, s)
    <2> DEFINE st == [SetCondition(SyncInitialStatus(sub[s].status), "SpecValid", FALSE)
                        EXCEPT !.ready = FALSE]
    <2>1. st \in SubStatus
      BY <1>c DEF SubStatus
    <2>2. Fetch(m, s, "validation", st, TRUE) /\ Exists(s)
      BY <1>4 DEF ReconcileInvalid, Exists
    <2> HIDE DEF st
    <2> QED
      BY <1>f, <2>1, <2>2, FetchSafe
  <1>5. CASE ReconcileValid(m, s)
    <2> DEFINE st == SetCondition(SyncInitialStatus(sub[s].status), "SpecValid", TRUE)
    <2>1. st \in SubStatus
      BY <1>c
    <2>2. Fetch(m, s, "list", st, TRUE) /\ Exists(s)
      BY <1>5 DEF ReconcileValid, Exists
    <2>3. sub[s].spec \in SubSpec /\ sub[s].spec.svc \in Service
      BY <1>0, <1>5 DEF ReconcileValid, SubSpec
    <2> HIDE DEF st
    <2> QED
      BY <1>f, <2>1, <2>2, <2>3, FetchSafe
  <1> QED
    BY <1>1, <1>2, <1>3, <1>4, <1>5

\* A Reconcile that returns has to answer for the Subscriptions only.
LEMMA ReturnSafe ==
  ASSUME IInv, NEW m \in Manager, NEW again, Return(m, again), worker[m].pc # "idle",
         UNCHANGED <<rule, server, cred, live, edits, starts>>,
         faults' \in 0..MaxFaults, sub' \in [Sub -> Subscription], SpecsKnown',
         OneBusy /\ Releasing /\ GoneForGood => GoneForGood'
  PROVE  IInv'
  <1>1. Idles(m) /\ queue' \subseteq Sub
    BY ReturnIdles DEF IInv
  <1>2. TypeOK'
    BY <1>1 DEF IInv, TypeInv, TypeOK, Idles
  <1>3. WorkersEquipped'
    BY <1>1 DEF IInv, TypeInv, WorkersEquipped, Equipped, Idles, Exposing, Backend, Patching
  <1>4. RuleInv'
    BY <1>1, RulesKept DEF IInv, Idles, RulesShrink
  <1>5. ASSUME OneBusy, Releasing, GoneForGood
        PROVE  OneBusy' /\ Releasing' /\ GoneForGood'
    <2>1. \A k \in Manager : worker'[k].pc = "idle"
      BY <1>1, <1>5 DEF OneBusy, Idles
    <2> QED
      BY <1>5, <2>1 DEF OneBusy, Releasing
  <1> QED
    BY <1>2, <1>3, <1>4, <1>5 DEF IInv, TypeInv, LeftInv

\* A write of the status.
LEMMA StatusWritten ==
  ASSUME IInv, NEW s \in Sub, NEW st \in SubStatus, sub' = [sub EXCEPT ![s].status = st]
  PROVE  /\ sub' \in [Sub -> Subscription] /\ SpecsKnown'
         /\ \A t \in Sub : sub'[t].phase = sub[t].phase /\ sub'[t].finalizer = sub[t].finalizer
  <1>0. sub \in [Sub -> Subscription] /\ sub[s] \in Subscription
    BY DEF IInv, TypeInv, TypeOK
  <1> DEFINE new == [sub[s] EXCEPT !.status = st]
  <1>1. /\ new \in Subscription /\ new.phase = sub[s].phase
        /\ new.finalizer = sub[s].finalizer /\ new.spec = sub[s].spec
    BY <1>0 DEF Subscription
  <1>2. sub' = [sub EXCEPT ![s] = new]
    OBVIOUS
  <1> HIDE DEF new
  <1> QED
    BY <1>0, <1>1, <1>2 DEF IInv, TypeInv, SpecsKnown

\* The status of an invalid Subscription is written.
LEMMA UpdateInvalidStatusSafe ==
  ASSUME IInv, NEW m \in Manager, UpdateInvalidStatus(m)
  PROVE  IInv'
  <1>0. /\ TypeInv /\ worker[m].pc # "idle" /\ worker[m].s \in Sub
        /\ worker[m].status \in SubStatus
    BY DEF IInv, TypeInv, TypeOK, WorkersEquipped, Equipped, UpdateInvalidStatus, Worker
  <1>f. faults' \in 0..MaxFaults
    BY <1>0, FaultType DEF UpdateInvalidStatus, APIFails
  <1>u. UNCHANGED <<rule, server, cred, live, edits, starts>>
        /\ (Return(m, TRUE) \/ Return(m, FALSE))
    BY DEF UpdateInvalidStatus
  <1>1. CASE sub' = sub
    <2>1. sub' \in [Sub -> Subscription] /\ SpecsKnown' /\ (GoneForGood => GoneForGood')
      BY <1>0, <1>1, <1>u DEF TypeInv, TypeOK, SpecsKnown, GoneForGood
    <2> QED
      BY <1>0, <1>f, <1>u, <2>1, ReturnSafe
  <1>2. CASE sub' = [sub EXCEPT ![worker[m].s].status = worker[m].status]
    <2>1. /\ sub' \in [Sub -> Subscription] /\ SpecsKnown'
          /\ \A t \in Sub : sub'[t].phase = sub[t].phase
      BY <1>0, <1>2, StatusWritten
    <2>2. GoneForGood => GoneForGood'
      BY <1>u, <2>1 DEF GoneForGood
    <2> QED
      BY <1>0, <1>f, <1>u, <2>1, <2>2, ReturnSafe
  <1> QED
    BY <1>1, <1>2 DEF UpdateInvalidStatus

\* handleDeleteSubscription deletes on EventMesh before the finalizer goes.
LEMMA DeleteSubscriptionSafe ==
  ASSUME IInv, NEW m \in Manager, DeleteSubscription(m)
  PROVE  IInv'
  <1> DEFINE s == worker[m].s
  <1>0. /\ TypeInv /\ worker[m].pc = "delete" /\ s \in Sub /\ worker[m].status \in SubStatus
        /\ worker \in [Manager -> Worker] /\ server \in [Sub -> ServerSub \cup {None}]
    BY DEF IInv, TypeInv, TypeOK, WorkersEquipped, Equipped, DeleteSubscription, Worker
  <1>f. faults' \in 0..MaxFaults
    BY <1>0, FaultType DEF DeleteSubscription
  <1>u. UNCHANGED <<sub, rule, cred, live, edits, starts>>
    BY DEF DeleteSubscription
  <1>s. /\ server' \in [Sub -> ServerSub \cup {None}]
        /\ \A t \in Sub : server'[t] \in {server[t], None} /\ (t # s => server'[t] = server[t])
    BY <1>0 DEF DeleteSubscription
  <1>k. SpecsKnown' /\ sub' \in [Sub -> Subscription]
    BY <1>0, <1>u DEF TypeInv, TypeOK, SpecsKnown
  <1>g. GoneForGood => GoneForGood'
    BY <1>s, <1>u DEF GoneForGood
  <1>1. CASE Return(m, TRUE)
    <2>1. Idles(m) /\ queue' \subseteq Sub
      BY <1>0, <1>1, ReturnIdles
    <2>2. TypeOK'
      BY <1>0, <1>f, <1>u, <1>s, <2>1 DEF TypeInv, TypeOK, Idles
    <2>3. WorkersEquipped'
      BY <1>0, <2>1 DEF TypeInv, WorkersEquipped, Equipped, Idles, Exposing, Backend, Patching
    <2>4. RuleInv'
      BY <1>0, <1>u, <2>1, RulesKept DEF IInv, Idles, RulesShrink
    <2>5. ASSUME OneBusy, Releasing, GoneForGood
          PROVE  OneBusy' /\ Releasing' /\ GoneForGood'
      <3>1. \A k \in Manager : worker'[k].pc = "idle"
        BY <1>0, <2>1, <2>5 DEF OneBusy, Idles
      <3> QED
        BY <1>g, <2>5, <3>1 DEF OneBusy, Releasing
    <2> QED
      BY <1>k, <2>2, <2>3, <2>4, <2>5 DEF IInv, TypeInv, LeftInv
  <1>2. CASE /\ server' = [server EXCEPT ![s] = None] /\ UNCHANGED queue
             /\ Finish(m, ReplaceStatusCondition(worker[m].status, "Subscribed", FALSE), "done")
    <2>1. ReplaceStatusCondition(worker[m].status, "Subscribed", FALSE) \in SubStatus
      BY <1>0, StatusTypes DEF ConditionType
    <2>2. Moves(m) /\ worker'[m].pc = "update"
      BY <1>0, <1>2, <2>1, FinishMoves
    <2>3. Equipped(worker'[m]) /\ worker'[m].pc \notin {"previous", "apply"}
      BY <1>0, <2>2, UpdateEquipped
    <2>4. TypeOK'
      BY <1>0, <1>f, <1>u, <1>s, <1>2, <2>2 DEF TypeInv, TypeOK, Moves
    <2>5. WorkersEquipped'
      BY <1>0, <2>2, <2>3 DEF TypeInv, WorkersEquipped, Moves
    <2>6. RuleInv'
      BY <1>0, <1>u, <2>2, <2>3, RulesKept DEF IInv, Moves, RulesShrink
    <2>7. ASSUME OneBusy, Releasing, GoneForGood
          PROVE  OneBusy' /\ Releasing' /\ GoneForGood'
      <3>1. live = m /\ Exists(s)
        BY <1>0, <2>7 DEF OneBusy
      <3>2. \A k \in Manager : k # m => worker'[k].pc = "idle"
        BY <2>2, <2>7, <3>1 DEF OneBusy, Moves
      <3>3. OneBusy'
        BY <1>u, <2>2, <3>1, <3>2 DEF OneBusy, Moves, Exists
      <3>4. server'[s] = None
        BY <1>0, <1>2
      <3>5. Releasing'
        <4> SUFFICES ASSUME ~worker'[m].finalizer
                     PROVE  sub'[s].phase = "deleting" /\ worker'[m].s = s
          BY <2>2, <3>2, <3>4 DEF Releasing
        <4>1. ~worker[m].finalizer
          BY <2>2 DEF Moves
        <4> QED
          BY <1>0, <1>u, <2>2, <2>7, <4>1 DEF Releasing, Moves
      <3> QED
        BY <1>g, <2>7, <3>3, <3>5
    <2> QED
      BY <1>k, <2>4, <2>5, <2>6, <2>7 DEF IInv, TypeInv, LeftInv
  <1> QED
    BY <1>1, <1>2 DEF DeleteSubscription

\* updateSubscription writes status and finalizer of the copy.
LEMMA UpdateSubscriptionSafe ==
  ASSUME IInv, NEW m \in Manager, UpdateSubscription(m)
  PROVE  IInv'
  <1> DEFINE s == worker[m].s
             obj == [sub[s] EXCEPT !.status = worker[m].status]
  <1>0. /\ TypeInv /\ worker[m].pc = "update" /\ s \in Sub /\ worker[m].status \in SubStatus
        /\ worker \in [Manager -> Worker] /\ worker[m] \in Worker
        /\ sub \in [Sub -> Subscription] /\ sub[s] \in Subscription
        /\ queue \subseteq Sub
    BY DEF IInv, TypeInv, TypeOK, WorkersEquipped, Equipped, UpdateSubscription, Worker
  <1>f. faults' \in 0..MaxFaults
    BY <1>0, FaultType DEF UpdateSubscription, APIFails
  <1>u. UNCHANGED <<rule, server, cred, live, edits, starts>>
    BY DEF UpdateSubscription
  <1>1. sub' = sub \/ sub' = [sub EXCEPT ![s].status = worker[m].status]
    BY DEF UpdateSubscription
  <1>2. /\ sub' \in [Sub -> Subscription] /\ SpecsKnown'
        /\ \A t \in Sub : sub'[t].phase = sub[t].phase
    <2>1. CASE sub' = sub
      BY <1>0, <2>1 DEF TypeInv, SpecsKnown
    <2>2. CASE sub' = [sub EXCEPT ![s].status = worker[m].status]
      BY <1>0, <2>2, StatusWritten
    <2> QED
      BY <1>1, <2>1, <2>2
  <1>3. GoneForGood => GoneForGood'
    BY <1>u, <1>2 DEF GoneForGood
  <1>4. ASSUME NEW again, Return(m, again)
        PROVE  IInv'
    BY <1>0, <1>f, <1>u, <1>2, <1>3, <1>4, ReturnSafe
  <1>5. CASE /\ worker' = [worker EXCEPT ![m].pc = "finalizer", ![m].obj = obj]
             /\ (Enqueue({s}) \/ Enqueue({}))
    <2> DEFINE new == [worker[m] EXCEPT !.pc = "finalizer", !.obj = obj]
    <2>1. obj \in Subscription /\ "finalizer" \in Step
      BY <1>0 DEF Subscription, Step
    <2>2. worker' = [worker EXCEPT ![m] = new]
      BY <1>5
    <2> HIDE DEF obj
    <2>3. /\ new \in Worker /\ new.pc = "finalizer" /\ new.s = s
          /\ new.finalizer = worker[m].finalizer
      BY <1>0, <2>1 DEF Worker
    <2> HIDE DEF new
    <2>4. /\ worker' \in [Manager -> Worker] /\ worker'[m] = new
          /\ \A k \in Manager : k # m => worker'[k] = worker[k]
      BY <1>0, <2>2, <2>3
    <2>5. queue' \subseteq Sub
      BY <1>0, <1>5, EnqueueType
    <2>6. TypeOK'
      BY <1>0, <1>f, <1>u, <1>2, <2>4, <2>5 DEF TypeInv, TypeOK
    <2>7. WorkersEquipped'
      BY <1>0, <2>3, <2>4 DEF TypeInv, WorkersEquipped, Equipped, Exposing, Backend, Patching
    <2>8. RuleInv'
      BY <1>0, <1>u, <2>3, <2>4, RulesKept DEF IInv, RulesShrink
    <2>9. ASSUME OneBusy, Releasing, GoneForGood
          PROVE  OneBusy' /\ Releasing'
      <3>1. live = m /\ Exists(s)
        BY <1>0, <2>9 DEF OneBusy
      <3>2. \A k \in Manager : k # m => worker'[k].pc = "idle"
        BY <2>4, <2>9, <3>1 DEF OneBusy
      <3>3. OneBusy'
        BY <1>0, <1>u, <1>2, <2>3, <2>4, <3>1, <3>2 DEF OneBusy, Exists
      <3>4. Releasing'
        <4> SUFFICES ASSUME ~worker'[m].finalizer
                     PROVE  sub'[s].phase = "deleting" /\ server'[s] = None
          BY <2>3, <2>4, <3>2 DEF Releasing
        <4>1. ~worker[m].finalizer
          BY <2>3, <2>4
        <4> QED
          BY <1>0, <1>u, <1>2, <2>9, <4>1 DEF Releasing
      <3> QED
        BY <3>3, <3>4
    <2> QED
      BY <1>2, <1>3, <2>6, <2>7, <2>8, <2>9 DEF IInv, TypeInv, LeftInv
  <1> QED
    BY <1>4, <1>5 DEF UpdateSubscription

\* The finalizer is written; without it a deleting Subscription is gone.
LEMMA UpdateFinalizersSafe ==
  ASSUME IInv, NEW m \in Manager, UpdateFinalizers(m)
  PROVE  IInv'
  <1> DEFINE s == worker[m].s
             phase == IF sub[s].phase = "deleting" /\ ~worker[m].finalizer
                      THEN "gone" ELSE sub[s].phase
             new == [sub[s] EXCEPT !.finalizer = worker[m].finalizer, !.phase = phase]
  <1>0. /\ TypeInv /\ worker[m].pc = "finalizer" /\ s \in Sub
        /\ worker[m].finalizer \in BOOLEAN
        /\ sub \in [Sub -> Subscription] /\ sub[s] \in Subscription
    BY DEF IInv, TypeInv, TypeOK, WorkersEquipped, Equipped, UpdateFinalizers, Worker
  <1>f. faults' \in 0..MaxFaults
    BY <1>0, FaultType DEF UpdateFinalizers, APIFails
  <1>u. UNCHANGED <<rule, server, cred, live, edits, starts>> /\ Return(m, TRUE)
    BY DEF UpdateFinalizers
  <1>1. CASE sub' = sub
    <2>1. sub' \in [Sub -> Subscription] /\ SpecsKnown' /\ (GoneForGood => GoneForGood')
      BY <1>0, <1>1, <1>u DEF TypeInv, SpecsKnown, GoneForGood
    <2> QED
      BY <1>0, <1>f, <1>u, <2>1, ReturnSafe
  <1>2. CASE sub' = [sub EXCEPT ![s] = new]
    <2>1. phase \in {"new", "present", "deleting", "gone"} /\ (phase = "present" => sub[s].phase = "present")
      BY <1>0 DEF Subscription
    <2>2. phase = "gone" /\ sub[s].phase # "gone" => ~worker[m].finalizer
      OBVIOUS
    <2> HIDE DEF phase
    <2>3. new \in Subscription /\ new.phase = phase /\ new.spec = sub[s].spec
      BY <1>0, <2>1 DEF Subscription
    <2> HIDE DEF new
    <2>4. /\ sub' \in [Sub -> Subscription] /\ sub'[s] = new
          /\ \A t \in Sub : t # s => sub'[t] = sub[t]
      BY <1>0, <1>2, <2>3
    <2>5. SpecsKnown'
      BY <1>0, <2>1, <2>3, <2>4 DEF TypeInv, SpecsKnown
    <2>6. ASSUME OneBusy, Releasing, GoneForGood
          PROVE  GoneForGood'
      <3>1. sub[s].phase # "gone"
        BY <1>0, <2>6 DEF OneBusy, Exists
      <3>2. phase = "gone" => server[s] = None
        BY <1>0, <2>2, <2>6, <3>1 DEF Releasing
      <3> QED
        BY <1>u, <2>3, <2>4, <2>6, <3>2 DEF GoneForGood
    <2> QED
      BY <1>0, <1>f, <1>u, <2>4, <2>5, <2>6, ReturnSafe
  <1> QED
    BY <1>1, <1>2 DEF UpdateFinalizers

\* Every step of a worker keeps the invariant.
LEMMA WorkerStepSafe ==
  ASSUME IInv, NEW m \in Manager, WorkerStep(m)
  PROVE  IInv'
  BY ReconcileSafe, UpdateInvalidStatusSafe, ListAPIRulesSafe, HandlePreviousAPIRuleSafe,
     CreateAPIRuleSafe, UpdateAPIRuleSafe, DeleteModifiedSafe, GetSubscriptionSafe,
     WebhookAuthSafe, CreateSubscriptionSafe, GetCreatedSafe, DeleteSubscriptionSafe,
     UpdateSubscriptionSafe, UpdateFinalizersSafe
     DEF WorkerStep

-----------------------------------------------------------------------------
(***************************************************************************)
(* The manager.                                                            *)
(***************************************************************************)

\* A manager starts with an idle worker.
LEMMA StartSafe ==
  ASSUME IInv, Start
  PROVE  IInv'
  <1> DEFINE n == starts + 1
  <1>0. /\ TypeInv /\ n \in Manager /\ n \in 0..MaxStarts /\ cred \in Auth
        /\ worker \in [Manager -> Worker]
    BY EMBoundsAssumption DEF IInv, TypeInv, TypeOK, Start, Manager
  <1>u. /\ UNCHANGED <<sub, rule, server, cred, edits, faults>> /\ live' = n /\ starts' = n
        /\ worker' = [worker EXCEPT ![n] = IdleWorker(cred)] /\ live = 0 /\ queue' \subseteq Sub
    BY DEF Start
  <1> HIDE DEF n
  <1>1. /\ worker' \in [Manager -> Worker] /\ worker'[n].pc = "idle"
        /\ \A k \in Manager : k # n => worker'[k] = worker[k]
    BY <1>0, <1>u, IdleWorkerType
  <1>2. TypeOK'
    BY <1>0, <1>u, <1>1 DEF TypeInv, TypeOK
  <1>3. WorkersEquipped' /\ SpecsKnown'
    BY <1>0, <1>u, <1>1 DEF TypeInv, WorkersEquipped, SpecsKnown, Equipped, Exposing, Backend, Patching
  <1>4. RuleInv'
    BY <1>u, <1>1 DEF IInv, RuleInv, OneRulePerService, NoRuleYet
  <1>5. ASSUME OneBusy, Releasing, GoneForGood
        PROVE  OneBusy' /\ Releasing' /\ GoneForGood'
    <2>1. \A k \in Manager : worker[k].pc = "idle"
      BY <1>5, <1>u DEF OneBusy, Manager
    <2>2. \A k \in Manager : worker'[k].pc = "idle"
      BY <1>1, <2>1
    <2> QED
      BY <1>5, <1>u, <2>2 DEF OneBusy, Releasing, GoneForGood
  <1> QED
    BY <1>2, <1>3, <1>4, <1>5 DEF IInv, TypeInv, LeftInv

\* A stop: no manager is live, so a worker has no claim on a Service.
LEMMA StoppingSafe ==
  ASSUME IInv, NEW m \in Manager, Stopping(m), faults' \in 0..MaxFaults,
         sub' \in [Sub -> Subscription], rule' \in [Rule -> APIRule],
         server' \in [Sub -> ServerSub \cup {None}], RulesShrink,
         \A s \in Sub : sub'[s].phase = sub[s].phase /\ sub'[s].spec = sub[s].spec,
         \A s \in Sub : server'[s] \in {server[s], None}
  PROVE  IInv'
  <1>1. TypeInv'
    BY DEF IInv, TypeInv, TypeOK, WorkersEquipped, SpecsKnown, Stopping
  <1>2. RuleInv'
    <2>1. OneRulePerService'
      BY DEF IInv, RuleInv, OneRulePerService, RulesShrink
    <2>2. live' \notin Manager
      BY DEF Stopping, Manager
    <2> QED
      BY <2>1, <2>2 DEF RuleInv, NoRuleYet
  <1>3. ASSUME ~StopsBusy, OneBusy, Releasing, GoneForGood
        PROVE  OneBusy' /\ Releasing' /\ GoneForGood'
    <2>1. \A k \in Manager : worker'[k].pc = "idle"
      BY <1>3 DEF OneBusy, Stopping
    <2>2. GoneForGood'
      BY <1>3 DEF GoneForGood
    <2> QED
      BY <2>1, <2>2 DEF OneBusy, Releasing
  <1> QED
    BY <1>1, <1>2, <1>3 DEF IInv, LeftInv

\* Stop without cleanup takes readiness back and keeps the hashes.
LEMMA MarkAllAsNotReadySafe ==
  ASSUME IInv, NEW m \in Manager, MarkAllAsNotReady(m)
  PROVE  IInv'
  <1>0. TypeInv /\ sub \in [Sub -> Subscription]
    BY DEF IInv, TypeInv, TypeOK
  <1>f. faults' \in 0..MaxFaults
    BY <1>0, FaultType DEF MarkAllAsNotReady
  <1>1. /\ sub' \in [Sub -> Subscription]
        /\ \A s \in Sub : sub'[s].phase = sub[s].phase /\ sub'[s].spec = sub[s].spec
    <2>1. CASE sub' = sub
      BY <1>0, <2>1
    <2>2. CASE sub' = [s \in Sub |->
             IF Exists(s) /\ sub[s].status.ready
             THEN [sub[s] EXCEPT !.status = CopyHashes(EmptyStatus, @)] ELSE sub[s]]
      <3>1. ASSUME NEW s \in Sub
            PROVE  LET new == [sub[s] EXCEPT !.status = CopyHashes(EmptyStatus, @)] IN
                   new \in Subscription /\ new.phase = sub[s].phase /\ new.spec = sub[s].spec
        <4>1. sub[s] \in Subscription /\ sub[s].status \in SubStatus
          BY <1>0 DEF Subscription
        <4>2. CopyHashes(EmptyStatus, sub[s].status) \in SubStatus
          BY <4>1, EmptyStatusType, CopyHashesType
        <4> QED
          BY <4>1, <4>2 DEF Subscription
      <3> QED
        BY <1>0, <2>2, <3>1
    <2> QED
      BY <2>1, <2>2 DEF MarkAllAsNotReady
  <1>2. /\ rule' \in [Rule -> APIRule] /\ RulesShrink
        /\ server' \in [Sub -> ServerSub \cup {None}]
        /\ \A s \in Sub : server'[s] \in {server[s], None}
    BY <1>0 DEF TypeInv, TypeOK, MarkAllAsNotReady, RulesShrink
  <1> QED
    BY <1>f, <1>1, <1>2, StoppingSafe DEF MarkAllAsNotReady

\* Stop with cleanup deletes on EventMesh.
LEMMA CleanupEventMeshSafe ==
  ASSUME IInv, NEW m \in Manager, CleanupEventMesh(m)
  PROVE  IInv'
  <1>0. TypeInv /\ sub \in [Sub -> Subscription] /\ rule \in [Rule -> APIRule]
        /\ server \in [Sub -> ServerSub \cup {None}]
    BY DEF IInv, TypeInv, TypeOK
  <1>f. faults' \in 0..MaxFaults
    BY <1>0, FaultType DEF CleanupEventMesh
  <1>1. /\ sub' \in [Sub -> Subscription]
        /\ \A s \in Sub : sub'[s].phase = sub[s].phase /\ sub'[s].spec = sub[s].spec
    <2>1. ASSUME NEW s \in Sub
          PROVE  LET new == [sub[s] EXCEPT !.status = EmptyStatus] IN
                 new \in Subscription /\ new.phase = sub[s].phase /\ new.spec = sub[s].spec
      BY <1>0, EmptyStatusType DEF Subscription
    <2> QED
      BY <1>0, <2>1 DEF CleanupEventMesh
  <1>2. rule' \in [Rule -> APIRule] /\ RulesShrink
    BY <1>0, UnusedRuleType DEF CleanupEventMesh, RulesShrink
  <1>3. /\ server' \in [Sub -> ServerSub \cup {None}]
        /\ \A s \in Sub : server'[s] \in {server[s], None}
    BY <1>0 DEF CleanupEventMesh
  <1> QED
    BY <1>f, <1>1, <1>2, <1>3, StoppingSafe DEF CleanupEventMesh

\* A restart leaves no worker busy.
LEMMA CrashSafe ==
  ASSUME IInv, Crash
  PROVE  IInv'
  <1>0. TypeInv /\ worker \in [Manager -> Worker]
    BY DEF IInv, TypeInv, TypeOK
  <1>f. faults' \in 0..MaxFaults
    BY <1>0, FaultType DEF Crash
  <1>1. worker' \in [Manager -> Worker] /\ \A k \in Manager : worker'[k].pc = "idle"
    <2>1. \A k \in Manager : worker[k].auth \in Auth
      BY <1>0 DEF Worker
    <2> QED
      BY <2>1, IdleWorkerType DEF Crash
  <1>2. TypeOK'
    BY <1>0, <1>f, <1>1 DEF TypeInv, TypeOK, Crash
  <1>3. WorkersEquipped' /\ SpecsKnown'
    BY <1>0, <1>1 DEF TypeInv, WorkersEquipped, SpecsKnown, Equipped, Exposing, Backend, Patching, Crash
  <1>4. RuleInv'
    BY <1>1 DEF IInv, RuleInv, OneRulePerService, NoRuleYet, Crash
  <1>5. GoneForGood => OneBusy' /\ Releasing' /\ GoneForGood'
    BY <1>1 DEF OneBusy, Releasing, GoneForGood, Crash
  <1> QED
    BY <1>2, <1>3, <1>4, <1>5 DEF IInv, TypeInv, LeftInv

-----------------------------------------------------------------------------
(***************************************************************************)
(* Users, API gateway, garbage collector, EventMesh.                       *)
(***************************************************************************)

\* What the environment may do to a Subscription and its image on EventMesh.
Outside(s) ==
  /\ Exists(s) => Exists(s)'
  /\ sub[s].phase = "deleting" => sub'[s].phase = "deleting"
  /\ sub'[s].phase = "gone" => sub[s].phase = "gone"
  /\ server[s] = None => server'[s] = None

\* What happens outside the process creates no APIRule and nothing on EventMesh.
LEMMA OutsideSafe ==
  ASSUME IInv, UNCHANGED <<live, worker, starts>>, cred' \in Auth,
         edits' \in 0..MaxEdits, faults' \in 0..MaxFaults, queue' \subseteq Sub,
         sub' \in [Sub -> Subscription], SpecsKnown',
         rule' \in [Rule -> APIRule], RulesShrink,
         server' \in [Sub -> ServerSub \cup {None}],
         ~Late => \A s \in Sub : Outside(s)
  PROVE  IInv'
  <1>1. TypeInv'
    BY DEF IInv, TypeInv, TypeOK, WorkersEquipped
  <1>2. RuleInv'
    BY DEF IInv, RuleInv, OneRulePerService, NoRuleYet, RulesShrink
  <1>3. ASSUME ~Late, OneBusy, Releasing, GoneForGood
        PROVE  OneBusy' /\ Releasing' /\ GoneForGood'
    <2>0. \A m \in Manager : worker[m].pc # "idle" => worker[m].s \in Sub
      BY DEF IInv, TypeInv, WorkersEquipped, Equipped
    <2>1. OneBusy'
      BY <1>3, <2>0 DEF OneBusy, Outside, Exists
    <2>2. Releasing'
      BY <1>3, <2>0 DEF Releasing, Outside
    <2>3. GoneForGood'
      BY <1>3 DEF GoneForGood, Outside
    <2> QED
      BY <2>1, <2>2, <2>3
  <1> QED
    BY <1>1, <1>2, <1>3 DEF IInv, LeftInv

\* Edits stay within their bound.
LEMMA EditType ==
  ASSUME IInv, Edit
  PROVE  edits' \in 0..MaxEdits /\ UNCHANGED <<rule, server, live, worker, faults, starts>>
  BY EMBoundsAssumption DEF Edit, IInv, TypeInv, TypeOK

\* A Subscription written by a user; it is gone at once only without a finalizer.
LEMMA WrittenSafe ==
  ASSUME IInv, Edit, UNCHANGED cred, NEW s \in Sub, NEW obj \in Subscription, Written(s, obj),
         obj.phase = "present" => obj.spec \in SubSpec,
         sub[s].phase \in {"new", "present"}, obj.phase \in {"present", "deleting", "gone"},
         ~Late => obj.phase # "gone"
  PROVE  IInv'
  <1>0. sub \in [Sub -> Subscription] /\ rule \in [Rule -> APIRule] /\ queue \subseteq Sub
        /\ server \in [Sub -> ServerSub \cup {None}] /\ cred \in Auth
        /\ faults \in 0..MaxFaults /\ SpecsKnown
    BY DEF IInv, TypeInv, TypeOK
  <1>1. /\ sub' \in [Sub -> Subscription] /\ sub'[s] = obj
        /\ \A t \in Sub : t # s => sub'[t] = sub[t]
    BY <1>0 DEF Written
  <1>2. SpecsKnown'
    BY <1>0, <1>1 DEF SpecsKnown
  <1>3. queue' \subseteq Sub
    BY <1>0 DEF Written
  <1>4. ~Late => \A t \in Sub : Outside(t)
    BY <1>1, EditType DEF Outside, Exists
  <1>5. RulesShrink
    BY EditType DEF RulesShrink
  <1> QED
    BY <1>0, <1>1, <1>2, <1>3, <1>4, <1>5, EditType, OutsideSafe

\* Users create, edit and delete Subscriptions.
LEMMA UserSafe ==
  ASSUME IInv, UserCreates \/ UserEdits \/ UserDeletes
  PROVE  IInv'
  <1>0. Edit /\ UNCHANGED cred /\ sub \in [Sub -> Subscription] /\ SpecsKnown
    BY DEF UserCreates, UserEdits, UserDeletes, IInv, TypeInv, TypeOK
  <1>1. CASE UserCreates
    <2>1. PICK s \in Sub, spec \in SubSpec :
            sub[s].phase = "new" /\ Written(s, [NewSubscription EXCEPT !.phase = "present", !.spec = spec])
      BY <1>1 DEF UserCreates
    <2> DEFINE obj == [NewSubscription EXCEPT !.phase = "present", !.spec = spec]
    <2>2. obj \in Subscription /\ obj.phase = "present" /\ obj.spec = spec
      BY NewSubscriptionType DEF Subscription
    <2> HIDE DEF obj
    <2> QED
      BY <1>0, <2>1, <2>2, WrittenSafe DEF obj
  <1>2. CASE UserEdits
    <2>1. PICK s \in Sub : \E spec \in SubSpec \ {sub[s].spec} :
            sub[s].phase = "present" /\ Written(s, [sub[s] EXCEPT !.spec = spec])
      BY <1>2 DEF UserEdits
    <2>2. PICK spec \in SubSpec :
            sub[s].phase = "present" /\ Written(s, [sub[s] EXCEPT !.spec = spec])
      BY <2>1
    <2> DEFINE obj == [sub[s] EXCEPT !.spec = spec]
    <2>3. obj \in Subscription /\ obj.phase = "present" /\ obj.spec = spec
      BY <1>0, <2>2 DEF Subscription
    <2> HIDE DEF obj
    <2> QED
      BY <1>0, <2>2, <2>3, WrittenSafe DEF obj
  <1>3. CASE UserDeletes
    <2> DEFINE Obj(s) == [sub[s] EXCEPT !.phase = IF sub[s].finalizer THEN "deleting" ELSE "gone"]
    <2>1. PICK s \in Sub : sub[s].phase = "present" /\ (Late \/ sub[s].finalizer) /\ Written(s, Obj(s))
      BY <1>3 DEF UserDeletes
    <2>2. Obj(s) \in Subscription /\ Obj(s).phase \in {"deleting", "gone"}
      BY <1>0, <2>1 DEF Subscription
    <2>3. ~Late => Obj(s).phase # "gone"
      BY <1>0, <2>1 DEF Subscription
    <2> HIDE DEF Obj
    <2> QED
      BY <1>0, <2>1, <2>2, <2>3, WrittenSafe
  <1> QED
    BY <1>1, <1>2, <1>3

\* The Secret changes.
LEMMA RotateCredentialsSafe ==
  ASSUME IInv, RotateCredentials
  PROVE  IInv'
  <1>1. /\ sub' \in [Sub -> Subscription] /\ rule' \in [Rule -> APIRule] /\ queue' \subseteq Sub
        /\ server' \in [Sub -> ServerSub \cup {None}] /\ cred' \in Auth
        /\ faults' \in 0..MaxFaults /\ SpecsKnown'
    BY EditType DEF IInv, TypeInv, TypeOK, SpecsKnown, RotateCredentials
  <1>2. \A s \in Sub : Outside(s)
    BY EditType DEF Outside, Exists, RotateCredentials
  <1>3. RulesShrink
    BY EditType DEF RulesShrink, RotateCredentials
  <1> QED
    BY <1>1, <1>2, <1>3, EditType, OutsideSafe DEF RotateCredentials

\* An APIRule changes and keeps its Service, or goes.
LEMMA RuleChangedSafe ==
  ASSUME IInv, NEW r \in Rule, NEW new \in APIRule, RuleChanged(r, new),
         faults' \in 0..MaxFaults, rule[r].state = "present",
         new.state = "present" => new.svc = rule[r].svc
  PROVE  IInv'
  <1>0. /\ TypeInv /\ rule \in [Rule -> APIRule] /\ rule[r].owners \in SUBSET Sub
        /\ UNCHANGED <<sub, server, cred, live, worker, edits, starts>>
    BY DEF IInv, TypeInv, TypeOK, APIRule, RuleChanged
  <1>1. queue' \subseteq Sub
    BY <1>0, EnqueueType DEF RuleChanged
  <1>2. rule' \in [Rule -> APIRule] /\ RulesShrink
    BY <1>0 DEF RuleChanged, RulesShrink
  <1>3. \A s \in Sub : Outside(s)
    BY <1>0 DEF Outside, Exists
  <1>4. /\ sub' \in [Sub -> Subscription] /\ cred' \in Auth /\ edits' \in 0..MaxEdits
        /\ server' \in [Sub -> ServerSub \cup {None}] /\ SpecsKnown'
    BY <1>0 DEF TypeInv, TypeOK, SpecsKnown
  <1> QED
    BY <1>0, <1>1, <1>2, <1>3, <1>4, OutsideSafe

\* The API gateway and the garbage collector.
LEMMA GatewaySafe ==
  ASSUME IInv, GatewayReady \/ GatewayNotReady \/ GarbageCollector
  PROVE  IInv'
  <1>0. TypeInv /\ rule \in [Rule -> APIRule]
    BY DEF IInv, TypeInv, TypeOK
  <1>f. faults' \in 0..MaxFaults
    BY <1>0, FaultType DEF GatewayReady, GatewayNotReady, GarbageCollector
  <1>1. CASE GatewayReady
    <2>1. PICK r \in Rule :
            rule[r].state = "present" /\ RuleChanged(r, [rule[r] EXCEPT !.ready = TRUE])
      BY <1>1 DEF GatewayReady
    <2>2. [rule[r] EXCEPT !.ready = TRUE] \in APIRule /\ [rule[r] EXCEPT !.ready = TRUE].svc = rule[r].svc
      BY <1>0 DEF APIRule
    <2> QED
      BY <1>f, <2>1, <2>2, RuleChangedSafe
  <1>2. CASE GatewayNotReady
    <2>1. PICK r \in Rule :
            rule[r].state = "present" /\ RuleChanged(r, [rule[r] EXCEPT !.ready = FALSE])
      BY <1>2 DEF GatewayNotReady
    <2>2. [rule[r] EXCEPT !.ready = FALSE] \in APIRule /\ [rule[r] EXCEPT !.ready = FALSE].svc = rule[r].svc
      BY <1>0 DEF APIRule
    <2> QED
      BY <1>f, <2>1, <2>2, RuleChangedSafe
  <1>3. CASE GarbageCollector
    <2> DEFINE Left(r) == {s \in rule[r].owners : Exists(s)}
    <2>1. PICK r \in Rule :
            /\ rule[r].state = "present"
            /\ RuleChanged(r, IF Left(r) = {} THEN DeletedRule ELSE [rule[r] EXCEPT !.owners = Left(r)])
      BY <1>3 DEF GarbageCollector
    <2>2. rule[r] \in APIRule /\ Left(r) \in SUBSET Sub
      BY <1>0 DEF APIRule
    <2> HIDE DEF Left
    <2>3. /\ [rule[r] EXCEPT !.owners = Left(r)] \in APIRule
          /\ [rule[r] EXCEPT !.owners = Left(r)].svc = rule[r].svc
      BY <2>2 DEF APIRule
    <2> QED
      BY <1>f, <2>1, <2>3, UnusedRuleType, RuleChangedSafe
  <1> QED
    BY <1>1, <1>2, <1>3

\* A subscription that exists on EventMesh changes or goes.
LEMMA ServerChangedSafe ==
  ASSUME IInv, NEW s \in Sub, NEW new \in ServerSub \cup {None}, ServerChanged(s, new),
         server[s] # None, faults' \in 0..MaxFaults
  PROVE  IInv'
  <1>0. /\ TypeInv /\ server \in [Sub -> ServerSub \cup {None}]
        /\ UNCHANGED <<sub, rule, cred, live, queue, worker, edits, starts>>
    BY DEF IInv, TypeInv, TypeOK, ServerChanged
  <1>1. server' \in [Sub -> ServerSub \cup {None}] /\ RulesShrink
    BY <1>0 DEF ServerChanged, RulesShrink
  <1>2. \A t \in Sub : Outside(t)
    BY <1>0 DEF Outside, Exists, ServerChanged
  <1>3. /\ sub' \in [Sub -> Subscription] /\ cred' \in Auth /\ edits' \in 0..MaxEdits
        /\ rule' \in [Rule -> APIRule] /\ queue' \subseteq Sub /\ SpecsKnown'
    BY <1>0 DEF TypeInv, TypeOK, SpecsKnown
  <1> QED
    BY <1>0, <1>1, <1>2, <1>3, OutsideSafe

\* EventMesh activates, delivers, and is changed by others.
LEMMA ServerSafe ==
  ASSUME IInv, Activate \/ DeliveryFails \/ DeliverySucceeds \/ ServerModified
  PROVE  IInv'
  <1>0. TypeInv /\ server \in [Sub -> ServerSub \cup {None}]
    BY DEF IInv, TypeInv, TypeOK
  <1>f. faults' \in 0..MaxFaults
    BY <1>0, FaultType DEF Activate, DeliveryFails, DeliverySucceeds, ServerModified
  <1>1. CASE Activate
    <2>1. PICK s \in Sub :
            server[s] # None /\ ServerChanged(s, [server[s] EXCEPT !.state = "active"])
      BY <1>1 DEF Activate
    <2>2. [server[s] EXCEPT !.state = "active"] \in ServerSub
      BY <1>0, <2>1 DEF ServerSub, ServerState
    <2> QED
      BY <1>f, <2>1, <2>2, ServerChangedSafe
  <1>2. CASE DeliveryFails
    <2>1. PICK s \in Sub :
            server[s] # None /\ ServerChanged(s, [server[s] EXCEPT !.failing = TRUE])
      BY <1>2 DEF DeliveryFails
    <2>2. [server[s] EXCEPT !.failing = TRUE] \in ServerSub
      BY <1>0, <2>1 DEF ServerSub
    <2> QED
      BY <1>f, <2>1, <2>2, ServerChangedSafe
  <1>3. CASE DeliverySucceeds
    <2>1. PICK s \in Sub :
            server[s] # None /\ ServerChanged(s, [server[s] EXCEPT !.failing = FALSE])
      BY <1>3 DEF DeliverySucceeds
    <2>2. [server[s] EXCEPT !.failing = FALSE] \in ServerSub
      BY <1>0, <2>1 DEF ServerSub
    <2> QED
      BY <1>f, <2>1, <2>2, ServerChangedSafe
  <1>4. CASE ServerModified
    <2>1. PICK s \in Sub, types \in EventTypes, deleted \in BOOLEAN :
            /\ server[s] # None
            /\ ServerChanged(s, IF deleted THEN None ELSE [server[s] EXCEPT !.content.types = types])
      BY <1>4 DEF ServerModified
    <2>2. server[s] \in ServerSub /\ server[s].content \in Content
      BY <1>0, <2>1 DEF ServerSub
    <2>3. [server[s].content EXCEPT !.types = types] \in Content
      BY <2>2 DEF Content
    <2>4. [server[s] EXCEPT !.content.types = types] \in ServerSub
      BY <2>2, <2>3 DEF ServerSub
    <2> QED
      BY <1>f, <2>1, <2>4, ServerChangedSafe
  <1> QED
    BY <1>1, <1>2, <1>3, <1>4

\* The resync fills the queue.
LEMMA ResyncSafe ==
  ASSUME IInv, Resync
  PROVE  IInv'
  <1>1. /\ queue' \subseteq Sub
        /\ UNCHANGED <<sub, rule, server, cred, live, worker, edits, faults, starts>>
    BY DEF Resync
  <1>2. \A s \in Sub : Outside(s)
    BY <1>1 DEF Outside, Exists
  <1>3. /\ sub' \in [Sub -> Subscription] /\ cred' \in Auth /\ edits' \in 0..MaxEdits
        /\ rule' \in [Rule -> APIRule] /\ RulesShrink /\ faults' \in 0..MaxFaults
        /\ server' \in [Sub -> ServerSub \cup {None}] /\ SpecsKnown'
    BY <1>1 DEF IInv, TypeInv, TypeOK, SpecsKnown, RulesShrink
  <1> QED
    BY <1>1, <1>2, <1>3, OutsideSafe

-----------------------------------------------------------------------------
(***************************************************************************)
(* The theorems.                                                           *)
(***************************************************************************)

\* The invariant holds initially.
LEMMA InitSafe ==
  ASSUME Init
  PROVE  IInv
  <1>1. 1 \in Auth /\ 0 \in 0..MaxEdits /\ 0 \in 0..MaxFaults /\ 0 \in 0..MaxStarts
    BY EMBoundsAssumption DEF Auth
  <1>2. IdleWorker(1) \in Worker /\ IdleWorker(1).pc = "idle"
    BY <1>1, IdleWorkerType
  <1>3. TypeOK
    BY <1>1, <1>2, NewSubscriptionType, UnusedRuleType DEF Init, TypeOK
  <1>4. \A m \in Manager : worker[m].pc = "idle"
    BY <1>2 DEF Init
  <1>5. \A s \in Sub : sub[s].phase = "new"
    BY DEF Init, NewSubscription
  <1>6. \A r \in Rule : rule[r].state = "unused"
    BY DEF Init, UnusedRule
  <1>7. TypeInv
    BY <1>3, <1>4, <1>5 DEF TypeInv, WorkersEquipped, SpecsKnown, Equipped, Exposing, Backend, Patching
  <1>8. RuleInv
    BY <1>4, <1>6 DEF RuleInv, OneRulePerService, NoRuleYet
  <1>9. LeftInv
    BY <1>4, <1>5 DEF LeftInv, OneBusy, Releasing, GoneForGood
  <1> QED
    BY <1>7, <1>8, <1>9 DEF IInv

\* It is inductive.
LEMMA NextSafe ==
  ASSUME IInv, [Next]_vars
  PROVE  IInv'
  <1>1. CASE UNCHANGED vars
    BY <1>1 DEF vars, IInv, TypeInv, TypeOK, WorkersEquipped, SpecsKnown, RuleInv,
       OneRulePerService, NoRuleYet, LeftInv, OneBusy, Releasing, GoneForGood, Exists
  <1>2. CASE \E m \in Manager : WorkerStep(m) \/ MarkAllAsNotReady(m) \/ CleanupEventMesh(m)
    BY <1>2, WorkerStepSafe, MarkAllAsNotReadySafe, CleanupEventMeshSafe
  <1>3. CASE Start \/ Crash \/ Resync
    BY <1>3, StartSafe, CrashSafe, ResyncSafe
  <1>4. CASE Environment
    BY <1>4, UserSafe, RotateCredentialsSafe, GatewaySafe, ServerSafe DEF Environment
  <1> QED
    BY <1>1, <1>2, <1>3, <1>4 DEF Next

\* It holds in every behaviour.
LEMMA Inductive == Spec => []IInv
  <1>1. Init => IInv
    BY InitSafe
  <1>2. IInv /\ [Next]_vars => IInv'
    BY NextSafe
  <1> QED
    BY <1>1, <1>2, PTL DEF Spec

\* Every variable keeps its type; in particular a worker has a Service, a content
\* and an EventMesh subscription at hand in the steps that use them.
THEOREM TypeCorrect == Spec => []TypeOK
  <1>1. IInv => TypeOK
    BY DEF IInv, TypeInv
  <1> QED
    BY <1>1, Inductive, PTL

\* createOrUpdateAPIRule never gives a Service a second APIRule: between its look
\* at the list and its create nobody else creates one, also when managers are
\* stopped while their worker is busy.
THEOREM OneRule == Spec => []OneRulePerService
  <1>1. IInv => OneRulePerService
    BY DEF IInv, RuleInv
  <1> QED
    BY <1>1, Inductive, PTL

\* Unless a Subscription is deleted before its finalizer was written or a manager
\* is stopped while its worker is busy, handleDeleteSubscription lets a
\* Subscription go only after its image on EventMesh is deleted, and nothing
\* creates it again.
THEOREM NothingLeft ==
  ASSUME ~Late, ~StopsBusy
  PROVE  Spec => []NothingLeftOnEventMesh
  <1>1. IInv => NothingLeftOnEventMesh
    BY DEF IInv, LeftInv, GoneForGood, NothingLeftOnEventMesh
  <1> QED
    BY <1>1, Inductive, PTL

=============================================================================
