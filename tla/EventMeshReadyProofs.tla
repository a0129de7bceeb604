------------------------ MODULE EventMeshReadyProofs ------------------------
(***************************************************************************)
(* What a ready Subscription of EventMesh means, proved for every set of   *)
(* Subscriptions, Services and event types and all bounds, as long as no   *)
(* manager is stopped while its worker is busy.                            *)
(***************************************************************************)
EXTENDS EventMeshSubscriptionProofs

-----------------------------------------------------------------------------
(***************************************************************************)
(* The invariants. A Subscription that is neither queued nor worked on is  *)
(* one the controller believes to know: whatever changes must queue it.    *)
(***************************************************************************)

Busy(s) == live # 0 /\ worker[live].pc # "idle" /\ worker[live].s = s

Known(s) == live # 0 /\ s \notin queue /\ ~Busy(s)

\* Only the worker of the running manager is busy.
OnlyLive == \A m \in Manager : worker[m].pc # "idle" => live = m

\* The status of an invalid Subscription is the one that was read, and the next
\* one is not ready.
Validating ==
  \A m \in Manager : worker[m].pc = "validation" =>
    /\ ~worker[m].status.ready /\ sub[worker[m].s].status = worker[m].obj.status
    /\ sub[worker[m].s].phase # "new"

\* What is to be created is not there: a conflict with a former creation cannot
\* be taken for success.
Creating == \A m \in Manager : worker[m].pc = "create" => server[worker[m].s] = None

BaseInv == OnlyLive /\ Validating /\ Creating

\* The latest credentials that are in use.
Top == IF live = 0 THEN cred ELSE worker[live].auth

\* EventMesh never has older credentials than the hash of this status says.
Behind(status, s) ==
  status.auth # None =>
    status.auth <= Top /\ (server[s] # None => status.auth <= server[s].auth)

AuthOrder ==
  /\ Top <= cred
  /\ \A s \in Sub : (server[s] # None => server[s].auth <= Top) /\ Behind(sub[s].status, s)

\* What a worker knows of the credentials.
Signing(m) ==
  LET w == worker[m] IN
  w.pc # "idle" =>
    /\ Behind(w.status, w.s)
    /\ w.pc \in {"resume", "getCreated"} /\ server[w.s] # None => server[w.s].auth = w.auth
    /\ w.pc = "update" /\ w.result = "done" /\ w.status.ready => w.status.auth = w.auth

AuthKnown ==
  \A s \in Sub : Known(s) /\ ReadySub(s) => sub[s].status.auth = worker[live].auth

AuthInv == AuthOrder /\ AuthKnown /\ \A m \in Manager : Signing(m)

\* The hashes of what was asked for and of what EventMesh took agree.
SameHashes ==
  /\ \A s \in Sub : sub[s].status.local = sub[s].status.remote
  /\ \A m \in Manager : worker[m].status.local = worker[m].status.remote

\* APIRule r exposes s as its spec asks for.
Routed(s, r) ==
  /\ r # None /\ rule[r].state = "present" /\ rule[r].svc = sub[s].spec.svc
  /\ s \in rule[r].owners \cap rule[r].paths

Wanted(s, r) == [host |-> r, path |-> TRUE, types |-> sub[s].spec.types]

\* What ReadyMeansExposed asks for, with this status.
Exposed(s, status) ==
  /\ Routed(s, status.rule) /\ status.sink = status.rule /\ rule[status.rule].ready
  /\ server[s] # None /\ server[s].content = Wanted(s, status.rule)

\* What the worker knows of the EventMesh side.
Sending(m) ==
  LET w == worker[m] IN
  /\ w.pc = "get" => w.status.local = w.content
  /\ w.pc \in Patching => w.got.content = w.content
  /\ w.pc \in Patching \cup {"getCreated"} =>
       server[w.s] # None /\ server[w.s].content = w.content

\* The rule read first is the one of the Service.
Reusing(m) ==
  LET w == worker[m] IN
  w.pc \in {"previous", "apply"} /\ w.reuse # None =>
    w.seen.state = "present" /\ w.seen.svc = w.obj.spec.svc

\* As long as s is present and not queued again, the worker is right about it.
Working(m) ==
  LET w == worker[m]
      s == w.s
      r == w.content.host
  IN
  w.pc # "idle" /\ s \notin queue /\ sub[s].phase = "present" =>
    /\ w.pc \in Exposing \cup Backend => w.obj.spec = sub[s].spec
    /\ w.pc \in {"previous", "apply"} =>
         s \in w.owners /\ (w.reuse # None /\ s \in w.seen.owners => rule[w.reuse] = w.seen)
    /\ w.pc \in Backend =>
         /\ Routed(s, r) /\ w.content = Wanted(s, r) /\ w.status.rule = r
         /\ "APIRule" \in w.status.conditions => rule[r].ready /\ w.status.sink = r
    /\ w.pc = "update" /\ w.result = "done" /\ w.status.ready => Exposed(s, w.status)

ExposedKnown == \A s \in Sub : Known(s) /\ ReadySub(s) => Exposed(s, sub[s].status)

ExposedInv ==
  /\ SameHashes /\ ExposedKnown
  /\ \A m \in Manager : Sending(m) /\ Reusing(m) /\ Working(m)

-----------------------------------------------------------------------------
(***************************************************************************)
(* What the ends of an action do to the worker and to the status.          *)
(***************************************************************************)

\* The worker of m goes on with the same object and the same credentials.
Keeps(m) ==
  /\ \A k \in Manager : k # m => worker'[k] = worker[k]
  /\ worker'[m].s = worker[m].s /\ worker'[m].auth = worker[m].auth
  /\ worker'[m].obj = worker[m].obj

\* The hashes of the status stay.
HashesStay(m) ==
  /\ worker'[m].status.local = worker[m].status.local
  /\ worker'[m].status.remote = worker[m].status.remote
  /\ worker'[m].status.auth = worker[m].status.auth

\* A next call changes nothing but the step.
LEMMA GotoKeeps ==
  ASSUME TypeInv, NEW m \in Manager, NEW step \in Step, Goto(m, step)
  PROVE  /\ Keeps(m) /\ worker'[m].pc = step /\ worker'[m].status = worker[m].status
         /\ worker'[m].content = worker[m].content /\ worker'[m].got = worker[m].got
         /\ worker'[m].reuse = worker[m].reuse /\ worker'[m].seen = worker[m].seen
         /\ worker'[m].owners = worker[m].owners
  <1>1. worker \in [Manager -> Worker] /\ worker[m] \in Worker
    BY DEF TypeInv, TypeOK
  <1> QED
    BY <1>1 DEF Goto, Keeps, Worker

\* The end of a Reconcile changes step, status and result.
LEMMA FinishKeeps ==
  ASSUME TypeInv, NEW m \in Manager, NEW st, NEW result, Finish(m, st, result)
  PROVE  /\ Keeps(m) /\ worker'[m].pc = "update" /\ worker'[m].status = st
         /\ worker'[m].result = result /\ worker'[m].content = worker[m].content
  <1> DEFINE new == [worker[m] EXCEPT !.pc = "update", !.status = st, !.result = result]
  <1>1. worker \in [Manager -> Worker] /\ worker[m] \in Worker
    BY DEF TypeInv, TypeOK
  <1>2. worker' = [worker EXCEPT ![m] = new]
    BY DEF Finish
  <1>3. /\ new.pc = "update" /\ new.status = st /\ new.result = result
        /\ new.s = worker[m].s /\ new.auth = worker[m].auth /\ new.obj = worker[m].obj
        /\ new.content = worker[m].content
    BY <1>1 DEF Worker
  <1> HIDE DEF new
  <1> QED
    BY <1>1, <1>2, <1>3 DEF Keeps

\* Two statuses that differ at most in conditions and flags.
Alike(x, st) ==
  /\ x.local = st.local /\ x.remote = st.remote /\ x.auth = st.auth
  /\ x.rule = st.rule /\ x.sink = st.sink

\* setCondition touches nothing but the conditions.
LEMMA SetConditionKeeps ==
  ASSUME NEW st \in SubStatus, NEW type \in ConditionType, NEW true \in BOOLEAN
  PROVE  /\ Alike(SetCondition(st, type, true), st)
         /\ SetCondition(st, type, true).conditions =
              IF true THEN st.conditions \cup {type} ELSE st.conditions \ {type}
         /\ SetCondition(st, type, true).ready = st.ready
  <1> DEFINE c == IF true THEN st.conditions \cup {type} ELSE st.conditions \ {type}
             x == SetCondition(st, type, true)
  <1>1. x = [st EXCEPT !.conditions = c]
    BY DEF SetCondition, SubStatus
  <1> HIDE DEF c, x
  <1>2. Alike(x, st) /\ x.conditions = c /\ (x.ready = st.ready)
    BY <1>1 DEF SubStatus, Alike
  <1> QED
    BY <1>2 DEF c, x

\* After replaceStatusCondition ready does not contradict the conditions.
LEMMA ReplaceConditionKeeps ==
  ASSUME NEW st \in SubStatus, NEW type \in ConditionType, NEW true \in BOOLEAN
  PROVE  /\ Alike(ReplaceStatusCondition(st, type, true), st)
         /\ ReplaceStatusCondition(st, type, true).conditions =
              IF true THEN st.conditions \cup {type} ELSE st.conditions \ {type}
         /\ ReplaceStatusCondition(st, type, true).ready => ReplaceStatusCondition(st, type, true).conditions = ConditionType
  <1> DEFINE c == IF true THEN st.conditions \cup {type} ELSE st.conditions \ {type}
             x == ReplaceStatusCondition(st, type, true)
  <1>1. x = [st EXCEPT !.conditions = c, !.ready = c = ConditionType]
    BY DEF ReplaceStatusCondition, SubStatus
  <1> HIDE DEF c, x
  <1>2. Alike(x, st) /\ x.conditions = c /\ (x.ready => x.conditions = ConditionType)
    BY <1>1 DEF SubStatus, Alike
  <1> QED
    BY <1>2 DEF c, x

\* A Reconcile that goes wrong ends with the former hashes, and is repeated or
\* leaves the Subscription not ready.
Failing(m) ==
  /\ Keeps(m) /\ HashesStay(m) /\ worker'[m].pc = "update"
  /\ worker'[m].result = "done" => ~worker'[m].status.ready

\* An error of the APIRule.
LEMMA APIRuleErrorFails ==
  ASSUME TypeInv, NEW m \in Manager, APIRuleError(m)
  PROVE  Failing(m)
  <1>1. worker[m].status \in SubStatus
    BY DEF TypeInv, TypeOK, Worker
  <1> DEFINE st == SetCondition(worker[m].status, "APIRule", FALSE)
  <1>2. /\ st.local = worker[m].status.local /\ st.remote = worker[m].status.remote
        /\ st.auth = worker[m].status.auth
    BY <1>1, SetConditionKeeps, StatusTypes DEF ConditionType, Alike
  <1>3. Finish(m, st, "again")
    BY DEF APIRuleError
  <1> HIDE DEF st
  <1> QED
    BY <1>2, <1>3, FinishKeeps DEF Failing, HashesStay

\* Without condition Subscribed a Subscription is not ready.
LEMMA UnsubscribedFails ==
  ASSUME TypeInv, NEW m \in Manager, NEW result,
         Finish(m, ReplaceStatusCondition(worker[m].status, "Subscribed", FALSE), result)
  PROVE  Failing(m)
  <1>1. worker[m].status \in SubStatus
    BY DEF TypeInv, TypeOK, Worker
  <1> DEFINE st == ReplaceStatusCondition(worker[m].status, "Subscribed", FALSE)
  <1>c. "Subscribed" \in ConditionType
    BY DEF ConditionType
  <1>2. Alike(st, worker[m].status)
    BY <1>1, <1>c, ReplaceConditionKeeps
  <1>r. "Subscribed" \notin st.conditions
    BY <1>1, <1>c, ReplaceConditionKeeps
  <1>q. st.ready => st.conditions = ConditionType
    BY <1>1, <1>c, ReplaceConditionKeeps
  <1>3. ~st.ready
    BY <1>c, <1>r, <1>q
  <1>4. Finish(m, st, result)
    OBVIOUS
  <1> HIDE DEF st
  <1> QED
    BY <1>2, <1>3, <1>4, FinishKeeps DEF Failing, HashesStay, Alike

\* An error of the backend.
LEMMA BackendErrorFails ==
  ASSUME TypeInv, NEW m \in Manager, BackendError(m)
  PROVE  Failing(m)
  BY UnsubscribedFails DEF BackendError

\* SyncSubscription has succeeded with this answer of EventMesh: the hashes are
\* taken, and the Subscription is ready only if its APIRule is.
Succeeding(m, got) ==
  /\ Keeps(m) /\ worker'[m].pc = "update"
  /\ worker'[m].status.local = worker[m].content /\ worker'[m].status.remote = got.content
  /\ worker'[m].status.auth = worker[m].auth
  /\ worker'[m].status.rule = worker[m].status.rule
  /\ worker'[m].status.sink = worker[m].status.sink
  /\ worker'[m].result = "done" /\ worker'[m].status.ready =>
       "APIRule" \in worker[m].status.conditions

\* What updateHashesInStatus and the conditions come to.
LEMMA SyncedSucceeds ==
  ASSUME TypeInv, NEW m \in Manager, worker[m].pc \in Backend, NEW got \in ServerSub,
         Synced(m, got)
  PROVE  Succeeding(m, got)
  <1> DEFINE active == got.state = "active"
             w == worker[m].status
             st == [w EXCEPT !.local = worker[m].content,
                      !.remote = got.content, !.auth = worker[m].auth, !.ems = got.state]
             s0 == [st EXCEPT !.failed = ~active]
             s1 == ReplaceStatusCondition(s0, "Subscribed", TRUE)
             s2 == ReplaceStatusCondition(s1, "Active", active)
             s3 == ReplaceStatusCondition(s2, "Webhook", ~got.failing)
             Same(x) == /\ x.local = worker[m].content /\ x.remote = got.content
                        /\ x.auth = worker[m].auth /\ x.rule = w.rule /\ x.sink = w.sink
                        /\ \A c \in {"APIRule"} : c \in x.conditions => c \in w.conditions
  <1>1. w \in SubStatus /\ worker[m].auth \in Auth /\ worker[m].content \in Content
    BY DEF TypeInv, TypeOK, Worker, WorkersEquipped, Equipped
  <1>3. got.content \in Content /\ got.state \in ServerState /\ got.failing \in BOOLEAN
    BY DEF ServerSub
  <1>4. st \in SubStatus /\ Same(st)
    BY <1>1, <1>3 DEF SubStatus
  <1>5. active \in BOOLEAN
    OBVIOUS
  <1> HIDE DEF st, active, w
  <1>6. s0 \in SubStatus /\ Same(s0)
    BY <1>4, <1>5 DEF SubStatus
  <1>c. {"Subscribed", "Active", "Webhook"} \subseteq ConditionType
    BY DEF ConditionType
  <1> HIDE DEF s0
  <1>7. s1 \in SubStatus /\ Same(s1)
    <2>1. s1 \in SubStatus
      BY <1>6, <1>c, StatusTypes
    <2>2. Alike(s1, s0)
      BY <1>6, <1>c, ReplaceConditionKeeps
    <2>3. s1.conditions = s0.conditions \cup {"Subscribed"}
      BY <1>6, <1>c, ReplaceConditionKeeps
    <2> QED
      BY <1>6, <2>1, <2>2, <2>3 DEF Alike
  <1> HIDE DEF s1
  <1>8. s2 \in SubStatus /\ Same(s2)
    <2>1. s2 \in SubStatus
      BY <1>7, <1>c, <1>5, StatusTypes
    <2>2. Alike(s2, s1)
      BY <1>7, <1>c, <1>5, ReplaceConditionKeeps
    <2>3. s2.conditions =
            IF active THEN s1.conditions \cup {"Active"} ELSE s1.conditions \ {"Active"}
      BY <1>7, <1>c, <1>5, ReplaceConditionKeeps DEF active
    <2> HIDE DEF s2
    <2> QED
      BY <1>7, <2>1, <2>2, <2>3 DEF Alike
  <1> HIDE DEF s2
  <1>n. (~got.failing) \in BOOLEAN
    BY <1>3
  <1>9. Same(s3)
    <2>2. Alike(s3, s2)
      BY <1>8, <1>c, <1>n, ReplaceConditionKeeps
    <2>3. s3.conditions =
            IF ~got.failing THEN s2.conditions \cup {"Webhook"} ELSE s2.conditions \ {"Webhook"}
      BY <1>8, <1>c, <1>n, ReplaceConditionKeeps
    <2> HIDE DEF s3
    <2> QED
      BY <1>8, <2>2, <2>3 DEF Alike
  <1>q. s3.ready => s3.conditions = ConditionType
    BY <1>8, <1>c, <1>n, ReplaceConditionKeeps
  <1>p. s3.ready => "APIRule" \in w.conditions
    BY <1>9, <1>q DEF ConditionType
  <1> HIDE DEF s3
  <1>10. \/ \E result : Finish(m, s3, result)
         \/ Finish(m, st, "again")
    <2>1. PICK o \in Outcome(m, got) : Finish(m, o.status, o.result)
      BY DEF Synced
    <2>2. CASE o = [status |-> s3, result |-> IF active THEN "done" ELSE "again"]
      BY <2>1, <2>2
    <2>3. CASE o = [status |-> st, result |-> "again"]
      BY <2>1, <2>3
    <2> QED
      BY <2>1, <2>2, <2>3 DEF Outcome, st, s0, s1, s2, s3, active, w
  <1>11. CASE \E result : Finish(m, s3, result)
    BY <1>11, <1>9, <1>p, FinishKeeps DEF Succeeding, w
  <1>12. CASE Finish(m, st, "again")
    BY <1>12, <1>4, FinishKeeps DEF Succeeding, w
  <1> QED
    BY <1>10, <1>11, <1>12

\* After syncAPIRule the worker knows what to ask EventMesh for.
LEMMA APIRuleSyncedKeeps ==
  ASSUME TypeInv, NEW m \in Manager, worker[m].pc = "apply", NEW r \in Rule,
         NEW ready \in BOOLEAN, APIRuleSynced(m, r, ready)
  PROVE  /\ Keeps(m) /\ HashesStay(m) /\ worker'[m].pc \in {"recreate", "get"}
         /\ worker'[m].pc = "get" => worker'[m].status.local = worker'[m].content
         /\ worker'[m].pc = "recreate" => worker'[m].status.local # worker'[m].content
         /\ worker'[m].content =
              [host |-> r, path |-> worker[m].s \in worker[m].owners, types |-> worker[m].obj.spec.types]
         /\ worker'[m].status.rule = r
         /\ "APIRule" \in worker'[m].status.conditions => ready /\ worker'[m].status.sink = r
  <1> DEFINE w == worker[m]
             content == [host |-> r, path |-> w.s \in w.owners, types |-> w.obj.spec.types]
             named == [w.status EXCEPT !.rule = r, !.sink = IF ready THEN r ELSE @]
             st == SetCondition(named, "APIRule", ready)
             pc == IF KymaSubModified(w.status, content) THEN "recreate" ELSE "get"
             new == [w EXCEPT !.reuse = None, !.seen = UnusedRule, !.owners = {},
                       !.content = content, !.status = st, !.pc = pc]
  <1>1. w \in Worker /\ w.status \in SubStatus /\ worker \in [Manager -> Worker]
    BY DEF TypeInv, TypeOK, Worker
  <1>c. "APIRule" \in ConditionType
    BY DEF ConditionType
  <1>2. /\ named \in SubStatus /\ named.rule = r /\ (ready => named.sink = r)
        /\ named.local = w.status.local /\ named.remote = w.status.remote
        /\ named.auth = w.status.auth
    BY <1>1 DEF SubStatus
  <1> HIDE DEF named
  <1>3. Alike(st, named)
    BY <1>2, <1>c, SetConditionKeeps
  <1>4. "APIRule" \in st.conditions => ready
    BY <1>2, <1>c, SetConditionKeeps
  <1>5. pc \in {"recreate", "get"} /\ (pc = "get" => w.status.local = content)
        /\ (pc = "recreate" => w.status.local # content)
    BY DEF KymaSubModified
  <1>6. worker' = [worker EXCEPT ![m] = new]
    BY DEF APIRuleSynced, named
  <1> HIDE DEF content, st, pc
  <1>7. /\ new.s = w.s /\ new.auth = w.auth /\ new.obj = w.obj /\ new.pc = pc
        /\ new.content = content /\ new.status = st
    BY <1>1 DEF Worker
  <1> HIDE DEF new
  <1>8. worker'[m] = new /\ \A k \in Manager : k # m => worker'[k] = worker[k]
    BY <1>1, <1>6
  <1>9. Keeps(m) /\ HashesStay(m)
    BY <1>2, <1>3, <1>7, <1>8 DEF Keeps, HashesStay, Alike
  <1>10. worker'[m].status.rule = r /\ worker'[m].status.local = w.status.local
    BY <1>2, <1>3, <1>7, <1>8 DEF Alike
  <1>11. "APIRule" \in worker'[m].status.conditions => ready /\ worker'[m].status.sink = r
    BY <1>2, <1>3, <1>4, <1>7, <1>8 DEF Alike
  <1> QED
    BY <1>5, <1>7, <1>8, <1>9, <1>10, <1>11 DEF content

\* Reconcile returns: the worker is idle, an error puts the request back.
LEMMA ReturnLeaves ==
  ASSUME TypeInv, NEW m \in Manager, NEW again \in BOOLEAN, Return(m, again), live = m
  PROVE  /\ \A k \in Manager : k # m => worker'[k] = worker[k]
         /\ worker'[m].pc = "idle" /\ worker'[m].auth = worker[m].auth
         /\ worker'[m].status.local = worker'[m].status.remote
         /\ queue' = IF again THEN queue \cup {worker[m].s} ELSE queue
  <1>1. worker \in [Manager -> Worker]
    BY DEF TypeInv, TypeOK
  <1>2. worker' = [worker EXCEPT ![m] = IdleWorker(worker[m].auth)]
    BY DEF Return
  <1>3. /\ worker'[m] = IdleWorker(worker[m].auth)
        /\ \A k \in Manager : k # m => worker'[k] = worker[k]
    BY <1>1, <1>2
  <1>4. /\ worker'[m].pc = "idle" /\ worker'[m].auth = worker[m].auth
        /\ worker'[m].status.local = worker'[m].status.remote
    BY <1>3 DEF IdleWorker, EmptyStatus
  <1> QED
    BY <1>3, <1>4 DEF Return

-----------------------------------------------------------------------------
(***************************************************************************)
(* What a step of a worker has to see to.                                  *)
(***************************************************************************)

\* The worker of m, which runs, works on s: nothing else changes, and a status
\* that is written is the one of the worker.
Frame(m, s) ==
  /\ live = m /\ UNCHANGED <<cred, live>> /\ queue \subseteq queue' \cup {s}
  /\ \A t \in Sub : t # s => server'[t] = server[t] /\ sub'[t] = sub[t]
  /\ \A k \in Manager : k # m => worker'[k] = worker[k]
  /\ worker'[m].auth = worker[m].auth
  /\ worker[m].pc # "idle" => worker[m].s = s
  /\ worker'[m].pc # "idle" => worker'[m].s = s
  /\ sub'[s].status = sub[s].status \/ (worker[m].pc # "idle" /\ sub'[s].status = worker[m].status)

\* The owners of an APIRule that changes are queued.
Told ==
  \A r \in Rule : rule[r].state = "present" /\ rule'[r] # rule[r] =>
    \A t \in rule[r].owners : Exists(t) => t \in queue'

\* What is on EventMesh keeps its credentials or gets those of the worker.
Signed(m, s) ==
  server'[s] # None =>
    \/ server'[s].auth = worker[m].auth
    \/ server[s] # None /\ server'[s].auth = server[s].auth

\* The types the comparisons of credentials need.
LEMMA AuthTypes ==
  ASSUME TypeInv
  PROVE  /\ Top \in Auth /\ cred \in Auth /\ \A a \in Auth : a \in Nat /\ a # None
         /\ \A s \in Sub : /\ server[s] # None => server[s].auth \in Auth
                           /\ sub[s].status.auth \in Auth \cup {None}
         /\ \A m \in Manager : worker[m].auth \in Auth /\ worker[m].status.auth \in Auth \cup {None}
  <1>1. \A a \in Auth : a \in Nat /\ a # None
    BY EMNamesAssumption, EMBoundsAssumption DEF Auth
  <1>2. \A m \in Manager : worker[m].auth \in Auth /\ worker[m].status \in SubStatus
    BY DEF TypeInv, TypeOK, Worker
  <1>3. \A st \in SubStatus : st.auth \in Auth \cup {None}
    BY DEF SubStatus
  <1>4. \A s \in Sub : sub[s].status \in SubStatus
    BY DEF TypeInv, TypeOK, Subscription
  <1>5. \A s \in Sub : server[s] # None => server[s].auth \in Auth
    BY DEF TypeInv, TypeOK, ServerSub
  <1>6. Top \in Auth /\ cred \in Auth
    BY <1>2 DEF Top, TypeInv, TypeOK
  <1> QED
    BY <1>1, <1>2, <1>3, <1>4, <1>5, <1>6

\* The same after a step.
LEMMA AuthTypesNext ==
  ASSUME TypeInv'
  PROVE  /\ Top' \in Auth /\ cred' \in Auth
         /\ \A s \in Sub : /\ server'[s] # None => server'[s].auth \in Auth
                           /\ sub'[s].status.auth \in Auth \cup {None}
         /\ \A m \in Manager : worker'[m].auth \in Auth /\ worker'[m].status.auth \in Auth \cup {None}
  <1>2. \A m \in Manager : worker'[m].auth \in Auth /\ worker'[m].status \in SubStatus
    BY DEF TypeInv, TypeOK, Worker
  <1>3. \A st \in SubStatus : st.auth \in Auth \cup {None}
    BY DEF SubStatus
  <1>4. \A s \in Sub : sub'[s].status \in SubStatus
    BY DEF TypeInv, TypeOK, Subscription
  <1>5. \A s \in Sub : server'[s] # None => server'[s].auth \in Auth
    BY DEF TypeInv, TypeOK, ServerSub
  <1>6. Top' \in Auth /\ cred' \in Auth
    BY <1>2 DEF Top, TypeInv, TypeOK
  <1> QED
    BY <1>2, <1>3, <1>4, <1>5, <1>6

\* Only the worker of m can be busy after a step of its own.
LEMMA BaseStep ==
  ASSUME BaseInv, NEW m \in Manager, NEW s \in Sub, Frame(m, s),
         worker'[m].pc = "validation" =>
           /\ ~worker'[m].status.ready /\ sub'[s].status = worker'[m].obj.status
           /\ sub'[s].phase # "new",
         worker'[m].pc = "create" => server'[s] = None
  PROVE  BaseInv'
  <1>1. \A k \in Manager : k # m => worker'[k].pc = "idle"
    BY DEF BaseInv, OnlyLive, Frame
  <1>2. live' = m /\ (worker'[m].pc # "idle" => worker'[m].s = s)
    BY DEF Frame
  <1>3. OnlyLive'
    BY <1>1, <1>2 DEF OnlyLive
  <1>4. Validating'
    BY <1>1, <1>2 DEF Validating
  <1>5. Creating'
    BY <1>1, <1>2 DEF Creating
  <1> QED
    BY <1>3, <1>4, <1>5 DEF BaseInv

\* The credentials, for a step of a worker.
LEMMA AuthStep ==
  ASSUME TypeInv, TypeInv', BaseInv', AuthInv, NEW m \in Manager, NEW s \in Sub,
         Frame(m, s), Signed(m, s), Signing(m)',
         worker'[m].pc = "idle" /\ s \notin queue' /\ ReadySub(s)' =>
           sub'[s].status.auth = worker[m].auth
  PROVE  AuthInv'
  <1>0. live = m /\ live' = m /\ live # 0 /\ cred' = cred /\ worker'[m].auth = worker[m].auth
    BY DEF Frame, Manager
  <1>1. Top = worker[m].auth /\ Top' = worker[m].auth
    BY <1>0 DEF Top
  <1>2. AuthOrder'
    <2>1. Top' <= cred'
      BY <1>0, <1>1 DEF AuthInv, AuthOrder
    <2>2. ASSUME NEW t \in Sub, t # s
          PROVE  (server'[t] # None => server'[t].auth <= Top') /\ Behind(sub[t].status, t)'
      BY <1>1, <2>2 DEF AuthInv, AuthOrder, Behind, Frame
    <2>3. server'[s] # None => server'[s].auth <= Top'
      BY <1>1, AuthTypes DEF AuthInv, AuthOrder, Signed
    <2>4. Behind(sub[s].status, s)'
      <3>1. CASE sub'[s].status = sub[s].status
        BY <1>1, <3>1, AuthTypes DEF AuthInv, AuthOrder, Signed, Behind
      <3>2. CASE worker[m].pc # "idle" /\ sub'[s].status = worker[m].status
        <4>1. worker[m].s = s /\ Behind(worker[m].status, worker[m].s)
          BY <3>2 DEF Frame, AuthInv, Signing
        <4> QED
          BY <1>1, <3>2, <4>1, AuthTypes DEF Signed, Behind
      <3> QED
        BY <3>1, <3>2 DEF Frame
    <2> QED
      BY <2>1, <2>2, <2>3, <2>4 DEF AuthOrder
  <1>3. AuthKnown'
    <2> SUFFICES ASSUME NEW t \in Sub, Known(t)', ReadySub(t)'
                 PROVE  sub'[t].status.auth = worker'[live'].auth
      BY DEF AuthKnown
    <2>1. CASE t = s
      <3>1. s \notin queue' /\ worker'[m].pc = "idle"
        BY <1>0, <2>1 DEF Known, Busy, Frame
      <3> QED
        BY <1>0, <2>1, <3>1
    <2>2. CASE t # s
      <3>1. Known(t) /\ ReadySub(t) /\ sub'[t] = sub[t]
        BY <1>0, <2>2 DEF Known, Busy, Frame, ReadySub
      <3> QED
        BY <1>0, <3>1 DEF AuthInv, AuthKnown
    <2> QED
      BY <2>1, <2>2
  <1>4. \A k \in Manager : Signing(k)'
    <2>1. \A k \in Manager : k # m => worker'[k].pc = "idle"
      BY <1>0 DEF BaseInv, OnlyLive
    <2> QED
      BY <2>1 DEF Signing
  <1> QED
    BY <1>2, <1>3, <1>4 DEF AuthInv

\* The APIRule of an owner that a step does not queue stays as it is.
LEMMA RuleStays ==
  ASSUME NEW r \in Rule, NEW t \in rule[r].owners, rule[r].state = "present", Told,
         t \notin queue', Exists(t)
  PROVE  rule'[r] = rule[r]
  BY DEF Told

\* The exposure, for a step of a worker.
LEMMA ExposedStep ==
  ASSUME TypeInv, TypeInv', BaseInv', ExposedInv, NEW m \in Manager, NEW s \in Sub,
         Frame(m, s), Told, worker'[m].status.local = worker'[m].status.remote,
         Sending(m)', Reusing(m)', Working(m)',
         worker'[m].pc = "idle" /\ s \notin queue' /\ ReadySub(s)' => Exposed(s, sub[s].status)'
  PROVE  ExposedInv'
  <1>0. live = m /\ live' = m /\ live # 0
    BY DEF Frame, Manager
  <1>1. SameHashes'
    <2>1. \A t \in Sub : sub'[t].status.local = sub'[t].status.remote
      BY DEF Frame, ExposedInv, SameHashes
    <2>2. \A k \in Manager : worker'[k].status.local = worker'[k].status.remote
      BY DEF Frame, ExposedInv, SameHashes
    <2> QED
      BY <2>1, <2>2 DEF SameHashes
  <1>2. ExposedKnown'
    <2> SUFFICES ASSUME NEW t \in Sub, Known(t)', ReadySub(t)'
                 PROVE  Exposed(t, sub[t].status)'
      BY DEF ExposedKnown
    <2>1. CASE t = s
      <3>1. s \notin queue' /\ worker'[m].pc = "idle"
        BY <1>0, <2>1 DEF Known, Busy, Frame
      <3> QED
        BY <2>1, <3>1
    <2>2. CASE t # s
      <3>1. Known(t) /\ ReadySub(t) /\ sub'[t] = sub[t] /\ server'[t] = server[t]
        BY <1>0, <2>2 DEF Known, Busy, Frame, ReadySub
      <3>2. Exposed(t, sub[t].status) /\ t \notin queue' /\ sub[t].phase = "present"
        BY <3>1 DEF ExposedInv, ExposedKnown, Known, ReadySub
      <3>3. sub[t].status.rule \in Rule
        <4>1. sub[t].status.rule \in Rule \cup {None} /\ sub[t].status.rule # None
          BY <3>2 DEF TypeInv, TypeOK, Subscription, SubStatus, Exposed, Routed
        <4> QED
          BY <4>1
      <3>4. rule'[sub[t].status.rule] = rule[sub[t].status.rule]
        <4>1. /\ t \in rule[sub[t].status.rule].owners /\ Exists(t)
              /\ rule[sub[t].status.rule].state = "present"
          BY <3>2 DEF Exposed, Routed, Exists
        <4> QED
          BY <3>2, <3>3, <4>1, RuleStays
      <3> QED
        BY <3>1, <3>2, <3>4 DEF Exposed, Routed, Wanted
    <2> QED
      BY <2>1, <2>2
  <1>3. \A k \in Manager : Sending(k)' /\ Reusing(k)' /\ Working(k)'
    <2>1. \A k \in Manager : k # m => worker'[k].pc = "idle"
      BY <1>0 DEF BaseInv, OnlyLive
    <2> QED
      BY <2>1 DEF Sending, Reusing, Working, Patching
  <1> QED
    BY <1>1, <1>2, <1>3 DEF ExposedInv

-----------------------------------------------------------------------------
(***************************************************************************)
(* Steps in the middle of a Reconcile.                                     *)
(***************************************************************************)

\* What all of them leave alone.
Calm(m) ==
  /\ worker[m].pc # "idle" /\ UNCHANGED <<sub, cred, live>> /\ queue \subseteq queue'
  /\ \A t \in Sub : t # worker[m].s => server'[t] = server[t]
  /\ Told /\ Signed(m, worker[m].s)

\* What a step keeps.
Good == BaseInv' /\ (AuthInv => AuthInv') /\ (ExposedInv => ExposedInv')

\* Such a step is one of the worker that runs.
LEMMA CalmFrame ==
  ASSUME TypeInv, BaseInv, NEW m \in Manager, Calm(m), Keeps(m)
  PROVE  Frame(m, worker[m].s) /\ worker[m].s \in Sub /\ live = m
  <1>1. live = m /\ worker[m].s \in Sub
    BY DEF BaseInv, OnlyLive, Calm, TypeInv, WorkersEquipped, Equipped
  <1> QED
    BY <1>1 DEF Frame, Calm, Keeps

\* A status with the former hashes is not ahead of EventMesh.
LEMMA StillBehind ==
  ASSUME TypeInv, TypeInv', BaseInv, AuthInv, NEW m \in Manager, Calm(m), Keeps(m),
         worker'[m].status.auth = worker[m].status.auth
  PROVE  Behind(worker[m].status, worker[m].s)'
  <1>1. live = m /\ live' = m /\ live # 0 /\ worker[m].s \in Sub
    BY CalmFrame DEF Calm, Manager
  <1>2. Top = worker[m].auth /\ Top' = worker[m].auth
    BY <1>1 DEF Top, Keeps
  <1>3. Behind(worker[m].status, worker[m].s)
    BY DEF AuthInv, Signing, Calm
  <1> QED
    BY <1>1, <1>2, <1>3, AuthTypes DEF Behind, Signed, Calm, Keeps

\* A Reconcile that goes wrong.
LEMMA FailingStep ==
  ASSUME TypeInv, TypeInv', BaseInv, NEW m \in Manager, Calm(m), Failing(m)
  PROVE  Good
  <1>0. Keeps(m) /\ worker'[m].pc = "update"
    BY DEF Failing
  <1>1. Frame(m, worker[m].s) /\ worker[m].s \in Sub /\ live = m
    BY <1>0, CalmFrame
  <1>2. BaseInv'
    BY <1>0, <1>1, BaseStep
  <1>3. ASSUME AuthInv PROVE AuthInv'
    <2>1. Behind(worker[m].status, worker[m].s)'
      BY <1>0, <1>3, StillBehind DEF Failing, HashesStay
    <2>2. Signing(m)'
      BY <1>0, <2>1 DEF Signing, Failing
    <2> QED
      BY <1>0, <1>1, <1>2, <1>3, <2>2, AuthStep DEF Calm
  <1>4. ASSUME ExposedInv PROVE ExposedInv'
    <2>1. worker'[m].status.local = worker'[m].status.remote
      BY <1>4 DEF ExposedInv, SameHashes, Failing, HashesStay
    <2>2. Sending(m)' /\ Reusing(m)' /\ Working(m)'
      BY <1>0 DEF Sending, Reusing, Working, Failing, Patching, Exposing, Backend
    <2> QED
      BY <1>0, <1>1, <1>2, <1>4, <2>1, <2>2, ExposedStep DEF Calm
  <1> QED
    BY <1>2, <1>3, <1>4 DEF Good

\* As long as s is not queued, what the worker knows of its APIRule stays true.
LEMMA StillRouted ==
  ASSUME TypeInv, BaseInv, ExposedInv, NEW m \in Manager, Calm(m), Keeps(m),
         worker[m].pc \in Backend, worker[m].s \notin queue', sub[worker[m].s].phase = "present"
  PROVE  LET s == worker[m].s
             r == worker[m].content.host
         IN  /\ worker[m].obj.spec = sub[s].spec /\ r \in Rule /\ rule'[r] = rule[r]
             /\ Routed(s, r) /\ worker[m].content = Wanted(s, r) /\ worker[m].status.rule = r
             /\ "APIRule" \in worker[m].status.conditions => rule[r].ready /\ worker[m].status.sink = r
  <1> DEFINE s == worker[m].s
             r == worker[m].content.host
  <1>1. worker[m].content \in Content
    BY DEF TypeInv, WorkersEquipped, Equipped
  <1>2. r \in Rule
    BY <1>1 DEF Content
  <1>3. s \notin queue /\ worker[m].pc # "idle" /\ s \in Sub
    BY CalmFrame DEF Calm
  <1>4. /\ worker[m].obj.spec = sub[s].spec
        /\ Routed(s, r) /\ worker[m].content = Wanted(s, r) /\ worker[m].status.rule = r
        /\ "APIRule" \in worker[m].status.conditions => rule[r].ready /\ worker[m].status.sink = r
    BY <1>3 DEF ExposedInv, Working
  <1>5. s \in rule[r].owners /\ rule[r].state = "present" /\ Exists(s) /\ Told
    BY <1>4 DEF Routed, Exists, Calm
  <1>6. rule'[r] = rule[r]
    BY <1>2, <1>5, RuleStays
  <1> QED
    BY <1>2, <1>4, <1>6

\* SyncSubscription has succeeded.
LEMMA SucceedingStep ==
  ASSUME TypeInv, TypeInv', BaseInv, NEW m \in Manager, Calm(m), NEW got, Succeeding(m, got),
         worker[m].pc \in Backend,
         AuthInv /\ server'[worker[m].s] # None => worker[m].auth <= server'[worker[m].s].auth,
         ExposedInv =>
           /\ got.content = worker[m].content /\ server'[worker[m].s] # None
           /\ server'[worker[m].s].content = worker[m].content
  PROVE  Good
  <1> DEFINE s == worker[m].s
  <1>0. Keeps(m) /\ worker'[m].pc = "update" /\ worker'[m].s = s
    BY DEF Succeeding, Keeps
  <1>1. Frame(m, s) /\ s \in Sub /\ live = m
    BY <1>0, CalmFrame
  <1>2. BaseInv'
    BY <1>0, <1>1, BaseStep
  <1>3. ASSUME AuthInv PROVE AuthInv'
    <2>0. live' = m /\ live' # 0 /\ worker'[m].auth = worker[m].auth
      BY <1>1 DEF Frame, Manager
    <2>t. Top' = worker[m].auth
      BY <2>0 DEF Top
    <2>1. Behind(worker[m].status, worker[m].s)'
      BY <1>0, <1>3, <2>t, AuthTypes DEF Behind, Succeeding
    <2>2. Signing(m)'
      BY <1>0, <2>0, <2>1 DEF Signing, Succeeding
    <2> QED
      BY <1>0, <1>1, <1>2, <1>3, <2>2, AuthStep DEF Calm
  <1>4. ASSUME ExposedInv PROVE ExposedInv'
    <2>1. worker'[m].status.local = worker'[m].status.remote
      BY <1>4 DEF Succeeding
    <2>2. Sending(m)' /\ Reusing(m)'
      BY <1>0 DEF Sending, Reusing, Patching
    <2>3. Working(m)'
      <3> SUFFICES ASSUME s \notin queue', sub'[s].phase = "present",
                          worker'[m].result = "done", worker'[m].status.ready
                   PROVE  Exposed(worker[m].s, worker[m].status)'
        BY <1>0 DEF Working, Exposing, Backend
      <3>1. sub' = sub
        BY DEF Calm
      <3> DEFINE r == worker[m].content.host
      <3>2. /\ rule'[r] = rule[r] /\ Routed(s, r) /\ worker[m].content = Wanted(s, r)
            /\ worker[m].status.rule = r
            /\ "APIRule" \in worker[m].status.conditions => rule[r].ready /\ worker[m].status.sink = r
        BY <1>0, <1>4, <3>1, StillRouted
      <3>3. rule[r].ready /\ worker[m].status.sink = r
        BY <3>2 DEF Succeeding
      <3>4. worker'[m].status.rule = r /\ worker'[m].status.sink = r
        BY <3>2, <3>3 DEF Succeeding
      <3>5. server'[s] # None /\ server'[s].content = worker[m].content
        BY <1>4
      <3> HIDE DEF r, s
      <3> QED
        BY <1>0, <3>1, <3>2, <3>3, <3>4, <3>5 DEF Exposed, Routed, Wanted, s
    <2> QED
      BY <1>0, <1>1, <1>2, <1>4, <2>1, <2>2, <2>3, ExposedStep DEF Calm
  <1> QED
    BY <1>2, <1>3, <1>4 DEF Good

\* The backend goes on to its next request.
LEMMA RequestStep ==
  ASSUME TypeInv, TypeInv', BaseInv, NEW m \in Manager, Calm(m), Keeps(m),
         worker[m].pc \in Backend, worker'[m].pc \in Backend \ {"get"},
         worker'[m].status = worker[m].status, worker'[m].content = worker[m].content,
         worker'[m].pc = "create" => server'[worker[m].s] = None,
         AuthInv /\ worker'[m].pc \in {"resume", "getCreated"} /\ server'[worker[m].s] # None =>
           server'[worker[m].s].auth = worker[m].auth,
         ExposedInv => Sending(m)'
  PROVE  Good
  <1> DEFINE s == worker[m].s
  <1>0. /\ worker'[m].pc \notin {"validation", "idle", "update"}
        /\ worker'[m].pc \notin {"list", "previous", "apply"} /\ worker'[m].s = s
    BY DEF Backend, Keeps
  <1>1. Frame(m, s) /\ s \in Sub /\ live = m
    BY CalmFrame
  <1>2. BaseInv'
    BY <1>0, <1>1, BaseStep
  <1>3. ASSUME AuthInv PROVE AuthInv'
    <2>1. Behind(worker[m].status, worker[m].s)'
      BY <1>3, StillBehind
    <2>2. Signing(m)'
      BY <1>0, <1>3, <2>1 DEF Signing, Keeps
    <2> QED
      BY <1>0, <1>1, <1>2, <1>3, <2>2, AuthStep DEF Calm
  <1>4. ASSUME ExposedInv PROVE ExposedInv'
    <2>1. worker'[m].status.local = worker'[m].status.remote
      BY <1>4 DEF ExposedInv, SameHashes
    <2>2. Reusing(m)'
      BY <1>0 DEF Reusing
    <2>3. Working(m)'
      <3> DEFINE r == worker[m].content.host
      <3> SUFFICES ASSUME s \notin queue', sub'[s].phase = "present"
                   PROVE  /\ worker'[m].obj.spec = sub'[s].spec
                          /\ Routed(s, r)' /\ worker'[m].content = Wanted(s, r)'
                          /\ worker'[m].status.rule = r'
                          /\ "APIRule" \in worker'[m].status.conditions =>
                               rule'[r'].ready /\ worker'[m].status.sink = r'
        BY <1>0 DEF Working
      <3>1. sub' = sub
        BY DEF Calm
      <3>2. /\ worker[m].obj.spec = sub[s].spec /\ rule'[r] = rule[r] /\ Routed(s, r)
            /\ worker[m].content = Wanted(s, r) /\ worker[m].status.rule = r
            /\ "APIRule" \in worker[m].status.conditions => rule[r].ready /\ worker[m].status.sink = r
        BY <1>4, <3>1, StillRouted
      <3> QED
        BY <1>0, <3>1, <3>2 DEF Routed, Wanted, Keeps
    <2> QED
      BY <1>0, <1>1, <1>2, <1>4, <2>1, <2>2, <2>3, ExposedStep DEF Calm
  <1> QED
    BY <1>2, <1>3, <1>4 DEF Good

-----------------------------------------------------------------------------
(***************************************************************************)
(* The backend.                                                            *)
(***************************************************************************)

\* What EventMesh has after a request of the worker of m.
Answers(m, effect) ==
  \/ effect = None \/ effect.auth = worker[m].auth
  \/ server[worker[m].s] # None /\ effect.auth = server[worker[m].s].auth

\* A request of the backend changes at most the subscription on EventMesh.
LEMMA RequestCalm ==
  ASSUME TypeInv, NEW m \in Manager, worker[m].pc # "idle", NEW effect, Answers(m, effect),
         UNCHANGED <<sub, rule, cred, live, queue>>,
         server' = server \/ server' = [server EXCEPT ![worker[m].s] = effect]
  PROVE  Calm(m)
  <1>1. worker[m].s \in Sub /\ server \in [Sub -> ServerSub \cup {None}]
    BY DEF TypeInv, TypeOK, WorkersEquipped, Equipped
  <1>2. Signed(m, worker[m].s) /\ \A t \in Sub : t # worker[m].s => server'[t] = server[t]
    BY <1>1 DEF Signed, Answers
  <1>3. Told
    BY DEF Told
  <1> QED
    BY <1>2, <1>3 DEF Calm

\* A request fails, with or without its effect.
LEMMA CallFailsStep ==
  ASSUME TypeInv, TypeInv', BaseInv, NEW m \in Manager, worker[m].pc # "idle",
         NEW effect, Answers(m, effect), UNCHANGED <<sub, rule, cred, live, queue>>,
         CallFails(m, worker[m].s, effect)
  PROVE  Good
  <1>1. Calm(m)
    BY RequestCalm DEF CallFails
  <1>2. Failing(m)
    BY BackendErrorFails DEF CallFails
  <1> QED
    BY <1>1, <1>2, FailingStep

\* deleteSubscription of what was modified.
LEMMA DeleteModifiedStep ==
  ASSUME TypeInv, TypeInv', BaseInv, NEW m \in Manager, DeleteModified(m)
  PROVE  Good
  <1>0. /\ worker[m].pc = "recreate" /\ worker[m].pc # "idle" /\ worker[m].pc \in Backend
        /\ UNCHANGED <<sub, rule, cred, live, queue>> /\ Answers(m, None)
        /\ worker[m].s \in Sub /\ server \in [Sub -> ServerSub \cup {None}]
    BY DEF DeleteModified, Answers, Backend, TypeInv, TypeOK, WorkersEquipped, Equipped
  <1>1. CASE CallFails(m, worker[m].s, None)
    BY <1>0, <1>1, CallFailsStep
  <1>2. CASE server' = [server EXCEPT ![worker[m].s] = None] /\ Goto(m, "create")
    <2>1. /\ Keeps(m) /\ worker'[m].pc = "create" /\ worker'[m].status = worker[m].status
          /\ worker'[m].content = worker[m].content
      BY <1>2, GotoKeeps DEF Step
    <2>2. Calm(m) /\ server'[worker[m].s] = None
      BY <1>0, <1>2, RequestCalm
    <2>3. Sending(m)'
      BY <2>1 DEF Sending, Patching
    <2> QED
      BY <1>0, <2>1, <2>2, <2>3, RequestStep DEF Backend
  <1> QED
    BY <1>1, <1>2 DEF DeleteModified

\* What the running manager has signed and the hash that says so: nothing older
\* is on EventMesh.
LEMMA NotOlder ==
  ASSUME TypeInv, BaseInv, AuthInv, NEW m \in Manager, worker[m].pc # "idle",
         server[worker[m].s] # None, ~WebhookAuthChanged(m)
  PROVE  worker[m].auth <= server[worker[m].s].auth
  <1>1. Behind(worker[m].status, worker[m].s)
    BY DEF AuthInv, Signing
  <1>2. worker[m].status.auth = worker[m].auth /\ worker[m].auth \in Auth
    BY AuthTypes DEF WebhookAuthChanged
  <1> QED
    BY <1>1, <1>2, AuthTypes DEF Behind

\* getSubscriptionIgnoreNotFound and what follows from it.
LEMMA GetSubscriptionStep ==
  ASSUME TypeInv, TypeInv', BaseInv, NEW m \in Manager, GetSubscription(m)
  PROVE  Good
  <1> DEFINE s == worker[m].s
             got == server[s]
  <1>0. /\ worker[m].pc = "get" /\ worker[m].pc # "idle" /\ worker[m].pc \in Backend
        /\ UNCHANGED <<sub, rule, cred, live, queue, server>> /\ Answers(m, None)
        /\ s \in Sub /\ got \in ServerSub \cup {None}
    BY DEF GetSubscription, Answers, Backend, TypeInv, TypeOK, WorkersEquipped, Equipped
  <1>c. Calm(m)
    BY <1>0, RequestCalm
  <1>s. ExposedInv => worker[m].status.local = worker[m].content
    BY <1>0 DEF ExposedInv, Sending
  <1>h. ExposedInv => worker[m].status.local = worker[m].status.remote
    BY DEF ExposedInv, SameHashes
  <1>1. CASE BackendError(m)
    BY <1>c, <1>1, BackendErrorFails, FailingStep
  <1>2. CASE \/ got = None /\ Goto(m, "create")
             \/ got # None /\ Goto(m, "recreate")
    <2>1. PICK step \in {"create", "recreate"} : Goto(m, step) /\ (step = "create" => got = None)
      BY <1>2
    <2>2. /\ Keeps(m) /\ worker'[m].pc = step /\ worker'[m].status = worker[m].status
          /\ worker'[m].content = worker[m].content
      BY <2>1, GotoKeeps DEF Step
    <2>3. Sending(m)'
      BY <2>2 DEF Sending, Patching
    <2> QED
      BY <1>0, <1>c, <2>1, <2>2, <2>3, RequestStep DEF Backend
  <1>3. CASE /\ got # None /\ ~EventMeshSubModified(worker[m].status, got)
             /\ ~WebhookAuthChanged(m) /\ Synced(m, got)
    <2>1. got \in ServerSub
      BY <1>0, <1>3
    <2>2. Succeeding(m, got)
      BY <1>0, <1>3, <2>1, SyncedSucceeds
    <2>3. ExposedInv => got.content = worker[m].content
      BY <1>3, <1>s, <1>h DEF EventMeshSubModified
    <2>4. AuthInv => worker[m].auth <= got.auth
      BY <1>0, <1>3, NotOlder
    <2> QED
      BY <1>0, <1>c, <1>3, <2>2, <2>3, <2>4, SucceedingStep
  <1>4. CASE /\ got # None /\ ~EventMeshSubModified(worker[m].status, got)
             /\ worker' = [worker EXCEPT ![m].pc = "pause", ![m].got = got]
    <2>1. worker \in [Manager -> Worker] /\ worker[m] \in Worker
      BY DEF TypeInv, TypeOK
    <2>2. /\ Keeps(m) /\ worker'[m].pc = "pause" /\ worker'[m].status = worker[m].status
          /\ worker'[m].content = worker[m].content /\ worker'[m].got = got
      BY <1>4, <2>1 DEF Keeps, Worker
    <2>3. ExposedInv => Sending(m)'
      BY <1>0, <1>4, <1>s, <1>h, <2>2 DEF Sending, Patching, EventMeshSubModified, Keeps
    <2> QED
      BY <1>0, <1>c, <2>2, <2>3, RequestStep DEF Backend
  <1> QED
    BY <1>1, <1>2, <1>3, <1>4 DEF GetSubscription

\* A request of handleWebhookAuthChange.
LEMMA WebhookAuthRequestStep ==
  ASSUME TypeInv, TypeInv', BaseInv, NEW m \in Manager, NEW step \in Patching,
         NEW effect, NEW next \in {"update", "updateAuth", "resume"},
         WebhookAuthRequest(m, step, effect, next),
         server[worker[m].s] # None =>
           Answers(m, effect) /\ effect # None /\ effect.content = server[worker[m].s].content,
         next = "resume" /\ server[worker[m].s] # None => effect.auth = worker[m].auth,
         next = "update" => step = "resume",
         step = "resume" /\ server[worker[m].s] # None => effect.auth = server[worker[m].s].auth
  PROVE  Good
  <1> DEFINE s == worker[m].s
             got == worker[m].got
  <1>0. /\ worker[m].pc = step /\ worker[m].pc # "idle" /\ worker[m].pc \in Backend
        /\ UNCHANGED <<sub, rule, cred, live, queue>> /\ Answers(m, None)
        /\ s \in Sub /\ server \in [Sub -> ServerSub \cup {None}] /\ got \in ServerSub
    BY DEF WebhookAuthRequest, Answers, Backend, Patching, TypeInv, TypeOK, WorkersEquipped, Equipped
  <1>s. ExposedInv => server[s] # None /\ server[s].content = worker[m].content
                      /\ got.content = worker[m].content
    BY <1>0 DEF ExposedInv, Sending
  <1>1. CASE server[s] = None /\ Synced(m, got) /\ UNCHANGED server
    <2>1. Calm(m)
      BY <1>0, <1>1, RequestCalm
    <2>2. Succeeding(m, got)
      BY <1>0, <1>1, SyncedSucceeds
    <2> QED
      BY <1>0, <1>1, <1>s, <2>1, <2>2, SucceedingStep
  <1>2. CASE server[s] # None /\ CallFails(m, s, effect)
    BY <1>0, <1>2, CallFailsStep
  <1>3. CASE /\ server[s] # None /\ server' = [server EXCEPT ![s] = effect]
             /\ next = "update" /\ Synced(m, got)
    <2>1. Calm(m) /\ server'[s] = effect /\ effect.content = server[s].content
      BY <1>0, <1>3, RequestCalm
    <2>2. Succeeding(m, got)
      BY <1>0, <1>3, SyncedSucceeds
    <2>3. AuthInv => worker[m].auth <= effect.auth
      <3>1. AuthInv => server[s].auth = worker[m].auth
        BY <1>0, <1>3 DEF AuthInv, Signing
      <3> QED
        BY <1>3, <3>1, AuthTypes
    <2> QED
      BY <1>0, <1>3, <1>s, <2>1, <2>2, <2>3, SucceedingStep
  <1>4. CASE /\ server[s] # None /\ server' = [server EXCEPT ![s] = effect]
             /\ next # "update" /\ Goto(m, next)
    <2>1. Calm(m) /\ server'[s] = effect /\ effect.content = server[s].content
      BY <1>0, <1>4, RequestCalm
    <2>2. next \in Step /\ next \in Backend \ {"get"} /\ next \notin {"create", "getCreated"}
      BY <1>4 DEF Step, Backend
    <2>3. /\ Keeps(m) /\ worker'[m].pc = next /\ worker'[m].status = worker[m].status
          /\ worker'[m].content = worker[m].content /\ worker'[m].got = got
      BY <1>4, <2>2, GotoKeeps
    <2>4. ExposedInv => Sending(m)'
      BY <1>0, <1>4, <1>s, <2>1, <2>2, <2>3 DEF Sending, Patching, Backend, Keeps
    <2>5. next = "resume" => server'[s].auth = worker[m].auth
      BY <1>4, <2>1
    <2> QED
      BY <1>0, <2>1, <2>2, <2>3, <2>4, <2>5, RequestStep
  <1> QED
    BY <1>1, <1>2, <1>3, <1>4 DEF WebhookAuthRequest

\* handleWebhookAuthChange: pause, the new credentials, resume.
LEMMA WebhookAuthStep ==
  ASSUME TypeInv, TypeInv', BaseInv, NEW m \in Manager,
         Pause(m) \/ UpdateAuth(m) \/ Resume(m)
  PROVE  Good
  <1> DEFINE s == worker[m].s
             x == server[s]
  <1>0. worker[m].pc \in Patching
    BY DEF Pause, UpdateAuth, Resume, WebhookAuthRequest, Patching
  <1>1. s \in Sub /\ (x # None => x \in ServerSub) /\ worker[m].auth \in Auth
    BY <1>0 DEF TypeInv, TypeOK, WorkersEquipped, Equipped, Patching, Worker
  <1>2. CASE Pause(m)
    <2> DEFINE e == [x EXCEPT !.state = "paused"]
    <2>1. x # None => e \in ServerSub /\ e.auth = x.auth /\ e.content = x.content
      BY <1>1 DEF ServerSub, ServerState
    <2>2. WebhookAuthRequest(m, "pause", e, "updateAuth")
      BY <1>2 DEF Pause
    <2> HIDE DEF e
    <2> QED
      BY <2>1, <2>2, WebhookAuthRequestStep, EMNoneAssumption DEF Answers, Patching
  <1>3. CASE UpdateAuth(m)
    <2> DEFINE e == [x EXCEPT !.auth = worker[m].auth]
    <2>1. x # None => e \in ServerSub /\ e.auth = worker[m].auth /\ e.content = x.content
      BY <1>1 DEF ServerSub
    <2>2. WebhookAuthRequest(m, "updateAuth", e, "resume")
      BY <1>3 DEF UpdateAuth
    <2> HIDE DEF e
    <2> QED
      BY <2>1, <2>2, WebhookAuthRequestStep, EMNoneAssumption DEF Answers, Patching
  <1>4. CASE Resume(m)
    <2> DEFINE e == [x EXCEPT !.state = "pending"]
    <2>1. x # None => e \in ServerSub /\ e.auth = x.auth /\ e.content = x.content
      BY <1>1 DEF ServerSub, ServerState
    <2>2. WebhookAuthRequest(m, "resume", e, "update")
      BY <1>4 DEF Resume
    <2> HIDE DEF e
    <2> QED
      BY <2>1, <2>2, WebhookAuthRequestStep, EMNoneAssumption DEF Answers, Patching
  <1> QED
    BY <1>2, <1>3, <1>4

\* createSubscription: nothing was there, so that no conflict counts as success.
LEMMA CreateSubscriptionStep ==
  ASSUME TypeInv, TypeInv', BaseInv, NEW m \in Manager, CreateSubscription(m)
  PROVE  Good
  <1> DEFINE s == worker[m].s
             new == [content |-> worker[m].content, auth |-> worker[m].auth,
                     state |-> "pending", failing |-> FALSE]
  <1>0. /\ worker[m].pc = "create" /\ worker[m].pc # "idle" /\ worker[m].pc \in Backend
        /\ UNCHANGED <<sub, rule, cred, live, queue>>
        /\ s \in Sub /\ server \in [Sub -> ServerSub \cup {None}]
        /\ worker[m].auth \in Auth /\ worker[m].content \in Content /\ server[s] = None
    BY DEF CreateSubscription, Backend, TypeInv, TypeOK, WorkersEquipped, Equipped, Worker,
           BaseInv, Creating
  <1>n. new \in ServerSub
    BY <1>0 DEF ServerSub, ServerState
  <1>1. new.auth = worker[m].auth /\ new.content = worker[m].content /\ new # None
    BY <1>n, EMNoneAssumption
  <1>d. \/ server' = [server EXCEPT ![s] = new] /\ Goto(m, "getCreated")
        \/ CallFails(m, s, new)
    BY <1>0 DEF CreateSubscription
  <1> HIDE DEF new
  <1>2. Answers(m, new)
    BY <1>1 DEF Answers
  <1>3. CASE CallFails(m, s, new)
    BY <1>0, <1>2, <1>3, CallFailsStep
  <1>4. CASE server' = [server EXCEPT ![s] = new] /\ Goto(m, "getCreated")
    <2>1. Calm(m) /\ server'[s] = new
      BY <1>0, <1>2, <1>4, RequestCalm
    <2>2. /\ Keeps(m) /\ worker'[m].pc = "getCreated" /\ worker'[m].status = worker[m].status
          /\ worker'[m].content = worker[m].content
      BY <1>4, GotoKeeps DEF Step
    <2>3. Sending(m)'
      BY <1>1, <2>1, <2>2 DEF Sending, Patching, Keeps
    <2> QED
      BY <1>0, <1>1, <2>1, <2>2, <2>3, RequestStep DEF Backend
  <1> QED
    BY <1>d, <1>3, <1>4

\* The subscription that was created is read.
LEMMA GetCreatedStep ==
  ASSUME TypeInv, TypeInv', BaseInv, NEW m \in Manager, GetCreated(m)
  PROVE  Good
  <1> DEFINE s == worker[m].s
             got == server[s]
  <1>0. /\ worker[m].pc = "getCreated" /\ worker[m].pc # "idle" /\ worker[m].pc \in Backend
        /\ UNCHANGED <<sub, rule, cred, live, queue, server>> /\ Answers(m, None)
        /\ s \in Sub /\ got \in ServerSub \cup {None} /\ worker[m].auth \in Auth
    BY DEF GetCreated, Answers, Backend, TypeInv, TypeOK, WorkersEquipped, Equipped, Worker
  <1>c. Calm(m)
    BY <1>0, RequestCalm
  <1>1. CASE BackendError(m)
    BY <1>c, <1>1, BackendErrorFails, FailingStep
  <1>2. CASE got # None /\ Synced(m, got)
    <2>1. Succeeding(m, got)
      BY <1>0, <1>2, SyncedSucceeds
    <2>2. ExposedInv => got.content = worker[m].content
      BY <1>0 DEF ExposedInv, Sending
    <2>3. AuthInv => got.auth = worker[m].auth
      BY <1>0, <1>2 DEF AuthInv, Signing
    <2>4. AuthInv => worker[m].auth <= got.auth
      BY <1>0, <2>3, AuthTypes
    <2> QED
      BY <1>0, <1>c, <1>2, <2>1, <2>2, <2>4, SucceedingStep
  <1> QED
    BY <1>1, <1>2 DEF GetCreated

-----------------------------------------------------------------------------
(***************************************************************************)
(* The APIRule.                                                            *)
(***************************************************************************)

\* A step of syncAPIRule.
LEMMA RuleStep ==
  ASSUME TypeInv, TypeInv', BaseInv, NEW m \in Manager, Calm(m), Keeps(m), HashesStay(m),
         worker'[m].pc \in {"previous", "apply", "recreate", "get"},
         ExposedInv => Sending(m)' /\ Reusing(m)' /\ Working(m)'
  PROVE  Good
  <1>0. worker'[m].pc \notin {"validation", "create", "idle", "update", "resume", "getCreated"}
    OBVIOUS
  <1>1. Frame(m, worker[m].s) /\ worker[m].s \in Sub /\ live = m
    BY CalmFrame
  <1>2. BaseInv'
    BY <1>0, <1>1, BaseStep
  <1>3. ASSUME AuthInv PROVE AuthInv'
    <2>1. Behind(worker[m].status, worker[m].s)'
      BY <1>3, StillBehind DEF HashesStay
    <2>2. Signing(m)'
      BY <1>0, <2>1 DEF Signing
    <2> QED
      BY <1>0, <1>1, <1>2, <1>3, <2>2, AuthStep DEF Calm
  <1>4. ASSUME ExposedInv PROVE ExposedInv'
    <2>1. worker'[m].status.local = worker'[m].status.remote
      BY <1>4 DEF ExposedInv, SameHashes, HashesStay
    <2> QED
      BY <1>0, <1>1, <1>2, <1>4, <2>1, ExposedStep DEF Calm
  <1> QED
    BY <1>2, <1>3, <1>4 DEF Good

\* A step that does not write to EventMesh and queues the owners of what it changes.
LEMMA RuleCalm ==
  ASSUME NEW m \in Manager, worker[m].pc # "idle", UNCHANGED <<sub, cred, live, server>>,
         queue \subseteq queue', Told
  PROVE  Calm(m)
  BY DEF Calm, Signed

\* The watch of the APIRules queues the owners.
LEMMA EnqueueTells ==
  ASSUME TypeInv, live # 0, NEW r \in Rule, NEW x, rule' = [rule EXCEPT ![r] = x],
         NEW subs, rule[r].owners \subseteq subs, Enqueue(subs)
  PROVE  Told /\ queue \subseteq queue' /\ \A t \in subs : t \in Sub /\ Exists(t) => t \in queue'
  <1>1. rule \in [Rule -> APIRule] /\ rule[r].owners \subseteq Sub
    BY DEF TypeInv, TypeOK, APIRule
  <1>2. queue' = queue \cup {s \in subs : Exists(s)}
    BY DEF Enqueue
  <1>3. Told
    BY <1>1, <1>2 DEF Told
  <1> QED
    BY <1>2, <1>3

\* The look at the APIRules and Subscriptions.
LEMMA ListAPIRulesStep ==
  ASSUME TypeInv, TypeInv', BaseInv, NEW m \in Manager, ListAPIRules(m)
  PROVE  Good
  <1> DEFINE s == worker[m].s
             svc == worker[m].obj.spec.svc
             rules == RulesForASvc(svc)
  <1>0. /\ worker[m].pc = "list" /\ worker[m].pc # "idle" /\ s \in Sub
        /\ UNCHANGED <<sub, rule, server, cred, live, queue>>
        /\ worker \in [Manager -> Worker] /\ worker[m] \in Worker
    BY DEF ListAPIRules, TypeInv, TypeOK, WorkersEquipped, Equipped
  <1>c. Calm(m)
    BY <1>0, RuleCalm DEF Told
  <1>1. CASE APIRuleError(m)
    BY <1>c, <1>1, APIRuleErrorFails, FailingStep
  <1>2. ASSUME NEW r \in IF rules = {} THEN {None} ELSE rules,
               worker' = [worker EXCEPT ![m].pc = "previous", ![m].reuse = r,
                 ![m].seen = IF r = None THEN UnusedRule ELSE rule[r],
                 ![m].owners = SubscriptionsForASvc(svc)]
        PROVE  Good
    <2> DEFINE seen == IF r = None THEN UnusedRule ELSE rule[r]
               owners == SubscriptionsForASvc(svc)
               new == [worker[m] EXCEPT !.pc = "previous", !.reuse = r, !.seen = seen, !.owners = owners]
    <2>1. worker' = [worker EXCEPT ![m] = new]
      BY <1>2
    <2> HIDE DEF seen, owners
    <2>2. /\ new.pc = "previous" /\ new.reuse = r /\ new.seen = seen /\ new.owners = owners
          /\ new.s = s /\ new.auth = worker[m].auth /\ new.obj = worker[m].obj
          /\ new.status = worker[m].status
      BY <1>0 DEF Worker
    <2> HIDE DEF new
    <2>3. Keeps(m) /\ HashesStay(m) /\ worker'[m] = new
      BY <1>0, <2>1, <2>2 DEF Keeps, HashesStay
    <2>4. r # None => seen = rule[r] /\ seen.state = "present" /\ seen.svc = svc
      BY <1>2 DEF seen, RulesForASvc
    <2>5. Sending(m)' /\ Reusing(m)'
      BY <2>2, <2>3, <2>4 DEF Sending, Reusing, Patching
    <2>6. ASSUME ExposedInv PROVE Working(m)'
      <3>1. ASSUME s \notin queue, sub[s].phase = "present"
            PROVE  worker[m].obj.spec = sub[s].spec /\ s \in owners
        <4>1. worker[m].obj.spec = sub[s].spec
          BY <1>0, <2>6, <3>1 DEF ExposedInv, Working, Exposing
        <4> QED
          BY <1>0, <3>1, <4>1 DEF owners, SubscriptionsForASvc
      <3> QED
        BY <1>0, <2>2, <2>3, <2>4, <3>1 DEF Working, Exposing, Backend
    <2> QED
      BY <1>c, <2>2, <2>3, <2>5, <2>6, RuleStep
  <1> QED
    BY <1>1, <1>2 DEF ListAPIRules

\* The step from handlePreviousAPIRule to the APIRule itself.
LEMMA PreviousGoto ==
  ASSUME TypeInv, TypeInv', BaseInv, NEW m \in Manager, Calm(m),
         worker[m].pc = "previous", Goto(m, "apply")
  PROVE  Good
  <1> DEFINE s == worker[m].s
             r == worker[m].reuse
  <1>1. /\ Keeps(m) /\ worker'[m].pc = "apply" /\ worker'[m].status = worker[m].status
        /\ worker'[m].reuse = r /\ worker'[m].seen = worker[m].seen
        /\ worker'[m].owners = worker[m].owners
    BY GotoKeeps DEF Step
  <1>2. HashesStay(m)
    BY <1>1 DEF HashesStay
  <1>3. ASSUME ExposedInv PROVE Sending(m)' /\ Reusing(m)' /\ Working(m)'
    <2>1. Sending(m)' /\ Reusing(m)'
      BY <1>1, <1>3 DEF Sending, Reusing, Patching, Keeps, ExposedInv
    <2>2. ASSUME s \notin queue', sub'[s].phase = "present"
          PROVE  /\ worker[m].obj.spec = sub'[s].spec /\ s \in worker[m].owners
                 /\ r # None /\ s \in worker[m].seen.owners => rule'[r] = worker[m].seen
      <3>1. sub' = sub /\ s \notin queue
        BY <2>2 DEF Calm
      <3>2. /\ worker[m].obj.spec = sub[s].spec /\ s \in worker[m].owners
            /\ r # None /\ s \in worker[m].seen.owners => rule[r] = worker[m].seen
            /\ r # None => worker[m].seen.state = "present"
        BY <1>3, <2>2, <3>1 DEF ExposedInv, Working, Reusing, Exposing
      <3>3. r \in Rule \cup {None} /\ Exists(s) /\ Told
        BY <2>2, <3>1 DEF TypeInv, TypeOK, Worker, Exists, Calm
      <3>4. r # None /\ s \in worker[m].seen.owners => rule'[r] = rule[r]
        BY <2>2, <3>2, <3>3, RuleStays
      <3> QED
        BY <3>1, <3>2, <3>4
    <2>3. Working(m)'
      BY <1>1, <2>2 DEF Working, Exposing, Backend, Keeps
    <2> QED
      BY <2>1, <2>3
  <1> QED
    BY <1>1, <1>2, <1>3, RuleStep

\* handlePreviousAPIRule: whoever used the rule is told.
LEMMA HandlePreviousAPIRuleStep ==
  ASSUME TypeInv, TypeInv', BaseInv, NEW m \in Manager, HandlePreviousAPIRule(m)
  PROVE  Good
  <1> DEFINE r == worker[m].status.rule
             owners == rule[r].owners
             users == UsersOf(r, worker[m].s)
  <1>0. /\ worker[m].pc = "previous" /\ worker[m].pc # "idle"
        /\ UNCHANGED <<sub, server, cred, live>>
    BY DEF HandlePreviousAPIRule
  <1>l. live = m /\ live # 0
    BY <1>0 DEF BaseInv, OnlyLive, Manager
  <1>r. r \in Rule \cup {None}
    BY DEF TypeInv, TypeOK, Worker, SubStatus
  <1>1. CASE UNCHANGED <<rule, queue>> /\ (Goto(m, "apply") \/ APIRuleError(m))
    <2>1. Calm(m)
      BY <1>0, <1>1, RuleCalm DEF Told
    <2>2. CASE Goto(m, "apply")
      BY <1>0, <2>1, <2>2, PreviousGoto
    <2>3. CASE APIRuleError(m)
      BY <2>1, <2>3, APIRuleErrorFails, FailingStep
    <2> QED
      BY <1>1, <2>2, <2>3
  <1>2. CASE /\ r # None /\ Goto(m, "apply")
             /\ \/ rule' = [rule EXCEPT ![r] = DeletedRule] /\ Enqueue(owners)
                \/ /\ rule' = [rule EXCEPT ![r] = WithOwnersAndRules(r, users)]
                   /\ Enqueue(owners \cup users)
    <2>1. r \in Rule
      BY <1>r, <1>2
    <2>2. Told /\ queue \subseteq queue'
      BY <1>l, <1>2, <2>1, EnqueueTells
    <2>3. Calm(m)
      BY <1>0, <2>2, RuleCalm
    <2> QED
      BY <1>0, <1>2, <2>3, PreviousGoto
  <1> QED
    BY <1>1, <1>2 DEF HandlePreviousAPIRule, ReleaseAPIRule

\* The APIRule is in place. If s was not queued with it, it is as it should be.
LEMMA APIRuleSyncedStep ==
  ASSUME TypeInv, TypeInv', BaseInv, NEW m \in Manager, Calm(m), worker[m].pc = "apply",
         NEW r \in Rule, NEW ready \in BOOLEAN, APIRuleSynced(m, r, ready),
         ExposedInv /\ worker[m].s \notin queue' /\ sub[worker[m].s].phase = "present" =>
           /\ worker[m].s \in worker[m].owners /\ rule'[r].state = "present"
           /\ rule'[r].svc = worker[m].obj.spec.svc /\ rule'[r].ready = ready
           /\ worker[m].s \in rule'[r].owners \cap rule'[r].paths
  PROVE  Good
  <1> DEFINE s == worker[m].s
             w == worker'[m]
  <1>1. /\ Keeps(m) /\ HashesStay(m) /\ w.pc \in {"recreate", "get"}
        /\ w.pc = "get" => w.status.local = w.content
        /\ w.content = [host |-> r, path |-> s \in worker[m].owners, types |-> worker[m].obj.spec.types]
        /\ w.status.rule = r
        /\ "APIRule" \in w.status.conditions => ready /\ w.status.sink = r
    BY APIRuleSyncedKeeps
  <1>2. Sending(m)' /\ Reusing(m)'
    BY <1>1 DEF Sending, Reusing, Patching
  <1>3. ASSUME ExposedInv PROVE Working(m)'
    <2>0. w.s = s /\ w.obj = worker[m].obj /\ sub' = sub
      BY <1>1 DEF Keeps, Calm
    <2> SUFFICES ASSUME s \notin queue', sub[s].phase = "present"
                 PROVE  /\ w.obj.spec = sub[s].spec /\ Routed(worker[m].s, worker[m].content.host)'
                        /\ w.content = Wanted(worker[m].s, worker[m].content.host)'
                        /\ w.status.rule = w.content.host
                        /\ "APIRule" \in w.status.conditions =>
                             rule'[w.content.host].ready /\ w.status.sink = w.content.host
      BY <1>1, <2>0 DEF Working, Exposing, Backend
    <2>1. worker[m].obj.spec = sub[s].spec
      BY <1>3 DEF ExposedInv, Working, Exposing, Calm
    <2>2. r # None /\ w.content.host = r
      BY <1>1, EMNamesAssumption DEF Rule
    <2>3. /\ s \in worker[m].owners /\ rule'[r].state = "present"
          /\ rule'[r].svc = worker[m].obj.spec.svc /\ rule'[r].ready = ready
          /\ s \in rule'[r].owners \cap rule'[r].paths
      BY <1>3
    <2>4. w.content = [host |-> r, path |-> TRUE, types |-> sub[s].spec.types]
      BY <1>1, <2>1, <2>3
    <2> HIDE DEF s, w
    <2> QED
      BY <1>1, <2>0, <2>1, <2>2, <2>3, <2>4 DEF Routed, Wanted, s, w
  <1> QED
    BY <1>1, <1>2, <1>3, RuleStep

\* The worker still wants the Subscriptions exposed it saw, among them its own.
LEMMA OwnersWanted ==
  ASSUME TypeInv, BaseInv, ExposedInv, NEW m \in Manager, worker[m].pc = "apply",
         worker[m].s \notin queue, sub[worker[m].s].phase = "present"
  PROVE  /\ worker[m].s \in worker[m].owners
         /\ worker[m].reuse # None =>
              /\ worker[m].seen.state = "present" /\ worker[m].seen.svc = worker[m].obj.spec.svc
              /\ worker[m].s \in worker[m].seen.owners => rule[worker[m].reuse] = worker[m].seen
  BY DEF ExposedInv, Working, Reusing

\* A new APIRule: its owners are queued.
LEMMA CreateAPIRuleStep ==
  ASSUME TypeInv, TypeInv', BaseInv, NEW m \in Manager, CreateAPIRule(m)
  PROVE  Good
  <1> DEFINE s == worker[m].s
             owners == worker[m].owners
  <1>0. /\ worker[m].pc = "apply" /\ worker[m].pc # "idle" /\ s \in Sub
        /\ UNCHANGED <<sub, server, cred, live>>
        /\ owners \subseteq Sub /\ rule \in [Rule -> APIRule]
    BY DEF CreateAPIRule, TypeInv, TypeOK, WorkersEquipped, Equipped, Worker
  <1>l. live = m /\ live # 0
    BY <1>0 DEF BaseInv, OnlyLive, Manager
  <1>1. CASE APIRuleError(m) /\ UNCHANGED <<rule, queue>>
    <2>1. Calm(m)
      BY <1>0, <1>1, RuleCalm DEF Told
    <2> QED
      BY <1>1, <2>1, APIRuleErrorFails, FailingStep
  <1>2. ASSUME NEW r \in Rule, NEW x, rule' = [rule EXCEPT ![r] = x], rule[r].state = "unused",
               APIRuleSynced(m, r, FALSE), Enqueue(owners)
        PROVE  Good
    <2>1. queue' = queue \cup {t \in owners : Exists(t)}
      BY <1>2, <1>l DEF Enqueue
    <2>2. Told
      BY <1>0, <1>2 DEF Told
    <2>3. Calm(m)
      BY <1>0, <2>1, <2>2, RuleCalm
    <2>4. ~(ExposedInv /\ s \notin queue' /\ sub[s].phase = "present")
      BY <1>0, <2>1, OwnersWanted DEF Exists
    <2> QED
      BY <1>0, <1>2, <2>3, <2>4, APIRuleSyncedStep
  <1> QED
    BY <1>1, <1>2 DEF CreateAPIRule

\* An APIRule that is reused: it is as it should be, or its owners are queued.
LEMMA UpdateAPIRuleStep ==
  ASSUME TypeInv, TypeInv', BaseInv, NEW m \in Manager, UpdateAPIRule(m)
  PROVE  Good
  <1> DEFINE s == worker[m].s
             r == worker[m].reuse
             seen == worker[m].seen
             owners == worker[m].owners
  <1>0. /\ worker[m].pc = "apply" /\ worker[m].pc # "idle" /\ s \in Sub
        /\ UNCHANGED <<sub, server, cred, live>> /\ r # None
    BY DEF UpdateAPIRule, TypeInv, WorkersEquipped, Equipped
  <1>t. /\ owners \subseteq Sub /\ rule \in [Rule -> APIRule] /\ seen.ready \in BOOLEAN /\ r \in Rule
    BY <1>0 DEF TypeInv, TypeOK, Worker, APIRule
  <1>l. live = m /\ live # 0
    BY <1>0 DEF BaseInv, OnlyLive, Manager
  <1>1. CASE APIRuleError(m) /\ UNCHANGED <<rule, queue>>
    <2>1. Calm(m)
      BY <1>0, <1>1, RuleCalm DEF Told
    <2> QED
      BY <1>1, <2>1, APIRuleErrorFails, FailingStep
  <1>2. CASE APIRuleEqual(seen, owners) /\ APIRuleSynced(m, r, seen.ready) /\ UNCHANGED <<rule, queue>>
    <2>1. Calm(m)
      BY <1>0, <1>2, RuleCalm DEF Told
    <2>2. ASSUME ExposedInv, s \notin queue', sub[s].phase = "present"
          PROVE  /\ s \in owners /\ rule'[r].state = "present"
                 /\ rule'[r].svc = worker[m].obj.spec.svc /\ rule'[r].ready = seen.ready
                 /\ s \in rule'[r].owners \cap rule'[r].paths
      <3>1. s \in owners /\ s \in seen.owners /\ s \in seen.paths
        BY <1>0, <1>2, <2>2, OwnersWanted DEF APIRuleEqual
      <3>2. /\ seen.state = "present" /\ seen.svc = worker[m].obj.spec.svc /\ rule[r] = seen
        BY <1>0, <1>2, <2>2, <3>1, OwnersWanted
      <3> QED
        BY <1>2, <3>1, <3>2
    <2> QED
      BY <1>0, <1>2, <1>t, <2>1, <2>2, APIRuleSyncedStep
  <1>3. CASE /\ rule[r] = seen /\ rule' = [rule EXCEPT ![r] = WithOwnersAndRules(r, owners)]
             /\ Enqueue(seen.owners \cup owners)
             /\ APIRuleSynced(m, r, seen.ready) \/ APIRuleError(m)
    <2>1. Told /\ queue \subseteq queue' /\ \A t \in seen.owners \cup owners : t \in Sub /\ Exists(t) => t \in queue'
      BY <1>l, <1>t, <1>3, EnqueueTells
    <2>2. Calm(m)
      BY <1>0, <2>1, RuleCalm
    <2>3. CASE APIRuleError(m)
      BY <2>2, <2>3, APIRuleErrorFails, FailingStep
    <2>4. CASE APIRuleSynced(m, r, seen.ready)
      <3>1. ~(ExposedInv /\ s \notin queue' /\ sub[s].phase = "present")
        BY <1>0, <2>1, OwnersWanted DEF Exists
      <3> QED
        BY <1>0, <1>t, <2>2, <2>4, <3>1, APIRuleSyncedStep
    <2> QED
      BY <1>3, <2>3, <2>4
  <1> QED
    BY <1>1, <1>2, <1>3 DEF UpdateAPIRule

-----------------------------------------------------------------------------
(***************************************************************************)
(* The beginning and the end of a Reconcile.                               *)
(***************************************************************************)

\* syncInitialStatus keeps the hashes.
LEMMA SyncInitialStatusKeeps ==
  ASSUME NEW st \in SubStatus
  PROVE  /\ SyncInitialStatus(st).local = st.local /\ SyncInitialStatus(st).remote = st.remote
         /\ SyncInitialStatus(st).auth = st.auth
  <1> DEFINE x == [CopyHashes(EmptyStatus, st) EXCEPT !.init = TRUE]
             y == [st EXCEPT !.ready = ~@, !.rule = None, !.sink = None]
  <1>1. x.local = st.local /\ x.remote = st.remote /\ x.auth = st.auth
    BY DEF CopyHashes, EmptyStatus
  <1>2. y.local = st.local /\ y.remote = st.remote /\ y.auth = st.auth
    BY DEF SubStatus
  <1>3. SyncInitialStatus(st) \in {x, st, y}
    BY DEF SyncInitialStatus
  <1> HIDE DEF x, y
  <1> QED
    BY <1>1, <1>2, <1>3

\* A request leaves the queue: a worker works on the object as it is.
LEMMA FetchStep ==
  ASSUME TypeInv, TypeInv', BaseInv, NEW m \in Manager, NEW s \in Sub,
         NEW step \in {"idle", "delete", "validation", "list"}, NEW st, NEW finalizer,
         Fetch(m, s, step, st, finalizer),
         IF step = "idle" THEN ~Exists(s) /\ st = EmptyStatus
         ELSE /\ st.local = sub[s].status.local /\ st.remote = sub[s].status.remote
              /\ st.auth = sub[s].status.auth,
         step = "validation" => ~st.ready /\ sub[s].phase = "present"
  PROVE  Good
  <1> DEFINE name == IF step = "idle" THEN None ELSE s
             obj == IF step = "idle" THEN NewSubscription ELSE sub[s]
             new == [worker[m] EXCEPT !.pc = step, !.s = name, !.obj = obj, !.status = st,
                       !.finalizer = finalizer]
  <1>0. /\ live = m /\ live' = m /\ live # 0 /\ worker[m].pc = "idle" /\ queue' = queue \ {s}
        /\ UNCHANGED <<sub, rule, server, cred, live>>
        /\ worker \in [Manager -> Worker] /\ worker[m] \in Worker
    BY DEF Fetch, Manager, TypeInv, TypeOK
  <1>1. worker' = [worker EXCEPT ![m] = new]
    BY DEF Fetch
  <1> HIDE DEF name, obj
  <1>2. /\ new.pc = step /\ new.s = name /\ new.obj = obj /\ new.status = st
        /\ new.auth = worker[m].auth
    BY <1>0 DEF Worker
  <1> HIDE DEF new
  <1>3. worker'[m] = new /\ \A k \in Manager : k # m => worker'[k] = worker[k]
    BY <1>0, <1>1
  <1>4. Frame(m, s)
    BY <1>0, <1>2, <1>3 DEF Frame, name
  <1>5. BaseInv'
    BY <1>0, <1>2, <1>3, <1>4, BaseStep DEF obj
  <1>6. Told /\ Signed(m, s)
    BY <1>0 DEF Told, Signed
  <1>7. step = "idle" => ~ReadySub(s)'
    BY <1>0 DEF Exists, ReadySub
  <1>8. ASSUME AuthInv PROVE AuthInv'
    <2>1. Signing(m)'
      <3> SUFFICES ASSUME step # "idle"
                   PROVE  Behind(worker[m].status, worker[m].s)'
        BY <1>2, <1>3 DEF Signing
      <3>1. Behind(sub[s].status, s) /\ worker'[m].s = s /\ worker'[m].status.auth = sub[s].status.auth
        BY <1>2, <1>3, <1>8 DEF AuthInv, AuthOrder, name
      <3>2. Top' = Top
        BY <1>0, <1>2, <1>3 DEF Top
      <3> QED
        BY <1>0, <3>1, <3>2 DEF Behind
    <2> QED
      BY <1>2, <1>3, <1>4, <1>5, <1>6, <1>7, <1>8, <2>1, AuthStep
  <1>9. ASSUME ExposedInv PROVE ExposedInv'
    <2>1. worker'[m].status.local = worker'[m].status.remote
      BY <1>2, <1>3, <1>9 DEF ExposedInv, SameHashes, EmptyStatus
    <2>2. Sending(m)' /\ Reusing(m)'
      BY <1>2, <1>3 DEF Sending, Reusing, Patching
    <2>3. Working(m)'
      BY <1>0, <1>2, <1>3 DEF Working, Exposing, Backend, name, obj
    <2> QED
      BY <1>2, <1>3, <1>4, <1>5, <1>6, <1>7, <1>9, <2>1, <2>2, <2>3, ExposedStep
  <1> QED
    BY <1>5, <1>8, <1>9 DEF Good

\* Reconcile, up to its first call.
LEMMA ReconcileStep ==
  ASSUME TypeInv, TypeInv', BaseInv, NEW m \in Manager, Reconcile(m)
  PROVE  Good
  <1>1. PICK s \in Sub : \/ ReconcileNothing(m, s) \/ ReconcileDeletion(m, s)
                         \/ ReconcileInvalid(m, s) \/ ReconcileValid(m, s)
    BY DEF Reconcile
  <1> DEFINE st == sub[s].status
             first == SyncInitialStatus(st)
  <1>2. st \in SubStatus /\ first \in SubStatus
    BY SyncInitialStatusType DEF TypeInv, TypeOK, Subscription
  <1>3. first.local = st.local /\ first.remote = st.remote /\ first.auth = st.auth
    BY <1>2, SyncInitialStatusKeeps
  <1> HIDE DEF first
  <1>c. "SpecValid" \in ConditionType
    BY DEF ConditionType
  <1>4. CASE ReconcileNothing(m, s)
    BY <1>4, FetchStep DEF ReconcileNothing
  <1>5. CASE ReconcileDeletion(m, s)
    BY <1>5, FetchStep DEF ReconcileDeletion
  <1>6. CASE ReconcileInvalid(m, s)
    <2> DEFINE x == SetCondition(first, "SpecValid", FALSE)
               y == [x EXCEPT !.ready = FALSE]
    <2>1. Alike(x, first)
      BY <1>2, <1>c, SetConditionKeeps
    <2>2. x \in SubStatus
      BY <1>2, <1>c, StatusTypes
    <2>3. Fetch(m, s, "validation", y, TRUE) /\ sub[s].phase = "present"
      BY <1>6 DEF ReconcileInvalid, first
    <2> HIDE DEF x
    <2>4. y.local = x.local /\ y.remote = x.remote /\ y.auth = x.auth /\ ~y.ready
      BY <2>2 DEF SubStatus
    <2> HIDE DEF y
    <2> QED
      BY <1>3, <2>1, <2>3, <2>4, FetchStep DEF Alike
  <1>7. CASE ReconcileValid(m, s)
    <2> DEFINE x == SetCondition(first, "SpecValid", TRUE)
    <2>1. Alike(x, first)
      BY <1>2, <1>c, SetConditionKeeps
    <2>2. Fetch(m, s, "list", x, TRUE)
      BY <1>7 DEF ReconcileValid, first
    <2> HIDE DEF x
    <2> QED
      BY <1>3, <2>1, <2>2, FetchStep DEF Alike
  <1> QED
    BY <1>1, <1>4, <1>5, <1>6, <1>7

\* Reconcile returns. Without a repetition the Subscription has to be known.
LEMMA ReturnStep ==
  ASSUME TypeInv, TypeInv', BaseInv, NEW m \in Manager, worker[m].pc # "idle",
         NEW s \in Sub, worker[m].s = s,
         NEW again \in BOOLEAN, Return(m, again), UNCHANGED <<rule, cred, live>>,
         \A t \in Sub : t # s => server'[t] = server[t] /\ sub'[t] = sub[t],
         server'[s] \in {server[s], None}, sub'[s].status \in {sub[s].status, worker[m].status},
         ~again /\ ReadySub(s)' /\ AuthInv => sub'[s].status.auth = worker[m].auth,
         ~again /\ ReadySub(s)' /\ s \notin queue /\ ExposedInv => Exposed(s, sub[s].status)'
  PROVE  Good
  <1>0. live = m
    BY DEF BaseInv, OnlyLive
  <1>1. /\ \A k \in Manager : k # m => worker'[k] = worker[k]
        /\ worker'[m].pc = "idle" /\ worker'[m].auth = worker[m].auth
        /\ worker'[m].status.local = worker'[m].status.remote
        /\ queue' = IF again THEN queue \cup {s} ELSE queue
    BY <1>0, ReturnLeaves
  <1>2. Frame(m, s)
    BY <1>0, <1>1 DEF Frame
  <1>3. BaseInv'
    BY <1>0, <1>1, <1>2, BaseStep
  <1>4. Told /\ Signed(m, s)
    BY DEF Told, Signed
  <1>q. s \notin queue' => ~again /\ s \notin queue
    BY <1>1
  <1>5. ASSUME AuthInv PROVE AuthInv'
    <2>1. Signing(m)'
      BY <1>1 DEF Signing
    <2> QED
      BY <1>q, <1>1, <1>2, <1>3, <1>4, <1>5, <2>1, AuthStep
  <1>6. ASSUME ExposedInv PROVE ExposedInv'
    <2>1. Sending(m)' /\ Reusing(m)' /\ Working(m)'
      BY <1>1 DEF Sending, Reusing, Working, Patching
    <2> QED
      BY <1>q, <1>1, <1>2, <1>3, <1>4, <1>6, <2>1, ExposedStep
  <1> QED
    BY <1>3, <1>5, <1>6 DEF Good

\* updateStatus of an invalid Subscription: it is not ready, or tried again.
LEMMA UpdateInvalidStatusStep ==
  ASSUME TypeInv, TypeInv', BaseInv, NEW m \in Manager, UpdateInvalidStatus(m)
  PROVE  Good
  <1>0. /\ worker[m].pc = "validation" /\ worker[m].pc # "idle" /\ worker[m].s \in Sub
        /\ UNCHANGED <<rule, server, cred, live>> /\ sub \in [Sub -> Subscription]
    BY DEF UpdateInvalidStatus, TypeInv, TypeOK, WorkersEquipped, Equipped
  <1> PICK s \in Sub : worker[m].s = s
    BY <1>0
  <1>1. ~worker[m].status.ready /\ sub[s].status = worker[m].obj.status
    BY <1>0 DEF BaseInv, Validating
  <1>2. CASE worker[m].obj.status = worker[m].status /\ UNCHANGED sub /\ Return(m, FALSE)
    <2>1. ~ReadySub(s)'
      BY <1>1, <1>2 DEF ReadySub
    <2> QED
      BY <1>0, <1>2, <2>1, ReturnStep
  <1>3. CASE Return(m, TRUE) /\ (UNCHANGED sub \/ sub' = [sub EXCEPT ![s].status = worker[m].status])
    <2>1. /\ \A t \in Sub : t # s => sub'[t] = sub[t]
          /\ sub'[s].status \in {sub[s].status, worker[m].status}
      BY <1>0, <1>3 DEF Subscription
    <2> QED
      BY <1>0, <1>3, <2>1, ReturnStep
  <1> QED
    BY <1>2, <1>3 DEF UpdateInvalidStatus

\* handleDeleteSubscription.
LEMMA DeleteSubscriptionStep ==
  ASSUME TypeInv, TypeInv', BaseInv, NEW m \in Manager, DeleteSubscription(m)
  PROVE  Good
  <1>0. /\ worker[m].pc = "delete" /\ worker[m].pc # "idle" /\ worker[m].s \in Sub
        /\ UNCHANGED <<sub, rule, cred, live>> /\ server \in [Sub -> ServerSub \cup {None}]
        /\ Answers(m, None)
    BY DEF DeleteSubscription, Answers, TypeInv, TypeOK, WorkersEquipped, Equipped
  <1> PICK s \in Sub : worker[m].s = s
    BY <1>0
  <1>1. CASE Return(m, TRUE) /\ server' \in {server, [server EXCEPT ![s] = None]}
    <2>1. /\ \A t \in Sub : t # s => server'[t] = server[t] /\ sub'[t] = sub[t]
          /\ server'[s] \in {server[s], None} /\ sub'[s].status = sub[s].status
      BY <1>0, <1>1
    <2> QED
      BY <1>0, <1>1, <2>1, ReturnStep
  <1>2. CASE /\ server' = [server EXCEPT ![s] = None] /\ UNCHANGED queue
             /\ Finish(m, ReplaceStatusCondition(worker[m].status, "Subscribed", FALSE), "done")
    <2>1. Calm(m)
      BY <1>0, <1>2, RequestCalm
    <2>2. Failing(m)
      BY <1>2, UnsubscribedFails
    <2> QED
      BY <2>1, <2>2, FailingStep
  <1> QED
    BY <1>1, <1>2 DEF DeleteSubscription

\* updateSubscription: a Reconcile that is not repeated has found the status it
\* would have written.
LEMMA UpdateSubscriptionStep ==
  ASSUME TypeInv, TypeInv', BaseInv, NEW m \in Manager, UpdateSubscription(m)
  PROVE  Good
  <1>0. /\ worker[m].pc = "update" /\ worker[m].pc # "idle" /\ worker[m].s \in Sub
        /\ UNCHANGED <<rule, server, cred, live>> /\ sub \in [Sub -> Subscription]
        /\ worker \in [Manager -> Worker] /\ worker[m] \in Worker
    BY DEF UpdateSubscription, TypeInv, TypeOK, WorkersEquipped, Equipped
  <1>l. live = m /\ live' = m /\ live # 0
    BY <1>0 DEF BaseInv, OnlyLive, Manager
  <1> PICK s \in Sub : worker[m].s = s
    BY <1>0
  <1> DEFINE new == [sub[s] EXCEPT !.status = worker[m].status]
             again == worker[m].result = "again" \/ new # sub[s]
  <1>1. sub[s] \in Subscription /\ new.status = worker[m].status
    BY <1>0 DEF Subscription
  <1>2. CASE Return(m, TRUE) /\ UNCHANGED sub
    BY <1>0, <1>2, ReturnStep
  <1>3. CASE sub' = [sub EXCEPT ![s] = new] /\ Return(m, again)
    <2>0. again \in BOOLEAN
      OBVIOUS
    <2>1. /\ \A t \in Sub : t # s => sub'[t] = sub[t]
          /\ sub'[s].status = worker[m].status /\ sub'[s] = new
      BY <1>0, <1>1, <1>3
    <2>2. ASSUME ~again PROVE new = sub[s] /\ worker[m].result = "done" /\ sub' = sub
      BY <1>0, <1>3, <2>2 DEF Worker
    <2> HIDE DEF new, again
    <2>3. ~again /\ ReadySub(s)' /\ AuthInv => sub'[s].status.auth = worker[m].auth
      <3>1. ReadySub(s)' => worker[m].status.ready
        BY <2>1 DEF ReadySub
      <3> QED
        BY <1>0, <2>1, <2>2, <3>1 DEF AuthInv, Signing
    <2>4. ~again /\ ReadySub(s)' /\ s \notin queue /\ ExposedInv => Exposed(s, sub[s].status)'
      <3> SUFFICES ASSUME ~again, ReadySub(s)', s \notin queue, ExposedInv
                   PROVE  Exposed(s, sub[s].status)'
        OBVIOUS
      <3>1. sub' = sub /\ worker[m].result = "done" /\ worker[m].status.ready
            /\ sub[s].phase = "present" /\ sub[s].status = worker[m].status
        BY <2>1, <2>2 DEF ReadySub
      <3>2. Exposed(s, worker[m].status)
        BY <1>0, <3>1 DEF ExposedInv, Working
      <3> QED
        BY <1>0, <3>1, <3>2 DEF Exposed, Routed, Wanted
    <2> QED
      BY <1>0, <1>3, <2>0, <2>1, <2>3, <2>4, ReturnStep
  <1>4. CASE /\ sub' = [sub EXCEPT ![s] = new]
             /\ worker' = [worker EXCEPT ![m].pc = "finalizer", ![m].obj = new]
             /\ (Enqueue({s}) \/ Enqueue({}))
    <2> DEFINE w == [worker[m] EXCEPT !.pc = "finalizer", !.obj = new]
    <2>1. /\ \A t \in Sub : t # s => sub'[t] = sub[t]
          /\ sub'[s].status = worker[m].status
      BY <1>0, <1>1, <1>4
    <2>2. worker' = [worker EXCEPT ![m] = w]
      BY <1>4
    <2> HIDE DEF new
    <2>3. w.pc = "finalizer" /\ w.s = s /\ w.auth = worker[m].auth /\ w.status = worker[m].status
      BY <1>0 DEF Worker
    <2> HIDE DEF w
    <2>4. worker'[m] = w /\ \A k \in Manager : k # m => worker'[k] = worker[k]
      BY <1>0, <2>2
    <2>5. queue \subseteq queue'
      BY <1>4 DEF Enqueue
    <2>6. Frame(m, s)
      BY <1>0, <1>l, <2>1, <2>3, <2>4, <2>5 DEF Frame
    <2>7. BaseInv'
      BY <2>3, <2>4, <2>6, BaseStep
    <2>8. Told /\ Signed(m, s)
      BY <1>0 DEF Told, Signed
    <2>9. ASSUME AuthInv PROVE AuthInv'
      <3>1. Behind(worker[m].status, worker[m].s) /\ Top' = Top
        BY <1>0, <1>l, <2>3, <2>4, <2>9 DEF AuthInv, Signing, Top
      <3>2. Signing(m)'
        BY <1>0, <2>3, <2>4, <3>1 DEF Signing, Behind
      <3> QED
        BY <2>3, <2>4, <2>6, <2>7, <2>8, <2>9, <3>2, AuthStep
    <2>10. ASSUME ExposedInv PROVE ExposedInv'
      <3>1. worker'[m].status.local = worker'[m].status.remote
        BY <2>3, <2>4, <2>10 DEF ExposedInv, SameHashes
      <3>2. Sending(m)' /\ Reusing(m)' /\ Working(m)'
        BY <2>3, <2>4 DEF Sending, Reusing, Working, Patching, Exposing, Backend
      <3> QED
        BY <2>3, <2>4, <2>6, <2>7, <2>8, <2>10, <3>1, <3>2, ExposedStep
    <2> QED
      BY <2>7, <2>9, <2>10 DEF Good
  <1> QED
    BY <1>2, <1>3, <1>4 DEF UpdateSubscription

\* The finalizer is written, and the Reconcile repeated.
LEMMA UpdateFinalizersStep ==
  ASSUME TypeInv, TypeInv', BaseInv, NEW m \in Manager, UpdateFinalizers(m)
  PROVE  Good
  <1>0. /\ worker[m].pc # "idle" /\ worker[m].s \in Sub /\ Return(m, TRUE)
        /\ UNCHANGED <<rule, server, cred, live>> /\ sub \in [Sub -> Subscription]
    BY DEF UpdateFinalizers, TypeInv, TypeOK, WorkersEquipped, Equipped
  <1> PICK s \in Sub : worker[m].s = s
    BY <1>0
  <1> DEFINE new == [sub[s] EXCEPT !.finalizer = worker[m].finalizer,
                       !.phase = IF @ = "deleting" /\ ~worker[m].finalizer THEN "gone" ELSE @]
  <1>n. new.status = sub[s].status
    BY <1>0 DEF Subscription
  <1>d. UNCHANGED sub \/ sub' = [sub EXCEPT ![s] = new]
    BY DEF UpdateFinalizers
  <1> HIDE DEF new
  <1>1. /\ \A t \in Sub : t # s => sub'[t] = sub[t]
        /\ sub'[s].status = sub[s].status
    BY <1>0, <1>n, <1>d
  <1> QED
    BY <1>0, <1>1, ReturnStep

\* Every step of a worker.
LEMMA WorkerGood ==
  ASSUME TypeInv, TypeInv', BaseInv, NEW m \in Manager, WorkerStep(m)
  PROVE  Good
  BY ReconcileStep, UpdateInvalidStatusStep, ListAPIRulesStep, HandlePreviousAPIRuleStep,
     CreateAPIRuleStep, UpdateAPIRuleStep, DeleteModifiedStep, GetSubscriptionStep,
     WebhookAuthStep, CreateSubscriptionStep, GetCreatedStep, DeleteSubscriptionStep,
     UpdateSubscriptionStep, UpdateFinalizersStep
     DEF WorkerStep

-----------------------------------------------------------------------------
(***************************************************************************)
(* The manager.                                                            *)
(***************************************************************************)

\* No worker is busy after a start, a stop or a crash, and whoever runs has
\* everything in its queue. Hashes stay or vanish together.
Restarts ==
  /\ \A m \in Manager : worker'[m].pc = "idle"
  /\ ExposedInv => \A m \in Manager : worker'[m].status.local = worker'[m].status.remote
  /\ \A s \in Sub : live' # 0 /\ sub'[s].phase = "present" => s \in queue'
  /\ \A s \in Sub : server'[s] \in {server[s], None}
  /\ \A s \in Sub : LET x == sub'[s].status
                        y == sub[s].status
                    IN  \/ x.local = y.local /\ x.remote = y.remote /\ x.auth = y.auth
                        \/ x.local = None /\ x.remote = None /\ x.auth = None
  /\ AuthInv => Top <= Top' /\ Top' <= cred'

\* After it nothing is known.
LEMMA RestartsGood ==
  ASSUME TypeInv, TypeInv', Restarts
  PROVE  Good
  <1>0. \A s \in Sub : ~(Known(s)' /\ ReadySub(s)')
    BY DEF Restarts, Known, ReadySub
  <1>1. BaseInv'
    BY DEF Restarts, BaseInv, OnlyLive, Validating, Creating
  <1>2. ASSUME AuthInv PROVE AuthInv'
    <2>1. ASSUME NEW s \in Sub
          PROVE  (server'[s] # None => server'[s].auth <= Top') /\ Behind(sub[s].status, s)'
      <3>1. server'[s] \in {server[s], None} /\ Top <= Top'
        BY <1>2 DEF Restarts
      <3>2. sub'[s].status.auth = sub[s].status.auth \/ sub'[s].status.auth = None
        BY DEF Restarts
      <3>3. (server[s] # None => server[s].auth <= Top) /\ Behind(sub[s].status, s)
        BY <1>2 DEF AuthInv, AuthOrder
      <3> QED
        BY <3>1, <3>2, <3>3, AuthTypes, AuthTypesNext DEF Behind
    <2>2. AuthOrder'
      BY <1>2, <2>1 DEF AuthOrder, Restarts
    <2>3. AuthKnown' /\ \A m \in Manager : Signing(m)'
      BY <1>0 DEF AuthKnown, Signing, Restarts
    <2> QED
      BY <2>2, <2>3 DEF AuthInv
  <1>3. ASSUME ExposedInv PROVE ExposedInv'
    <2>1. SameHashes'
      BY <1>3 DEF ExposedInv, SameHashes, Restarts
    <2>2. ExposedKnown'
      BY <1>0 DEF ExposedKnown
    <2>3. \A m \in Manager : Sending(m)' /\ Reusing(m)' /\ Working(m)'
      BY DEF Sending, Reusing, Working, Patching, Restarts
    <2> QED
      BY <2>1, <2>2, <2>3 DEF ExposedInv
  <1> QED
    BY <1>1, <1>2, <1>3 DEF Good

\* The status of an idle worker.
LEMMA IdleHashes ==
  ASSUME NEW a
  PROVE  IdleWorker(a).status.local = IdleWorker(a).status.remote /\ IdleWorker(a).pc = "idle"
         /\ IdleWorker(a).auth = a
  BY DEF IdleWorker, EmptyStatus

\* A manager starts: all Subscriptions are queued.
LEMMA StartGood ==
  ASSUME TypeInv, TypeInv', BaseInv, Start
  PROVE  Good
  <1> DEFINE n == starts + 1
  <1>0. /\ n \in Manager /\ n # 0 /\ worker \in [Manager -> Worker] /\ cred \in Auth
    BY EMBoundsAssumption DEF TypeInv, TypeOK, Start, Manager
  <1>1. /\ UNCHANGED <<sub, rule, server, cred>> /\ live' = n /\ live = 0
        /\ worker' = [worker EXCEPT ![n] = IdleWorker(cred)]
        /\ queue' = {s \in Sub : Exists(s)}
    BY DEF Start
  <1> HIDE DEF n
  <1>2. /\ worker'[n] = IdleWorker(cred) /\ \A m \in Manager : m # n => worker'[m] = worker[m]
    BY <1>0, <1>1
  <1>3. \A m \in Manager : worker[m].pc = "idle"
    BY <1>1 DEF BaseInv, OnlyLive, Manager
  <1>4. \A m \in Manager : worker'[m].pc = "idle"
    BY <1>2, <1>3, IdleHashes
  <1>5. ExposedInv => \A m \in Manager : worker'[m].status.local = worker'[m].status.remote
    BY <1>2, IdleHashes DEF ExposedInv, SameHashes
  <1>6. \A s \in Sub : live' # 0 /\ sub'[s].phase = "present" => s \in queue'
    BY <1>1 DEF Exists
  <1>7. Top = cred /\ Top' = cred
    BY <1>0, <1>1, <1>2, IdleHashes DEF Top
  <1>8. Top <= Top' /\ Top' <= cred'
    BY <1>0, <1>1, <1>7, AuthTypes
  <1>9. Restarts
    BY <1>1, <1>4, <1>5, <1>6, <1>8 DEF Restarts
  <1> QED
    BY <1>9, RestartsGood

\* A manager stops. Its worker is idle, and nobody is told any more.
LEMMA StoppingGood ==
  ASSUME TypeInv, TypeInv', BaseInv, ~StopsBusy, NEW m \in Manager, Stopping(m),
         \A s \in Sub : server'[s] \in {server[s], None},
         \A s \in Sub : LET x == sub'[s].status
                            y == sub[s].status
                        IN  \/ x.local = y.local /\ x.remote = y.remote /\ x.auth = y.auth
                            \/ x.local = None /\ x.remote = None /\ x.auth = None
  PROVE  Good
  <1>1. live = m /\ worker[m].pc = "idle" /\ live' = 0 /\ UNCHANGED <<cred, worker>>
    BY DEF Stopping
  <1>2. \A k \in Manager : worker'[k].pc = "idle"
    BY <1>1 DEF BaseInv, OnlyLive
  <1>3. ExposedInv => \A k \in Manager : worker'[k].status.local = worker'[k].status.remote
    BY <1>1 DEF ExposedInv, SameHashes
  <1>4. Top' = cred
    BY <1>1 DEF Top
  <1>5. AuthInv => Top <= Top' /\ Top' <= cred'
    BY <1>1, <1>4, AuthTypes DEF AuthInv, AuthOrder
  <1>6. Restarts
    BY <1>1, <1>2, <1>3, <1>5 DEF Restarts
  <1> QED
    BY <1>6, RestartsGood

\* markAllV1Alpha2SubscriptionsAsNotReady keeps the hashes.
LEMMA MarkGood ==
  ASSUME TypeInv, TypeInv', BaseInv, ~StopsBusy, NEW m \in Manager, MarkAllAsNotReady(m)
  PROVE  Good
  <1>1. Stopping(m) /\ UNCHANGED server
    BY DEF MarkAllAsNotReady
  <1>2. ASSUME NEW s \in Sub
        PROVE  LET x == sub'[s].status
                   y == sub[s].status
               IN  x.local = y.local /\ x.remote = y.remote /\ x.auth = y.auth
    <2> DEFINE y == sub[s].status
               c == CopyHashes(EmptyStatus, y)
    <2>1. c.local = y.local /\ c.remote = y.remote /\ c.auth = y.auth
      BY DEF CopyHashes, EmptyStatus
    <2> HIDE DEF c
    <2>2. sub'[s] = sub[s] \/ sub'[s] = [sub[s] EXCEPT !.status = c]
      BY DEF MarkAllAsNotReady, c
    <2>3. sub[s] \in Subscription
      BY DEF TypeInv, TypeOK
    <2>4. sub'[s].status \in {y, c}
      BY <2>2, <2>3 DEF Subscription
    <2> QED
      BY <2>1, <2>4
  <1> QED
    BY <1>1, <1>2, StoppingGood

\* cleanupEventMesh empties the statuses.
LEMMA CleanupGood ==
  ASSUME TypeInv, TypeInv', BaseInv, ~StopsBusy, NEW m \in Manager, CleanupEventMesh(m)
  PROVE  Good
  <1>1. Stopping(m)
    BY DEF CleanupEventMesh
  <1>2. \A s \in Sub : server'[s] \in {server[s], None}
    BY DEF CleanupEventMesh
  <1>3. ASSUME NEW s \in Sub
        PROVE  sub'[s].status = sub[s].status \/ sub'[s].status = EmptyStatus
    <2>1. sub[s] \in Subscription
      BY DEF TypeInv, TypeOK
    <2> QED
      BY <2>1 DEF CleanupEventMesh, Subscription
  <1>4. EmptyStatus.local = None /\ EmptyStatus.remote = None /\ EmptyStatus.auth = None
    BY DEF EmptyStatus
  <1> QED
    BY <1>1, <1>2, <1>3, <1>4, StoppingGood

\* The process ends.
LEMMA CrashGood ==
  ASSUME TypeInv, TypeInv', BaseInv, Crash
  PROVE  Good
  <1>1. /\ UNCHANGED <<sub, server, cred>> /\ live' = 0 /\ live \in Manager
        /\ worker' = [m \in Manager |-> IdleWorker(worker[m].auth)]
    BY DEF Crash, TypeInv, TypeOK
  <1>2. \A m \in Manager : worker'[m] = IdleWorker(worker[m].auth)
    BY <1>1
  <1>3. \A m \in Manager : worker'[m].pc = "idle" /\ worker'[m].status.local = worker'[m].status.remote
    BY <1>2, IdleHashes
  <1>4. Top' = cred
    BY <1>1 DEF Top
  <1>5. AuthInv => Top <= Top' /\ Top' <= cred'
    BY <1>1, <1>4, AuthTypes DEF AuthInv, AuthOrder
  <1>6. Restarts
    BY <1>1, <1>3, <1>5 DEF Restarts
  <1> QED
    BY <1>6, RestartsGood

-----------------------------------------------------------------------------
(***************************************************************************)
(* The environment.                                                        *)
(***************************************************************************)

\* A step outside the managers. What it changes about a Subscription puts it into
\* the queue of the running controller; EventMesh keeps its credentials.
Noticed ==
  /\ UNCHANGED <<worker, live>>
  /\ \A s \in Sub :
       /\ \/ sub'[s].status = sub[s].status
          \/ sub[s].phase = "new" /\ sub'[s].status = EmptyStatus
       /\ sub[s].phase # "new" => sub'[s].phase # "new"
       /\ live # 0 /\ s \notin queue' /\ sub'[s].phase = "present" =>
            s \notin queue /\ sub'[s] = sub[s]
       /\ server'[s] # None => server[s] # None /\ server'[s].auth = server[s].auth

\* Such a step keeps who is busy, and the order of the credentials.
LEMMA NoticedSafe ==
  ASSUME TypeInv, TypeInv', BaseInv, Noticed
  PROVE  BaseInv' /\ (AuthInv /\ cred <= cred' => AuthInv')
  <1>0. \A m \in Manager : worker[m].pc # "idle" => worker[m].s \in Sub
    BY DEF TypeInv, WorkersEquipped, Equipped
  <1>1. BaseInv'
    <2>1. OnlyLive'
      BY DEF Noticed, BaseInv, OnlyLive
    <2>2. Validating'
      BY <1>0 DEF Noticed, BaseInv, Validating
    <2>3. Creating'
      BY <1>0 DEF Noticed, BaseInv, Creating
    <2> QED
      BY <2>1, <2>2, <2>3 DEF BaseInv
  <1>2. ASSUME AuthInv, cred <= cred' PROVE AuthInv'
    <2>1. Top <= Top' /\ Top' <= cred' /\ (live # 0 => Top' = Top)
      <3>1. CASE live = 0
        <4>1. Top = cred /\ Top' = cred' /\ live' = 0
          BY <3>1 DEF Noticed, Top
        <4>2. cred' \in Nat
          BY AuthTypes, AuthTypesNext
        <4>3. cred' <= cred'
          BY <4>2
        <4> QED
          BY <1>2, <3>1, <4>1, <4>3
      <3>2. CASE live # 0
        <4>1. Top' = Top /\ Top <= cred /\ cred <= cred'
          BY <1>2, <3>2 DEF Noticed, Top, AuthInv, AuthOrder
        <4> QED
          BY <4>1, AuthTypes, AuthTypesNext
      <3> QED
        BY <3>1, <3>2
    <2>2. ASSUME NEW st, NEW s \in Sub, Behind(st, s), st.auth \in Auth \cup {None}
          PROVE  st.auth # None =>
                   st.auth <= Top' /\ (server'[s] # None => st.auth <= server'[s].auth)
      BY <2>1, <2>2, AuthTypes, AuthTypesNext DEF Behind, Noticed
    <2>3. AuthOrder'
      <3>1. ASSUME NEW s \in Sub
            PROVE  (server'[s] # None => server'[s].auth <= Top') /\ Behind(sub[s].status, s)'
        <4>1. server'[s] # None => server'[s].auth <= Top'
          BY <1>2, <2>1, AuthTypes, AuthTypesNext DEF AuthInv, AuthOrder, Noticed
        <4>2. sub'[s].status.auth = sub[s].status.auth \/ sub'[s].status.auth = None
          BY DEF Noticed, EmptyStatus
        <4>3. Behind(sub[s].status, s)
          BY <1>2 DEF AuthInv, AuthOrder
        <4>4. sub[s].status.auth # None =>
                /\ sub[s].status.auth <= Top'
                /\ server'[s] # None => sub[s].status.auth <= server'[s].auth
          BY <2>2, <4>3, AuthTypes
        <4> QED
          BY <4>1, <4>2, <4>4 DEF Behind
      <3> QED
        BY <2>1, <3>1 DEF AuthOrder
    <2>4. AuthKnown'
      <3> SUFFICES ASSUME NEW s \in Sub, Known(s)', ReadySub(s)'
                   PROVE  sub'[s].status.auth = worker'[live'].auth
        BY DEF AuthKnown
      <3>1. Known(s) /\ ReadySub(s) /\ sub'[s] = sub[s]
        BY DEF Known, Busy, ReadySub, Noticed
      <3> QED
        BY <1>2, <3>1 DEF AuthInv, AuthKnown, Noticed
    <2>5. ASSUME NEW m \in Manager PROVE Signing(m)'
      <3> SUFFICES ASSUME worker[m].pc # "idle"
                   PROVE  /\ Behind(worker[m].status, worker[m].s)'
                          /\ worker[m].pc \in {"resume", "getCreated"} /\ server'[worker[m].s] # None =>
                               server'[worker[m].s].auth = worker[m].auth
                          /\ worker[m].pc = "update" /\ worker[m].result = "done" /\ worker[m].status.ready =>
                               worker[m].status.auth = worker[m].auth
        BY DEF Signing, Noticed
      <3>1. worker[m].s \in Sub /\ Signing(m) /\ worker[m].status.auth \in Auth \cup {None}
        BY <1>0, <1>2, AuthTypes DEF AuthInv
      <3>2. Behind(worker[m].status, worker[m].s)
        BY <3>1 DEF Signing
      <3>3. worker[m].status.auth # None =>
              /\ worker[m].status.auth <= Top'
              /\ server'[worker[m].s] # None => worker[m].status.auth <= server'[worker[m].s].auth
        BY <2>2, <3>1, <3>2
      <3> QED
        BY <3>1, <3>3 DEF Signing, Behind, Noticed
    <2> QED
      BY <2>3, <2>4, <2>5 DEF AuthInv
  <1> QED
    BY <1>1, <1>2

\* EventMesh keeps its content, and the owners of APIRules are told.
LEMMA NoticedExposed ==
  ASSUME TypeInv, TypeInv', BaseInv, ExposedInv, Noticed, live # 0 => Told,
         \A s \in Sub : server[s] # None => server'[s] # None /\ server'[s].content = server[s].content
  PROVE  ExposedInv'
  <1>0. \A m \in Manager : worker[m].pc # "idle" => worker[m].s \in Sub /\ live = m /\ live # 0
    BY DEF TypeInv, WorkersEquipped, Equipped, BaseInv, OnlyLive, Manager
  <1>1. SameHashes'
    BY DEF ExposedInv, SameHashes, Noticed, EmptyStatus
  <1>2. ASSUME NEW s \in Sub, NEW r \in Rule, live # 0, s \notin queue', sub'[s].phase = "present",
               Routed(s, r)
        PROVE  rule'[r] = rule[r] /\ sub'[s] = sub[s] /\ s \notin queue
    <2>1. sub'[s] = sub[s] /\ s \notin queue
      BY <1>2 DEF Noticed
    <2>2. s \in rule[r].owners /\ rule[r].state = "present" /\ Exists(s) /\ Told
      BY <1>2, <2>1 DEF Routed, Exists
    <2> QED
      BY <1>2, <2>1, <2>2, RuleStays
  <1>3. ASSUME NEW s \in Sub, NEW st \in SubStatus, live # 0, s \notin queue',
               sub'[s].phase = "present", Exposed(s, st)
        PROVE  /\ st.rule \in Rule /\ rule'[st.rule] = rule[st.rule] /\ sub'[s] = sub[s]
               /\ server'[s] # None /\ server'[s].content = server[s].content
    <2>1. st.rule \in Rule
      BY <1>3 DEF Exposed, Routed, SubStatus
    <2> QED
      BY <1>2, <1>3, <2>1 DEF Exposed
  <1>4. ExposedKnown'
    <2> SUFFICES ASSUME NEW s \in Sub, Known(s)', ReadySub(s)'
                 PROVE  Exposed(s, sub[s].status)'
      BY DEF ExposedKnown
    <2>1. /\ Known(s) /\ ReadySub(s) /\ sub'[s] = sub[s] /\ live # 0 /\ s \notin queue'
          /\ sub'[s].phase = "present"
      BY DEF Known, Busy, ReadySub, Noticed
    <2>2. Exposed(s, sub[s].status) /\ sub[s].status \in SubStatus
      BY <2>1 DEF ExposedInv, ExposedKnown, TypeInv, TypeOK, Subscription
    <2>3. /\ rule'[sub[s].status.rule] = rule[sub[s].status.rule]
          /\ server'[s] # None /\ server'[s].content = server[s].content
      BY <1>3, <2>1, <2>2
    <2> QED
      BY <2>1, <2>2, <2>3 DEF Exposed, Routed, Wanted
  <1>5. ASSUME NEW m \in Manager PROVE Sending(m)' /\ Reusing(m)'
    <2>1. Sending(m) /\ Reusing(m) /\ worker' = worker
      BY DEF ExposedInv, Noticed
    <2> QED
      BY <1>0, <2>1 DEF Sending, Reusing, Patching
  <1>6. ASSUME NEW m \in Manager PROVE Working(m)'
    <2> DEFINE w == worker[m]
               s == w.s
               r == w.content.host
    <2>w. worker' = worker
      BY DEF Noticed
    <2> SUFFICES ASSUME w.pc # "idle", s \notin queue', sub'[s].phase = "present"
                 PROVE  /\ w.pc \in Exposing \cup Backend => w.obj.spec = sub'[s].spec
                        /\ w.pc \in {"previous", "apply"} =>
                             /\ s \in w.owners
                             /\ w.reuse # None /\ s \in w.seen.owners => rule'[w.reuse] = w.seen
                        /\ w.pc \in Backend =>
                             /\ Routed(s, r)' /\ w.content = Wanted(s, r)' /\ w.status.rule = r
                             /\ "APIRule" \in w.status.conditions => rule'[r].ready /\ w.status.sink = r
                        /\ w.pc = "update" /\ w.result = "done" /\ w.status.ready =>
                             Exposed(s, w.status)'
      BY <2>w DEF Working
    <2>0. s \in Sub /\ live # 0 /\ w \in Worker
      BY <1>0 DEF TypeInv, TypeOK
    <2>1. sub'[s] = sub[s] /\ s \notin queue /\ Exists(s) /\ sub[s].phase = "present"
      BY <2>0 DEF Noticed, Exists
    <2>2. /\ w.pc \in Exposing \cup Backend => w.obj.spec = sub[s].spec
          /\ w.pc \in {"previous", "apply"} =>
               s \in w.owners /\ (w.reuse # None /\ s \in w.seen.owners => rule[w.reuse] = w.seen)
          /\ w.pc \in Backend =>
               /\ Routed(s, r) /\ w.content = Wanted(s, r) /\ w.status.rule = r
               /\ "APIRule" \in w.status.conditions => rule[r].ready /\ w.status.sink = r
          /\ w.pc = "update" /\ w.result = "done" /\ w.status.ready => Exposed(s, w.status)
      BY <2>1 DEF ExposedInv, Working
    <2>3. ASSUME w.pc \in {"previous", "apply"}, w.reuse # None, s \in w.seen.owners
          PROVE  rule'[w.reuse] = w.seen
      <3>1. w.reuse \in Rule
        BY <2>0, <2>3 DEF Worker
      <3>2. rule[w.reuse] = w.seen /\ w.seen.state = "present"
        BY <2>2, <2>3 DEF ExposedInv, Reusing
      <3> QED
        BY <2>0, <2>1, <2>3, <3>1, <3>2, RuleStays
    <2>4. ASSUME w.pc \in Backend
          PROVE  /\ Routed(s, r)' /\ w.content = Wanted(s, r)' /\ w.status.rule = r
                 /\ "APIRule" \in w.status.conditions => rule'[r].ready /\ w.status.sink = r
      <3>1. r \in Rule
        BY <2>4 DEF TypeInv, WorkersEquipped, Equipped, Content
      <3>2. rule'[r] = rule[r]
        BY <1>2, <2>0, <2>1, <2>2, <2>4, <3>1
      <3> QED
        BY <2>w, <2>1, <2>2, <2>4, <3>2 DEF Routed, Wanted
    <2>5. ASSUME w.pc = "update", w.result = "done", w.status.ready
          PROVE  Exposed(s, w.status)'
      <3>1. Exposed(s, w.status) /\ w.status \in SubStatus
        BY <2>0, <2>2, <2>5 DEF Worker
      <3>2. /\ rule'[w.status.rule] = rule[w.status.rule]
            /\ server'[s] # None /\ server'[s].content = server[s].content
        BY <1>3, <2>0, <2>1, <3>1
      <3> QED
        BY <2>w, <2>1, <3>1, <3>2 DEF Exposed, Routed, Wanted
    <2> QED
      BY <2>1, <2>2, <2>3, <2>4, <2>5
  <1> QED
    BY <1>1, <1>4, <1>5, <1>6 DEF ExposedInv

\* What the environment keeps to in every step; ServerModified is the only one that
\* touches the content of a subscription on EventMesh.
Stays == Noticed /\ (live # 0 => Told)

ContentStays ==
  \A s \in Sub : server[s] # None => server'[s] # None /\ server'[s].content = server[s].content

\* The resync of the informers.
LEMMA ResyncStays ==
  ASSUME TypeInv, Resync
  PROVE  Stays /\ ContentStays /\ cred <= cred'
  <1>1. UNCHANGED <<sub, rule, server, cred, live, worker>> /\ queue' = {s \in Sub : Exists(s)}
    BY DEF Resync
  <1>2. cred <= cred'
    BY <1>1, AuthTypes
  <1>3. Noticed
    BY <1>1 DEF Noticed, Exists
  <1> QED
    BY <1>1, <1>2, <1>3 DEF Stays, ContentStays, Told

\* A step that changes nothing.
LEMMA StutterStays ==
  ASSUME TypeInv, UNCHANGED vars
  PROVE  Stays /\ ContentStays /\ cred <= cred'
  <1>1. UNCHANGED <<sub, rule, server, cred, live, worker, queue>>
    BY DEF vars
  <1>2. cred <= cred'
    BY <1>1, AuthTypes
  <1>3. Noticed
    BY <1>1 DEF Noticed
  <1> QED
    BY <1>1, <1>2, <1>3 DEF Stays, ContentStays, Told

\* A user writes a Subscription: it is queued.
LEMMA WrittenStays ==
  ASSUME TypeInv, Edit, UNCHANGED cred, NEW s \in Sub, NEW obj, Written(s, obj),
         obj.phase # "new",
         obj.status = sub[s].status \/ (sub[s].phase = "new" /\ obj.status = EmptyStatus)
  PROVE  Stays /\ ContentStays /\ cred <= cred'
  <1>1. /\ UNCHANGED <<rule, server, cred, live, worker>>
        /\ sub' = [sub EXCEPT ![s] = obj] /\ sub \in [Sub -> Subscription]
        /\ live # 0 => queue' = queue \cup {s}
    BY DEF Edit, Written, TypeInv, TypeOK
  <1>2. cred <= cred'
    BY <1>1, AuthTypes
  <1>3. Noticed
    <2> SUFFICES ASSUME NEW t \in Sub
                 PROVE  /\ \/ sub'[t].status = sub[t].status
                           \/ sub[t].phase = "new" /\ sub'[t].status = EmptyStatus
                        /\ sub[t].phase # "new" => sub'[t].phase # "new"
                        /\ live # 0 /\ t \notin queue' /\ sub'[t].phase = "present" =>
                             t \notin queue /\ sub'[t] = sub[t]
                        /\ server'[t] # None => server[t] # None /\ server'[t].auth = server[t].auth
      BY <1>1 DEF Noticed
    <2>1. CASE t = s
      BY <1>1, <2>1
    <2>2. CASE t # s
      BY <1>1, <2>2
    <2> QED
      BY <2>1, <2>2
  <1> QED
    BY <1>1, <1>2, <1>3 DEF Stays, ContentStays, Told

\* Users create, edit and delete Subscriptions.
LEMMA UserStays ==
  ASSUME TypeInv, UserCreates \/ UserEdits \/ UserDeletes
  PROVE  Stays /\ ContentStays /\ cred <= cred'
  <1>1. CASE UserCreates
    <2>1. PICK s \in Sub, spec \in SubSpec :
            sub[s].phase = "new" /\ Written(s, [NewSubscription EXCEPT !.phase = "present", !.spec = spec])
      BY <1>1 DEF UserCreates
    <2>2. /\ [NewSubscription EXCEPT !.phase = "present", !.spec = spec].phase = "present"
          /\ [NewSubscription EXCEPT !.phase = "present", !.spec = spec].status = EmptyStatus
      BY DEF NewSubscription
    <2>3. Edit /\ UNCHANGED cred
      BY <1>1 DEF UserCreates
    <2> QED
      BY <2>1, <2>2, <2>3, WrittenStays
  <1>2. CASE UserEdits
    <2>1. PICK s \in Sub : \E spec \in SubSpec : sub[s].phase = "present" /\ Written(s, [sub[s] EXCEPT !.spec = spec])
      BY <1>2 DEF UserEdits
    <2>2. PICK spec \in SubSpec : sub[s].phase = "present" /\ Written(s, [sub[s] EXCEPT !.spec = spec])
      BY <2>1
    <2>3. /\ [sub[s] EXCEPT !.spec = spec].phase = "present"
          /\ [sub[s] EXCEPT !.spec = spec].status = sub[s].status
      BY <2>2 DEF TypeInv, TypeOK, Subscription
    <2>4. Edit /\ UNCHANGED cred
      BY <1>2 DEF UserEdits
    <2> QED
      BY <2>2, <2>3, <2>4, WrittenStays
  <1>3. CASE UserDeletes
    <2>1. PICK s \in Sub :
            Written(s, [sub[s] EXCEPT !.phase = IF sub[s].finalizer THEN "deleting" ELSE "gone"])
      BY <1>3 DEF UserDeletes
    <2> DEFINE obj == [sub[s] EXCEPT !.phase = IF sub[s].finalizer THEN "deleting" ELSE "gone"]
    <2>2. obj.phase \in {"deleting", "gone"} /\ obj.status = sub[s].status
      BY DEF TypeInv, TypeOK, Subscription
    <2>3. Edit /\ UNCHANGED cred /\ Written(s, obj)
      BY <1>3, <2>1 DEF UserDeletes
    <2> HIDE DEF obj
    <2>4. obj.phase # "new"
      BY <2>2
    <2> QED
      BY <2>2, <2>3, <2>4, WrittenStays
  <1> QED
    BY <1>1, <1>2, <1>3

\* The Secret changes: nobody is told. Only a roll-back goes back.
LEMMA RotateStays ==
  ASSUME TypeInv, RotateCredentials
  PROVE  Stays /\ ContentStays /\ ("rollback" \notin FaultKinds => cred <= cred')
  <1>1. UNCHANGED <<sub, rule, server, live, worker, queue>>
    BY DEF RotateCredentials, Edit
  <1>2. "rollback" \notin FaultKinds => cred' = cred + 1
    BY DEF RotateCredentials
  <1>3. "rollback" \notin FaultKinds => cred <= cred'
    BY <1>2, AuthTypes
  <1>4. Noticed
    BY <1>1 DEF Noticed
  <1> QED
    BY <1>1, <1>3, <1>4 DEF Stays, ContentStays, Told

\* An APIRule changes: its owners are told.
LEMMA GatewayStays ==
  ASSUME TypeInv, GatewayReady \/ GatewayNotReady \/ GarbageCollector
  PROVE  Stays /\ ContentStays /\ cred <= cred'
  <1>1. \E r \in Rule : \E new : RuleChanged(r, new)
    <2>1. CASE GatewayReady
      BY <2>1 DEF GatewayReady
    <2>2. CASE GatewayNotReady
      BY <2>2 DEF GatewayNotReady
    <2>3. CASE GarbageCollector
      BY <2>3 DEF GarbageCollector
    <2> QED
      BY <2>1, <2>2, <2>3
  <1>2. PICK r \in Rule : \E new : RuleChanged(r, new)
    BY <1>1
  <1>3. PICK new : RuleChanged(r, new)
    BY <1>2
  <1>4. /\ rule' = [rule EXCEPT ![r] = new] /\ Enqueue(rule[r].owners)
        /\ UNCHANGED <<sub, server, cred, live, worker>>
    BY <1>3 DEF RuleChanged
  <1>5. queue \subseteq queue'
    BY <1>4 DEF Enqueue
  <1>6. live # 0 => Told
    BY <1>4, EnqueueTells
  <1>7. cred <= cred'
    BY <1>4, AuthTypes
  <1>8. Noticed
    BY <1>4, <1>5 DEF Noticed
  <1> QED
    BY <1>4, <1>6, <1>7, <1>8 DEF Stays, ContentStays

\* EventMesh, or someone there, changes a subscription, never its credentials.
LEMMA ServerChangedStays ==
  ASSUME TypeInv, NEW s \in Sub, NEW new, ServerChanged(s, new), server[s] # None,
         new # None => new.auth = server[s].auth
  PROVE  Stays /\ cred <= cred'
  <1>1. /\ server' = [server EXCEPT ![s] = new] /\ server \in [Sub -> ServerSub \cup {None}]
        /\ UNCHANGED <<sub, rule, cred, live, worker, queue>>
    BY DEF ServerChanged, TypeInv, TypeOK
  <1>2. cred <= cred'
    BY <1>1, AuthTypes
  <1>3. ASSUME NEW t \in Sub
        PROVE  server'[t] # None => server[t] # None /\ server'[t].auth = server[t].auth
    BY <1>1
  <1>4. Noticed
    BY <1>1, <1>3 DEF Noticed
  <1> QED
    BY <1>1, <1>2, <1>4 DEF Stays, Told

\* EventMesh activates a subscription, delivers or fails to.
LEMMA DeliveryStays ==
  ASSUME TypeInv, Activate \/ DeliveryFails \/ DeliverySucceeds
  PROVE  Stays /\ ContentStays /\ cred <= cred'
  <1>0. server \in [Sub -> ServerSub \cup {None}]
    BY DEF TypeInv, TypeOK
  <1>1. PICK s \in Sub : /\ server[s] # None
                         /\ \/ ServerChanged(s, [server[s] EXCEPT !.state = "active"])
                            \/ ServerChanged(s, [server[s] EXCEPT !.failing = TRUE])
                            \/ ServerChanged(s, [server[s] EXCEPT !.failing = FALSE])
    <2>1. CASE Activate
      BY <2>1 DEF Activate
    <2>2. CASE DeliveryFails
      BY <2>2 DEF DeliveryFails
    <2>3. CASE DeliverySucceeds
      BY <2>3 DEF DeliverySucceeds
    <2> QED
      BY <2>1, <2>2, <2>3
  <1>2. ASSUME NEW x \in {[server[s] EXCEPT !.state = "active"],
                          [server[s] EXCEPT !.failing = TRUE], [server[s] EXCEPT !.failing = FALSE]}
        PROVE  x \in ServerSub /\ x.auth = server[s].auth /\ x.content = server[s].content
    BY <1>0, <1>1, <1>2 DEF ServerSub, ServerState
  <1>3. PICK x : /\ ServerChanged(s, x) /\ x \in ServerSub
                 /\ x.auth = server[s].auth /\ x.content = server[s].content
    BY <1>1, <1>2
  <1>4. Stays /\ cred <= cred'
    BY <1>1, <1>3, ServerChangedStays
  <1>5. x # None /\ server' = [server EXCEPT ![s] = x]
    BY <1>3, EMNoneAssumption DEF ServerChanged
  <1>6. ContentStays
    BY <1>0, <1>1, <1>3, <1>5 DEF ContentStays
  <1> QED
    BY <1>4, <1>6

\* Someone changes or deletes a subscription on EventMesh.
LEMMA ServerModifiedStays ==
  ASSUME TypeInv, ServerModified
  PROVE  Stays /\ cred <= cred' /\ "server" \in FaultKinds /\ faults' # faults
  <1>1. PICK s \in Sub, types \in EventTypes, deleted \in BOOLEAN :
          /\ server[s] # None
          /\ Fault("server")
          /\ ServerChanged(s, IF deleted THEN None ELSE [server[s] EXCEPT !.content.types = types])
    BY DEF ServerModified
  <1> DEFINE new == IF deleted THEN None ELSE [server[s] EXCEPT !.content.types = types]
  <1>2. server[s] \in ServerSub
    BY <1>1 DEF TypeInv, TypeOK
  <1>3. new # None => new.auth = server[s].auth
    BY <1>2 DEF ServerSub
  <1> HIDE DEF new
  <1>4. ServerChanged(s, new)
    BY <1>1 DEF new
  <1>5. Stays /\ cred <= cred'
    BY <1>1, <1>3, <1>4, ServerChangedStays
  <1>6. faults' # faults
    BY <1>1 DEF Fault, TypeInv, TypeOK
  <1> QED
    BY <1>1, <1>5, <1>6 DEF Fault

-----------------------------------------------------------------------------
(***************************************************************************)
(* The theorems.                                                           *)
(***************************************************************************)

\* At the beginning nothing runs and no Subscription exists.
LEMMA InitReady ==
  ASSUME Init
  PROVE  BaseInv /\ AuthInv /\ ExposedInv
  <1>1. /\ sub = [s \in Sub |-> NewSubscription] /\ server = [s \in Sub |-> None]
        /\ cred = 1 /\ live = 0 /\ worker = [m \in Manager |-> IdleWorker(1)]
    BY DEF Init
  <1>2. \A m \in Manager : worker[m].pc = "idle" /\ worker[m].status.local = worker[m].status.remote
    BY <1>1, IdleHashes
  <1>3. \A s \in Sub : /\ sub[s].phase = "new" /\ server[s] = None /\ ~ReadySub(s)
                       /\ sub[s].status.local = sub[s].status.remote /\ sub[s].status.auth = None
    BY <1>1 DEF NewSubscription, EmptyStatus, ReadySub
  <1>4. BaseInv
    BY <1>2 DEF BaseInv, OnlyLive, Validating, Creating
  <1>5. Top = 1 /\ Top <= cred
    BY <1>1 DEF Top
  <1>6. AuthInv
    BY <1>2, <1>3, <1>5 DEF AuthInv, AuthOrder, AuthKnown, Signing, Behind
  <1>7. ExposedInv
    BY <1>2, <1>3 DEF ExposedInv, SameHashes, ExposedKnown, Sending, Reusing, Working, Patching
  <1> QED
    BY <1>4, <1>6, <1>7

\* What a step outside the worker and the manager does to the invariants.
LEMMA OutsideGood ==
  ASSUME TypeInv, TypeInv', BaseInv, Resync \/ Environment \/ UNCHANGED vars
  PROVE  /\ BaseInv'
         /\ "rollback" \notin FaultKinds => (AuthInv => AuthInv')
         /\ "server" \notin FaultKinds \/ faults' = faults => (ExposedInv => ExposedInv')
  <1>1. /\ Stays /\ ("rollback" \notin FaultKinds => cred <= cred')
        /\ "server" \notin FaultKinds \/ faults' = faults => ContentStays
    BY ResyncStays, StutterStays, UserStays, RotateStays, GatewayStays, DeliveryStays,
       ServerModifiedStays DEF Environment
  <1>2. Noticed /\ (live # 0 => Told)
    BY <1>1 DEF Stays
  <1>3. BaseInv' /\ (AuthInv /\ cred <= cred' => AuthInv')
    BY <1>2, NoticedSafe
  <1>4. ContentStays => (ExposedInv => ExposedInv')
    BY <1>2, NoticedExposed DEF ContentStays
  <1> QED
    BY <1>1, <1>3, <1>4

\* Every step, as long as busy managers are not stopped.
LEMMA NextReady ==
  ASSUME ~StopsBusy, TypeInv, TypeInv', BaseInv, [Next]_vars
  PROVE  /\ BaseInv'
         /\ "rollback" \notin FaultKinds => (AuthInv => AuthInv')
         /\ "server" \notin FaultKinds \/ faults' = faults => (ExposedInv => ExposedInv')
  <1>1. ASSUME NEW m \in Manager, WorkerStep(m) PROVE Good
    BY <1>1, WorkerGood
  <1>2. ASSUME NEW m \in Manager, MarkAllAsNotReady(m) \/ CleanupEventMesh(m) PROVE Good
    BY <1>2, MarkGood, CleanupGood
  <1>3. CASE Start \/ Crash
    BY <1>3, StartGood, CrashGood DEF Good
  <1>4. CASE Resync \/ Environment \/ UNCHANGED vars
    BY <1>4, OutsideGood
  <1>5. CASE \E m \in Manager : WorkerStep(m) \/ MarkAllAsNotReady(m) \/ CleanupEventMesh(m)
    BY <1>1, <1>2, <1>5 DEF Good
  <1> QED
    BY <1>3, <1>4, <1>5 DEF Next

\* The invariants of the credentials hold.
LEMMA AuthInductive ==
  ASSUME ~StopsBusy, "rollback" \notin FaultKinds
  PROVE  Spec => [](TypeInv /\ BaseInv /\ AuthInv)
  <1>1. Init => BaseInv /\ AuthInv
    BY InitReady
  <1>2. IInv /\ IInv' /\ BaseInv /\ AuthInv /\ [Next]_vars => BaseInv' /\ AuthInv'
    BY NextReady DEF IInv
  <1>3. IInv => TypeInv
    BY DEF IInv
  <1> QED
    BY <1>1, <1>2, <1>3, Inductive, PTL DEF Spec

\* The invariants of the exposure hold.
LEMMA ExposedInductive ==
  ASSUME ~StopsBusy, "server" \notin FaultKinds
  PROVE  Spec => [](TypeInv /\ BaseInv /\ ExposedInv)
  <1>1. Init => BaseInv /\ ExposedInv
    BY InitReady
  <1>2. IInv /\ IInv' /\ BaseInv /\ ExposedInv /\ [Next]_vars => BaseInv' /\ ExposedInv'
    BY NextReady DEF IInv
  <1>3. IInv => TypeInv
    BY DEF IInv
  <1> QED
    BY <1>1, <1>2, <1>3, Inductive, PTL DEF Spec

\* Once the controller has settled, EventMesh calls the webhook of a ready
\* Subscription with the credentials the running manager was started with
\* (reconciler.go syncEventMeshSubscription, eventmesh.go
\* handleWebhookAuthChange), whatever requests failed or were lost on the way,
\* provided that managers are stopped idle and the Secret never goes back to
\* former credentials.
THEOREM ReadyAuth ==
  ASSUME ~StopsBusy, "rollback" \notin FaultKinds
  PROVE  Spec => []ReadyMeansCurrentAuth
  <1>1. TypeInv /\ BaseInv /\ AuthInv => ReadyMeansCurrentAuth
    <2> SUFFICES ASSUME TypeInv, BaseInv, AuthInv, Settled, NEW s \in Sub, ReadySub(s), server[s] # None
                 PROVE  server[s].auth = worker[live].auth /\ sub[s].status.auth = server[s].auth
      BY DEF ReadyMeansCurrentAuth
    <2>1. live \in Manager /\ live # 0
      BY DEF Settled, TypeInv, TypeOK
    <2>2. Known(s)
      BY <2>1 DEF Settled, Known, Busy
    <2>3. sub[s].status.auth = worker[live].auth /\ Top = worker[live].auth
      BY <2>1, <2>2 DEF AuthInv, AuthKnown, Top
    <2>4. server[s].auth <= Top /\ Behind(sub[s].status, s)
      BY DEF AuthInv, AuthOrder
    <2>5. worker[live].auth \in Nat /\ worker[live].auth # None /\ server[s].auth \in Nat
      BY <2>1, AuthTypes
    <2>6. worker[live].auth <= server[s].auth
      BY <2>3, <2>4, <2>5 DEF Behind
    <2> QED
      BY <2>3, <2>4, <2>5, <2>6
  <1> QED
    BY <1>1, AuthInductive, PTL

\* Once the controller has settled, a ready Subscription is exposed: the APIRule
\* its status names exists, is ready, belongs to the Service of the sink and
\* carries owner and path, and EventMesh posts the event types of the spec to it
\* (reconciler.go syncAPIRule, handlePreviousAPIRule; eventmesh.go
\* SyncSubscription), whatever Subscriptions share that APIRule and whatever
\* requests failed, provided that managers are stopped idle and nobody else
\* changes subscriptions on EventMesh.
THEOREM ReadyExposed ==
  ASSUME ~StopsBusy, "server" \notin FaultKinds
  PROVE  Spec => []ReadyMeansExposed
  <1>1. TypeInv /\ BaseInv /\ ExposedInv => ReadyMeansExposed
    <2> SUFFICES ASSUME TypeInv, ExposedInv, Settled, NEW s \in Sub, ReadySub(s)
                 PROVE  LET r == sub[s].status.rule IN
                        /\ r # None /\ sub[s].status.sink = r
                        /\ rule[r].state = "present" /\ rule[r].ready /\ rule[r].svc = sub[s].spec.svc
                        /\ s \in rule[r].owners \cap rule[r].paths
                        /\ server[s] # None
                        /\ server[s].content = [host |-> r, path |-> TRUE, types |-> sub[s].spec.types]
      BY DEF ReadyMeansExposed
    <2>1. Known(s)
      BY DEF Settled, Known, Busy, TypeInv, TypeOK
    <2>2. Exposed(s, sub[s].status)
      BY <2>1 DEF ExposedInv, ExposedKnown
    <2> QED
      BY <2>2 DEF Exposed, Routed, Wanted
  <1> QED
    BY <1>1, ExposedInductive, PTL

=============================================================================
