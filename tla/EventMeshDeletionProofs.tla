----------------------- MODULE EventMeshDeletionProofs -----------------------
(***************************************************************************)
(* No subscription on EventMesh is deleted needlessly, proved for every    *)
(* set of Subscriptions, Services and event types and all bounds, as long  *)
(* as no manager is stopped while its worker is busy.                      *)
(***************************************************************************)
EXTENDS EventMeshReadyProofs

-----------------------------------------------------------------------------
(***************************************************************************)
(* The invariant. As long as nothing has failed, the hash in the status is *)
(* that of what is on EventMesh.                                           *)
(***************************************************************************)

\* What was never created is not on EventMesh, and no worker has it.
Untouched ==
  \A s \in Sub : sub[s].phase = "new" =>
    server[s] = None /\ \A m \in Manager : worker[m].pc # "idle" => worker[m].s # s

\* The status holds the hash of the subscription on EventMesh, except while the
\* worker has a newer one to write.
Recorded ==
  \A s \in Sub :
    /\ Exists(s) /\ server[s] # None
    /\ Busy(s) => worker[live].pc \in {"validation", "finalizer"}
    => sub[s].status.local = server[s].content

\* So does the copy of the worker, up to the subscription it has just created; it
\* has decided to delete only what differs from what is asked for.
Recalls(m) ==
  LET w == worker[m] IN
  w.pc # "idle" /\ server[w.s] # None =>
    /\ w.pc # "getCreated" => w.status.local = server[w.s].content
    /\ w.pc = "recreate" => server[w.s].content # w.content

Kept == Untouched /\ Recorded /\ \A m \in Manager : Recalls(m)

KeptInv == faults = 0 => ExposedInv /\ Kept

-----------------------------------------------------------------------------
(***************************************************************************)
(* Failures are counted.                                                   *)
(***************************************************************************)

Counted == faults' = faults \/ faults' = faults + 1

\* No step takes a failure back.
LEMMA FaultsCounted ==
  ASSUME [Next]_vars
  PROVE  Counted
  <1>0. \A kind : Fault(kind) => Counted
    BY DEF Fault, Counted
  <1>1. ASSUME NEW m \in Manager, APIFails(m) PROVE Counted
    BY <1>0, <1>1 DEF APIFails, Counted
  <1>2. ASSUME NEW m \in Manager, NEW owners, Refused(m, owners) PROVE Counted
    BY <1>1, <1>2 DEF Refused, Counted
  <1>3. ASSUME NEW m \in Manager, NEW s, NEW effect, CallFails(m, s, effect) PROVE Counted
    BY <1>0, <1>3 DEF CallFails
  <1>4. ASSUME NEW m \in Manager, Reconcile(m) \/ UpdateInvalidStatus(m) PROVE Counted
    BY <1>0, <1>1, <1>4 DEF Reconcile, ReconcileNothing, ReconcileDeletion, ReconcileInvalid,
       ReconcileValid, UpdateInvalidStatus, Counted
  <1>5. ASSUME NEW m \in Manager, ListAPIRules(m) \/ HandlePreviousAPIRule(m)
        PROVE  Counted
    BY <1>1, <1>2, <1>5 DEF ListAPIRules, HandlePreviousAPIRule, ReleaseAPIRule, Counted
  <1>6. ASSUME NEW m \in Manager, CreateAPIRule(m) \/ UpdateAPIRule(m)
        PROVE  Counted
    BY <1>0, <1>2, <1>6 DEF CreateAPIRule, UpdateAPIRule, Counted
  <1>7. ASSUME NEW m \in Manager, DeleteModified(m) \/ GetSubscription(m)
        PROVE  Counted
    BY <1>0, <1>3, <1>7 DEF DeleteModified, GetSubscription, Counted
  <1>8. ASSUME NEW m \in Manager, Pause(m) \/ UpdateAuth(m) \/ Resume(m)
        PROVE  Counted
    BY <1>3, <1>8 DEF Pause, UpdateAuth, Resume, WebhookAuthRequest, Counted
  <1>9. ASSUME NEW m \in Manager, CreateSubscription(m) \/ GetCreated(m) \/ DeleteSubscription(m)
        PROVE  Counted
    BY <1>0, <1>3, <1>9 DEF CreateSubscription, GetCreated, DeleteSubscription, Counted
  <1>10. ASSUME NEW m \in Manager, UpdateSubscription(m) \/ UpdateFinalizers(m)
         PROVE  Counted
    BY <1>1, <1>10 DEF UpdateSubscription, UpdateFinalizers, Counted
  <1>11. ASSUME NEW m \in Manager, MarkAllAsNotReady(m) \/ CleanupEventMesh(m)
         PROVE  Counted
    BY <1>0, <1>11 DEF MarkAllAsNotReady, CleanupEventMesh, Counted
  <1>12. CASE Start \/ Crash \/ Resync \/ UNCHANGED vars
    BY <1>0, <1>12 DEF Start, Crash, Resync, vars, Counted
  <1>13. CASE Environment
    BY <1>0, <1>13 DEF Environment, UserCreates, UserEdits, UserDeletes, RotateCredentials, Edit,
       GatewayReady, GatewayNotReady, GarbageCollector, Activate, DeliveryFails,
       DeliverySucceeds, ServerModified, Counted
  <1>14. ASSUME NEW m \in Manager, WorkerStep(m) PROVE Counted
    BY <1>4, <1>5, <1>6, <1>7, <1>8, <1>9, <1>10, <1>14 DEF WorkerStep
  <1> QED
    BY <1>11, <1>12, <1>13, <1>14 DEF Next

\* A step without a failure.
LEMMA NoFailure ==
  ASSUME TypeInv, faults' = faults
  PROVE  (\A kind : ~Fault(kind)) /\ ~APIFails(live)
  BY DEF Fault, APIFails, TypeInv, TypeOK

-----------------------------------------------------------------------------
(***************************************************************************)
(* The worker.                                                             *)
(***************************************************************************)

\* The worker of m, which runs, works on s and on nothing else.
Alone(m, s) ==
  /\ live = m /\ live' = m
  /\ \A t \in Sub : t # s => server'[t] = server[t] /\ sub'[t] = sub[t]
  /\ \A k \in Manager : k # m => worker'[k] = worker[k]
  /\ worker[m].pc # "idle" => worker[m].s = s
  /\ worker'[m].pc # "idle" => worker'[m].s = s

\* It has to see to s only.
LEMMA KeptStep ==
  ASSUME TypeInv, BaseInv', Kept, NEW m \in Manager, NEW s \in Sub, Alone(m, s), Recalls(m)',
         sub'[s].phase # "new" \/ (server'[s] = None /\ worker'[m].pc = "idle"),
         /\ Exists(s)' /\ server'[s] # None
         /\ worker'[m].pc \in {"idle", "validation", "finalizer"}
         => sub'[s].status.local = server'[s].content
  PROVE  Kept'
  <1>0. live = m /\ live' = m /\ live # 0
    BY DEF Alone, Manager
  <1>1. \A k \in Manager : k # m => worker'[k].pc = "idle"
    BY <1>0 DEF BaseInv, OnlyLive
  <1>2. Untouched'
    BY <1>1 DEF Untouched, Kept, Alone
  <1>3. Recorded'
    <2> SUFFICES ASSUME NEW t \in Sub, Exists(t)', server'[t] # None,
                        Busy(t)' => worker'[live'].pc \in {"validation", "finalizer"}
                 PROVE  sub'[t].status.local = server'[t].content
      BY DEF Recorded
    <2>1. CASE t = s
      BY <1>0, <2>1 DEF Busy, Alone
    <2>2. CASE t # s
      <3>1. /\ server'[t] = server[t] /\ sub'[t] = sub[t] /\ ~Busy(t) /\ Exists(t)
        BY <1>0, <2>2 DEF Alone, Busy, Exists
      <3> QED
        BY <3>1 DEF Kept, Recorded
    <2> QED
      BY <2>1, <2>2
  <1>4. \A k \in Manager : Recalls(k)'
    BY <1>1 DEF Recalls
  <1> QED
    BY <1>2, <1>3, <1>4 DEF Kept

\* In the middle of a Reconcile.
LEMMA MiddleKept ==
  ASSUME TypeInv, BaseInv, BaseInv', Kept, NEW m \in Manager, worker[m].pc # "idle", Keeps(m),
         UNCHANGED <<sub, live>>, \A t \in Sub : t # worker[m].s => server'[t] = server[t],
         worker'[m].pc \notin {"idle", "validation", "finalizer"}, Recalls(m)'
  PROVE  Kept'
  <1>1. worker[m].s \in Sub /\ live = m
    BY DEF TypeInv, WorkersEquipped, Equipped, BaseInv, OnlyLive
  <1>2. PICK s \in Sub : worker[m].s = s
    BY <1>1
  <1>3. Alone(m, s)
    BY <1>1, <1>2 DEF Alone, Keeps
  <1>4. sub'[s].phase # "new"
    BY <1>2 DEF Kept, Untouched
  <1> QED
    BY <1>3, <1>4, KeptStep

\* A step of syncAPIRule, or one that fails: hashes and EventMesh stay.
LEMMA HashesKept ==
  ASSUME TypeInv, BaseInv, BaseInv', Kept, NEW m \in Manager,
         worker[m].pc \notin {"idle", "getCreated"}, Keeps(m), HashesStay(m),
         UNCHANGED <<sub, live, server>>,
         worker'[m].pc \notin {"idle", "validation", "finalizer"},
         worker'[m].pc = "recreate" => worker'[m].status.local # worker'[m].content
  PROVE  Kept'
  <1>1. Recalls(m)
    BY DEF Kept
  <1>2. Recalls(m)'
    BY <1>1 DEF Recalls, Keeps, HashesStay
  <1> QED
    BY <1>2, MiddleKept

\* The APIRule.
LEMMA APIRuleKept ==
  ASSUME TypeInv, BaseInv, BaseInv', Kept, NEW m \in Manager,
         \/ ListAPIRules(m) \/ HandlePreviousAPIRule(m) \/ CreateAPIRule(m) \/ UpdateAPIRule(m)
  PROVE  Kept'
  <1>0. /\ worker[m].pc \in {"list", "previous", "apply"} /\ UNCHANGED <<sub, live, server>>
        /\ worker \in [Manager -> Worker] /\ worker[m] \in Worker /\ rule \in [Rule -> APIRule]
    BY DEF ListAPIRules, HandlePreviousAPIRule, CreateAPIRule, UpdateAPIRule, TypeInv, TypeOK
  <1>1. CASE APIRuleError(m)
    <2>1. Failing(m)
      BY <1>1, APIRuleErrorFails
    <2> QED
      BY <1>0, <2>1, HashesKept DEF Failing
  <1>2. CASE Goto(m, "apply")
    <2>1. Keeps(m) /\ worker'[m].pc = "apply" /\ worker'[m].status = worker[m].status
      BY <1>2, GotoKeeps DEF Step
    <2> QED
      BY <1>0, <2>1, HashesKept DEF HashesStay
  <1>3. ASSUME NEW r, NEW seen, NEW owners,
               worker' = [worker EXCEPT ![m].pc = "previous", ![m].reuse = r,
                            ![m].seen = seen, ![m].owners = owners]
        PROVE  Kept'
    <2> DEFINE new == [worker[m] EXCEPT !.pc = "previous", !.reuse = r, !.seen = seen, !.owners = owners]
    <2>1. worker' = [worker EXCEPT ![m] = new]
      BY <1>3
    <2>2. /\ new.pc = "previous" /\ new.s = worker[m].s /\ new.auth = worker[m].auth
          /\ new.obj = worker[m].obj /\ new.status = worker[m].status
      BY <1>0 DEF Worker
    <2> HIDE DEF new
    <2>3. Keeps(m) /\ HashesStay(m) /\ worker'[m].pc = "previous"
      BY <1>0, <2>1, <2>2 DEF Keeps, HashesStay
    <2> QED
      BY <1>0, <2>3, HashesKept
  <1>4. ASSUME worker[m].pc = "apply", NEW r \in Rule, NEW ready \in BOOLEAN, APIRuleSynced(m, r, ready)
        PROVE  Kept'
    <2>1. worker[m].pc = "apply" /\ APIRuleSynced(m, r, ready)
      BY <1>4
    <2>2. /\ Keeps(m) /\ HashesStay(m) /\ worker'[m].pc \in {"recreate", "get"}
          /\ worker'[m].pc = "get" => worker'[m].status.local = worker'[m].content
          /\ worker'[m].pc = "recreate" => worker'[m].status.local # worker'[m].content
          /\ worker'[m].content =
               [host |-> r, path |-> worker[m].s \in worker[m].owners, types |-> worker[m].obj.spec.types]
          /\ worker'[m].status.rule = r
          /\ "APIRule" \in worker'[m].status.conditions => ready /\ worker'[m].status.sink = r
      BY <2>1, APIRuleSyncedKeeps
    <2> QED
      BY <1>0, <2>2, HashesKept
  <1>5. CASE ListAPIRules(m)
    <2>1. APIRuleError(m) \/ \E r, seen, owners :
            worker' = [worker EXCEPT ![m].pc = "previous", ![m].reuse = r,
                         ![m].seen = seen, ![m].owners = owners]
      BY <1>5, Zenon DEF ListAPIRules
    <2> QED
      BY <1>1, <1>3, <2>1
  <1>6. CASE HandlePreviousAPIRule(m)
    BY <1>1, <1>2, <1>6 DEF HandlePreviousAPIRule, ReleaseAPIRule
  <1>7. CASE CreateAPIRule(m)
    BY <1>1, <1>4, <1>7 DEF CreateAPIRule
  <1>8. CASE UpdateAPIRule(m)
    <2>1. worker[m].reuse \in Rule /\ worker[m].seen.ready \in BOOLEAN /\ worker[m].pc = "apply"
      BY <1>0, <1>8 DEF UpdateAPIRule, Worker, APIRule
    <2> QED
      BY <1>1, <1>4, <1>8, <2>1 DEF UpdateAPIRule
  <1> QED
    BY <1>5, <1>6, <1>7, <1>8

\* SyncSubscription has succeeded with what is on EventMesh.
LEMMA SyncedKept ==
  ASSUME TypeInv, BaseInv, BaseInv', Kept, NEW m \in Manager, worker[m].pc \in Backend,
         NEW got \in ServerSub, Synced(m, got), UNCHANGED <<sub, live>>,
         \A t \in Sub : t # worker[m].s => server'[t] = server[t],
         server'[worker[m].s] # None => server'[worker[m].s].content = worker[m].content
  PROVE  Kept'
  <1>1. Succeeding(m, got) /\ worker[m].pc # "idle"
    BY SyncedSucceeds DEF Backend
  <1>2. Recalls(m)'
    BY <1>1 DEF Succeeding, Recalls, Keeps
  <1> QED
    BY <1>1, <1>2, MiddleKept DEF Succeeding

\* The backend: what it deletes differs from what is asked for.
LEMMA BackendKept ==
  ASSUME TypeInv, BaseInv, BaseInv', ExposedInv, Kept, faults' = faults, NEW m \in Manager,
         \/ DeleteModified(m) \/ GetSubscription(m) \/ CreateSubscription(m) \/ GetCreated(m)
  PROVE  Kept'
  <1> DEFINE s == worker[m].s
             got == server[s]
  <1>0. /\ worker[m].pc \in {"recreate", "get", "create", "getCreated"}
        /\ worker[m].pc # "idle" /\ worker[m].pc \in Backend /\ UNCHANGED <<sub, live>>
    BY DEF DeleteModified, GetSubscription, CreateSubscription, GetCreated, Backend
  <1>s. /\ s \in Sub /\ server \in [Sub -> ServerSub \cup {None}]
        /\ worker \in [Manager -> Worker] /\ worker[m] \in Worker
    BY <1>0 DEF TypeInv, TypeOK, WorkersEquipped, Equipped
  <1>f. (\A kind : ~Fault(kind)) /\ \A effect : ~CallFails(m, s, effect)
    BY NoFailure DEF CallFails
  <1>h. Recalls(m) /\ Sending(m) /\ worker[m].status.local = worker[m].status.remote
    BY DEF Kept, ExposedInv, SameHashes
  <1>1. CASE DeleteModified(m)
    <2>1. server' = [server EXCEPT ![s] = None] /\ Goto(m, "create")
      BY <1>f, <1>1 DEF DeleteModified
    <2>2. Keeps(m) /\ worker'[m].pc = "create"
      BY <2>1, GotoKeeps DEF Step
    <2>3. Recalls(m)'
      BY <1>s, <2>1, <2>2 DEF Recalls, Keeps
    <2> QED
      BY <1>0, <1>s, <2>1, <2>2, <2>3, MiddleKept
  <1>2. CASE GetSubscription(m)
    <2>0. worker[m].pc = "get" /\ UNCHANGED server /\ worker[m].status.local = worker[m].content
          /\ (got # None => got \in ServerSub /\ got.content = worker[m].content)
      BY <1>s, <1>h, <1>2 DEF GetSubscription, Sending, Recalls
    <2>1. CASE Goto(m, "create")
      <3>1. Keeps(m) /\ worker'[m].pc = "create" /\ worker'[m].status = worker[m].status
        BY <2>1, GotoKeeps DEF Step
      <3> QED
        BY <1>0, <2>0, <3>1, HashesKept DEF HashesStay
    <2>2. ~(got # None /\ EventMeshSubModified(worker[m].status, got))
      BY <1>h, <2>0 DEF EventMeshSubModified
    <2>3. CASE got # None /\ worker' = [worker EXCEPT ![m].pc = "pause", ![m].got = got]
      <3> DEFINE new == [worker[m] EXCEPT !.pc = "pause", !.got = got]
      <3>1. worker' = [worker EXCEPT ![m] = new]
        BY <2>3
      <3>2. /\ new.pc = "pause" /\ new.s = worker[m].s /\ new.auth = worker[m].auth
            /\ new.obj = worker[m].obj /\ new.status = worker[m].status
        BY <1>s DEF Worker
      <3> HIDE DEF new
      <3>3. Keeps(m) /\ HashesStay(m) /\ worker'[m].pc = "pause"
        BY <1>s, <3>1, <3>2 DEF Keeps, HashesStay
      <3> QED
        BY <1>0, <2>0, <3>3, HashesKept
    <2>4. CASE got # None /\ Synced(m, got)
      BY <1>0, <1>s, <2>0, <2>4, SyncedKept
    <2> QED
      BY <1>f, <1>2, <2>1, <2>2, <2>3, <2>4 DEF GetSubscription
  <1>3. CASE CreateSubscription(m)
    <2>1. PICK new : server' = [server EXCEPT ![s] = new] /\ Goto(m, "getCreated")
      BY <1>f, <1>3 DEF CreateSubscription
    <2>2. Keeps(m) /\ worker'[m].pc = "getCreated"
      BY <2>1, GotoKeeps DEF Step
    <2>3. Recalls(m)'
      BY <2>2 DEF Recalls
    <2> QED
      BY <1>0, <1>s, <2>1, <2>2, <2>3, MiddleKept
  <1>4. CASE GetCreated(m)
    <2>1. /\ worker[m].pc = "getCreated" /\ UNCHANGED server
          /\ got # None /\ got.content = worker[m].content /\ got \in ServerSub
      BY <1>s, <1>h, <1>4 DEF GetCreated, Sending
    <2>2. Synced(m, got)
      BY <1>f, <1>4, <2>1 DEF GetCreated
    <2> QED
      BY <1>0, <1>s, <2>1, <2>2, SyncedKept
  <1> QED
    BY <1>1, <1>2, <1>3, <1>4

\* handleWebhookAuthChange does not touch the content.
LEMMA WebhookAuthKept ==
  ASSUME TypeInv, BaseInv, BaseInv', ExposedInv, Kept, faults' = faults, NEW m \in Manager,
         Pause(m) \/ UpdateAuth(m) \/ Resume(m)
  PROVE  Kept'
  <1> DEFINE s == worker[m].s
             x == server[s]
  <1>0. /\ worker[m].pc \in Patching /\ worker[m].pc # "idle" /\ worker[m].pc \in Backend
        /\ UNCHANGED <<sub, live>>
    BY DEF Pause, UpdateAuth, Resume, WebhookAuthRequest, Patching, Backend
  <1>s. /\ s \in Sub /\ server \in [Sub -> ServerSub \cup {None}] /\ worker[m].got \in ServerSub
    BY <1>0 DEF TypeInv, TypeOK, WorkersEquipped, Equipped, Patching
  <1>f. \A effect : ~CallFails(m, s, effect)
    BY NoFailure DEF CallFails
  <1>h. /\ x # None /\ x \in ServerSub /\ x.content = worker[m].content
        /\ worker[m].status.local = x.content
    BY <1>0, <1>s DEF ExposedInv, Sending, Kept, Recalls, Patching
  <1>1. ASSUME NEW step, NEW effect, NEW next \in {"update", "updateAuth", "resume"},
               WebhookAuthRequest(m, step, effect, next), effect.content = x.content
        PROVE  Kept'
    <2>1. /\ server' = [server EXCEPT ![s] = effect]
          /\ IF next = "update" THEN Synced(m, worker[m].got) ELSE Goto(m, next)
      BY <1>f, <1>h, <1>1 DEF WebhookAuthRequest
    <2>2. server'[s] = effect /\ \A t \in Sub : t # s => server'[t] = server[t]
      BY <1>s, <2>1
    <2>3. CASE next = "update"
      BY <1>0, <1>s, <1>h, <1>1, <2>1, <2>2, <2>3, SyncedKept
    <2>4. CASE next # "update"
      <3>1. Keeps(m) /\ worker'[m].pc = next /\ worker'[m].status = worker[m].status
        BY <2>1, <2>4, GotoKeeps DEF Step
      <3>2. Recalls(m)'
        BY <1>h, <1>1, <2>2, <2>4, <3>1 DEF Recalls, Keeps
      <3> QED
        BY <1>0, <2>2, <2>4, <3>1, <3>2, MiddleKept
    <2> QED
      BY <2>3, <2>4
  <1>2. /\ [x EXCEPT !.state = "paused"].content = x.content
        /\ [x EXCEPT !.auth = worker[m].auth].content = x.content
        /\ [x EXCEPT !.state = "pending"].content = x.content
    BY <1>h DEF ServerSub
  <1> QED
    BY <1>1, <1>2 DEF Pause, UpdateAuth, Resume

\* A request leaves the queue: the copy has the hash of the status.
LEMMA FetchKept ==
  ASSUME TypeInv, BaseInv', Kept, NEW m \in Manager, NEW s \in Sub,
         NEW step \in {"idle", "delete", "validation", "list"}, NEW st, NEW finalizer,
         Fetch(m, s, step, st, finalizer),
         step # "idle" => Exists(s) /\ st.local = sub[s].status.local
  PROVE  Kept'
  <1> DEFINE name == IF step = "idle" THEN None ELSE s
             obj == IF step = "idle" THEN NewSubscription ELSE sub[s]
             new == [worker[m] EXCEPT !.pc = step, !.s = name, !.obj = obj, !.status = st,
                       !.finalizer = finalizer]
  <1>0. /\ live = m /\ live' = m /\ live # 0 /\ worker[m].pc = "idle" /\ UNCHANGED <<sub, server>>
        /\ worker \in [Manager -> Worker] /\ worker[m] \in Worker
    BY DEF Fetch, Manager, TypeInv, TypeOK
  <1>1. worker' = [worker EXCEPT ![m] = new]
    BY DEF Fetch
  <1> HIDE DEF name, obj
  <1>2. new.pc = step /\ new.s = name /\ new.status = st
    BY <1>0 DEF Worker
  <1> HIDE DEF new
  <1>3. worker'[m] = new /\ \A k \in Manager : k # m => worker'[k] = worker[k]
    BY <1>0, <1>1
  <1>4. Alone(m, s)
    BY <1>0, <1>2, <1>3 DEF Alone, name
  <1>5. Exists(s) /\ server[s] # None => sub[s].status.local = server[s].content
    BY <1>0 DEF Kept, Recorded, Busy
  <1>6. Recalls(m)'
    BY <1>0, <1>2, <1>3, <1>5 DEF Recalls, name
  <1>7. sub'[s].phase # "new" \/ (server'[s] = None /\ worker'[m].pc = "idle")
    BY <1>0, <1>2, <1>3 DEF Exists, Kept, Untouched
  <1>8. Exists(s)' => Exists(s)
    BY <1>0 DEF Exists
  <1> QED
    BY <1>0, <1>4, <1>5, <1>6, <1>7, <1>8, KeptStep

\* Reconcile, up to its first call.
LEMMA ReconcileKept ==
  ASSUME TypeInv, BaseInv', Kept, NEW m \in Manager, Reconcile(m)
  PROVE  Kept'
  <1>1. PICK s \in Sub : \/ ReconcileNothing(m, s) \/ ReconcileDeletion(m, s)
                         \/ ReconcileInvalid(m, s) \/ ReconcileValid(m, s)
    BY DEF Reconcile
  <1> DEFINE st == sub[s].status
             first == SyncInitialStatus(st)
  <1>2. st \in SubStatus /\ first \in SubStatus
    BY SyncInitialStatusType DEF TypeInv, TypeOK, Subscription
  <1>3. first.local = st.local
    BY <1>2, SyncInitialStatusKeeps
  <1> HIDE DEF first
  <1>c. "SpecValid" \in ConditionType
    BY DEF ConditionType
  <1>4. CASE ReconcileNothing(m, s)
    BY <1>4, FetchKept DEF ReconcileNothing
  <1>5. CASE ReconcileDeletion(m, s)
    BY <1>5, FetchKept DEF ReconcileDeletion, Exists
  <1>6. CASE ReconcileInvalid(m, s)
    <2> DEFINE x == SetCondition(first, "SpecValid", FALSE)
               y == [x EXCEPT !.ready = FALSE]
    <2>1. Alike(x, first)
      BY <1>2, <1>c, SetConditionKeeps
    <2>2. x \in SubStatus
      BY <1>2, <1>c, StatusTypes
    <2>3. Fetch(m, s, "validation", y, TRUE) /\ Exists(s)
      BY <1>6 DEF ReconcileInvalid, first, Exists
    <2> HIDE DEF x
    <2>4. y.local = x.local
      BY <2>2 DEF SubStatus
    <2> HIDE DEF y
    <2> QED
      BY <1>3, <2>1, <2>3, <2>4, FetchKept DEF Alike
  <1>7. CASE ReconcileValid(m, s)
    <2> DEFINE x == SetCondition(first, "SpecValid", TRUE)
    <2>1. Alike(x, first)
      BY <1>2, <1>c, SetConditionKeeps
    <2>2. Fetch(m, s, "list", x, TRUE) /\ Exists(s)
      BY <1>7 DEF ReconcileValid, first, Exists
    <2> HIDE DEF x
    <2> QED
      BY <1>3, <2>1, <2>2, FetchKept DEF Alike
  <1> QED
    BY <1>1, <1>4, <1>5, <1>6, <1>7

\* Reconcile returns: what is in the status now has to be right.
LEMMA ReturnKept ==
  ASSUME TypeInv, BaseInv, BaseInv', Kept, NEW m \in Manager, worker[m].pc # "idle",
         NEW s \in Sub, worker[m].s = s, NEW again \in BOOLEAN, Return(m, again),
         UNCHANGED <<server, live>>, \A t \in Sub : t # s => sub'[t] = sub[t],
         sub'[s].phase \in {sub[s].phase, "gone"},
         Exists(s)' /\ server[s] # None => sub'[s].status.local = server[s].content
  PROVE  Kept'
  <1>0. live = m
    BY DEF BaseInv, OnlyLive
  <1>1. worker'[m].pc = "idle" /\ \A k \in Manager : k # m => worker'[k] = worker[k]
    BY <1>0, ReturnLeaves
  <1>2. Alone(m, s)
    BY <1>0, <1>1 DEF Alone
  <1>3. Recalls(m)'
    BY <1>1 DEF Recalls
  <1>4. sub'[s].phase # "new"
    BY DEF Kept, Untouched
  <1> QED
    BY <1>2, <1>3, <1>4, KeptStep

\* updateStatus of an invalid Subscription.
LEMMA UpdateInvalidStatusKept ==
  ASSUME TypeInv, BaseInv, BaseInv', Kept, NEW m \in Manager, UpdateInvalidStatus(m)
  PROVE  Kept'
  <1>0. /\ worker[m].pc = "validation" /\ worker[m].pc # "idle" /\ worker[m].s \in Sub
        /\ UNCHANGED <<server, live>> /\ sub \in [Sub -> Subscription]
    BY DEF UpdateInvalidStatus, TypeInv, TypeOK, WorkersEquipped, Equipped
  <1> PICK s \in Sub : worker[m].s = s
    BY <1>0
  <1>1. live = m /\ Recalls(m)
    BY <1>0 DEF BaseInv, OnlyLive, Kept
  <1>2. /\ server[s] # None => worker[m].status.local = server[s].content
        /\ Exists(s) /\ server[s] # None => sub[s].status.local = server[s].content
    BY <1>0, <1>1 DEF Recalls, Kept, Recorded, Busy
  <1>3. \E again \in BOOLEAN : Return(m, again)
    BY DEF UpdateInvalidStatus
  <1>4. UNCHANGED sub \/ sub' = [sub EXCEPT ![s].status = worker[m].status]
    BY DEF UpdateInvalidStatus
  <1>5. /\ \A t \in Sub : t # s => sub'[t] = sub[t]
        /\ sub'[s].phase = sub[s].phase /\ sub'[s].status \in {sub[s].status, worker[m].status}
    BY <1>0, <1>4 DEF Subscription
  <1>6. Exists(s)' /\ server[s] # None => sub'[s].status.local = server[s].content
    BY <1>2, <1>5 DEF Exists
  <1> QED
    BY <1>0, <1>3, <1>5, <1>6, ReturnKept

\* handleDeleteSubscription: nothing is left on EventMesh.
LEMMA DeleteSubscriptionKept ==
  ASSUME TypeInv, BaseInv, BaseInv', Kept, faults' = faults, NEW m \in Manager, DeleteSubscription(m)
  PROVE  Kept'
  <1>0. /\ worker[m].pc # "idle" /\ worker[m].s \in Sub /\ UNCHANGED <<sub, live>>
        /\ server \in [Sub -> ServerSub \cup {None}]
    BY DEF DeleteSubscription, TypeInv, TypeOK, WorkersEquipped, Equipped
  <1>1. /\ server' = [server EXCEPT ![worker[m].s] = None]
        /\ Finish(m, ReplaceStatusCondition(worker[m].status, "Subscribed", FALSE), "done")
    BY NoFailure DEF DeleteSubscription
  <1>2. Failing(m)
    BY <1>1, UnsubscribedFails
  <1>3. Recalls(m)'
    BY <1>0, <1>1, <1>2 DEF Recalls, Failing, Keeps
  <1> QED
    BY <1>0, <1>1, <1>2, <1>3, MiddleKept DEF Failing

\* updateSubscription: the new hash is written, or the Subscription is gone.
LEMMA UpdateSubscriptionKept ==
  ASSUME TypeInv, BaseInv, BaseInv', Kept, faults' = faults, NEW m \in Manager, UpdateSubscription(m)
  PROVE  Kept'
  <1>0. /\ worker[m].pc = "update" /\ worker[m].pc # "idle" /\ worker[m].s \in Sub
        /\ UNCHANGED <<server, live>> /\ sub \in [Sub -> Subscription]
        /\ worker \in [Manager -> Worker] /\ worker[m] \in Worker
    BY DEF UpdateSubscription, TypeInv, TypeOK, WorkersEquipped, Equipped
  <1> PICK s \in Sub : worker[m].s = s
    BY <1>0
  <1>1. live = m /\ Recalls(m) /\ ~APIFails(m)
    BY <1>0, NoFailure DEF BaseInv, OnlyLive, Kept
  <1>2. server[s] # None => worker[m].status.local = server[s].content
    BY <1>0, <1>1 DEF Recalls
  <1> DEFINE new == [sub[s] EXCEPT !.status = worker[m].status]
             again == worker[m].result = "again" \/ new # sub[s]
  <1>3. new.status = worker[m].status /\ new.phase = sub[s].phase
    BY <1>0 DEF Subscription
  <1>4. CASE Return(m, TRUE) /\ UNCHANGED sub /\ ~Exists(s)
    BY <1>0, <1>4, ReturnKept DEF Exists
  <1>5. CASE sub' = [sub EXCEPT ![s] = new] /\ Return(m, again)
    <2>0. again \in BOOLEAN
      OBVIOUS
    <2> HIDE DEF new, again
    <2>1. /\ \A t \in Sub : t # s => sub'[t] = sub[t]
          /\ sub'[s].phase = sub[s].phase /\ sub'[s].status = worker[m].status
      BY <1>0, <1>3, <1>5
    <2> QED
      BY <1>0, <1>2, <1>5, <2>0, <2>1, ReturnKept
  <1>6. CASE /\ sub' = [sub EXCEPT ![s] = new]
             /\ worker' = [worker EXCEPT ![m].pc = "finalizer", ![m].obj = new]
    <2> DEFINE w == [worker[m] EXCEPT !.pc = "finalizer", !.obj = new]
    <2>1. worker' = [worker EXCEPT ![m] = w]
      BY <1>6
    <2> HIDE DEF new
    <2>2. /\ \A t \in Sub : t # s => sub'[t] = sub[t]
          /\ sub'[s].phase = sub[s].phase /\ sub'[s].status = worker[m].status
      BY <1>0, <1>3, <1>6
    <2>3. w.pc = "finalizer" /\ w.s = s /\ w.status = worker[m].status
      BY <1>0 DEF Worker
    <2> HIDE DEF w
    <2>4. worker'[m] = w /\ \A k \in Manager : k # m => worker'[k] = worker[k]
      BY <1>0, <2>1
    <2>5. Alone(m, s)
      BY <1>0, <1>1, <2>2, <2>3, <2>4 DEF Alone
    <2>6. Recalls(m)'
      BY <1>0, <1>2, <2>3, <2>4 DEF Recalls
    <2>7. sub'[s].phase # "new"
      BY <1>0, <2>2 DEF Kept, Untouched
    <2> QED
      BY <1>0, <1>2, <2>2, <2>5, <2>6, <2>7, KeptStep
  <1> QED
    BY <1>1, <1>4, <1>5, <1>6 DEF UpdateSubscription

\* The finalizer is written: the status stays.
LEMMA UpdateFinalizersKept ==
  ASSUME TypeInv, BaseInv, BaseInv', Kept, NEW m \in Manager, UpdateFinalizers(m)
  PROVE  Kept'
  <1>0. /\ worker[m].pc = "finalizer" /\ worker[m].pc # "idle" /\ worker[m].s \in Sub
        /\ Return(m, TRUE) /\ UNCHANGED <<server, live>> /\ sub \in [Sub -> Subscription]
    BY DEF UpdateFinalizers, TypeInv, TypeOK, WorkersEquipped, Equipped
  <1> PICK s \in Sub : worker[m].s = s
    BY <1>0
  <1>1. live = m
    BY <1>0 DEF BaseInv, OnlyLive
  <1>2. Exists(s) /\ server[s] # None => sub[s].status.local = server[s].content
    BY <1>0, <1>1 DEF Kept, Recorded, Busy
  <1> DEFINE new == [sub[s] EXCEPT !.finalizer = worker[m].finalizer,
                       !.phase = IF @ = "deleting" /\ ~worker[m].finalizer THEN "gone" ELSE @]
  <1>n. new.status = sub[s].status /\ new.phase \in {sub[s].phase, "gone"}
    BY <1>0 DEF Subscription
  <1>d. UNCHANGED sub \/ sub' = [sub EXCEPT ![s] = new]
    BY DEF UpdateFinalizers
  <1> HIDE DEF new
  <1>3. /\ \A t \in Sub : t # s => sub'[t] = sub[t]
        /\ sub'[s].status = sub[s].status /\ sub'[s].phase \in {sub[s].phase, "gone"}
    BY <1>0, <1>n, <1>d
  <1>4. Exists(s)' => Exists(s)
    BY <1>3 DEF Exists
  <1> QED
    BY <1>0, <1>2, <1>3, <1>4, ReturnKept

\* Every step of a worker that does not fail.
LEMMA WorkerKept ==
  ASSUME TypeInv, BaseInv, BaseInv', ExposedInv, Kept, faults' = faults,
         NEW m \in Manager, WorkerStep(m)
  PROVE  Kept'
  BY ReconcileKept, UpdateInvalidStatusKept, APIRuleKept, BackendKept, WebhookAuthKept,
     DeleteSubscriptionKept, UpdateSubscriptionKept, UpdateFinalizersKept DEF WorkerStep

-----------------------------------------------------------------------------
(***************************************************************************)
(* The manager and the environment.                                        *)
(***************************************************************************)

\* After a start or a stop no worker is busy, and the status has the hash of what
\* is on EventMesh, or nothing is there.
LEMMA IdleKept ==
  ASSUME Kept, \A m \in Manager : worker[m].pc = "idle", \A m \in Manager : worker'[m].pc = "idle",
         live \in {0} \cup Manager,
         \A s \in Sub : /\ sub'[s].phase = sub[s].phase
                        /\ \/ server'[s] = None
                           \/ /\ server'[s] = server[s]
                              /\ ~Exists(s) \/ sub'[s].status.local = sub[s].status.local
  PROVE  Kept'
  <1>1. Untouched'
    BY DEF Kept, Untouched
  <1>2. \A m \in Manager : Recalls(m)'
    BY DEF Recalls
  <1>3. Recorded'
    <2> SUFFICES ASSUME NEW s \in Sub, Exists(s)', server'[s] # None
                 PROVE  sub'[s].status.local = server'[s].content
      BY DEF Recorded
    <2>1. Exists(s) /\ server'[s] = server[s] /\ sub'[s].status.local = sub[s].status.local
      BY DEF Exists
    <2>2. ~Busy(s)
      BY DEF Busy
    <2> QED
      BY <2>1, <2>2 DEF Kept, Recorded
  <1> QED
    BY <1>1, <1>2, <1>3 DEF Kept

\* Start, Stop with and without cleanup.
LEMMA ManagerKept ==
  ASSUME TypeInv, BaseInv, Kept, ~StopsBusy, faults' = faults,
         Start \/ \E m \in Manager : MarkAllAsNotReady(m) \/ CleanupEventMesh(m)
  PROVE  Kept'
  <1>0. /\ live \in {0} \cup Manager /\ worker \in [Manager -> Worker]
        /\ sub \in [Sub -> Subscription] /\ server \in [Sub -> ServerSub \cup {None}]
    BY DEF TypeInv, TypeOK
  <1>f. \A kind : ~Fault(kind)
    BY NoFailure
  <1>1. CASE Start
    <2> DEFINE n == starts + 1
    <2>1. /\ UNCHANGED <<sub, server>> /\ live = 0 /\ n \in Manager
          /\ worker' = [worker EXCEPT ![n] = IdleWorker(cred)]
      BY <1>1, EMBoundsAssumption DEF Start, TypeInv, TypeOK, Manager
    <2> HIDE DEF n
    <2>2. \A m \in Manager : worker[m].pc = "idle"
      BY <2>1 DEF BaseInv, OnlyLive, Manager
    <2>3. \A m \in Manager : worker'[m].pc = "idle"
      BY <1>0, <2>1, <2>2, IdleHashes
    <2> QED
      BY <1>0, <2>1, <2>2, <2>3, IdleKept
  <1>2. ASSUME NEW m \in Manager, Stopping(m)
        PROVE  \A k \in Manager : worker[k].pc = "idle" /\ worker'[k].pc = "idle"
    <2>1. live = m /\ worker[m].pc = "idle" /\ UNCHANGED worker
      BY <1>2 DEF Stopping
    <2> QED
      BY <2>1 DEF BaseInv, OnlyLive
  <1>3. ASSUME NEW m \in Manager, MarkAllAsNotReady(m) PROVE Kept'
    <2>1. Stopping(m) /\ UNCHANGED server
      BY <1>3 DEF MarkAllAsNotReady
    <2>2. ASSUME NEW s \in Sub
          PROVE  sub'[s].phase = sub[s].phase /\ sub'[s].status.local = sub[s].status.local
      <3> DEFINE c == CopyHashes(EmptyStatus, sub[s].status)
      <3>1. c.local = sub[s].status.local
        BY DEF CopyHashes, EmptyStatus
      <3> HIDE DEF c
      <3>2. sub'[s] = sub[s] \/ sub'[s] = [sub[s] EXCEPT !.status = c]
        BY <1>3 DEF MarkAllAsNotReady, c
      <3> QED
        BY <1>0, <3>1, <3>2 DEF Subscription
    <2> QED
      BY <1>0, <1>2, <2>1, <2>2, IdleKept
  <1>4. ASSUME NEW m \in Manager, CleanupEventMesh(m) PROVE Kept'
    <2>1. /\ Stopping(m)
          /\ server' = [s \in Sub |-> IF Exists(s) THEN None ELSE server[s]]
          /\ sub' = [s \in Sub |-> IF Exists(s) THEN [sub[s] EXCEPT !.status = EmptyStatus] ELSE sub[s]]
      BY <1>f, <1>4 DEF CleanupEventMesh
    <2>2. ASSUME NEW s \in Sub
          PROVE  /\ sub'[s].phase = sub[s].phase
                 /\ server'[s] = None \/ (server'[s] = server[s] /\ ~Exists(s))
      BY <1>0, <2>1 DEF Subscription
    <2> QED
      BY <1>0, <1>2, <2>1, <2>2, IdleKept
  <1> QED
    BY <1>1, <1>3, <1>4

\* Users write Subscriptions that are new or present, and nobody else does.
LEMMA UsersWrite ==
  ASSUME TypeInv, Resync \/ Environment \/ UNCHANGED vars, NEW s \in Sub
  PROVE  \/ sub'[s] = sub[s]
         \/ sub'[s].phase # "new" /\ sub[s].phase \in {"new", "present"}
  <1>0. sub \in [Sub -> Subscription]
    BY DEF TypeInv, TypeOK
  <1>1. CASE UserCreates
    <2>1. PICK t \in Sub, spec \in SubSpec :
            /\ sub[t].phase = "new"
            /\ Written(t, [NewSubscription EXCEPT !.phase = "present", !.spec = spec])
      BY <1>1 DEF UserCreates
    <2>2. [NewSubscription EXCEPT !.phase = "present", !.spec = spec].phase = "present"
      BY DEF NewSubscription
    <2> QED
      BY <1>0, <2>1, <2>2 DEF Written
  <1>2. CASE UserEdits
    <2>1. PICK t \in Sub : \E spec : sub[t].phase = "present" /\ Written(t, [sub[t] EXCEPT !.spec = spec])
      BY <1>2 DEF UserEdits
    <2>2. PICK spec : sub[t].phase = "present" /\ Written(t, [sub[t] EXCEPT !.spec = spec])
      BY <2>1
    <2>3. [sub[t] EXCEPT !.spec = spec].phase = "present"
      BY <1>0, <2>2 DEF Subscription
    <2> QED
      BY <1>0, <2>2, <2>3 DEF Written
  <1>3. CASE UserDeletes
    <2>1. PICK t \in Sub :
            /\ sub[t].phase = "present"
            /\ Written(t, [sub[t] EXCEPT !.phase = IF sub[t].finalizer THEN "deleting" ELSE "gone"])
      BY <1>3 DEF UserDeletes
    <2>2. [sub[t] EXCEPT !.phase = IF sub[t].finalizer THEN "deleting" ELSE "gone"].phase # "new"
      BY <1>0 DEF Subscription
    <2> QED
      BY <1>0, <2>1, <2>2 DEF Written
  <1>4. CASE UNCHANGED sub
    BY <1>4
  <1>5. CASE Resync \/ UNCHANGED vars \/ RotateCredentials \/ GatewayReady \/ GatewayNotReady
             \/ GarbageCollector \/ Activate \/ DeliveryFails \/ DeliverySucceeds \/ ServerModified
    BY <1>4, <1>5 DEF Resync, vars, RotateCredentials, GatewayReady, GatewayNotReady,
       GarbageCollector, RuleChanged, Activate, DeliveryFails, DeliverySucceeds, ServerModified,
       ServerChanged
  <1> QED
    BY <1>1, <1>2, <1>3, <1>5 DEF Environment

\* Without a failure the environment leaves the content on EventMesh alone.
LEMMA OutsideKept ==
  ASSUME TypeInv, Kept, faults' = faults, Resync \/ Environment \/ UNCHANGED vars
  PROVE  Kept'
  <1>n. Stays /\ ContentStays
    BY ResyncStays, StutterStays, UserStays, RotateStays, GatewayStays, DeliveryStays,
       ServerModifiedStays DEF Environment
  <1>s. Noticed
    BY <1>n DEF Stays
  <1>0. \A m \in Manager : worker[m].pc # "idle" => worker[m].s \in Sub
    BY DEF TypeInv, WorkersEquipped, Equipped
  <1>1. Untouched'
    BY <1>s, UsersWrite DEF Kept, Untouched, Noticed
  <1>2. ASSUME NEW m \in Manager PROVE Recalls(m)'
    BY <1>0, <1>n, <1>s DEF Kept, Recalls, Noticed, ContentStays
  <1>3. Recorded'
    <2> SUFFICES ASSUME NEW s \in Sub, Exists(s)', server'[s] # None,
                        Busy(s)' => worker'[live'].pc \in {"validation", "finalizer"}
                 PROVE  sub'[s].status.local = server'[s].content
      BY DEF Recorded
    <2>1. server[s] # None /\ server'[s].content = server[s].content
      BY <1>n, <1>s DEF Noticed, ContentStays
    <2>2. sub[s].phase # "new" /\ sub'[s].status = sub[s].status
      BY <1>s, <2>1 DEF Kept, Untouched, Noticed
    <2>3. Busy(s) => worker[live].pc \in {"validation", "finalizer"}
      BY <1>s DEF Busy, Noticed
    <2>4. Exists(s)
      BY <2>2, UsersWrite DEF Exists
    <2> QED
      BY <2>1, <2>2, <2>3, <2>4 DEF Kept, Recorded
  <1> QED
    BY <1>1, <1>2, <1>3 DEF Kept


-----------------------------------------------------------------------------
(***************************************************************************)
(* The theorem.                                                            *)
(***************************************************************************)

\* Every step keeps the invariant, as long as busy managers are not stopped.
LEMMA NextKept ==
  ASSUME ~StopsBusy, TypeInv, TypeInv', BaseInv, KeptInv, [Next]_vars
  PROVE  BaseInv' /\ KeptInv'
  <1>1. BaseInv' /\ (faults' = faults => (ExposedInv => ExposedInv'))
    BY NextReady
  <1>2. faults' = 0 => faults' = faults
    BY FaultsCounted DEF Counted, TypeInv, TypeOK
  <1>3. ASSUME faults' = faults, ExposedInv, Kept PROVE Kept'
    <2>1. CASE \E m \in Manager : WorkerStep(m)
      BY <1>1, <1>3, <2>1, WorkerKept
    <2>2. CASE Start \/ \E m \in Manager : MarkAllAsNotReady(m) \/ CleanupEventMesh(m)
      BY <1>3, <2>2, ManagerKept
    <2>3. CASE Resync \/ Environment \/ UNCHANGED vars
      BY <1>3, <2>3, OutsideKept
    <2>4. ~Crash
      BY <1>3, NoFailure DEF Crash
    <2> QED
      BY <2>1, <2>2, <2>3, <2>4 DEF Next
  <1> QED
    BY <1>1, <1>2, <1>3 DEF KeptInv

\* At the beginning nothing is on EventMesh.
LEMMA InitKept ==
  ASSUME Init
  PROVE  BaseInv /\ KeptInv
  <1>1. /\ \A s \in Sub : server[s] = None
        /\ \A m \in Manager : worker[m].pc = "idle"
    BY IdleHashes DEF Init
  <1>2. Kept
    BY <1>1 DEF Kept, Untouched, Recorded, Recalls
  <1> QED
    BY <1>2, InitReady DEF KeptInv

\* As long as nothing has failed, SyncSubscription (eventmesh.go
\* handleKymaSubModified, handleEventMeshSubModified) never deletes a subscription
\* on EventMesh for one with the same events and the same webhook, whatever users
\* change and however often managers are stopped idle and started again: the
\* hashes that markAllV1Alpha2SubscriptionsAsNotReady and syncInitialStatus carry
\* over suffice.
THEOREM NoNeedless ==
  ASSUME ~StopsBusy
  PROVE  Spec => NoNeedlessDeletion
  <1>1. Init => BaseInv /\ KeptInv
    BY InitKept
  <1>2. IInv /\ IInv' /\ BaseInv /\ KeptInv /\ [Next]_vars => BaseInv' /\ KeptInv'
    BY NextKept DEF IInv
  <1>3. KeptInv => [\A m \in Manager :
          faults = 0 /\ worker[m].pc = "recreate" /\ server[worker[m].s] # None =>
            server[worker[m].s].content # worker[m].content
            \/ server'[worker[m].s] # None]_vars
    <2>1. ASSUME KeptInv, NEW m \in Manager, faults = 0, worker[m].pc = "recreate",
                 server[worker[m].s] # None
          PROVE  server[worker[m].s].content # worker[m].content
      BY <2>1 DEF KeptInv, Kept, Recalls
    <2> QED
      BY <2>1
  <1> QED
    BY <1>1, <1>2, <1>3, Inductive, PTL DEF Spec, NoNeedlessDeletion

=============================================================================
