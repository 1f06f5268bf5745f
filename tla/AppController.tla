---------------------------- MODULE AppController ----------------------------
(***************************************************************************)
(* The controller of operator/crd/app-controller: for every App it creates *)
(* the Deployment, the Service and the Ingress the App's spec names, with  *)
(* the App as their controller, and keeps the Deployment's replicas equal  *)
(* to the App's.                                                           *)
(*                                                                         *)
(* Unlike the Ingress controller it has handlers for Apps only; what       *)
(* happens to the dependents it learns when a resync (every 30 seconds)    *)
(* or an error queues the App again.  It reads four caches one after the   *)
(* other, each behind the API server by its own distance.                  *)
(***************************************************************************)
EXTENDS WorkQueue

CONSTANTS
    Worker,      \* the goroutines Run starts (2 in main.go)
    Name,        \* names of dependents
    Specs,       \* the specs users give to Apps
    UserActs,    \* what users do to dependents, a subset of AllUserActs
    None,
    MaxEdits,    \* bound: edits by users
    MaxFailures, \* bound: API calls of a worker that fail
    MaxStops,    \* bound: times the process is told to stop
    MaxLag       \* bound: changes of one object on their way to a cache when
                 \*        the garbage collector deletes it

App == Key
Kind == {"dep", "svc", "ing"}
AllUserActs == {"scale", "delete", "foreign", "orphan"}

\* replicas = 0 stands for every spec syncHandler finds invalid and ignores:
\* no Deployment name, no image, or fewer than one replica.
AppSpec == [dep : Name, svc : Name, ing : Name, replicas : Nat]
AppObject == [uid : 1..MaxEdits, spec : Specs]

\* owner is the uid in the controller reference, 0 without one.  label is the
\* App whose name a Deployment's and a Service's selector carries.  Only a
\* Deployment has replicas.  An image, which Update would set as well, but
\* which nobody compares, is left out.
Dependent == [owner : 0..MaxEdits, label : App \cup {None},
              replicas : Nat]

\* What syncHandler has read and done so far.
Sync == [pc : {"idle", "app", "read", "create", "check", "update", "ok", "fail"},
         item : App \cup {None}, app : AppObject \cup {None},
         kind : Kind \cup {None}, got : [Kind -> Dependent \cup {None}]]

Nothing == [k \in Kind |-> None]
Idle == [pc |-> "idle", item |-> None, app |-> None, kind |-> None,
         got |-> Nothing]

ASSUME ConstantsAssumption ==
    /\ Specs \subseteq AppSpec
    /\ UserActs \subseteq AllUserActs
    /\ MaxEdits \in Nat /\ MaxFailures \in Nat /\ MaxStops \in Nat /\ MaxLag \in Nat
    /\ None \notin App /\ None \notin AppObject /\ None \notin Dependent
    /\ None \notin Kind

VARIABLES
    app,                \* API server: [App -> AppObject or None]
    store,              \* API server: [Kind -> [Name -> Dependent or None]]
    appWatch, watch,    \* changes sent, not yet in the caches
    appCache, cache,    \* what the listers read
    phase,              \* of the process
    wq, worker,         \* c.workqueue and [Worker -> Sync]
    edits, failures, stops

appVars == <<app, appWatch>>
storeVars == <<store, watch>>
caches == <<appCache, cache>>
process == <<phase, wq, worker>>
counters == <<edits, failures, stops>>
vars == <<appVars, storeVars, caches, process, counters>>

NoObjects == [k \in Kind |-> [n \in Name |-> None]]
NoEvents == [k \in Kind |-> [n \in Name |-> <<>>]]

TypeOK ==
    /\ app \in [App -> AppObject \cup {None}]
    /\ store \in [Kind -> [Name -> Dependent \cup {None}]]
    /\ appWatch \in [App -> Seq(AppObject \cup {None})]
    /\ watch \in [Kind -> [Name -> Seq(Dependent \cup {None})]]
    /\ appCache \in [App -> AppObject \cup {None}]
    /\ cache \in [Kind -> [Name -> Dependent \cup {None}]]
    /\ phase \in {"starting", "running", "stopping", "down"}
    /\ wq \in Queue
    /\ worker \in [Worker -> Sync]
    /\ edits \in 0..MaxEdits /\ failures \in 0..MaxFailures /\ stops \in 0..MaxStops

Init ==
    /\ app = [a \in App |-> None] /\ store = NoObjects
    /\ appWatch = [a \in App |-> <<>>] /\ watch = NoEvents
    /\ appCache = [a \in App |-> None] /\ cache = NoObjects
    /\ phase = "starting"
    /\ wq = NewQueue
    /\ worker = [w \in Worker |-> Idle]
    /\ edits = 0 /\ failures = 0 /\ stops = 0

Alive == phase \in {"running", "stopping"}
-----------------------------------------------------------------------------
(***************************************************************************)
(* The API server.                                                         *)
(***************************************************************************)
WriteApp(a, obj) ==
    /\ app' = [app EXCEPT ![a] = obj]
    /\ appWatch' = IF Alive THEN [appWatch EXCEPT ![a] = Append(@, obj)] ELSE appWatch

\* A write that changes nothing is no event.
Write(k, n, obj) ==
    /\ store' = [store EXCEPT ![k][n] = obj]
    /\ watch' = IF Alive /\ store[k][n] # obj
                THEN [watch EXCEPT ![k][n] = Append(@, obj)] ELSE watch

UserEdit ==
    /\ edits < MaxEdits
    /\ edits' = edits + 1
    /\ UNCHANGED <<caches, process, failures, stops>>

CreateApp(a) ==
    /\ app[a] = None
    /\ UserEdit
    /\ \E s \in Specs : WriteApp(a, [uid |-> edits + 1, spec |-> s])
    /\ UNCHANGED storeVars

EditApp(a) ==
    /\ app[a] # None
    /\ UserEdit
    /\ \E s \in Specs \ {app[a].spec} : WriteApp(a, [app[a] EXCEPT !.spec = s])
    /\ UNCHANGED storeVars

DeleteApp(a) ==
    /\ app[a] # None
    /\ UserEdit
    /\ WriteApp(a, None)
    /\ UNCHANGED storeVars

\* kubectl scale
Scale(n) ==
    /\ "scale" \in UserActs /\ store["dep"][n] # None
    /\ UserEdit
    /\ \E s \in Specs : Write("dep", n, [store["dep"][n] EXCEPT !.replicas = s.replicas])
    /\ UNCHANGED appVars

DeleteDependent(k, n) ==
    /\ "delete" \in UserActs /\ store[k][n] # None
    /\ UserEdit
    /\ Write(k, n, None)
    /\ UNCHANGED appVars

CreateForeign(k, n) ==
    /\ "foreign" \in UserActs /\ store[k][n] = None
    /\ UserEdit
    /\ Write(k, n, [owner |-> 0, label |-> None, replicas |-> 0])
    /\ UNCHANGED appVars

\* The owner reference is taken off, by hand or because the App is deleted
\* with its dependents orphaned.
Orphan(k, n) ==
    /\ "orphan" \in UserActs /\ store[k][n] # None
    /\ UserEdit
    /\ Write(k, n, [store[k][n] EXCEPT !.owner = 0])
    /\ UNCHANGED appVars

\* A worker with an old App and an old cache can create again and again what
\* the garbage collector deletes.  The bound makes the cache follow.
GarbageCollect(k, n) ==
    /\ Len(watch[k][n]) < MaxLag
    /\ store[k][n] # None /\ store[k][n].owner # 0
    /\ \A a \in App : app[a] # None => app[a].uid # store[k][n].owner
    /\ Write(k, n, None)
    /\ UNCHANGED <<appVars, caches, process, counters>>
-----------------------------------------------------------------------------
(***************************************************************************)
(* The process: started, synced, told to stop, gone.  Nothing restarts it  *)
(* but its user.                                                           *)
(***************************************************************************)
\* WaitForCacheSync returned.  The four lists are taken at different times,
\* but nobody reads a cache before the last: what one of them missed is a
\* change on its way that arrives before the first read.  The listed Apps
\* are handed to AddFunc one by one, and no worker asks for an App before.
CachesSynced ==
    /\ phase = "starting"
    /\ phase' = "running"
    /\ appWatch' = [a \in App |-> IF app[a] = None THEN <<>> ELSE <<app[a]>>]
    /\ cache' = store
    /\ UNCHANGED <<app, storeVars, appCache, wq, worker, counters>>

Down ==
    /\ phase' = "down"
    /\ wq' = NewQueue
    /\ worker' = [w \in Worker |-> Idle]
    /\ appWatch' = [a \in App |-> <<>>] /\ watch' = NoEvents
    /\ appCache' = [a \in App |-> None] /\ cache' = NoObjects
    /\ UNCHANGED <<app, store>>

\* The context is done.  Run shuts the queue down when it was past
\* WaitForCacheSync and returns an error when it was not.
Signal ==
    /\ stops < MaxStops
    /\ stops' = stops + 1
    /\ \/ /\ phase = "running"
          /\ phase' = "stopping"
          /\ wq' = ShutDown(wq)
          /\ UNCHANGED <<appVars, storeVars, caches, worker>>
       \/ phase = "starting" /\ Down
    /\ UNCHANGED <<edits, failures>>

\* Run returns right after ShutDown, and main returns with it.
Exit ==
    /\ phase = "stopping"
    /\ Down
    /\ UNCHANGED counters

Start ==
    /\ phase = "down"
    /\ phase' = "starting"
    /\ UNCHANGED <<appVars, storeVars, caches, wq, worker, counters>>
-----------------------------------------------------------------------------
(***************************************************************************)
(* The informers.  A re-list is a burst of the steps below: no handler     *)
(* tells a tombstone from a deletion, because none handles deletions.  The *)
(* handlers only add the key, which no one can tell from a worker that is  *)
(* slow to take it: a change enters the cache and the queue in one step.   *)
(***************************************************************************)
WatchApp(a) ==
    /\ Alive /\ appWatch[a] # <<>>
    /\ appCache' = [appCache EXCEPT ![a] = Head(appWatch[a])]
    /\ wq' = IF Head(appWatch[a]) = None THEN wq ELSE Add(wq, a)
    /\ appWatch' = [appWatch EXCEPT ![a] = Tail(@)]
    /\ UNCHANGED <<app, storeVars, cache, phase, worker, counters>>

\* Nobody handles what happens to Deployments, Services and Ingresses.
Watch(k, n) ==
    /\ Alive /\ watch[k][n] # <<>>
    /\ cache' = [cache EXCEPT ![k][n] = Head(watch[k][n])]
    /\ watch' = [watch EXCEPT ![k][n] = Tail(@)]
    /\ UNCHANGED <<appVars, store, appCache, process, counters>>

\* Every 30 seconds UpdateFunc is called for every App in the cache.
Resync(a) ==
    /\ Alive /\ appCache[a] # None
    /\ wq' = Add(wq, a)
    /\ UNCHANGED <<appVars, storeVars, caches, phase, worker, counters>>

BackoffElapsed(a) ==
    /\ Alive /\ a \in wq.waiting
    /\ wq' = Elapse(wq, a)
    /\ UNCHANGED <<appVars, storeVars, caches, phase, worker, counters>>
-----------------------------------------------------------------------------
(***************************************************************************)
(* The workers: processNextWorkItem and, between Get and Finish,           *)
(* syncHandler.                                                            *)
(***************************************************************************)
Get(w) ==
    /\ Alive /\ worker[w].pc = "idle" /\ HasItem(wq)
    /\ worker' = [worker EXCEPT ![w] = [Idle EXCEPT !.pc = "app", !.item = Head(wq.queue)]]
    /\ wq' = Take(wq)
    /\ UNCHANGED <<appVars, storeVars, caches, phase, counters>>

\* An App that is gone or invalid is no error: it is not queued again.
GetApp(w) ==
    /\ Alive /\ worker[w].pc = "app"
    /\ LET a == appCache[worker[w].item] IN
         worker' = [worker EXCEPT ![w] =
                      IF a = None \/ a.spec.replicas < 1
                      THEN [@ EXCEPT !.pc = "ok"]
                      ELSE [@ EXCEPT !.pc = "read", !.app = a, !.kind = "dep"]]
    /\ UNCHANGED <<appVars, storeVars, caches, phase, wq, counters>>

\* The Ingress is looked up under the name of the Service, and created
\* under its own.
LookupName(k, s) == IF k = "dep" THEN s.dep ELSE s.svc

\* Mutant: the selector carries the App's uid instead of its name.
NewLabelledByUid(k, a, obj) ==
    [owner |-> obj.uid, label |-> obj.uid,
     replicas |-> IF k = "dep" THEN obj.spec.replicas ELSE 0]

\* Mutant: no owner reference is set.
NewUnowned(k, a, obj) ==
    [owner |-> 0, label |-> a,
     replicas |-> IF k = "dep" THEN obj.spec.replicas ELSE 0]

\* newDeployment, newSvc and newIngress for the App of name a.
NewDependent(k, a, obj) ==
    [owner |-> obj.uid, label |-> a,
     replicas |-> IF k = "dep" THEN obj.spec.replicas ELSE 0]

\* syncHandler has obj for the current kind (None when a Create failed) and
\* goes on to the next.  The error of a Deployment or a Service is lost: the
\* next Get assigns err before it is tested, so only that of the Ingress is.
Proceed(w, obj, failed) ==
    LET k == worker[w].kind IN
      worker' = [worker EXCEPT
                   ![w].got[k] = obj,
                   ![w].kind = CASE k = "dep" -> "svc" [] k = "svc" -> "ing" [] OTHER -> None,
                   ![w].pc = IF k # "ing" THEN "read" ELSE IF failed THEN "fail" ELSE "check"]

ReadDependent(w) ==
    /\ Alive /\ worker[w].pc = "read"
    /\ LET k == worker[w].kind
           found == cache[k][LookupName(k, worker[w].app.spec)]
       IN IF found # None
          THEN Proceed(w, found, FALSE)
          ELSE worker' = [worker EXCEPT ![w].pc = "create"]
    /\ UNCHANGED <<appVars, storeVars, caches, phase, wq, counters>>

CreateDependent(w) ==
    /\ Alive /\ worker[w].pc = "create"
    /\ LET k == worker[w].kind
           n == worker[w].app.spec[k]
           obj == NewDependent(k, worker[w].item, worker[w].app)
       IN \/ /\ store[k][n] = None
             /\ Write(k, n, obj)
             /\ Proceed(w, obj, FALSE)
          \/ /\ store[k][n] # None              \* AlreadyExists
             /\ Proceed(w, None, TRUE)
             /\ UNCHANGED storeVars
    /\ UNCHANGED <<appVars, caches, phase, wq, counters>>

\* Mutant: the Deployment's owner is not checked.
CheckWithoutDeployment(w) ==
    /\ Alive /\ worker[w].pc = "check"
    /\ LET s == worker[w]
           controlled == \A k \in {"svc", "ing"} : s.got[k] # None /\ s.got[k].owner = s.app.uid
       IN worker' = [worker EXCEPT ![w].pc =
                       IF ~controlled THEN "fail"
                       ELSE IF s.got["dep"] = None \/ s.got["dep"].replicas # s.app.spec.replicas
                            THEN "update" ELSE "ok"]
    /\ UNCHANGED <<appVars, storeVars, caches, phase, wq, counters>>

\* Mutant: a Deployment is never scaled.
CheckWithoutReplicas(w) ==
    /\ Alive /\ worker[w].pc = "check"
    /\ LET s == worker[w]
           controlled == \A k \in Kind : s.got[k] # None /\ s.got[k].owner = s.app.uid
       IN worker' = [worker EXCEPT ![w].pc = IF ~controlled THEN "fail" ELSE "ok"]
    /\ UNCHANGED <<appVars, storeVars, caches, phase, wq, counters>>

\* Every dependent must be controlled by the App that was read; the one
\* that is not is reported with a warning event.
Check(w) ==
    /\ Alive /\ worker[w].pc = "check"
    /\ LET s == worker[w]
           controlled == \A k \in Kind : s.got[k] # None /\ s.got[k].owner = s.app.uid
       IN worker' = [worker EXCEPT ![w].pc =
                       IF ~controlled THEN "fail"
                       ELSE IF s.got["dep"].replicas # s.app.spec.replicas THEN "update"
                       ELSE "ok"]
    /\ UNCHANGED <<appVars, storeVars, caches, phase, wq, counters>>

\* The update carries no resource version, so it overwrites whatever is
\* there, as long as the selector, which is immutable, stays the same.
UpdateDeployment(w) ==
    /\ Alive /\ worker[w].pc = "update"
    /\ LET n == worker[w].app.spec.dep
           obj == NewDependent("dep", worker[w].item, worker[w].app)
       IN \/ /\ store["dep"][n] # None /\ store["dep"][n].label = obj.label
             /\ Write("dep", n, obj)
             /\ worker' = [worker EXCEPT ![w].pc = "ok"]
          \/ /\ store["dep"][n] # None => store["dep"][n].label # obj.label
             /\ worker' = [worker EXCEPT ![w].pc = "fail"]
             /\ UNCHANGED storeVars
    /\ UNCHANGED <<appVars, caches, phase, wq, counters>>

\* A call fails before the API server sees it.
CallFails(w) ==
    /\ Alive /\ failures < MaxFailures
    /\ failures' = failures + 1
    /\ \/ worker[w].pc = "create" /\ Proceed(w, None, TRUE)
       \/ worker[w].pc = "update" /\ worker' = [worker EXCEPT ![w].pc = "fail"]
    /\ UNCHANGED <<appVars, storeVars, caches, phase, wq, edits, stops>>

\* A call takes effect, but the answer is lost.
AnswerLost(w) ==
    /\ Alive /\ worker[w].pc \in {"create", "update"} /\ failures < MaxFailures
    /\ failures' = failures + 1
    /\ LET k == IF worker[w].pc = "update" THEN "dep" ELSE worker[w].kind
           n == worker[w].app.spec[k]
           obj == NewDependent(k, worker[w].item, worker[w].app)
       IN /\ Write(k, n, obj)
          /\ \/ worker[w].pc = "create" /\ store[k][n] = None /\ Proceed(w, None, TRUE)
             \/ /\ worker[w].pc = "update"
                /\ store[k][n] # None /\ store[k][n].label = obj.label
                /\ worker' = [worker EXCEPT ![w].pc = "fail"]
    /\ UNCHANGED <<appVars, caches, phase, wq, edits, stops>>

\* Mutant: Done is not deferred but called after a success only.
FinishWithoutDone(w) ==
    /\ Alive /\ worker[w].pc \in {"ok", "fail"}
    /\ LET k == worker[w].item IN
         wq' = IF worker[w].pc = "ok" THEN Done(Forget(wq, k), k) ELSE AddRateLimited(wq, k)
    /\ worker' = [worker EXCEPT ![w] = Idle]
    /\ UNCHANGED <<appVars, storeVars, caches, phase, counters>>

\* The deferred Done comes after AddRateLimited or Forget.
Finish(w) ==
    /\ Alive /\ worker[w].pc \in {"ok", "fail"}
    /\ LET k == worker[w].item IN
         wq' = Done(IF worker[w].pc = "ok" THEN Forget(wq, k) ELSE AddRateLimited(wq, k), k)
    /\ worker' = [worker EXCEPT ![w] = Idle]
    /\ UNCHANGED <<appVars, storeVars, caches, phase, counters>>

ProcessNextWorkItem(w) ==
    \/ Get(w) \/ GetApp(w) \/ ReadDependent(w) \/ CreateDependent(w)
    \/ Check(w) \/ UpdateDeployment(w) \/ Finish(w)
-----------------------------------------------------------------------------
Next ==
    \/ \E a \in App :
          \/ CreateApp(a) \/ EditApp(a) \/ DeleteApp(a)
          \/ WatchApp(a) \/ Resync(a) \/ BackoffElapsed(a)
    \/ \E n \in Name : Scale(n)
    \/ \E k \in Kind, n \in Name :
          \/ DeleteDependent(k, n) \/ CreateForeign(k, n) \/ Orphan(k, n)
          \/ GarbageCollect(k, n) \/ Watch(k, n)
    \/ \E w \in Worker : ProcessNextWorkItem(w) \/ CallFails(w) \/ AnswerLost(w)
    \/ CachesSynced \/ Signal \/ Exit \/ Start

Spec == Init /\ [][Next]_vars

\* Informers, resyncs, timers, workers and the garbage collector keep going;
\* users, failures and signals come only if they do, and nothing starts the
\* program again.
Fairness ==
    /\ WF_vars(CachesSynced)
    /\ \A a \in App :
          /\ WF_vars(WatchApp(a)) /\ WF_vars(Resync(a))
          /\ WF_vars(BackoffElapsed(a))
    /\ \A k \in Kind, n \in Name : WF_vars(Watch(k, n)) /\ WF_vars(GarbageCollect(k, n))
    /\ \A w \in Worker : WF_vars(ProcessNextWorkItem(w))

FairSpec == Spec /\ Fairness
-----------------------------------------------------------------------------
(***************************************************************************)
(* Properties.                                                             *)
(***************************************************************************)
\* "We are never processing the same item simultaneously in two different
\* workers" (controller.go:86-90), through failures, retries, resyncs and
\* shutdown; and the deferred Done gives every key back.
MutualExclusion ==
    /\ \A v, w \in Worker :
          worker[v].item = worker[w].item /\ worker[v].item # None => v = w
    /\ wq.processing = {worker[w].item : w \in Worker} \ {None}
    /\ QueueInv(wq)

\* A dependent one App controls never becomes another's without having been
\* deleted or orphaned in between, although Update overwrites blindly what the
\* worker last saw in a cache: what saves it is that the App's name is in the
\* immutable selector, and that one key is never synced twice at a time.
OwnerNeverFlips ==
    [][\A k \in Kind, n \in Name :
          LET old == store[k][n]
              new == store'[k][n]
          IN old # None /\ new # None /\ old.owner # 0 /\ new.owner # 0
             => old.owner = new.owner]_vars

Valid(a) == app[a] # None /\ app[a].spec.replicas >= 1

\* Something of the name is there and it is not the App's.
Blocked(a) ==
    \E k \in Kind : LET d == store[k][app[a].spec[k]] IN
                      d # None /\ d.owner # app[a].uid

Created(a) ==
    \A k \in Kind : LET d == store[k][app[a].spec[k]] IN
                      d # None /\ d.owner = app[a].uid

DeploymentOf(a) == store["dep"][app[a].spec.dep]

\* Once users stop, every valid App has its three dependents, and its
\* Deployment has its replicas, unless something else has one of the names:
\* after edits in any order, kubectl scale, deletions, failed calls and
\* answers that were lost ("if this number of the replicas on the App
\* resource ... does not equal the current desired replicas on the
\* Deployment, we should update the Deployment", controller.go:349-351).
AppsConverge ==
    \A a \in App : <>[](Valid(a) /\ ~Blocked(a) =>
                          /\ Created(a)
                          /\ DeploymentOf(a).replicas = app[a].spec.replicas)

\* When an App is deleted, what it made goes as well, even what a worker
\* creates after the deletion because it still has the App it read.
NothingLeftBehind ==
    <>[](\A k \in Kind, n \in Name :
            store[k][n] # None /\ store[k][n].label # None => app[store[k][n].label] # None)

\* What a worker has in hand, and the promise of the work queue: a key is in
\* the hands of one worker at a time, one that is due leaves the queue
\* only into a worker's hands, and is due again when it was asked for
\* meanwhile or its sync failed (controller.go:211-235), until the queue is shut down.
Hand(s) == [key |-> s.item, result |-> IF s.pc \in {"ok", "fail"} THEN s.pc ELSE "none"]

Work == INSTANCE ExclusiveWork WITH
          open <- phase \in {"starting", "running"},
          due <- Pending(wq),
          hand <- [w \in Worker |-> Hand(worker[w])]

WorkIsExclusive == Work!Spec
=============================================================================
