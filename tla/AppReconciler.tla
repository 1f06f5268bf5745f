---------------------------- MODULE AppReconciler ----------------------------
(***************************************************************************)
(* The App reconciler of operator/crd/kubebuilder: Reconcile creates a     *)
(* Deployment, and a Service and an Ingress when the App's spec enables    *)
(* them, all under the App's own name, from templates; it updates those it *)
(* finds and deletes those that are no longer enabled.                     *)
(*                                                                         *)
(* controller-runtime, which is not part of the repository, runs it: one   *)
(* worker takes requests from a work queue, reads go to a cache and writes *)
(* to the API server, an error queues the request again after a back-off.  *)
(* An update carries the resource version of what was read, a deletion     *)
(* carries nothing but the name.                                           *)
(***************************************************************************)
EXTENDS WorkQueue, FiniteSets

CONSTANTS
    Specs,       \* the specs users give to Apps
    Before,      \* the specs of the Apps that are there before the process is
    Size,        \* what the Deployment's template is filled with
    UserActs,    \* what users do to dependents, a subset of AllUserActs
    None,
    MaxEdits,    \* bound: edits by users
    MaxMishaps,  \* bound: API calls of the worker that fail, kills of the process,
                 \*        and status updates by the Deployment controller
    MaxLag       \* bound: changes of one object on their way to the cache when
                 \*        the garbage collector deletes it

App == Key
Kind == {"dep", "svc", "ing"}
AllUserActs == {"edit", "delete", "foreign"} \X Kind

AppSpec == [size : Size, svc : BOOLEAN, ing : BOOLEAN]
Uid == 1..(MaxEdits + 1)
AppObject == [uid : Uid, spec : Specs]

\* content is what the templates determine: the size of a Deployment, and
\* "template" for a Service and an Ingress, whose templates use only the name.
\* owner is the uid in the controller reference, 0 without one.  Resource
\* versions are only compared for equality, so a number is used again when no
\* copy of the object has it any more.
Dependent == [rv : Nat, owner : Uid \cup {0}, content : Size \cup {"template", "other"}]

\* The locals of Reconcile; got is the object it will send.
Locals == [pc : {"idle", "app", "read", "create", "update", "delete", "ok", "fail"},
           item : App \cup {None}, app : AppObject \cup {None},
           kind : Kind \cup {None}, got : Dependent \cup {None}]
Idle == [pc |-> "idle", item |-> None, app |-> None, kind |-> None, got |-> None]

ASSUME ConstantsAssumption ==
    /\ Specs \subseteq AppSpec /\ Before \subseteq Specs
    /\ Size \cap {"template", "other"} = {}
    /\ UserActs \subseteq AllUserActs
    /\ \A n \in {MaxEdits, MaxMishaps, MaxLag} : n \in Nat
    /\ None \notin App /\ None \notin AppObject /\ None \notin Dependent
    /\ None \notin Kind

VARIABLES
    app,             \* API server: [App -> AppObject or None]
    store,           \* API server: [Kind -> [App -> Dependent or None]]
    appWatch, watch, \* changes sent, not yet in the cache
    appCache, cache, \* what r.Get reads
    phase,           \* of the process
    wq, rec,         \* the controller's queue, and its worker's Locals
    unseen,          \* history: Apps with a change Owns filtered out
    edits, mishaps

appVars == <<app, appWatch>>
storeVars == <<store, watch>>
caches == <<appCache, cache>>
process == <<phase, wq, rec, unseen>>
counters == <<edits, mishaps>>
vars == <<appVars, storeVars, caches, process, counters>>

NoObjects == [kind \in Kind |-> [k \in App |-> None]]
NoEvents == [kind \in Kind |-> [k \in App |-> <<>>]]

TypeOK ==
    /\ app \in [App -> AppObject \cup {None}]
    /\ store \in [Kind -> [App -> Dependent \cup {None}]]
    /\ appWatch \in [App -> Seq(AppObject \cup {None})]
    /\ watch \in [Kind -> [App -> Seq(Dependent \cup {None})]]
    /\ appCache \in [App -> AppObject \cup {None}]
    /\ cache \in [Kind -> [App -> Dependent \cup {None}]]
    /\ phase \in {"starting", "running", "down"}
    /\ wq \in Queue
    /\ rec \in Locals
    /\ unseen \in SUBSET App
    /\ edits \in 0..MaxEdits /\ mishaps \in 0..MaxMishaps

Init ==
    /\ app \in [App -> [uid : {1}, spec : Before] \cup {None}]
    /\ store = NoObjects
    /\ appWatch = [k \in App |-> <<>>] /\ watch = NoEvents
    /\ appCache = [k \in App |-> None] /\ cache = NoObjects
    /\ phase = "starting"
    /\ wq = NewQueue /\ rec = Idle /\ unseen = {}
    /\ edits = 0 /\ mishaps = 0

Running == phase = "running"
-----------------------------------------------------------------------------
(***************************************************************************)
(* The API server, its users, the garbage collector and the controller of  *)
(* Deployments, which writes the status of a Deployment.                   *)
(***************************************************************************)
WriteApp(k, obj) ==
    /\ app' = [app EXCEPT ![k] = obj]
    /\ appWatch' = IF Running THEN [appWatch EXCEPT ![k] = Append(@, obj)] ELSE appWatch

\* The resource version of the next write.
NextVersion(kind, k) ==
    LET copies == {store[kind][k], cache[kind][k], rec.got} \cup Range(watch[kind][k])
        taken == {obj.rv : obj \in copies \ {None}}
        free == 1..(Cardinality(taken) + 1) \ taken
    IN CHOOSE n \in free : TRUE

Write(kind, k, obj) ==
    /\ store' = [store EXCEPT ![kind][k] = obj]
    /\ watch' = IF Running THEN [watch EXCEPT ![kind][k] = Append(@, obj)] ELSE watch

UserEdit ==
    /\ edits < MaxEdits
    /\ edits' = edits + 1
    /\ UNCHANGED <<caches, process, mishaps>>

CreateApp(k) ==
    /\ app[k] = None
    /\ UserEdit
    /\ \E s \in Specs : WriteApp(k, [uid |-> edits + 2, spec |-> s])
    /\ UNCHANGED storeVars

EditApp(k) ==
    /\ app[k] # None
    /\ UserEdit
    /\ \E s \in Specs \ {app[k].spec} : WriteApp(k, [app[k] EXCEPT !.spec = s])
    /\ UNCHANGED storeVars

DeleteApp(k) ==
    /\ app[k] # None
    /\ UserEdit
    /\ WriteApp(k, None)
    /\ UNCHANGED storeVars

EditDependent(kind, k) ==
    /\ <<"edit", kind>> \in UserActs
    /\ store[kind][k] # None /\ store[kind][k].content # "other"
    /\ UserEdit
    /\ Write(kind, k, [store[kind][k] EXCEPT !.content = "other", !.rv = NextVersion(kind, k)])
    /\ UNCHANGED appVars

DeleteDependent(kind, k) ==
    /\ <<"delete", kind>> \in UserActs /\ store[kind][k] # None
    /\ UserEdit
    /\ Write(kind, k, None)
    /\ UNCHANGED appVars

CreateForeign(kind, k) ==
    /\ <<"foreign", kind>> \in UserActs /\ store[kind][k] = None
    /\ UserEdit
    /\ Write(kind, k, [rv |-> NextVersion(kind, k), owner |-> 0, content |-> "other"])
    /\ UNCHANGED appVars

Mishap ==
    /\ mishaps < MaxMishaps
    /\ mishaps' = mishaps + 1
    /\ UNCHANGED edits

WriteStatus(k) ==
    /\ store["dep"][k] # None
    /\ Mishap
    /\ Write("dep", k, [store["dep"][k] EXCEPT !.rv = NextVersion("dep", k)])
    /\ UNCHANGED <<appVars, caches, process>>

\* Reconcile can create again and again for an App only its cache still
\* has; the bound makes the cache of the dependents follow.
GarbageCollect(kind, k) ==
    /\ Len(watch[kind][k]) < MaxLag
    /\ store[kind][k] # None /\ store[kind][k].owner # 0
    /\ app[k] # None => app[k].uid # store[kind][k].owner
    /\ Write(kind, k, None)
    /\ UNCHANGED <<appVars, caches, process, counters>>
-----------------------------------------------------------------------------
(***************************************************************************)
(* The process and its cache.  SetupWithManager asks for requests for Apps *)
(* (For) and for the Apps that own a Deployment, an Ingress or a Service   *)
(* that changes (Owns).  A dependent has the name of its App.              *)
(***************************************************************************)
\* The manager starts the worker when the cache has been filled; what it
\* found there is handed to the handlers one by one.
CacheSynced ==
    /\ phase = "starting"
    /\ phase' = "running"
    /\ appCache' = app /\ cache' = store
    /\ appWatch' = [k \in App |-> IF app[k] = None THEN <<>> ELSE <<app[k]>>]
    /\ watch' = [kind \in Kind |-> [k \in App |->
                    IF store[kind][k] = None THEN <<>> ELSE <<store[kind][k]>>]]
    /\ UNCHANGED <<app, store, wq, rec, unseen, counters>>

Crash ==
    /\ phase # "down"
    /\ Mishap
    /\ phase' = "down"
    /\ wq' = NewQueue /\ rec' = Idle /\ unseen' = {}
    /\ appWatch' = [k \in App |-> <<>>] /\ watch' = NoEvents
    /\ appCache' = [k \in App |-> None] /\ cache' = NoObjects
    /\ UNCHANGED <<app, store>>

\* config/manager runs it as a Deployment.
Restart ==
    /\ phase = "down"
    /\ phase' = "starting"
    /\ UNCHANGED <<appVars, storeVars, caches, wq, rec, unseen, counters>>

WatchApp(k) ==
    /\ Running /\ appWatch[k] # <<>>
    /\ appCache' = [appCache EXCEPT ![k] = Head(appWatch[k])]
    /\ wq' = Add(wq, k)
    /\ appWatch' = [appWatch EXCEPT ![k] = Tail(@)]
    /\ UNCHANGED <<app, storeVars, cache, phase, rec, unseen, counters>>

Owned(obj) == obj # None /\ obj.owner # 0

Watch(kind, k) ==
    /\ Running /\ watch[kind][k] # <<>>
    /\ LET old == cache[kind][k]
           new == Head(watch[kind][k])
       IN /\ cache' = [cache EXCEPT ![kind][k] = new]
          /\ IF Owned(old) \/ Owned(new)
             THEN wq' = Add(wq, k) /\ UNCHANGED unseen
             ELSE unseen' = unseen \cup {k} /\ UNCHANGED wq
    /\ watch' = [watch EXCEPT ![kind][k] = Tail(@)]
    /\ UNCHANGED <<appVars, store, appCache, phase, rec, counters>>

\* Every ten hours, unless the manager is told otherwise.
Resync(k) ==
    /\ Running /\ appCache[k] # None
    /\ wq' = Add(wq, k)
    /\ UNCHANGED <<appVars, storeVars, caches, phase, rec, unseen, counters>>

BackoffElapsed(k) ==
    /\ Running /\ k \in wq.waiting
    /\ wq' = Elapse(wq, k)
    /\ UNCHANGED <<appVars, storeVars, caches, phase, rec, unseen, counters>>
-----------------------------------------------------------------------------
(***************************************************************************)
(* Reconcile.                                                              *)
(***************************************************************************)
Get ==
    /\ Running /\ rec.pc = "idle" /\ HasItem(wq)
    /\ rec' = [Idle EXCEPT !.pc = "app", !.item = Head(wq.queue)]
    /\ wq' = Take(wq)
    /\ unseen' = unseen \ {Head(wq.queue)}
    /\ UNCHANGED <<appVars, storeVars, caches, phase, counters>>

\* Reconcile returns, with an error or without.
Return(result) == [Idle EXCEPT !.pc = result, !.item = rec.item]

GetApp ==
    /\ Running /\ rec.pc = "app"
    /\ LET a == appCache[rec.item] IN
         rec' = IF a = None THEN Return("ok")
                ELSE [rec EXCEPT !.pc = "read", !.app = a, !.kind = "dep"]
    /\ UNCHANGED <<appVars, storeVars, caches, phase, wq, unseen, counters>>

\* EnableService and EnableIngress; a Deployment there is always.
Wants(a, kind) == kind # "dep" => a.spec[kind]

\* parseTemp: what the template makes of a found object, or of an empty one.
Rendered(kind, a) == IF kind = "dep" THEN a.spec.size ELSE "template"

\* On to the next kind.
Onward ==
    IF rec.kind = "ing" THEN Return("ok")
    ELSE [rec EXCEPT !.pc = "read", !.got = None,
                     !.kind = IF @ = "dep" THEN "svc" ELSE "ing"]

\* Mutant: a Service or an Ingress that is no longer enabled stays.
ReadDependentWithoutDelete ==
    /\ Running /\ rec.pc = "read"
    /\ LET found == cache[rec.kind][rec.item]
       IN rec' = CASE ~Wants(rec.app, rec.kind) -> Onward
                   [] found = None /\ Wants(rec.app, rec.kind) -> [rec EXCEPT !.pc = "create"]
                   [] OTHER -> [rec EXCEPT !.pc = "update", !.got =
                                  IF rec.kind = "dep" THEN found
                                  ELSE [found EXCEPT !.content = Rendered(rec.kind, rec.app)]]
    /\ UNCHANGED <<appVars, storeVars, caches, phase, wq, unseen, counters>>

\* The template is applied to a Service or an Ingress that is found, but not
\* to a Deployment, which is sent back as it is.  Nobody asks who owns it.
ReadDependent ==
    /\ Running /\ rec.pc = "read"
    /\ LET found == cache[rec.kind][rec.item]
           wanted == Wants(rec.app, rec.kind)
       IN \/ found = None /\ ~wanted /\ rec' = Onward
          \/ found = None /\ wanted /\ rec' = [rec EXCEPT !.pc = "create"]
          \/ found # None /\ ~wanted /\ rec' = [rec EXCEPT !.pc = "delete"]
          \/ /\ found # None /\ wanted
             /\ rec' = [rec EXCEPT !.pc = "update", !.got =
                          IF rec.kind = "dep" THEN found
                          ELSE [found EXCEPT !.content = Rendered(rec.kind, rec.app)]]
    /\ UNCHANGED <<appVars, storeVars, caches, phase, wq, unseen, counters>>

\* Mutant: the owner reference points at the request.
NewOwnedByKey(kind, a) ==
    [rv |-> NextVersion(kind, rec.item), owner |-> rec.item, content |-> Rendered(kind, a)]

\* SetControllerReference, and the version Create returns.
NewDependent(kind, a) ==
    [rv |-> NextVersion(kind, rec.item), owner |-> a.uid, content |-> Rendered(kind, a)]

\* What the API server has under the name Reconcile is busy with.
Current == store[rec.kind][rec.item]

Created == Current = None /\ Write(rec.kind, rec.item, NewDependent(rec.kind, rec.app))

\* After a Create err is nil, so what was created is updated at once.
CreateDependent ==
    /\ Running /\ rec.pc = "create"
    /\ \/ /\ Created
          /\ rec' = [rec EXCEPT !.pc = "update", !.got = NewDependent(rec.kind, rec.app)]
       \/ /\ Current # None                    \* AlreadyExists
          /\ rec' = Return("fail")
          /\ UNCHANGED storeVars
    /\ UNCHANGED <<appVars, caches, phase, wq, unseen, counters>>

\* The API server refuses another version, and drops an update that changes
\* nothing.
Updated ==
    /\ Current # None /\ Current.rv = rec.got.rv
    /\ IF Current.content = rec.got.content THEN UNCHANGED storeVars
       ELSE Write(rec.kind, rec.item, [rec.got EXCEPT !.rv = NextVersion(rec.kind, rec.item)])

UpdateDependent ==
    /\ Running /\ rec.pc = "update"
    /\ \/ Updated /\ rec' = Onward
       \/ /\ Current # None => Current.rv # rec.got.rv
          /\ rec' = Return("fail")
          /\ UNCHANGED storeVars
    /\ UNCHANGED <<appVars, caches, phase, wq, unseen, counters>>

\* Whatever has the name now is deleted.
Deleted == Current # None /\ Write(rec.kind, rec.item, None)

RemoveDependent ==
    /\ Running /\ rec.pc = "delete"
    /\ \/ Deleted /\ rec' = Onward
       \/ /\ Current = None                    \* NotFound
          /\ rec' = Return("fail")
          /\ UNCHANGED storeVars
    /\ UNCHANGED <<appVars, caches, phase, wq, unseen, counters>>

\* A call fails before the API server sees it, or its answer is lost.
CallFails ==
    /\ Running /\ Mishap
    /\ \/ rec.pc \in {"create", "update", "delete"} /\ UNCHANGED storeVars
       \/ rec.pc = "create" /\ Created
       \/ rec.pc = "update" /\ Updated
       \/ rec.pc = "delete" /\ Deleted
    /\ rec' = Return("fail")
    /\ UNCHANGED <<appVars, caches, phase, wq, unseen>>

\* Mutant: errors are logged and not returned.
FinishWithoutRetry ==
    /\ Running /\ rec.pc \in {"ok", "fail"}
    /\ wq' = Done(Forget(wq, rec.item), rec.item)
    /\ rec' = Idle
    /\ UNCHANGED <<appVars, storeVars, caches, phase, unseen, counters>>

Finish ==
    /\ Running /\ rec.pc \in {"ok", "fail"}
    /\ wq' = Done(IF rec.pc = "ok" THEN Forget(wq, rec.item)
                  ELSE AddRateLimited(wq, rec.item), rec.item)
    /\ rec' = Idle
    /\ UNCHANGED <<appVars, storeVars, caches, phase, unseen, counters>>

Reconcile ==
    \/ Get \/ GetApp \/ ReadDependent \/ CreateDependent
    \/ UpdateDependent \/ RemoveDependent \/ Finish
-----------------------------------------------------------------------------
Next ==
    \/ \E k \in App :
          \/ CreateApp(k) \/ EditApp(k) \/ DeleteApp(k) \/ WriteStatus(k)
          \/ WatchApp(k) \/ Resync(k) \/ BackoffElapsed(k)
    \/ \E kind \in Kind, k \in App :
          \/ EditDependent(kind, k) \/ DeleteDependent(kind, k) \/ CreateForeign(kind, k)
          \/ GarbageCollect(kind, k) \/ Watch(kind, k)
    \/ Reconcile \/ CallFails
    \/ CacheSynced \/ Crash \/ Restart

Spec == Init /\ [][Next]_vars

\* The manager, its timers, the garbage collector and whatever restarts the
\* process keep going; users, failures and crashes come only if they do.
Fairness ==
    /\ WF_vars(CacheSynced) /\ WF_vars(Restart) /\ WF_vars(Reconcile)
    /\ \A k \in App :
          WF_vars(WatchApp(k)) /\ WF_vars(Resync(k)) /\ WF_vars(BackoffElapsed(k))
    /\ \A kind \in Kind, k \in App :
          WF_vars(Watch(kind, k)) /\ WF_vars(GarbageCollect(kind, k))

FairSpec == Spec /\ Fairness
-----------------------------------------------------------------------------
(***************************************************************************)
(* Properties.                                                             *)
(***************************************************************************)
\* What Reconcile wants for k is there: the Deployment, what is enabled as
\* its template has it, and nothing that is not enabled.
Reconciled(k) ==
    app[k] # None =>
        /\ store["dep"][k] # None
        /\ \A kind \in {"svc", "ing"} :
              IF app[k].spec[kind]
              THEN store[kind][k] # None /\ store[kind][k].content = "template"
              ELSE store[kind][k] = None

\* Nothing will ask for k any more but the resync in ten hours.
Quiescent(k) ==
    /\ Running
    /\ appWatch[k] = <<>> /\ \A kind \in Kind : watch[kind][k] = <<>>
    /\ k \notin wq.dirty \cup wq.waiting \cup unseen /\ rec.item # k

\* Once the manager is done with an App, what it wants is there, without the
\* help of a resync: through stale caches, conflicts, failing calls and lost
\* answers, which end Reconcile half way, deletions, garbage collection
\* after the App was created anew, and restarts (app_controller.go:63-198).
QuiescentIsReconciled == \A k \in App : Quiescent(k) => Reconciled(k)

\* And it comes to that: "synchronizing resources until the desired state is
\* reached on the cluster" (README.md:50-51), for the Service, the Ingress
\* and the existence of the Deployment, even when somebody else's objects
\* came and went, of which the manager is not told.
Converges == \A k \in App : <>[]Reconciled(k)

\* The same for the Deployment's template ("it exists: update it",
\* app_controller.go:110).
DeploymentConverges ==
    \A k \in App :
        <>[](app[k] # None /\ store["dep"][k] # None /\ Owned(store["dep"][k])
             => store["dep"][k].content = app[k].spec.size)

\* What Reconcile has in hand, and the promise of controller-runtime's queue:
\* a request that is due leaves the queue only into Reconcile's hands, and is
\* due again when it was asked for meanwhile or Reconcile returned an error.
Hand == [key |-> rec.item, result |-> IF rec.pc \in {"ok", "fail"} THEN rec.pc ELSE "none"]

Work == INSTANCE ExclusiveWork WITH
          Worker <- {"Reconcile"},
          open <- phase # "down",
          due <- Pending(wq),
          hand <- [w \in {"Reconcile"} |-> Hand]

WorkIsExclusive == Work!Spec
=============================================================================
