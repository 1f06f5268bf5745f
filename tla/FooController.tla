---------------------------- MODULE FooController ----------------------------
(***************************************************************************)
(* The sample controller of operator/crd/app-contoller: for every Foo it   *)
(* creates the Deployment the Foo's spec names, with the Foo as its        *)
(* controller, keeps its replicas equal to the Foo's, and copies the       *)
(* number of available replicas into the Foo's status.                     *)
(*                                                                         *)
(* Unlike the App controller it also watches Deployments: handleObject     *)
(* finds the Foo that owns one by name in the cache of Foos.  Its status   *)
(* write is the only call that carries a resource version, that of the Foo *)
(* it read from the cache.                                                 *)
(***************************************************************************)
EXTENDS WorkQueue

CONSTANTS
    Worker,      \* the goroutines Run starts (2 in main.go)
    Name,        \* names of Deployments
    Specs,       \* the specs users give to Foos
    UserActs,    \* what users do to Deployments, a subset of AllUserActs
    None,
    MaxEdits,    \* bound: edits by users, pods that fail
    MaxFailures, \* bound: API calls of a worker that fail
    MaxStops,    \* bound: times the process is told to stop
    MaxLag       \* bound: changes of one Deployment on their way to the cache
                 \*        when the garbage collector deletes it

Foo == Key
AllUserActs == {"scale", "delete", "foreign", "orphan", "crash"}

\* No name stands for "", which syncHandler ignores; no replicas for nil.
FooSpec == [dep : Name \cup {None}, replicas : Nat \cup {None}]
FooObject == [uid : 1..MaxEdits, rv : Nat, spec : Specs, status : Nat]

\* owner is the uid in the controller reference, 0 without one.  label is the
\* Foo whose name the reference and the immutable selector carry.
Deployment == {d \in [owner : 0..MaxEdits, label : Foo \cup {None},
                      replicas : Nat, available : Nat] : d.owner # 0 => d.label # None}

\* What syncHandler has read and done so far.
Sync == [pc : {"idle", "foo", "dep", "create", "check", "update", "status", "ok", "fail"},
         item : Foo \cup {None}, foo : FooObject \cup {None},
         dep : Deployment \cup {None}]

Idle == [pc |-> "idle", item |-> None, foo |-> None, dep |-> None]

ASSUME ConstantsAssumption ==
    /\ Specs \subseteq FooSpec
    /\ UserActs \subseteq AllUserActs
    /\ MaxEdits \in Nat /\ MaxFailures \in Nat /\ MaxStops \in Nat /\ MaxLag \in Nat
    /\ None \notin Foo /\ None \notin FooObject /\ None \notin Deployment
    /\ None \notin Nat

VARIABLES
    foo, store,         \* API server: Foos and Deployments, None if absent
    fooWatch, watch,    \* changes sent, not yet in the caches
    fooCache, cache,    \* what the listers read
    phase,              \* of the process
    wq, worker,         \* c.workqueue and [Worker -> Sync]
    edits, failures, stops

fooVars == <<foo, fooWatch>>
storeVars == <<store, watch>>
caches == <<fooCache, cache>>
process == <<phase, wq, worker>>
counters == <<edits, failures, stops>>
vars == <<fooVars, storeVars, caches, process, counters>>

TypeOK ==
    /\ foo \in [Foo -> FooObject \cup {None}]
    /\ store \in [Name -> Deployment \cup {None}]
    /\ fooWatch \in [Foo -> Seq(FooObject \cup {None})]
    /\ watch \in [Name -> Seq(Deployment \cup {None})]
    /\ fooCache \in [Foo -> FooObject \cup {None}]
    /\ cache \in [Name -> Deployment \cup {None}]
    /\ phase \in {"starting", "running", "stopping", "down"}
    /\ wq \in Queue
    /\ worker \in [Worker -> Sync]
    /\ edits \in 0..MaxEdits /\ failures \in 0..MaxFailures /\ stops \in 0..MaxStops

Init ==
    /\ foo = [f \in Foo |-> None] /\ store = [n \in Name |-> None]
    /\ fooWatch = [f \in Foo |-> <<>>] /\ watch = [n \in Name |-> <<>>]
    /\ fooCache = [f \in Foo |-> None] /\ cache = [n \in Name |-> None]
    /\ phase = "starting"
    /\ wq = NewQueue
    /\ worker = [w \in Worker |-> Idle]
    /\ edits = 0 /\ failures = 0 /\ stops = 0

Alive == phase \in {"running", "stopping"}
-----------------------------------------------------------------------------
(***************************************************************************)
(* The API server, its users, and the controllers that run beside this one *)
(* in the cluster.  A write that changes nothing is no event.              *)
(***************************************************************************)
WriteFoo(f, obj) ==
    /\ foo' = [foo EXCEPT ![f] = obj]
    /\ fooWatch' = IF Alive /\ foo[f] # obj
                   THEN [fooWatch EXCEPT ![f] = Append(@, obj)] ELSE fooWatch

Write(n, obj) ==
    /\ store' = [store EXCEPT ![n] = obj]
    /\ watch' = IF Alive /\ store[n] # obj
                THEN [watch EXCEPT ![n] = Append(@, obj)] ELSE watch

UserEdit ==
    /\ edits < MaxEdits
    /\ edits' = edits + 1
    /\ UNCHANGED <<caches, process, failures, stops>>

CreateFoo(f) ==
    /\ foo[f] = None
    /\ UserEdit
    /\ \E s \in Specs :
          WriteFoo(f, [uid |-> edits + 1, rv |-> 1, spec |-> s, status |-> 0])
    /\ UNCHANGED storeVars

EditFoo(f) ==
    /\ foo[f] # None
    /\ UserEdit
    /\ \E s \in Specs \ {foo[f].spec} :
          WriteFoo(f, [foo[f] EXCEPT !.spec = s, !.rv = @ + 1])
    /\ UNCHANGED storeVars

DeleteFoo(f) ==
    /\ foo[f] # None
    /\ UserEdit
    /\ WriteFoo(f, None)
    /\ UNCHANGED storeVars

\* kubectl scale
Scale(n) ==
    /\ "scale" \in UserActs /\ store[n] # None
    /\ UserEdit
    /\ \E s \in Specs : s.replicas # None /\ Write(n, [store[n] EXCEPT !.replicas = s.replicas])
    /\ UNCHANGED fooVars

DeleteDeployment(n) ==
    /\ "delete" \in UserActs /\ store[n] # None
    /\ UserEdit
    /\ Write(n, None)
    /\ UNCHANGED fooVars

CreateForeign(n) ==
    /\ "foreign" \in UserActs /\ store[n] = None
    /\ UserEdit
    /\ Write(n, [owner |-> 0, label |-> None, replicas |-> 1, available |-> 0])
    /\ UNCHANGED fooVars

\* The owner reference is taken off by hand.
Orphan(n) ==
    /\ "orphan" \in UserActs /\ store[n] # None
    /\ UserEdit
    /\ Write(n, [store[n] EXCEPT !.owner = 0])
    /\ UNCHANGED fooVars

\* The Deployment's pods fail.
PodsFail(n) ==
    /\ "crash" \in UserActs /\ store[n] # None
    /\ UserEdit
    /\ Write(n, [store[n] EXCEPT !.available = 0])
    /\ UNCHANGED fooVars

\* The Deployment controller has brought up, or taken down, the pods.
Rollout(n) ==
    /\ Len(watch[n]) < MaxLag
    /\ store[n] # None /\ store[n].available # store[n].replicas
    /\ Write(n, [store[n] EXCEPT !.available = store[n].replicas])
    /\ UNCHANGED <<fooVars, caches, process, counters>>

\* The bounds make the cache follow: a worker with an old Foo can create
\* again and again what the garbage collector deletes.
GarbageCollect(n) ==
    /\ Len(watch[n]) < MaxLag
    /\ store[n] # None /\ store[n].owner # 0
    /\ \A f \in Foo : foo[f] # None => foo[f].uid # store[n].owner
    /\ Write(n, None)
    /\ UNCHANGED <<fooVars, caches, process, counters>>
-----------------------------------------------------------------------------
(***************************************************************************)
(* The process: started, synced, told to stop, gone.  Nothing restarts it  *)
(* but its user.                                                           *)
(***************************************************************************)
\* WaitForCacheSync returned.  What a list missed is a change on its way that
\* arrives before the first read; the listed Foos are handed to AddFunc one
\* by one.  A listed Deployment could queue no Foo but these.
CachesSynced ==
    /\ phase = "starting"
    /\ phase' = "running"
    /\ fooWatch' = [f \in Foo |-> IF foo[f] = None THEN <<>> ELSE <<foo[f]>>]
    /\ cache' = store
    /\ UNCHANGED <<foo, storeVars, fooCache, wq, worker, counters>>

Down ==
    /\ phase' = "down"
    /\ wq' = NewQueue
    /\ worker' = [w \in Worker |-> Idle]
    /\ fooWatch' = [f \in Foo |-> <<>>] /\ watch' = [n \in Name |-> <<>>]
    /\ fooCache' = [f \in Foo |-> None] /\ cache' = [n \in Name |-> None]
    /\ UNCHANGED <<foo, store>>

\* The context is done.  Run shuts the queue down when it was past
\* WaitForCacheSync and returns an error when it was not.
Signal ==
    /\ stops < MaxStops
    /\ stops' = stops + 1
    /\ \/ /\ phase = "running"
          /\ phase' = "stopping"
          /\ wq' = ShutDown(wq)
          /\ UNCHANGED <<fooVars, storeVars, caches, worker>>
       \/ phase = "starting" /\ Down
    /\ UNCHANGED <<edits, failures>>

\* Run returns right after ShutDown, and main returns with it: although its
\* comment says so, nobody waits for the workers.
Exit ==
    /\ phase = "stopping"
    /\ Down
    /\ UNCHANGED counters

Start ==
    /\ phase = "down"
    /\ phase' = "starting"
    /\ UNCHANGED <<fooVars, storeVars, caches, wq, worker, counters>>
-----------------------------------------------------------------------------
(***************************************************************************)
(* The informers and the handlers.                                         *)
(***************************************************************************)
\* Nobody handles the deletion of a Foo.
WatchFoo(f) ==
    /\ Alive /\ fooWatch[f] # <<>>
    /\ fooCache' = [fooCache EXCEPT ![f] = Head(fooWatch[f])]
    /\ wq' = IF Head(fooWatch[f]) = None THEN wq ELSE Add(wq, f)
    /\ fooWatch' = [fooWatch EXCEPT ![f] = Tail(@)]
    /\ UNCHANGED <<foo, storeVars, cache, phase, worker, counters>>

\* Mutant: only a Deployment that is still there is handled.
HandleObjectUnlessDeleted(old, new) ==
    IF new # None /\ new.owner # 0 /\ fooCache[new.label] # None
    THEN Add(wq, new.label) ELSE wq

\* AddFunc and UpdateFunc pass the new object, DeleteFunc the last one known,
\* from a tombstone if need be.  The owner is looked up by the name in its
\* reference, whatever the uid; one that is not in the cache is ignored.
HandleObject(old, new) ==
    LET object == IF new = None THEN old ELSE new IN
      IF object # None /\ object.owner # 0 /\ fooCache[object.label] # None
      THEN Add(wq, object.label) ELSE wq

\* A resync hands over a Deployment with the version it had: UpdateFunc
\* returns, so there is no step for it.
Watch(n) ==
    /\ Alive /\ watch[n] # <<>>
    /\ cache' = [cache EXCEPT ![n] = Head(watch[n])]
    /\ wq' = HandleObject(cache[n], Head(watch[n]))
    /\ watch' = [watch EXCEPT ![n] = Tail(@)]
    /\ UNCHANGED <<fooVars, store, fooCache, phase, worker, counters>>

\* Every 30 seconds UpdateFunc is called for every Foo in the cache.
Resync(f) ==
    /\ Alive /\ fooCache[f] # None
    /\ wq' = Add(wq, f)
    /\ UNCHANGED <<fooVars, storeVars, caches, phase, worker, counters>>

BackoffElapsed(f) ==
    /\ Alive /\ f \in wq.waiting
    /\ wq' = Elapse(wq, f)
    /\ UNCHANGED <<fooVars, storeVars, caches, phase, worker, counters>>
-----------------------------------------------------------------------------
(***************************************************************************)
(* The workers: processNextWorkItem and, between Get and Finish,           *)
(* syncHandler.                                                            *)
(***************************************************************************)
Get(w) ==
    /\ Alive /\ worker[w].pc = "idle" /\ HasItem(wq)
    /\ worker' = [worker EXCEPT ![w] = [Idle EXCEPT !.pc = "foo", !.item = Head(wq.queue)]]
    /\ wq' = Take(wq)
    /\ UNCHANGED <<fooVars, storeVars, caches, phase, counters>>

\* The worker goes on to pc, with dep as the Deployment it knows.
Goto(w, pc, dep) == worker' = [worker EXCEPT ![w].pc = pc, ![w].dep = dep]

\* A Foo that is gone or names no Deployment is no error.
GetFoo(w) ==
    /\ Alive /\ worker[w].pc = "foo"
    /\ LET f == fooCache[worker[w].item] IN
         worker' = [worker EXCEPT ![w].foo = f,
                                  ![w].pc = IF f = None \/ f.spec.dep = None
                                            THEN "ok" ELSE "dep"]
    /\ UNCHANGED <<fooVars, storeVars, caches, phase, wq, counters>>

GetDeployment(w) ==
    /\ Alive /\ worker[w].pc = "dep"
    /\ LET found == cache[worker[w].foo.spec.dep] IN
         Goto(w, IF found = None THEN "create" ELSE "check", found)
    /\ UNCHANGED <<fooVars, storeVars, caches, phase, wq, counters>>

\* Mutant: nobody makes nil replicas 1.
NewDeploymentWithNil(f, obj) ==
    [owner |-> obj.uid, label |-> f, replicas |-> obj.spec.replicas, available |-> 0]

\* newDeployment for the Foo of name f.  The API server makes nil replicas 1.
NewDeployment(f, obj) ==
    [owner |-> obj.uid, label |-> f,
     replicas |-> IF obj.spec.replicas = None THEN 1 ELSE obj.spec.replicas,
     available |-> 0]

CreateDeployment(w) ==
    /\ Alive /\ worker[w].pc = "create"
    /\ LET n == worker[w].foo.spec.dep
           obj == NewDeployment(worker[w].item, worker[w].foo)
       IN \/ /\ store[n] = None
             /\ Write(n, obj)
             /\ Goto(w, "check", obj)
          \/ /\ store[n] # None                 \* AlreadyExists
             /\ Goto(w, "fail", None)
             /\ UNCHANGED storeVars
    /\ UNCHANGED <<fooVars, caches, phase, wq, counters>>

\* Mutant: a Deployment is never scaled.
CheckWithoutReplicas(w) ==
    /\ Alive /\ worker[w].pc = "check"
    /\ LET s == worker[w] IN
         Goto(w, IF s.dep.owner # s.foo.uid THEN "fail" ELSE "status", s.dep)
    /\ UNCHANGED <<fooVars, storeVars, caches, phase, wq, counters>>

\* The Deployment must be controlled by the Foo that was read, or there is a
\* warning and an error.  A Foo without replicas leaves them alone.
Check(w) ==
    /\ Alive /\ worker[w].pc = "check"
    /\ LET s == worker[w] IN
         Goto(w, IF s.dep.owner # s.foo.uid THEN "fail"
                 ELSE IF s.foo.spec.replicas \notin {None, s.dep.replicas} THEN "update"
                 ELSE "status", s.dep)
    /\ UNCHANGED <<fooVars, storeVars, caches, phase, wq, counters>>

\* What Update makes of the Deployment n: it carries no resource version and
\* overwrites whatever is there, but not the status; a selector that differs
\* is refused.
Updatable(n, obj) == store[n] # None /\ store[n].label = obj.label
Updated(n, obj) == [obj EXCEPT !.available = store[n].available]

UpdateDeployment(w) ==
    /\ Alive /\ worker[w].pc = "update"
    /\ LET n == worker[w].foo.spec.dep
           obj == NewDeployment(worker[w].item, worker[w].foo)
       IN \/ /\ Updatable(n, obj)
             /\ Write(n, Updated(n, obj))
             /\ Goto(w, "status", Updated(n, obj))
          \/ /\ ~Updatable(n, obj)
             /\ Goto(w, "fail", None)
             /\ UNCHANGED storeVars
    /\ UNCHANGED <<fooVars, caches, phase, wq, counters>>

\* UpdateStatus takes the status only, and only for the version that was read.
IsCurrent(f, obj) == foo[f] # None /\ foo[f].uid = obj.uid /\ foo[f].rv = obj.rv
WriteStatus(f, n) ==
    WriteFoo(f, IF foo[f].status = n THEN foo[f]
                ELSE [foo[f] EXCEPT !.status = n, !.rv = @ + 1])

\* Mutant: the status is written whatever version was read.
UpdateFooStatusBlindly(w) ==
    /\ Alive /\ worker[w].pc = "status"
    /\ LET f == worker[w].item IN
         \/ /\ foo[f] # None
            /\ WriteStatus(f, worker[w].dep.available)
            /\ Goto(w, "ok", worker[w].dep)
         \/ /\ foo[f] = None
            /\ Goto(w, "fail", worker[w].dep)
            /\ UNCHANGED fooVars
    /\ UNCHANGED <<storeVars, caches, phase, wq, counters>>

UpdateFooStatus(w) ==
    /\ Alive /\ worker[w].pc = "status"
    /\ LET f == worker[w].item IN
         \/ /\ IsCurrent(f, worker[w].foo)
            /\ WriteStatus(f, worker[w].dep.available)
            /\ Goto(w, "ok", worker[w].dep)
         \/ /\ ~IsCurrent(f, worker[w].foo)     \* Conflict or NotFound
            /\ Goto(w, "fail", worker[w].dep)
            /\ UNCHANGED fooVars
    /\ UNCHANGED <<storeVars, caches, phase, wq, counters>>

\* A call fails before the API server sees it.
CallFails(w) ==
    /\ Alive /\ worker[w].pc \in {"create", "update", "status"} /\ failures < MaxFailures
    /\ failures' = failures + 1
    /\ Goto(w, "fail", None)
    /\ UNCHANGED <<fooVars, storeVars, caches, phase, wq, edits, stops>>

\* A call takes effect, but the answer is lost.
AnswerLost(w) ==
    /\ Alive /\ failures < MaxFailures
    /\ failures' = failures + 1
    /\ LET f == worker[w].item
           n == worker[w].foo.spec.dep
           obj == NewDeployment(f, worker[w].foo)
       IN \/ /\ worker[w].pc = "create" /\ store[n] = None
             /\ Write(n, obj) /\ UNCHANGED fooVars
          \/ /\ worker[w].pc = "update" /\ Updatable(n, obj)
             /\ Write(n, Updated(n, obj)) /\ UNCHANGED fooVars
          \/ /\ worker[w].pc = "status" /\ IsCurrent(f, worker[w].foo)
             /\ WriteStatus(f, worker[w].dep.available) /\ UNCHANGED storeVars
    /\ Goto(w, "fail", None)
    /\ UNCHANGED <<caches, phase, wq, edits, stops>>

\* Mutant: Done is not deferred but called after a success only.
FinishWithoutDone(w) ==
    /\ Alive /\ worker[w].pc \in {"ok", "fail"}
    /\ LET k == worker[w].item IN
         wq' = IF worker[w].pc = "ok" THEN Done(Forget(wq, k), k) ELSE AddRateLimited(wq, k)
    /\ worker' = [worker EXCEPT ![w] = Idle]
    /\ UNCHANGED <<fooVars, storeVars, caches, phase, counters>>

\* Mutant: a sync that failed is forgotten like one that did not.
FinishWithoutRetry(w) ==
    /\ Alive /\ worker[w].pc \in {"ok", "fail"}
    /\ LET k == worker[w].item IN wq' = Done(Forget(wq, k), k)
    /\ worker' = [worker EXCEPT ![w] = Idle]
    /\ UNCHANGED <<fooVars, storeVars, caches, phase, counters>>

\* The deferred Done comes after AddRateLimited or Forget.
Finish(w) ==
    /\ Alive /\ worker[w].pc \in {"ok", "fail"}
    /\ LET k == worker[w].item IN
         wq' = Done(IF worker[w].pc = "ok" THEN Forget(wq, k) ELSE AddRateLimited(wq, k), k)
    /\ worker' = [worker EXCEPT ![w] = Idle]
    /\ UNCHANGED <<fooVars, storeVars, caches, phase, counters>>

ProcessNextWorkItem(w) ==
    \/ Get(w) \/ GetFoo(w) \/ GetDeployment(w) \/ CreateDeployment(w)
    \/ Check(w) \/ UpdateDeployment(w) \/ UpdateFooStatus(w) \/ Finish(w)
-----------------------------------------------------------------------------
Next ==
    \/ \E f \in Foo :
          \/ CreateFoo(f) \/ EditFoo(f) \/ DeleteFoo(f)
          \/ WatchFoo(f) \/ Resync(f) \/ BackoffElapsed(f)
    \/ \E n \in Name :
          \/ Scale(n) \/ DeleteDeployment(n) \/ CreateForeign(n) \/ Orphan(n)
          \/ PodsFail(n) \/ Rollout(n) \/ GarbageCollect(n) \/ Watch(n)
    \/ \E w \in Worker : ProcessNextWorkItem(w) \/ CallFails(w) \/ AnswerLost(w)
    \/ CachesSynced \/ Signal \/ Exit \/ Start

Spec == Init /\ [][Next]_vars

\* Informers, resyncs, timers, workers and the cluster's own controllers keep
\* going; users, pods that fail, failures and signals come only if they do.
Fairness ==
    /\ WF_vars(CachesSynced)
    /\ \A f \in Foo :
          /\ WF_vars(WatchFoo(f)) /\ WF_vars(Resync(f))
          /\ WF_vars(BackoffElapsed(f))
    /\ \A n \in Name :
          WF_vars(Watch(n)) /\ WF_vars(Rollout(n)) /\ WF_vars(GarbageCollect(n))
    /\ \A w \in Worker : WF_vars(ProcessNextWorkItem(w))

FairSpec == Spec /\ Fairness
-----------------------------------------------------------------------------
(***************************************************************************)
(* Properties.                                                             *)
(***************************************************************************)
\* "We are never processing the same item simultaneously in two different
\* workers" (controller.go:78-80), through failures, retries, the handlers of
\* two informers and shutdown; and the deferred Done gives every key back.
MutualExclusion ==
    /\ \A v, w \in Worker :
          worker[v].item = worker[w].item /\ worker[v].item # None => v = w
    /\ wq.processing = {worker[w].item : w \in Worker} \ {None}
    /\ QueueInv(wq)

Valid(f) == foo[f] # None /\ foo[f].spec.dep # None
DeploymentOf(f) == store[foo[f].spec.dep]
Blocked(f) == DeploymentOf(f) # None /\ DeploymentOf(f).owner # foo[f].uid

\* The Deployment is there with its replicas, and the status tells how many of
\* them are available.
Synced(f) ==
    LET d == DeploymentOf(f) IN
      /\ d # None /\ d.owner = foo[f].uid
      /\ foo[f].spec.replicas \in {None, d.replicas}
      /\ foo[f].status = d.available

\* When the controller is done, with no change on its way and no key queued,
\* held or waiting, every Foo is synced.  handleObject drops what happens to
\* a Deployment whose Foo is not in the cache yet (controller.go:386-390), a
\* status write may meet a newer Foo (339), and a cached Deployment may be
\* older than the one just created: in every order some later event or error
\* must have asked for one more sync, without the help of a resync.  (The one
\* exception is a Deployment that is orphaned: nobody knows any more whom to
\* ask for, and the next resync does.)
QuiescentIsSynced ==
    /\ phase = "running"
    /\ \A f \in Foo : fooWatch[f] = <<>>
    /\ \A n \in Name : watch[n] = <<>>
    /\ wq.dirty = {} /\ wq.processing = {} /\ wq.waiting = {}
    => \A f \in Foo : Valid(f) => Synced(f)

\* The status of a Foo only ever tells of a Deployment which that very Foo
\* controls: not of one that was left by a deleted Foo of the same name, nor
\* of somebody else's, however old the worker's Foo and Deployment are.
StatusIsOwn ==
    [][\A f \in Foo :
          foo[f] # None /\ foo'[f] # None /\ foo[f].uid = foo'[f].uid
          /\ foo[f].status # foo'[f].status
          => \E w \in Worker : worker[w].item = f /\ worker[w].dep.owner = foo[f].uid]_vars

\* Once users stop and pods stay up, every Foo whose Deployment's name is not
\* taken is synced for good, through failed calls, lost answers and conflicts
\* of the status write ("we update the status block of
\* the Foo resource to reflect the current state of the world",
\* controller.go:319-320).
FoosConverge == \A f \in Foo : <>[](Valid(f) /\ ~Blocked(f) => Synced(f))

\* What a worker has in hand, and the promise of the work queue: a key is in
\* the hands of one worker at a time, one that is due leaves the queue only
\* into a worker's hands, and is due again when it was asked for meanwhile or
\* its sync failed (controller.go:208-233), until the queue is shut down.
Hand(s) == [key |-> s.item, result |-> IF s.pc \in {"ok", "fail"} THEN s.pc ELSE "none"]

Work == INSTANCE ExclusiveWork WITH
          open <- phase \in {"starting", "running"},
          due <- Pending(wq),
          hand <- [w \in Worker |-> Hand(worker[w])]

WorkIsExclusive == Work!Spec
=============================================================================
