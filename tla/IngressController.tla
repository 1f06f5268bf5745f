-------------------------- MODULE IngressController --------------------------
(***************************************************************************)
(* The Service-to-Ingress controller of operator/client-go-project: it     *)
(* watches Services and Ingresses and keeps an Ingress of the same         *)
(* namespace/name for every Service annotated "ingress/http" = "true".     *)
(*                                                                         *)
(* Three things run concurrently: the API server, where users and the      *)
(* garbage collector edit objects; the two informers, whose caches lag     *)
(* behind the API server and whose handlers lag behind the caches; and the *)
(* workers, which read the caches one after the other and then write to    *)
(* the API server.  A panic in a handler or in a worker takes the whole    *)
(* process down; the Deployment in conf/ restarts it with empty caches.    *)
(***************************************************************************)
EXTENDS WorkQueue

CONSTANTS
    Worker,           \* the goroutines Run starts (workerNum = 5 in the code)
    MaxRetry,         \* maxRetry
    None,             \* "no such object"
    Annotations,      \* values of ingress/http users set
    PortChoices,      \* SUBSET BOOLEAN: may a Service have ports, or none
    ForeignControllers, \* controllers of Ingresses made by somebody else
    MaxEdits,         \* bound: edits by users
    MaxFailures,      \* bound: API calls of a worker that fail
    MaxCrashes,       \* bound: kills of the process from outside
    MaxSvcRelists,    \* bound: broken watches of each informer,
    MaxIngRelists     \*        each followed by a new list

\* rv is the resource version of the last change, uid that of the creation.
\* ports says whether Spec.Ports is non-empty.
Service ==
    [uid : 1..MaxEdits, rv : 1..MaxEdits, ann : Annotations, ports : BOOLEAN]

\* controller is the kind in the controller owner reference, "none" when
\* there is no such reference; owner is the uid in it when it is a Service.
Ingress ==
    [controller : {"Service", "other", "none"}, owner : 0..MaxEdits]

\* What the informers' handlers are called with.
SvcNote == [old : Service \cup {None}, new : Service]
IngNote == [obj : Ingress, tombstone : BOOLEAN]

Seen == [pc : {"idle", "svc", "ing", "create", "delete", "done"},
         item : Key \cup {None}, svc : Service \cup {None}]
Idle == [pc |-> "idle", item |-> None, svc |-> None]

ASSUME ConstantsAssumption ==
    /\ MaxRetry \in Nat /\ MaxRetry < RequeueCap
    /\ Annotations \subseteq {"true", "false", "unset"}
    /\ PortChoices \subseteq BOOLEAN
    /\ ForeignControllers \subseteq {"other", "none"}
    /\ \A n \in {MaxEdits, MaxFailures, MaxCrashes, MaxSvcRelists, MaxIngRelists} :
          n \in Nat
    /\ None \notin Key /\ None \notin Service /\ None \notin Ingress

VARIABLES
    svc, ing,           \* API server: [Key -> object or None]
    svcWatch, ingWatch, \* changes sent by the API server, not yet in the cache
    svcCache, ingCache, \* the informers' indexers, which the listers read
    svcNotes, ingNotes, \* calls of our handlers that are still to be made
    synced,             \* informers whose first list is in the cache
    wq,                 \* con.queue
    worker,             \* [Worker -> Seen]
    up,                 \* the process runs
    edits, failures, crashes, relists  \* bounded counters

api == <<svc, ing>>
informers == <<svcWatch, ingWatch, svcCache, ingCache, svcNotes, ingNotes, synced>>
counters == <<edits, failures, crashes, relists>>
vars == <<api, informers, wq, worker, up, counters>>

NoObjects == [k \in Key |-> None]
NoEvents == [k \in Key |-> <<>>]

TypeOK ==
    /\ svc \in [Key -> Service \cup {None}]
    /\ ing \in [Key -> Ingress \cup {None}]
    /\ svcWatch \in [Key -> Seq(Service \cup {None})]
    /\ ingWatch \in [Key -> Seq(Ingress \cup {None})]
    /\ svcCache \in [Key -> Service \cup {None}]
    /\ ingCache \in [Key -> Ingress \cup {None}]
    /\ svcNotes \in [Key -> Seq(SvcNote)]
    /\ ingNotes \in [Key -> Seq(IngNote)]
    /\ synced \in SUBSET {"svc", "ing"}
    /\ wq \in Queue
    /\ worker \in [Worker -> Seen]
    /\ up \in BOOLEAN
    /\ edits \in 0..MaxEdits
    /\ failures \in 0..MaxFailures
    /\ crashes \in 0..MaxCrashes
    /\ relists \in [{"svc", "ing"} -> Nat]

Init ==
    /\ svc = NoObjects /\ ing = NoObjects
    /\ svcWatch = NoEvents /\ ingWatch = NoEvents
    /\ svcCache = NoObjects /\ ingCache = NoObjects
    /\ svcNotes = NoEvents /\ ingNotes = NoEvents
    /\ synced = {}
    /\ wq = NewQueue
    /\ worker = [w \in Worker |-> Idle]
    /\ up = TRUE
    /\ edits = 0 /\ failures = 0 /\ crashes = 0
    /\ relists = [i \in {"svc", "ing"} |-> 0]
-----------------------------------------------------------------------------
(***************************************************************************)
(* The API server.  Every write is also sent to the informer that watches  *)
(* the kind, once that informer has listed it.                             *)
(***************************************************************************)
WriteSvc(k, obj) ==
    /\ svc' = [svc EXCEPT ![k] = obj]
    /\ svcWatch' = IF "svc" \in synced
                   THEN [svcWatch EXCEPT ![k] = Append(@, obj)] ELSE svcWatch

WriteIng(k, obj) ==
    /\ ing' = [ing EXCEPT ![k] = obj]
    /\ ingWatch' = IF "ing" \in synced
                   THEN [ingWatch EXCEPT ![k] = Append(@, obj)] ELSE ingWatch

UserEdit ==
    /\ edits < MaxEdits
    /\ edits' = edits + 1
    /\ UNCHANGED <<svcCache, ingCache, svcNotes, ingNotes, synced,
                   wq, worker, up, failures, crashes, relists>>

CreateSvc(k) ==
    /\ svc[k] = None
    /\ UserEdit
    /\ \E a \in Annotations, p \in PortChoices :
          WriteSvc(k, [uid |-> edits + 1, rv |-> edits + 1, ann |-> a, ports |-> p])
    /\ UNCHANGED <<ing, ingWatch>>

EditSvc(k) ==
    /\ svc[k] # None
    /\ UserEdit
    /\ \E a \in Annotations, p \in PortChoices :
          WriteSvc(k, [svc[k] EXCEPT !.rv = edits + 1, !.ann = a, !.ports = p])
    /\ UNCHANGED <<ing, ingWatch>>

DeleteSvc(k) ==
    /\ svc[k] # None
    /\ UserEdit
    /\ WriteSvc(k, None)
    /\ UNCHANGED <<ing, ingWatch>>

\* Somebody else creates an Ingress of the name, for another controller or
\* for none.
CreateForeignIng(k) ==
    /\ ing[k] = None
    /\ UserEdit
    /\ \E c \in ForeignControllers : WriteIng(k, [controller |-> c, owner |-> 0])
    /\ UNCHANGED <<svc, svcWatch>>

DeleteIngByUser(k) ==
    /\ ing[k] # None
    /\ UserEdit
    /\ WriteIng(k, None)
    /\ UNCHANGED <<svc, svcWatch>>

\* Cascading deletion: an Ingress goes once the Service with the uid in its
\* owner reference is gone, even when a new Service has the same name.
GarbageCollect(k) ==
    /\ ing[k] # None /\ ing[k].controller = "Service"
    /\ svc[k] # None => svc[k].uid # ing[k].owner
    /\ WriteIng(k, None)
    /\ UNCHANGED <<svc, svcWatch, svcCache, ingCache, svcNotes, ingNotes, synced,
                   wq, worker, up, counters>>
-----------------------------------------------------------------------------
(***************************************************************************)
(* The process.                                                            *)
(***************************************************************************)
\* Nothing is persisted: what is down has lost caches, queue and workers.
GoDown ==
    /\ up' = FALSE
    /\ svcWatch' = NoEvents /\ ingWatch' = NoEvents
    /\ svcCache' = NoObjects /\ ingCache' = NoObjects
    /\ svcNotes' = NoEvents /\ ingNotes' = NoEvents
    /\ synced' = {}
    /\ wq' = NewQueue
    /\ worker' = [w \in Worker |-> Idle]

\* runtime.HandleCrash re-panics, so a panic of any goroutine ends the process.
Panic ==
    /\ GoDown
    /\ UNCHANGED <<api, counters>>

Crash ==
    /\ up /\ crashes < MaxCrashes
    /\ crashes' = crashes + 1
    /\ GoDown
    /\ UNCHANGED <<api, edits, failures, relists>>

Restart ==
    /\ ~up
    /\ up' = TRUE
    /\ UNCHANGED <<api, informers, wq, worker, counters>>
-----------------------------------------------------------------------------
(***************************************************************************)
(* The informers.  A list replaces the cache and discards the watch it     *)
(* breaks off: what changed in between is only known as the difference     *)
(* between the old and the new cache, so an object that vanished yields a  *)
(* DeletedFinalStateUnknown ("tombstone") and one that came and went       *)
(* yields nothing.  The resync period is 0, so nothing is replayed later.  *)
(***************************************************************************)
ListSvc ==
    /\ up
    /\ "svc" \in synced => relists["svc"] < MaxSvcRelists
    /\ relists' = [relists EXCEPT !["svc"] = IF "svc" \in synced THEN @ + 1 ELSE @]
    /\ synced' = synced \cup {"svc"}
    /\ svcCache' = svc
    /\ svcWatch' = NoEvents
    /\ svcNotes' = [k \in Key |->
                      IF svc[k] = None THEN svcNotes[k]
                      ELSE Append(svcNotes[k], [old |-> svcCache[k], new |-> svc[k]])]
    /\ UNCHANGED <<api, ingWatch, ingCache, ingNotes, wq, worker, up,
                   edits, failures, crashes>>

ListIng ==
    /\ up
    /\ "ing" \in synced => relists["ing"] < MaxIngRelists
    /\ relists' = [relists EXCEPT !["ing"] = IF "ing" \in synced THEN @ + 1 ELSE @]
    /\ synced' = synced \cup {"ing"}
    /\ ingCache' = ing
    /\ ingWatch' = NoEvents
    /\ ingNotes' = [k \in Key |->
                      IF ing[k] = None /\ ingCache[k] # None
                      THEN Append(ingNotes[k], [obj |-> ingCache[k], tombstone |-> TRUE])
                      ELSE ingNotes[k]]
    /\ UNCHANGED <<api, svcWatch, svcCache, svcNotes, wq, worker, up,
                   edits, failures, crashes>>

\* A watch event enters the cache; only then is a handler notified.  There
\* is no handler for the deletion of a Service.
WatchSvc(k) ==
    /\ up /\ svcWatch[k] # <<>>
    /\ LET obj == Head(svcWatch[k]) IN
         /\ svcCache' = [svcCache EXCEPT ![k] = obj]
         /\ svcNotes' = IF obj = None THEN svcNotes
                        ELSE [svcNotes EXCEPT ![k] =
                                Append(@, [old |-> svcCache[k], new |-> obj])]
    /\ svcWatch' = [svcWatch EXCEPT ![k] = Tail(@)]
    /\ UNCHANGED <<api, ingWatch, ingCache, ingNotes, synced, wq, worker, up, counters>>

\* There is no handler for the creation or the update of an Ingress.
WatchIng(k) ==
    /\ up /\ ingWatch[k] # <<>>
    /\ LET obj == Head(ingWatch[k]) IN
         /\ ingCache' = [ingCache EXCEPT ![k] = obj]
         /\ ingNotes' = IF obj # None \/ ingCache[k] = None THEN ingNotes
                        ELSE [ingNotes EXCEPT ![k] =
                                Append(@, [obj |-> ingCache[k], tombstone |-> FALSE])]
    /\ ingWatch' = [ingWatch EXCEPT ![k] = Tail(@)]
    /\ UNCHANGED <<api, svcWatch, svcCache, svcNotes, synced, wq, worker, up, counters>>
-----------------------------------------------------------------------------
(***************************************************************************)
(* The handlers.  MetaNamespaceKeyFunc maps an object to namespace/name,   *)
(* so a Service and the Ingress of its name share one key; it fails for no *)
(* object an informer delivers.                                            *)
(***************************************************************************)
\* Mutant: AddFunc is not registered, only UpdateFunc.
SvcHandlerWithoutAdd(k) ==
    /\ up /\ svcNotes[k] # <<>>
    /\ LET note == Head(svcNotes[k]) IN
         wq' = IF note.old \in {None, note.new} THEN wq ELSE Add(wq, k)
    /\ svcNotes' = [svcNotes EXCEPT ![k] = Tail(@)]
    /\ UNCHANGED <<api, svcWatch, ingWatch, svcCache, ingCache, ingNotes, synced,
                   worker, up, counters>>

\* svcAdd, and svcEdit, which ignores an update that changes nothing.
SvcHandler(k) ==
    /\ up /\ svcNotes[k] # <<>>
    /\ LET note == Head(svcNotes[k]) IN
         wq' = IF note.old = note.new THEN wq ELSE Add(wq, k)
    /\ svcNotes' = [svcNotes EXCEPT ![k] = Tail(@)]
    /\ UNCHANGED <<api, svcWatch, ingWatch, svcCache, ingCache, ingNotes, synced,
                   worker, up, counters>>

HandlerError(q, k) ==
    IF NumRequeues(q, k) <= MaxRetry THEN AddRateLimited(q, k) ELSE Forget(q, k)

\* A tombstone fails the type assertion and leaves a nil Ingress; an Ingress
\* without a controller leaves a nil owner.  Both are dereferenced.
IngressDelPanics(note) == note.tombstone \/ note.obj.controller = "none"

\* Mutant: the handler does not queue the key of a deleted Ingress.
IngressDelWithoutAdd(k) ==
    /\ up /\ ingNotes[k] # <<>>
    /\ ~IngressDelPanics(Head(ingNotes[k]))
    /\ ingNotes' = [ingNotes EXCEPT ![k] = Tail(@)]
    /\ UNCHANGED <<api, svcWatch, ingWatch, svcCache, ingCache, svcNotes, synced,
                   wq, worker, up, counters>>

IngressDel(k) ==
    /\ up /\ ingNotes[k] # <<>>
    /\ LET note == Head(ingNotes[k]) IN
         \/ /\ IngressDelPanics(note)
            /\ Panic
         \/ /\ ~IngressDelPanics(note)
            /\ wq' = Add(IF note.obj.controller # "Service" THEN HandlerError(wq, k)
                                                            ELSE wq, k)
            /\ ingNotes' = [ingNotes EXCEPT ![k] = Tail(@)]
            /\ UNCHANGED <<api, svcWatch, ingWatch, svcCache, ingCache, svcNotes,
                           synced, worker, up, counters>>

BackoffElapsed(k) ==
    /\ up /\ k \in wq.waiting
    /\ wq' = Elapse(wq, k)
    /\ UNCHANGED <<api, informers, worker, up, counters>>
-----------------------------------------------------------------------------
(***************************************************************************)
(* The workers: queueConsumer, once around.  Run starts them only after    *)
(* WaitForCacheSync.                                                       *)
(***************************************************************************)
Step(w, from, to) ==
    /\ up /\ worker[w].pc = from
    /\ worker' = [worker EXCEPT ![w].pc = to]

\* Mutant: Run is called without WaitForCacheSync before it.
GetBeforeSync(w) ==
    /\ up
    /\ worker[w].pc = "idle" /\ HasItem(wq)
    /\ worker' = [worker EXCEPT ![w] = [pc |-> "svc", item |-> Head(wq.queue), svc |-> None]]
    /\ wq' = Take(wq)
    /\ UNCHANGED <<api, informers, up, counters>>

Get(w) ==
    /\ up /\ synced = {"svc", "ing"}
    /\ worker[w].pc = "idle" /\ HasItem(wq)
    /\ worker' = [worker EXCEPT ![w] = [pc |-> "svc", item |-> Head(wq.queue), svc |-> None]]
    /\ wq' = Take(wq)
    /\ UNCHANGED <<api, informers, up, counters>>

ReadSvc(w) ==
    /\ up /\ worker[w].pc = "svc"
    /\ worker' = [worker EXCEPT ![w].pc = "ing", ![w].svc = svcCache[worker[w].item]]
    /\ UNCHANGED <<api, informers, wq, up, counters>>

\* What a worker does about a Service s and an Ingress i it read.
Decision(s, i) ==
    IF s = None
    THEN IF i = None THEN "done" ELSE "delete"
    ELSE IF s.ann = "true" /\ i = None THEN "create"
    ELSE IF s.ann = "false" /\ i # None THEN "delete"
    ELSE "done"

ReadIng(w) ==
    /\ Step(w, "ing", Decision(worker[w].svc, ingCache[worker[w].item]))
    /\ UNCHANGED <<api, informers, wq, up, counters>>

\* Mutant: the kind in the owner reference is not the one ingressDel tests for.
NewIngressOfOtherKind(s) == [controller |-> "Ingress", owner |-> s.uid]

\* createIngressOptions reads Spec.Ports[0] and points the owner reference
\* at the Service the worker read.
NewIngress(s) == [controller |-> "Service", owner |-> s.uid]

CreateIng(w) ==
    LET k == worker[w].item
        s == worker[w].svc
    IN /\ up /\ worker[w].pc = "create"
       /\ \/ ~s.ports /\ Panic
          \/ /\ s.ports /\ ing[k] = None
             /\ Step(w, "create", "done")
             /\ WriteIng(k, NewIngress(s))
             /\ UNCHANGED <<svc, svcWatch, svcCache, ingCache, svcNotes, ingNotes,
                            synced, wq, up, counters>>
          \/ /\ s.ports /\ ing[k] # None     \* AlreadyExists, logged
             /\ Step(w, "create", "done")
             /\ UNCHANGED <<api, informers, wq, up, counters>>

DeleteIng(w) ==
    LET k == worker[w].item
    IN /\ Step(w, "delete", "done")
       /\ \/ /\ ing[k] # None
             /\ WriteIng(k, None)
             /\ UNCHANGED <<svc, svcWatch, svcCache, ingCache, svcNotes, ingNotes,
                            synced, wq, up, counters>>
          \/ /\ ing[k] = None                \* NotFound, logged
             /\ UNCHANGED <<api, informers, wq, up, counters>>

\* The API server cannot be reached: the error is logged, nothing is retried.
CallFails(w) ==
    /\ failures < MaxFailures
    /\ failures' = failures + 1
    /\ \/ worker[w].pc = "create" /\ worker[w].svc.ports /\ Step(w, "create", "done")
       \/ Step(w, "delete", "done")
    /\ UNCHANGED <<api, informers, wq, up, edits, crashes, relists>>

\* Mutant: the early return for a Service that is gone forgets Done.
FinishWithoutDone(w) ==
    /\ up /\ worker[w].pc = "done"
    /\ worker' = [worker EXCEPT ![w] = Idle]
    /\ wq' = IF worker[w].svc = None THEN wq ELSE Done(wq, worker[w].item)
    /\ UNCHANGED <<api, informers, up, counters>>

Finish(w) ==
    /\ up /\ worker[w].pc = "done"
    /\ worker' = [worker EXCEPT ![w] = Idle]
    /\ wq' = Done(wq, worker[w].item)
    /\ UNCHANGED <<api, informers, up, counters>>

QueueConsumer(w) ==
    Get(w) \/ ReadSvc(w) \/ ReadIng(w) \/ CreateIng(w) \/ DeleteIng(w) \/ Finish(w)
-----------------------------------------------------------------------------
User(k) ==
    \/ CreateSvc(k) \/ EditSvc(k) \/ DeleteSvc(k)
    \/ CreateForeignIng(k) \/ DeleteIngByUser(k)

Informer(k) == WatchSvc(k) \/ WatchIng(k) \/ SvcHandler(k) \/ IngressDel(k)

Next ==
    \/ \E k \in Key : User(k) \/ GarbageCollect(k) \/ Informer(k) \/ BackoffElapsed(k)
    \/ \E w \in Worker : QueueConsumer(w) \/ CallFails(w)
    \/ ListSvc \/ ListIng
    \/ Crash \/ Restart

Spec == Init /\ [][Next]_vars

\* The goroutines of the process keep running, the informers list, the
\* garbage collector works and the Deployment restarts the process.  Users
\* edit, calls fail, watches break and the process is killed only if they do.
Fairness ==
    /\ \A k \in Key :
          /\ WF_vars(GarbageCollect(k))
          /\ WF_vars(WatchSvc(k)) /\ WF_vars(WatchIng(k))
          /\ WF_vars(SvcHandler(k)) /\ WF_vars(IngressDel(k))
          /\ WF_vars(BackoffElapsed(k))
    /\ \A w \in Worker : WF_vars(QueueConsumer(w))
    /\ WF_vars("svc" \notin synced /\ ListSvc)
    /\ WF_vars("ing" \notin synced /\ ListIng)
    /\ WF_vars(Restart)

FairSpec == Spec /\ Fairness
-----------------------------------------------------------------------------
(***************************************************************************)
(* Properties.                                                             *)
(***************************************************************************)
\* No two workers process the same key at the same time, so that the reads,
\* the decision and the write of queueConsumer are never interleaved with
\* those of another worker for that key; and the queue knows who is busy:
\* a key is handed back (Done) on every path out of queueConsumer.
MutualExclusion ==
    /\ \A v, w \in Worker :
          worker[v].item = worker[w].item /\ worker[v].item # None => v = w
    /\ wq.processing = {worker[w].item : w \in Worker} \ {None}
    /\ QueueInv(wq)

Held(k) == \E w \in Worker : worker[w].item = k

\* Everything the process will ever do about k because of what happened so
\* far has been done.
Quiescent(k) ==
    /\ up /\ synced = {"svc", "ing"}
    /\ svcWatch[k] = <<>> /\ ingWatch[k] = <<>>
    /\ svcNotes[k] = <<>> /\ ingNotes[k] = <<>>
    /\ k \notin wq.dirty \cup wq.waiting /\ ~Held(k)

Wanted(k) == svc[k] # None /\ svc[k].ann = "true" /\ svc[k].ports
Unwanted(k) == svc[k] # None /\ svc[k].ann = "false"

\* What the code does not recover from: a Create or Delete that failed is only
\* logged (controller.go:166, 186, 197), and an Ingress that comes and goes
\* while the watch is broken leaves no trace (284).
Spoiled == failures > 0 \/ relists["ing"] > 0

\* Once the process is done with a key whose Service asks for an Ingress,
\* there is one, whatever the order in which edits, garbage collection,
\* caches, handlers and workers took their turns (ingressDel recreates an
\* Ingress that was deleted, svcAdd and svcEdit create it).
QuiescentIsExposed ==
    ~Spoiled => \A k \in Key : Quiescent(k) /\ Wanted(k) => ing[k] # None

\* A Service that keeps asking for an Ingress gets one, through crashes,
\* restarts, panics, stale caches and Ingresses deleted by users and by the
\* garbage collector.
ServiceIsExposed ==
    \A k \in Key : Wanted(k) ~> (~Wanted(k) \/ ing[k] # None \/ Spoiled)

\* When a key is processed with both caches up to date, an Ingress its Service
\* no longer asks for goes, unless a call fails; after a restart that takes the
\* workers to wait for both caches.
KnownIngressIsWithdrawn ==
    \A k \in Key :
        (/\ Unwanted(k) /\ ing[k] # None /\ k \in wq.dirty
         /\ svcCache[k] = svc[k] /\ ingCache[k] = ing[k])
        ~> ~Unwanted(k) \/ ing[k] = None \/ failures > 0

\* No key stays in the queue for ever: a worker that takes a key always
\* hands it back, and one that became dirty meanwhile is taken again.
QueueDrains == \A k \in Key : k \in wq.dirty \cup wq.waiting ~> k \notin wq.dirty \cup wq.waiting

\* What a worker has in hand, and the promise of the work queue: a key is in
\* the hands of one worker at a time, one that is due leaves the queue only
\* into a worker's hands, and is due again when it was asked for meanwhile.
\* queueConsumer never reports a failure.
Hand(s) == [key |-> s.item, result |-> IF s.pc = "done" THEN "ok" ELSE "none"]

Work == INSTANCE ExclusiveWork WITH
          open <- up,
          due <- Pending(wq),
          hand <- [w \in Worker |-> Hand(worker[w])]

WorkIsExclusive == Work!Spec
=============================================================================
