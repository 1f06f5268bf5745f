------------------------- MODULE AppControllerProofs -------------------------
(***************************************************************************)
(* For every set of Apps, names and specs, every number of workers and     *)
(* every bound: the controller is type correct, no two workers sync the    *)
(* same App, and no dependent changes its owner.                           *)
(***************************************************************************)
EXTENDS AppController, WorkQueueProofs

\* MutualExclusion is not inductive by itself: a worker without a key must be
\* idle, and one that is past the App's cache must have an App and a kind.
WorkersOK ==
    \A w \in Worker :
        /\ worker[w].pc = "idle" <=> worker[w].item = None
        /\ worker[w].pc \in {"read", "create", "check", "update"} => worker[w].app # None
        /\ worker[w].pc \in {"read", "create"} => worker[w].kind # None

IInv == TypeOK /\ WorkersOK /\ MutualExclusion

\* What a worker step that leaves the queue alone must establish.
LEMMA SameItems ==
    ASSUME MutualExclusion, QueueInv(wq'), wq'.processing = wq.processing,
           \A w \in Worker : worker'[w].item = worker[w].item
    PROVE  MutualExclusion'
  BY DEF MutualExclusion

\* A worker that has nothing to do is well formed.
LEMMA IdleType == Idle \in Sync /\ Idle.pc = "idle" /\ Idle.item = None
<1>1. Nothing \in [Kind -> Dependent \cup {None}]
  BY DEF Nothing
<1> HIDE DEF Nothing
<1> QED  BY <1>1 DEF Idle, Sync

\* Empty stores and watches have their types.
LEMMA EmptyTypes ==
    /\ NoObjects \in [Kind -> [Name -> Dependent \cup {None}]]
    /\ NoEvents \in [Kind -> [Name -> Seq(Dependent \cup {None})]]
    /\ [a \in App |-> None] \in [App -> AppObject \cup {None}]
    /\ [a \in App |-> <<>>] \in [App -> Seq(AppObject \cup {None})]
  BY DEF NoObjects, NoEvents

\* The invariant holds at first.
LEMMA InitIInv == Init => IInv
<1> SUFFICES ASSUME Init PROVE IInv
  OBVIOUS
<1>1. NewQueue \in Queue /\ QueueInv(NewQueue) /\ NewQueue.processing = {}
  BY NewQueueWellFormed DEF WellFormed
<1>2. TypeOK
  BY <1>1, EmptyTypes, IdleType, ConstantsAssumption DEF Init, TypeOK
<1>3. WorkersOK
  BY IdleType DEF Init, WorkersOK
<1>4. MutualExclusion
  BY <1>1, IdleType DEF Init, MutualExclusion
<1> QED  BY <1>2, <1>3, <1>4 DEF IInv

\* A process that is gone has an empty queue and idle workers.
LEMMA DownIInv ==
    ASSUME IInv, Down, edits' = edits, failures' = failures, stops' \in 0..MaxStops
    PROVE  IInv'
<1>1. NewQueue \in Queue /\ QueueInv(NewQueue) /\ NewQueue.processing = {}
  BY NewQueueWellFormed DEF WellFormed
<1>2. TypeOK'
  <2>1. worker' \in [Worker -> Sync]
    BY IdleType DEF Down
  <2>2. app' = app /\ store' = store
    BY DEF Down
  <2> QED  BY <1>1, <2>1, <2>2, EmptyTypes DEF Down, IInv, TypeOK
<1>3. WorkersOK'
  BY IdleType DEF Down, WorkersOK
<1>4. MutualExclusion'
  BY <1>1, IdleType DEF Down, MutualExclusion
<1> QED  BY <1>2, <1>3, <1>4 DEF IInv

\* A write to the API server stores and sends a well-typed object.
LEMMA WriteAppType ==
    ASSUME TypeOK, NEW a \in App, NEW obj \in AppObject \cup {None}, WriteApp(a, obj)
    PROVE  /\ app' \in [App -> AppObject \cup {None}]
           /\ appWatch' \in [App -> Seq(AppObject \cup {None})]
<1>1. appWatch[a] \in Seq(AppObject \cup {None})
  BY DEF TypeOK
<1>2. Append(appWatch[a], obj) \in Seq(AppObject \cup {None})
  BY <1>1
<1> QED  BY <1>2 DEF TypeOK, WriteApp

\* A write of a dependent keeps the types of store and watches.
LEMMA WriteType ==
    ASSUME TypeOK, NEW k \in Kind, NEW n \in Name, NEW obj \in Dependent \cup {None},
           Write(k, n, obj)
    PROVE  /\ store' \in [Kind -> [Name -> Dependent \cup {None}]]
           /\ watch' \in [Kind -> [Name -> Seq(Dependent \cup {None})]]
<1>1. watch[k] \in [Name -> Seq(Dependent \cup {None})]
      /\ store[k] \in [Name -> Dependent \cup {None}]
  BY DEF TypeOK
<1>2. Append(watch[k][n], obj) \in Seq(Dependent \cup {None})
  BY <1>1
<1>3. [watch[k] EXCEPT ![n] = Append(@, obj)] \in [Name -> Seq(Dependent \cup {None})]
  BY <1>1, <1>2
<1>4. [store[k] EXCEPT ![n] = obj] \in [Name -> Dependent \cup {None}]
  BY <1>1
<1> QED  BY <1>3, <1>4 DEF TypeOK, Write

\* Users and the garbage collector touch neither queue nor workers.
LEMMA AppEdits ==
    ASSUME IInv, NEW a \in App, CreateApp(a) \/ EditApp(a) \/ DeleteApp(a)
    PROVE  IInv'
<1> USE DEF IInv
<1>0. edits < MaxEdits => edits + 1 \in 1..MaxEdits /\ edits + 1 \in 0..MaxEdits
  BY ConstantsAssumption DEF TypeOK
<1>1. /\ UserEdit /\ UNCHANGED storeVars
      /\ \E obj \in AppObject \cup {None} : WriteApp(a, obj)
  <2>1. CASE CreateApp(a)
    <3>1. PICK s \in Specs : WriteApp(a, [uid |-> edits + 1, spec |-> s])
      BY <2>1 DEF CreateApp
    <3>2. [uid |-> edits + 1, spec |-> s] \in AppObject
      BY <1>0, <2>1 DEF CreateApp, UserEdit, AppObject
    <3> QED  BY <2>1, <3>1, <3>2 DEF CreateApp
  <2>2. CASE EditApp(a)
    <3>1. PICK s \in Specs : WriteApp(a, [app[a] EXCEPT !.spec = s])
      BY <2>2 DEF EditApp
    <3>2. app[a] \in AppObject
      BY <2>2 DEF EditApp, TypeOK
    <3>3. [app[a] EXCEPT !.spec = s] \in AppObject
      BY <3>2 DEF AppObject
    <3> QED  BY <2>2, <3>1, <3>3 DEF EditApp
  <2>3. CASE DeleteApp(a)
    BY <2>3 DEF DeleteApp
  <2> QED  BY <2>1, <2>2, <2>3
<1>2. app' \in [App -> AppObject \cup {None}]
      /\ appWatch' \in [App -> Seq(AppObject \cup {None})]
  BY <1>1, WriteAppType
<1>3. edits' \in 0..MaxEdits
  BY <1>0, <1>1 DEF UserEdit
<1>4. TypeOK'
  BY <1>1, <1>2, <1>3 DEF UserEdit, TypeOK, storeVars, caches, process
<1> QED  BY <1>1, <1>4 DEF UserEdit, WorkersOK, MutualExclusion, process

\* What users and the garbage collector do to a dependent keeps the invariant.
LEMMA DependentEdits ==
    ASSUME IInv, NEW k \in Kind, NEW n \in Name,
           \/ Scale(n) \/ DeleteDependent(k, n) \/ CreateForeign(k, n)
           \/ Orphan(k, n) \/ GarbageCollect(k, n)
    PROVE  IInv'
<1> USE DEF IInv
<1>0. edits < MaxEdits => edits + 1 \in 0..MaxEdits
  BY ConstantsAssumption DEF TypeOK
<1>1. /\ UNCHANGED <<appVars, caches, process, failures, stops>>
      /\ edits' = edits \/ (edits' = edits + 1 /\ edits < MaxEdits)
      /\ \E c \in Kind, obj \in Dependent \cup {None} : Write(c, n, obj)
  <2>0. "dep" \in Kind /\ \A c \in Kind : store[c][n] \in Dependent \cup {None}
    BY DEF TypeOK, Kind
  <2>1. CASE Scale(n)
    <3>1. PICK s \in Specs : Write("dep", n, [store["dep"][n] EXCEPT !.replicas = s.replicas])
      BY <2>1 DEF Scale
    <3>2. s.replicas \in Nat
      BY ConstantsAssumption DEF AppSpec
    <3>3. store["dep"][n] \in Dependent
      BY <2>0, <2>1 DEF Scale
    <3>4. [store["dep"][n] EXCEPT !.replicas = s.replicas] \in Dependent
      BY <3>2, <3>3 DEF Dependent
    <3> QED  BY <2>0, <2>1, <3>1, <3>4 DEF Scale, UserEdit
  <2>2. CASE DeleteDependent(k, n)
    <3>1. Write(k, n, None) /\ UserEdit /\ UNCHANGED appVars
      BY <2>2 DEF DeleteDependent
    <3> QED  BY <3>1 DEF UserEdit
  <2>3. CASE CreateForeign(k, n)
    <3>1. [owner |-> 0, label |-> None, replicas |-> 0] \in Dependent
      BY ConstantsAssumption DEF Dependent
    <3> QED  BY <2>3, <3>1 DEF CreateForeign, UserEdit
  <2>4. CASE Orphan(k, n)
    <3>1. store[k][n] \in Dependent
      BY <2>0, <2>4 DEF Orphan
    <3>2. [store[k][n] EXCEPT !.owner = 0] \in Dependent
      BY <3>1, ConstantsAssumption DEF Dependent
    <3> QED  BY <2>4, <3>2 DEF Orphan, UserEdit
  <2>5. CASE GarbageCollect(k, n)
    <3>1. Write(k, n, None) /\ UNCHANGED <<appVars, caches, process, counters>>
      BY <2>5 DEF GarbageCollect
    <3>2. edits' = edits /\ failures' = failures /\ stops' = stops
      BY <3>1 DEF counters
    <3> QED  BY <3>1, <3>2
  <2> QED  BY <2>1, <2>2, <2>3, <2>4, <2>5
<1>2. /\ store' \in [Kind -> [Name -> Dependent \cup {None}]]
      /\ watch' \in [Kind -> [Name -> Seq(Dependent \cup {None})]]
  BY <1>1, WriteType
<1>3. edits' \in 0..MaxEdits
  BY <1>0, <1>1 DEF TypeOK
<1>4. TypeOK'
  BY <1>1, <1>2, <1>3 DEF TypeOK, appVars, caches, process
<1> QED  BY <1>1, <1>4 DEF WorkersOK, MutualExclusion, process

\* Changes entering the caches, resyncs and back-offs.
LEMMA InformerIInv ==
    ASSUME IInv,
           \/ \E a \in App : WatchApp(a) \/ Resync(a) \/ BackoffElapsed(a)
           \/ \E k \in Kind, n \in Name : Watch(k, n)
    PROVE  IInv'
<1> USE DEF IInv
<1>0. WellFormed(wq)
  BY DEF TypeOK, MutualExclusion, WellFormed
<1>1. ASSUME NEW a \in App, WatchApp(a)
      PROVE  IInv'
  <2>1. appWatch[a] \in Seq(AppObject \cup {None}) /\ appWatch[a] # <<>>
    BY <1>1 DEF WatchApp, TypeOK
  <2>2. Head(appWatch[a]) \in AppObject \cup {None}
        /\ Tail(appWatch[a]) \in Seq(AppObject \cup {None})
    BY <2>1
  <2>3. /\ appCache' \in [App -> AppObject \cup {None}]
        /\ appWatch' \in [App -> Seq(AppObject \cup {None})]
    BY <1>1, <2>2 DEF WatchApp, TypeOK
  <2>4. WellFormed(wq') /\ wq'.processing = wq.processing
    BY <1>0, <1>1, AddWellFormed DEF WatchApp, App
  <2>5. TypeOK'
    BY <1>1, <2>3, <2>4 DEF WatchApp, TypeOK, storeVars, counters, WellFormed
  <2>6. MutualExclusion'
    BY <1>1, <2>4, SameItems DEF WatchApp, WellFormed
  <2> QED  BY <1>1, <2>5, <2>6 DEF WatchApp, WorkersOK
<1>2. ASSUME NEW a \in App, Resync(a) \/ BackoffElapsed(a)
      PROVE  IInv'
  <2>1. WellFormed(wq') /\ wq'.processing = wq.processing
    <3>1. wq' = Add(wq, a) \/ wq' = Elapse(wq, a)
      BY <1>2 DEF Resync, BackoffElapsed
    <3> QED  BY <1>0, <3>1, AddWellFormed, ElapseWellFormed DEF App
  <2>2. UNCHANGED <<appVars, storeVars, caches, phase, worker, counters>>
    BY <1>2 DEF Resync, BackoffElapsed
  <2>3. TypeOK'
    BY <2>1, <2>2 DEF TypeOK, appVars, storeVars, caches, counters, WellFormed
  <2>4. MutualExclusion'
    BY <2>1, <2>2, SameItems DEF WellFormed
  <2> QED  BY <2>2, <2>3, <2>4 DEF WorkersOK
<1>3. ASSUME NEW k \in Kind, NEW n \in Name, Watch(k, n)
      PROVE  IInv'
  <2>1. /\ watch[k] \in [Name -> Seq(Dependent \cup {None})] /\ watch[k][n] # <<>>
        /\ cache[k] \in [Name -> Dependent \cup {None}]
    BY <1>3 DEF Watch, TypeOK
  <2>2. Head(watch[k][n]) \in Dependent \cup {None}
        /\ Tail(watch[k][n]) \in Seq(Dependent \cup {None})
    BY <2>1
  <2>3. [watch[k] EXCEPT ![n] = Tail(@)] \in [Name -> Seq(Dependent \cup {None})]
    <3> HIDE DEF IInv
    <3> QED  BY <2>1, <2>2
  <2>4. [cache[k] EXCEPT ![n] = Head(watch[k][n])] \in [Name -> Dependent \cup {None}]
    BY <2>1, <2>2
  <2>5. watch' \in [Kind -> [Name -> Seq(Dependent \cup {None})]]
    BY <1>3, <2>3 DEF Watch, TypeOK
  <2>6. cache' \in [Kind -> [Name -> Dependent \cup {None}]]
    BY <1>3, <2>4 DEF Watch, TypeOK
  <2>7. TypeOK'
    BY <1>3, <2>5, <2>6 DEF Watch, TypeOK, appVars, process, counters
  <2> QED  BY <1>3, <2>7 DEF Watch, WorkersOK, MutualExclusion, process
<1> QED  BY <1>1, <1>2, <1>3

\* Starting, stopping and steps that change nothing.
LEMMA ProcessIInv ==
    ASSUME IInv, CachesSynced \/ Signal \/ Exit \/ Start \/ UNCHANGED vars
    PROVE  IInv'
<1> USE DEF IInv
<1>0. WellFormed(wq)
  BY DEF TypeOK, MutualExclusion, WellFormed
<1>1. CASE CachesSynced
  <2>1. appWatch' \in [App -> Seq(AppObject \cup {None})]
    <3>1. \A a \in App : app[a] \in AppObject \cup {None}
      BY DEF TypeOK
    <3> DEFINE Change == AppObject \cup {None}
    <3>2. \A obj \in Change : <<obj>> \in Seq(Change)
      OBVIOUS
    <3>3. <<>> \in Seq(Change)
      OBVIOUS
    <3>4. appWatch' = [a \in App |-> IF app[a] = None THEN <<>> ELSE <<app[a]>>]
      BY <1>1 DEF CachesSynced
    <3> HIDE DEF Change
    <3>5. \A a \in App : (IF app[a] = None THEN <<>> ELSE <<app[a]>>) \in Seq(Change)
      BY <3>1, <3>2, <3>3 DEF Change
    <3> HIDE DEF IInv
    <3>6. appWatch' \in [App -> Seq(Change)]
      BY <3>4, <3>5
    <3> QED  BY <3>6 DEF Change
  <2>2. TypeOK'
    BY <1>1, <2>1 DEF CachesSynced, TypeOK, storeVars, counters
  <2> QED  BY <1>1, <2>2 DEF CachesSynced, WorkersOK, MutualExclusion
<1>2. CASE Signal
  <2>1. stops' \in 0..MaxStops
    BY <1>2, ConstantsAssumption DEF Signal, TypeOK
  <2>2. CASE Down
    BY <1>2, <2>1, <2>2, DownIInv DEF Signal
  <2>3. CASE ~Down
    <3>1. /\ phase' = "stopping" /\ wq' = ShutDown(wq)
          /\ UNCHANGED <<appVars, storeVars, caches, worker, edits, failures>>
      BY <1>2, <2>3 DEF Signal
    <3>2. WellFormed(wq') /\ wq'.processing = wq.processing
      BY <1>0, <3>1, ShutDownWellFormed
    <3>3. TypeOK'
      BY <2>1, <3>1, <3>2 DEF TypeOK, appVars, storeVars, caches, WellFormed
    <3>4. MutualExclusion'
      BY <3>1, <3>2, SameItems DEF WellFormed
    <3> QED  BY <3>1, <3>3, <3>4 DEF WorkersOK
  <2> QED  BY <2>2, <2>3
<1>3. CASE Exit
  BY <1>3, DownIInv DEF Exit, counters, TypeOK
<1>4. CASE Start
  BY <1>4 DEF Start, TypeOK, WorkersOK, MutualExclusion, appVars, storeVars, caches, counters
<1>5. CASE UNCHANGED vars
  BY <1>5 DEF vars, TypeOK, WorkersOK, MutualExclusion, appVars, storeVars, caches,
              process, counters
<1> QED  BY <1>1, <1>2, <1>3, <1>4, <1>5
-----------------------------------------------------------------------------
\* A worker that is not idle holds an App, and holds it in `processing'.
LEMMA WorkerHolds ==
    ASSUME IInv, NEW w \in Worker, worker[w].pc # "idle"
    PROVE  worker[w].item \in App /\ worker[w].item \in wq.processing
<1>1. worker[w] \in Sync
  BY DEF IInv, TypeOK
<1>2. worker[w].item \in App
  BY <1>1 DEF IInv, WorkersOK, Sync
<1> QED  BY <1>2, ConstantsAssumption DEF IInv, MutualExclusion

\* A worker moves from one record to another and keeps its key.
LEMMA MoveIInv ==
    ASSUME IInv, NEW w \in Worker, NEW s \in Sync,
           worker' = [worker EXCEPT ![w] = s],
           worker[w].pc # "idle", s.pc # "idle", s.item = worker[w].item,
           s.pc \in {"read", "create", "check", "update"} => s.app # None,
           s.pc \in {"read", "create"} => s.kind # None,
           UNCHANGED <<appVars, caches, phase, wq>>,
           store' \in [Kind -> [Name -> Dependent \cup {None}]],
           watch' \in [Kind -> [Name -> Seq(Dependent \cup {None})]],
           edits' = edits, failures' \in 0..MaxFailures, stops' = stops
    PROVE  IInv'
<1> USE DEF IInv
<1>1. worker \in [Worker -> Sync] /\ QueueInv(wq)
  BY DEF TypeOK, MutualExclusion
<1>2. /\ \A v \in Worker \ {w} : worker'[v] = worker[v]
      /\ worker'[w] = s /\ worker' \in [Worker -> Sync]
  BY <1>1
<1>3. TypeOK'
  BY <1>2 DEF TypeOK, appVars, caches
<1>4. WorkersOK'
  BY <1>2 DEF WorkersOK
<1>5. MutualExclusion'
  BY <1>1, <1>2, SameItems
<1> QED  BY <1>3, <1>4, <1>5

\* What newDeployment, newSvc and newIngress return is a dependent.
LEMMA NewDependentType ==
    ASSUME NEW k \in Kind, NEW a \in App, NEW obj \in AppObject
    PROVE  NewDependent(k, a, obj) \in Dependent
<1>1. /\ obj.uid \in 0..MaxEdits /\ obj.spec \in AppSpec
      /\ 0 \in Nat
  BY ConstantsAssumption DEF AppObject
<1>2. obj.spec.replicas \in Nat
  BY <1>1 DEF AppSpec
<1> QED  BY <1>1, <1>2 DEF NewDependent, Dependent

\* Proceed leads to the next kind, to the check, or to a failure.
LEMMA ProceedMove ==
    ASSUME IInv, NEW w \in Worker, worker[w].pc \in {"read", "create"},
           NEW obj \in Dependent \cup {None}, NEW failed \in BOOLEAN,
           Proceed(w, obj, failed)
    PROVE  \E s \in Sync :
              /\ worker' = [worker EXCEPT ![w] = s]
              /\ s.pc \in {"read", "fail", "check"}
              /\ s.pc # "idle" /\ s.item = worker[w].item /\ s.app = worker[w].app
              /\ s.got = [worker[w].got EXCEPT ![worker[w].kind] = obj]
              /\ s.pc \in {"read", "create"} => s.kind # None
<1> DEFINE k == worker[w].kind
           pc == IF k # "ing" THEN "read" ELSE IF failed THEN "fail" ELSE "check"
           kind == CASE k = "dep" -> "svc" [] k = "svc" -> "ing" [] OTHER -> None
           got == [worker[w].got EXCEPT ![k] = obj]
           s == [worker[w] EXCEPT !.got = got, !.kind = kind, !.pc = pc]
<1>1. worker[w] \in Sync /\ k \in Kind
  BY DEF IInv, TypeOK, WorkersOK, Sync
<1>2. kind \in Kind \cup {None} /\ (k # "ing" => kind # None)
  BY <1>1, ConstantsAssumption DEF Kind
<1>3. got \in [Kind -> Dependent \cup {None}]
  BY <1>1 DEF Sync
<1>4. worker' = [worker EXCEPT ![w] = s]
  BY <1>1 DEF Proceed, Sync
<1>5. pc \in {"read", "fail", "check"} /\ (pc = "read" => k # "ing")
  OBVIOUS
<1> HIDE DEF k, pc, kind, got
<1>6. s \in Sync /\ s.pc = pc /\ s.kind = kind /\ s.item = worker[w].item
      /\ s.app = worker[w].app /\ s.got = got
  BY <1>1, <1>2, <1>3, <1>5 DEF Sync
<1> QED  BY <1>2, <1>4, <1>5, <1>6 DEF got, k

\* What workers do keeps the invariant.
LEMMA WorkerIInv ==
    ASSUME IInv, NEW w \in Worker,
           ProcessNextWorkItem(w) \/ CallFails(w) \/ AnswerLost(w)
    PROVE  IInv'
<1> USE DEF IInv
<1>0. WellFormed(wq) /\ worker[w] \in Sync /\ worker \in [Worker -> Sync]
  BY DEF TypeOK, MutualExclusion, WellFormed
<1>1. ASSUME worker[w].pc # "idle"
      PROVE  worker[w].item \in App /\ worker[w].item \in wq.processing
  BY <1>1, WorkerHolds
<1>2. /\ store \in [Kind -> [Name -> Dependent \cup {None}]]
      /\ watch \in [Kind -> [Name -> Seq(Dependent \cup {None})]]
      /\ failures \in 0..MaxFailures
  BY DEF TypeOK
<1>3. CASE Get(w)
  <2> DEFINE h == Head(wq.queue)
             s == [Idle EXCEPT !.pc = "app", !.item = h]
  <2>1. /\ WellFormed(wq') /\ h \in App \ wq.processing
        /\ wq'.processing = wq.processing \cup {h}
    BY <1>0, <1>3, TakeWellFormed DEF Get, App
  <2>2. s \in Sync /\ s.item = h /\ s.pc = "app" /\ h # None
    BY <2>1, IdleType, ConstantsAssumption DEF Sync
  <2>3. worker' = [worker EXCEPT ![w] = s] /\ worker[w].pc = "idle"
    BY <1>3 DEF Get
  <2> HIDE DEF h, s
  <2>4. /\ \A v \in Worker \ {w} : worker'[v] = worker[v]
        /\ worker'[w] = s /\ worker' \in [Worker -> Sync]
        /\ worker[w].item = None
    BY <1>0, <2>2, <2>3 DEF WorkersOK
  <2>5. TypeOK'
    BY <1>3, <2>1, <2>4 DEF Get, TypeOK, appVars, storeVars, caches, counters, WellFormed
  <2>6. WorkersOK'
    BY <2>2, <2>4 DEF WorkersOK
  <2>7. MutualExclusion'
    <3>1. wq.processing = {worker[v].item : v \in Worker} \ {None}
      BY DEF MutualExclusion
    <3>2. \A v \in Worker : worker[v].item # h
      BY <2>1, <2>2, <3>1
    <3>3. wq'.processing = {worker'[v].item : v \in Worker} \ {None}
      BY <2>1, <2>2, <2>4, <3>1
    <3>4. \A u, v \in Worker :
             worker'[u].item = worker'[v].item /\ worker'[u].item # None => u = v
      BY <2>2, <2>4, <3>2 DEF MutualExclusion
    <3> QED  BY <2>1, <3>3, <3>4 DEF MutualExclusion, WellFormed
  <2> QED  BY <2>5, <2>6, <2>7
<1>4. CASE GetApp(w)
  <2> DEFINE a == appCache[worker[w].item]
             s == IF a = None \/ a.spec.replicas < 1
                  THEN [worker[w] EXCEPT !.pc = "ok"]
                  ELSE [worker[w] EXCEPT !.pc = "read", !.app = a, !.kind = "dep"]
  <2>1. worker[w].pc = "app" /\ worker[w].item \in App
    BY <1>1, <1>4 DEF GetApp
  <2>2. a \in AppObject \cup {None} /\ "dep" \in Kind
    BY <2>1 DEF TypeOK, Kind
  <2>3. worker' = [worker EXCEPT ![w] = s]
    BY <1>0, <1>4 DEF GetApp
  <2>4. CASE a = None \/ a.spec.replicas < 1
    <3>1. s \in Sync /\ s.pc = "ok" /\ s.item = worker[w].item
      BY <1>0, <2>4 DEF Sync
    <3> HIDE DEF s
    <3> QED  BY <1>2, <1>4, <2>1, <2>3, <3>1, MoveIInv DEF GetApp, storeVars, counters
  <2>5. CASE ~(a = None \/ a.spec.replicas < 1)
    <3>1. /\ s \in Sync /\ s.pc = "read" /\ s.item = worker[w].item
          /\ s.app # None /\ s.kind # None
      BY <1>0, <2>2, <2>5, ConstantsAssumption DEF Sync
    <3> HIDE DEF s
    <3> QED  BY <1>2, <1>4, <2>1, <2>3, <3>1, MoveIInv DEF GetApp, storeVars, counters
  <2> QED  BY <2>4, <2>5
<1>5. CASE ReadDependent(w)
  <2> DEFINE k == worker[w].kind
             found == cache[k][LookupName(k, worker[w].app.spec)]
             s == [worker[w] EXCEPT !.pc = "create"]
  <2>1. worker[w].pc = "read" /\ worker[w].app # None /\ k # None /\ k \in Kind
    BY <1>0, <1>5 DEF ReadDependent, WorkersOK, Sync
  <2>2. worker[w].app.spec \in AppSpec
    BY <1>0, <2>1, ConstantsAssumption DEF Sync, AppObject
  <2>3. found \in Dependent \cup {None}
    <3>1. LookupName(k, worker[w].app.spec) \in Name
      BY <2>2 DEF LookupName, AppSpec
    <3> QED  BY <2>1, <3>1 DEF TypeOK
  <2>4. UNCHANGED <<appVars, storeVars, caches, phase, wq, counters>>
    BY <1>5 DEF ReadDependent
  <2>5. CASE found # None
    <3>1. Proceed(w, found, FALSE)
      BY <1>5, <2>5 DEF ReadDependent
    <3> HIDE DEF found
    <3>2. PICK t \in Sync :
              /\ worker' = [worker EXCEPT ![w] = t]
              /\ t.pc # "idle" /\ t.item = worker[w].item /\ t.app = worker[w].app
              /\ t.pc \in {"read", "create"} => t.kind # None
      BY <2>1, <2>3, <3>1, ProceedMove
    <3> QED  BY <1>2, <2>1, <2>4, <3>2, MoveIInv DEF storeVars, counters
  <2>6. CASE found = None
    <3>1. worker' = [worker EXCEPT ![w] = s]
      BY <1>0, <1>5, <2>6 DEF ReadDependent
    <3>2. /\ s \in Sync /\ s.pc = "create" /\ s.item = worker[w].item
          /\ s.app = worker[w].app /\ s.kind = k
      BY <1>0 DEF Sync
    <3> HIDE DEF s
    <3> QED  BY <1>2, <2>1, <2>4, <3>1, <3>2, MoveIInv DEF storeVars, counters
  <2> QED  BY <2>5, <2>6
<1>6. ASSUME worker[w].pc \in {"create", "update"}
      PROVE  /\ worker[w].app \in AppObject
             /\ \A k \in Kind : /\ worker[w].app.spec[k] \in Name
                                /\ NewDependent(k, worker[w].item, worker[w].app) \in Dependent
             /\ "dep" \in Kind
  <2>1. worker[w].app \in AppObject /\ worker[w].item \in App
    BY <1>0, <1>1, <1>6 DEF WorkersOK, Sync
  <2>2. worker[w].app.spec \in AppSpec
    BY <2>1, ConstantsAssumption DEF AppObject
  <2>3. \A k \in Kind : worker[w].app.spec[k] \in Name
    BY <2>2 DEF AppSpec, Kind
  <2> QED  BY <2>1, <2>3, NewDependentType DEF Kind
<1>7. ASSUME worker[w].pc = "create",
             \E obj \in Dependent \cup {None}, failed \in BOOLEAN : Proceed(w, obj, failed),
             UNCHANGED <<appVars, caches, phase, wq, edits, stops>>,
             failures' \in 0..MaxFailures,
             \/ UNCHANGED storeVars
             \/ \E k \in Kind, n \in Name, obj \in Dependent : Write(k, n, obj)
      PROVE  IInv'
  <2>1. PICK s \in Sync :
            /\ worker' = [worker EXCEPT ![w] = s]
            /\ s.pc # "idle" /\ s.item = worker[w].item /\ s.app = worker[w].app
            /\ s.pc \in {"read", "create"} => s.kind # None
    BY <1>7, ProceedMove
  <2>2. worker[w].app # None
    BY <1>7 DEF WorkersOK
  <2>3. /\ store' \in [Kind -> [Name -> Dependent \cup {None}]]
        /\ watch' \in [Kind -> [Name -> Seq(Dependent \cup {None})]]
    BY <1>2, <1>7, WriteType DEF storeVars
  <2> QED  BY <1>7, <2>1, <2>2, <2>3, MoveIInv
<1>8. ASSUME NEW to \in {"update", "ok", "fail"}, worker' = [worker EXCEPT ![w].pc = to],
             worker[w].pc \in {"check", "update"},
             UNCHANGED <<appVars, caches, phase, wq, edits, stops>>,
             failures' \in 0..MaxFailures,
             \/ UNCHANGED storeVars
             \/ \E k \in Kind, n \in Name, obj \in Dependent : Write(k, n, obj)
      PROVE  IInv'
  <2> DEFINE s == [worker[w] EXCEPT !.pc = to]
  <2>1. worker' = [worker EXCEPT ![w] = s]
    BY <1>8
  <2>2. s \in Sync /\ s.pc = to /\ s.item = worker[w].item /\ s.app = worker[w].app
    BY <1>0, <1>8 DEF Sync
  <2>3. worker[w].app # None
    BY <1>8 DEF WorkersOK
  <2>4. /\ store' \in [Kind -> [Name -> Dependent \cup {None}]]
        /\ watch' \in [Kind -> [Name -> Seq(Dependent \cup {None})]]
    BY <1>2, <1>8, WriteType DEF storeVars
  <2> HIDE DEF s
  <2> QED  BY <1>8, <2>1, <2>2, <2>3, <2>4, MoveIInv
<1>9. CASE CreateDependent(w)
  <2>1. worker[w].pc = "create" /\ worker[w].kind \in Kind
    BY <1>0, <1>9 DEF CreateDependent, WorkersOK, Sync
  <2>2. UNCHANGED <<appVars, caches, phase, wq, counters>>
    BY <1>9 DEF CreateDependent
  <2>3. /\ \E obj \in Dependent \cup {None}, failed \in BOOLEAN : Proceed(w, obj, failed)
        /\ \/ UNCHANGED storeVars
           \/ \E k \in Kind, n \in Name, obj \in Dependent : Write(k, n, obj)
    BY <1>6, <1>9, <2>1 DEF CreateDependent
  <2> QED  BY <1>2, <1>7, <2>1, <2>2, <2>3 DEF counters
<1>10. CASE Check(w)
  <2>1. worker[w].pc = "check" /\ UNCHANGED <<appVars, storeVars, caches, phase, wq, counters>>
    BY <1>10 DEF Check
  <2>2. \E to \in {"update", "ok", "fail"} : worker' = [worker EXCEPT ![w].pc = to]
    BY <1>10 DEF Check
  <2> QED  BY <1>2, <1>8, <2>1, <2>2 DEF counters
<1>11. CASE UpdateDeployment(w)
  <2>1. worker[w].pc = "update" /\ UNCHANGED <<appVars, caches, phase, wq, counters>>
    BY <1>11 DEF UpdateDeployment
  <2>2. /\ \E to \in {"update", "ok", "fail"} : worker' = [worker EXCEPT ![w].pc = to]
        /\ \/ UNCHANGED storeVars
           \/ \E k \in Kind, n \in Name, obj \in Dependent : Write(k, n, obj)
    BY <1>6, <1>11, <2>1 DEF UpdateDeployment
  <2> QED  BY <1>2, <1>8, <2>1, <2>2 DEF counters
<1>12. CASE CallFails(w)
  <2>1. failures' \in 0..MaxFailures
    BY <1>2, <1>12, ConstantsAssumption DEF CallFails
  <2>2. UNCHANGED <<appVars, storeVars, caches, phase, wq, edits, stops>>
    BY <1>12 DEF CallFails
  <2>3. CASE worker[w].pc = "create" /\ Proceed(w, None, TRUE)
    BY <1>7, <2>1, <2>2, <2>3
  <2>4. CASE worker[w].pc = "update" /\ worker' = [worker EXCEPT ![w].pc = "fail"]
    BY <1>8, <2>1, <2>2, <2>4
  <2> QED  BY <1>12, <2>3, <2>4 DEF CallFails
<1>13. CASE AnswerLost(w)
  <2>0. failures < MaxFailures /\ failures' = failures + 1 /\ failures \in 0..MaxFailures
    BY <1>13 DEF AnswerLost, TypeOK
  <2>1. failures' \in 0..MaxFailures
    BY <2>0, ConstantsAssumption
  <2> DEFINE k == IF worker[w].pc = "update" THEN "dep" ELSE worker[w].kind
             n == worker[w].app.spec[k]
             obj == NewDependent(k, worker[w].item, worker[w].app)
  <2>2. worker[w].pc \in {"create", "update"} /\ Write(k, n, obj)
        /\ UNCHANGED <<appVars, caches, phase, wq, edits, stops>>
    BY <1>13 DEF AnswerLost
  <2>3. k \in Kind
    BY <1>0, <1>6, <2>2 DEF WorkersOK, Sync
  <2>4. n \in Name /\ obj \in Dependent
    BY <1>6, <2>2, <2>3
  <2> HIDE DEF k, n, obj
  <2>5. \/ worker[w].pc = "create" /\ Proceed(w, None, TRUE)
        \/ worker[w].pc = "update" /\ worker' = [worker EXCEPT ![w].pc = "fail"]
    BY <1>13 DEF AnswerLost
  <2>6. CASE worker[w].pc = "create" /\ Proceed(w, None, TRUE)
    BY <1>7, <2>1, <2>2, <2>3, <2>4, <2>6
  <2>7. CASE worker[w].pc = "update" /\ worker' = [worker EXCEPT ![w].pc = "fail"]
    BY <1>8, <2>1, <2>2, <2>3, <2>4, <2>7
  <2> QED  BY <2>5, <2>6, <2>7
<1>14. CASE Finish(w)
  <2> DEFINE k == worker[w].item
             q == IF worker[w].pc = "ok" THEN Forget(wq, k) ELSE AddRateLimited(wq, k)
  <2>1. worker[w].pc # "idle" /\ worker' = [worker EXCEPT ![w] = Idle]
    BY <1>14 DEF Finish
  <2>2. k \in App /\ k \in wq.processing
    BY <1>1, <2>1
  <2>3. WellFormed(q) /\ q.processing = wq.processing
    BY <1>0, <2>2, ForgetWellFormed, AddRateLimitedWellFormed DEF App
  <2>4. wq' = Done(q, k)
    BY <1>14 DEF Finish
  <2> HIDE DEF q
  <2>5. WellFormed(wq') /\ wq'.processing = wq.processing \ {k}
    BY <2>2, <2>3, <2>4, DoneWellFormed
  <2>6. /\ \A v \in Worker \ {w} : worker'[v] = worker[v]
        /\ worker'[w] = Idle /\ worker' \in [Worker -> Sync]
    BY <1>0, <2>1, IdleType
  <2>7. TypeOK'
    BY <1>14, <2>5, <2>6 DEF Finish, TypeOK, appVars, storeVars, caches, counters, WellFormed
  <2>8. WorkersOK'
    BY <2>6, IdleType DEF WorkersOK
  <2>9. MutualExclusion'
    <3>1. /\ wq.processing = {worker[v].item : v \in Worker} \ {None}
          /\ \A v \in Worker \ {w} : worker[v].item # k
      BY <2>2, ConstantsAssumption DEF MutualExclusion
    <3>2. wq'.processing = {worker'[v].item : v \in Worker} \ {None}
      BY <2>5, <2>6, <3>1, IdleType
    <3>3. \A u, v \in Worker :
             worker'[u].item = worker'[v].item /\ worker'[u].item # None => u = v
      BY <2>6, IdleType DEF MutualExclusion
    <3> QED  BY <2>5, <3>2, <3>3 DEF MutualExclusion, WellFormed
  <2> QED  BY <2>7, <2>8, <2>9
<1> QED  BY <1>3, <1>4, <1>5, <1>9, <1>10, <1>11, <1>12, <1>13, <1>14
         DEF ProcessNextWorkItem

\* IInv is inductive.
LEMMA NextIInv == IInv /\ [Next]_vars => IInv'
<1> SUFFICES ASSUME IInv, [Next]_vars PROVE IInv'
  OBVIOUS
<1>1. CASE \E a \in App : CreateApp(a) \/ EditApp(a) \/ DeleteApp(a)
  BY <1>1, AppEdits
<1>2. CASE \E k \in Kind, n \in Name :
              \/ DeleteDependent(k, n) \/ CreateForeign(k, n) \/ Orphan(k, n)
              \/ GarbageCollect(k, n)
  BY <1>2, DependentEdits
<1>3. CASE \E n \in Name : Scale(n)
  <2>1. "dep" \in Kind
    BY DEF Kind
  <2> QED  BY <1>3, <2>1, DependentEdits
<1>4. CASE \/ \E a \in App : WatchApp(a) \/ Resync(a) \/ BackoffElapsed(a)
           \/ \E k \in Kind, n \in Name : Watch(k, n)
  BY <1>4, InformerIInv
<1>5. CASE \E w \in Worker : ProcessNextWorkItem(w) \/ CallFails(w) \/ AnswerLost(w)
  BY <1>5, WorkerIInv
<1>6. CASE CachesSynced \/ Signal \/ Exit \/ Start \/ UNCHANGED vars
  BY <1>6, ProcessIInv
<1> QED  BY <1>1, <1>2, <1>3, <1>4, <1>5, <1>6 DEF Next

\* The variables keep their types whatever users, informers, workers,
\* failures and shutdowns do: in particular syncHandler never uses an App or
\* a name it does not have.
THEOREM TypeCorrect == Spec => []TypeOK
<1>1. IInv => TypeOK
  BY DEF IInv
<1> QED  BY <1>1, InitIInv, NextIInv, PTL DEF Spec

\* "We are never processing the same item simultaneously in two different
\* workers" (controller.go:86-90), for any number of workers and Apps.
THEOREM WorkersExclude == Spec => []MutualExclusion
<1>1. IInv => MutualExclusion
  BY DEF IInv
<1> QED  BY <1>1, InitIInv, NextIInv, PTL DEF Spec
-----------------------------------------------------------------------------
(***************************************************************************)
(* A dependent never goes from one App, or incarnation of an App, to       *)
(* another while it is there.                                              *)
(***************************************************************************)
\* One object as a cache c, the changes q on their way to it and the API
\* server s show it: a relation R that holds from each to all later ones.
Versions(c, q, s) == {c, s} \cup {q[i] : i \in 1 .. Len(q)}

Ordered(R, c, q, s) ==
    /\ <<c, s>> \in R
    /\ \A i \in 1 .. Len(q) : <<c, q[i]>> \in R /\ <<q[i], s>> \in R
    /\ \A i, j \in 1 .. Len(q) : i < j => <<q[i], q[j]>> \in R

AppVersions(a) == Versions(appCache[a], appWatch[a], app[a])
Dependents(k, n) == Versions(cache[k][n], watch[k][n], store[k][n])

\* d is a dependent that App a, in some incarnation, controls.
Controls(a, d) == d # None /\ d.label = a /\ d.owner # 0

\* Incarnations of an App follow each other, and so do those that control
\* one dependent.
NoYounger ==
    {p \in (AppObject \cup {None}) \X (AppObject \cup {None}) :
        p[1] # None /\ p[2] # None => p[1].uid <= p[2].uid}
SameOrLaterOwner ==
    {p \in (Dependent \cup {None}) \X (Dependent \cup {None}) :
        \A a \in App \cup {None} : Controls(a, p[1]) /\ Controls(a, p[2]) => p[1].owner <= p[2].owner}

\* Somebody knows u as the uid of App a.
Known(u, a) ==
    \/ a \in App /\ \E x \in AppVersions(a) : x # None /\ x.uid = u
    \/ \E k \in Kind, n \in Name : \E d \in Dependents(k, n) : Controls(a, d) /\ d.owner = u
    \/ \E w \in Worker :
          \/ worker[w].app # None /\ worker[w].item = a /\ worker[w].app.uid = u
          \/ Controls(a, worker[w].got["dep"]) /\ worker[w].got["dep"].owner = u

UidsOK ==
    \A u \in 0 .. MaxEdits, a \in App \cup {None} : Known(u, a) =>
       /\ u <= edits
       /\ \A b \in App \cup {None} : Known(u, b) => b = a

OrderOK ==
    /\ \A a \in App : Ordered(NoYounger, appCache[a], appWatch[a], app[a])
    /\ \A k \in Kind, n \in Name :
          Ordered(SameOrLaterOwner, cache[k][n], watch[k][n], store[k][n])

\* No dependent is ahead of what anybody knows of its App.
OwnersOK ==
    \A a \in App, k \in Kind, n \in Name :
       \A x \in AppVersions(a), d \in Dependents(k, n) :
          x # None /\ Controls(a, d) => d.owner <= x.uid

Active == {"read", "create", "check", "update"}

\* A worker's App is between the dependents and the App's versions, and the
\* Deployment it holds is no later than the one that is there.
Held(s) ==
    /\ s.item \in App
    /\ \A x \in AppVersions(s.item) : x # None => s.app.uid <= x.uid
    /\ \A k \in Kind, n \in Name : \A d \in Dependents(k, n) :
          Controls(s.item, d) => d.owner <= s.app.uid
    /\ s.pc \in Active /\ Controls(s.item, s.got["dep"])
       /\ Controls(s.item, store["dep"][s.app.spec.dep])
       => s.got["dep"].owner <= store["dep"][s.app.spec.dep].owner
    /\ s.pc = "update" => s.got["dep"] # None /\ s.got["dep"].owner = s.app.uid

HeldOK ==
    \A w \in Worker : /\ worker[w].app # None => Held(worker[w])
                      /\ worker[w].pc = "app" => worker[w].got["dep"] = None

QuietWhenDown == ~Alive => watch = NoEvents

OInv == UidsOK /\ OrderOK /\ OwnersOK /\ HeldOK /\ QuietWhenDown

Inv == IInv /\ OInv
-----------------------------------------------------------------------------
\* A later version is written, and perhaps sent.
LEMMA Push ==
    ASSUME NEW X, NEW q \in Seq(X), NEW y \in X, NEW R, NEW c, NEW s, Ordered(R, c, q, s),
           \A x \in Versions(c, q, s) : <<x, y>> \in R, <<y, y>> \in R
    PROVE  /\ Ordered(R, c, Append(q, y), y) /\ Ordered(R, c, q, y)
           /\ Versions(c, Append(q, y), y) \subseteq Versions(c, q, s) \cup {y}
           /\ Versions(c, q, y) \subseteq Versions(c, q, s) \cup {y}
<1> DEFINE p == Append(q, y)
<1>1. /\ Len(p) = Len(q) + 1 /\ Len(q) \in Nat
      /\ \A i \in 1 .. Len(q) : p[i] = q[i]
      /\ p[Len(q) + 1] = y
  OBVIOUS
<1> HIDE DEF p
<1>2. \A i \in 1 .. Len(p) : i \in 1 .. Len(q) \/ i = Len(q) + 1
  BY <1>1
<1>3. <<c, y>> \in R /\ \A i \in 1 .. Len(q) : <<q[i], y>> \in R
  BY DEF Versions
<1>4. Ordered(R, c, q, y)
  BY <1>3 DEF Ordered
<1>5. Ordered(R, c, p, y)
  <2>1. \A i \in 1 .. Len(p) : <<c, p[i]>> \in R /\ <<p[i], y>> \in R
    BY <1>1, <1>2, <1>3 DEF Ordered
  <2>2. ASSUME NEW i \in 1 .. Len(p), NEW j \in 1 .. Len(p), i < j
        PROVE  <<p[i], p[j]>> \in R
    <3>1. i \in 1 .. Len(q)
      BY <1>1, <2>2
    <3>2. CASE j \in 1 .. Len(q)
      BY <1>1, <2>2, <3>1, <3>2 DEF Ordered
    <3>3. CASE j = Len(q) + 1
      BY <1>1, <1>3, <3>1, <3>3
    <3> QED  BY <1>2, <3>2, <3>3
  <2> QED  BY <1>3, <2>1, <2>2 DEF Ordered
<1>6. Versions(c, p, y) \subseteq Versions(c, q, s) \cup {y}
  BY <1>1, <1>2 DEF Versions
<1>7. Versions(c, q, y) \subseteq Versions(c, q, s) \cup {y}
  BY DEF Versions
<1> QED  BY <1>4, <1>5, <1>6, <1>7 DEF p

\* The first change arrives in the cache.
LEMMA Arrive ==
    ASSUME NEW X, NEW q \in Seq(X), q # <<>>, NEW R, NEW c, NEW s, Ordered(R, c, q, s)
    PROVE  /\ Ordered(R, Head(q), Tail(q), s)
           /\ Versions(Head(q), Tail(q), s) \subseteq Versions(c, q, s)
<1> DEFINE p == Tail(q)
<1>1. /\ Len(q) \in Nat /\ Len(q) >= 1 /\ Len(p) = Len(q) - 1 /\ Head(q) = q[1]
      /\ \A i \in 1 .. Len(p) : p[i] = q[i + 1]
  OBVIOUS
<1> HIDE DEF p
<1>2. 1 \in 1 .. Len(q) /\ \A i \in 1 .. Len(p) : i + 1 \in 1 .. Len(q) /\ 1 < i + 1
  BY <1>1
<1>3. Ordered(R, q[1], p, s)
  <2>1. <<q[1], s>> \in R
    BY <1>2 DEF Ordered
  <2>2. \A i \in 1 .. Len(p) : <<q[1], p[i]>> \in R /\ <<p[i], s>> \in R
    BY <1>1, <1>2 DEF Ordered
  <2>3. ASSUME NEW i \in 1 .. Len(p), NEW j \in 1 .. Len(p), i < j
        PROVE  <<p[i], p[j]>> \in R
    BY <1>1, <1>2, <2>3 DEF Ordered
  <2> QED  BY <2>1, <2>2, <2>3 DEF Ordered
<1>4. Versions(q[1], p, s) \subseteq Versions(c, q, s)
  BY <1>1, <1>2 DEF Versions
<1> QED  BY <1>1, <1>3, <1>4 DEF p

\* A new list, or none.
LEMMA Relist ==
    ASSUME NEW R, NEW c, NEW s
    PROVE  /\ Versions(c, <<>>, s) = {c, s}
           /\ Ordered(R, c, <<>>, s) <=> <<c, s>> \in R
  BY DEF Versions, Ordered

\* Every version of an object has its type.
LEMMA VersionsType ==
    ASSUME TypeOK
    PROVE  /\ \A a \in App : /\ AppVersions(a) \subseteq AppObject \cup {None}
                             /\ appWatch[a] \in Seq(AppObject \cup {None})
                             /\ app[a] \in AppVersions(a) /\ appCache[a] \in AppVersions(a)
           /\ \A k \in Kind, n \in Name :
                 /\ Dependents(k, n) \subseteq Dependent \cup {None}
                 /\ watch[k][n] \in Seq(Dependent \cup {None})
                 /\ store[k][n] \in Dependents(k, n) /\ cache[k][n] \in Dependents(k, n)
<1>1. ASSUME NEW a \in App
      PROVE  /\ AppVersions(a) \subseteq AppObject \cup {None}
             /\ appWatch[a] \in Seq(AppObject \cup {None})
             /\ app[a] \in AppVersions(a) /\ appCache[a] \in AppVersions(a)
  <2>1. /\ appWatch[a] \in Seq(AppObject \cup {None})
        /\ app[a] \in AppObject \cup {None} /\ appCache[a] \in AppObject \cup {None}
    BY DEF TypeOK
  <2> QED  BY <2>1 DEF AppVersions, Versions
<1>2. ASSUME NEW k \in Kind, NEW n \in Name
      PROVE  /\ Dependents(k, n) \subseteq Dependent \cup {None}
             /\ watch[k][n] \in Seq(Dependent \cup {None})
             /\ store[k][n] \in Dependents(k, n) /\ cache[k][n] \in Dependents(k, n)
  <2>1. /\ watch[k][n] \in Seq(Dependent \cup {None})
        /\ store[k][n] \in Dependent \cup {None} /\ cache[k][n] \in Dependent \cup {None}
    BY DEF TypeOK
  <2> QED  BY <2>1 DEF Dependents, Versions
<1> QED  BY <1>1, <1>2

\* The two relations, pair by pair.
LEMMA PairsOf ==
    /\ \A x, y : <<x, y>> \in NoYounger <=>
          /\ x \in AppObject \cup {None} /\ y \in AppObject \cup {None}
          /\ x # None /\ y # None => x.uid <= y.uid
    /\ \A x, y : <<x, y>> \in SameOrLaterOwner <=>
          /\ x \in Dependent \cup {None} /\ y \in Dependent \cup {None}
          /\ \A a \in App \cup {None} : Controls(a, x) /\ Controls(a, y) => x.owner <= y.owner
  BY DEF NoYounger, SameOrLaterOwner

\* All versions are between the cache's and the API server's.
LEMMA Latest ==
    ASSUME NEW R, NEW c, NEW q, NEW s, Ordered(R, c, q, s), <<c, c>> \in R, <<s, s>> \in R
    PROVE  \A x \in Versions(c, q, s) : <<x, s>> \in R /\ <<c, x>> \in R
  BY DEF Ordered, Versions

\* An object is a version of itself.
LEMMA Reflexive ==
    /\ \A x \in AppObject \cup {None} : <<x, x>> \in NoYounger
    /\ \A d \in Dependent \cup {None} : <<d, d>> \in SameOrLaterOwner
<1>1. \A x \in AppObject : x.uid <= x.uid
  BY ConstantsAssumption DEF AppObject
<1>2. \A d \in Dependent : d.owner <= d.owner
  BY ConstantsAssumption DEF Dependent
<1> QED  BY <1>1, <1>2, PairsOf DEF Controls

\* The invariant, read off at the API server's version of each object.
LEMMA LatestVersions ==
    ASSUME Inv
    PROVE  /\ \A a \in App : \A x \in AppVersions(a) :
                 <<x, app[a]>> \in NoYounger /\ <<appCache[a], x>> \in NoYounger
           /\ \A k \in Kind, n \in Name :
                 \A d \in Dependents(k, n) : <<d, store[k][n]>> \in SameOrLaterOwner
<1>1. ASSUME NEW a \in App
      PROVE  \A x \in AppVersions(a) :
                <<x, app[a]>> \in NoYounger /\ <<appCache[a], x>> \in NoYounger
  <2>1. app[a] \in AppObject \cup {None} /\ appCache[a] \in AppObject \cup {None}
    BY DEF Inv, IInv, TypeOK
  <2>2. Ordered(NoYounger, appCache[a], appWatch[a], app[a])
    BY DEF Inv, OInv, OrderOK
  <2> QED  BY <2>1, <2>2, Reflexive, Latest DEF AppVersions
<1>2. ASSUME NEW k \in Kind, NEW n \in Name
      PROVE  \A d \in Dependents(k, n) : <<d, store[k][n]>> \in SameOrLaterOwner
  <2>1. store[k][n] \in Dependent \cup {None} /\ cache[k][n] \in Dependent \cup {None}
    BY DEF Inv, IInv, TypeOK
  <2>2. Ordered(SameOrLaterOwner, cache[k][n], watch[k][n], store[k][n])
    BY DEF Inv, OInv, OrderOK
  <2> QED  BY <2>1, <2>2, Reflexive, Latest DEF Dependents
<1> QED  BY <1>1, <1>2

\* Nothing new is known.
LEMMA UidsStep ==
    ASSUME UidsOK, edits \in Nat, edits' \in Nat, edits <= edits',
           \A u \in 0 .. MaxEdits, a \in App \cup {None} : Known(u, a)' => Known(u, a)
    PROVE  UidsOK'
<1> SUFFICES ASSUME NEW u \in 0 .. MaxEdits, NEW a \in App \cup {None}, Known(u, a)'
             PROVE  /\ u <= edits'
                    /\ \A b \in App \cup {None} : Known(u, b)' => b = a
  BY DEF UidsOK
<1>1. u <= edits /\ \A b \in App \cup {None} : Known(u, b) => b = a
  BY DEF UidsOK
<1> QED  BY <1>1, ConstantsAssumption

\* A write of a dependent that is no step back, and not ahead of its App.
LEMMA StoreWrite ==
    ASSUME Inv, NEW k \in Kind, NEW n \in Name, NEW obj \in Dependent \cup {None},
           Write(k, n, obj), UNCHANGED <<appVars, caches, phase>>,
           \A d \in Dependents(k, n) : <<d, obj>> \in SameOrLaterOwner,
           \A a \in App : Controls(a, obj) =>
              \A x \in AppVersions(a) : x # None => obj.owner <= x.uid
    PROVE  /\ Dependents(k, n)' \subseteq Dependents(k, n) \cup {obj}
           /\ \A j \in Kind, m \in Name :
                 j # k \/ m # n => Dependents(j, m)' = Dependents(j, m) /\ store'[j][m] = store[j][m]
           /\ store'[k][n] = obj
           /\ \A a \in App : AppVersions(a)' = AppVersions(a)
           /\ OrderOK' /\ OwnersOK' /\ QuietWhenDown'
<1> USE DEF Inv, OInv
<1>0. TypeOK
  BY DEF IInv
<1>1. /\ store[k] \in [Name -> Dependent \cup {None}] /\ watch[k] \in [Name -> Seq(Dependent \cup {None})]
      /\ watch[k][n] \in Seq(Dependent \cup {None})
      /\ store \in [Kind -> [Name -> Dependent \cup {None}]]
      /\ watch \in [Kind -> [Name -> Seq(Dependent \cup {None})]]
  BY <1>0 DEF TypeOK
<1>2. /\ store'[k][n] = obj
      /\ watch'[k][n] \in {watch[k][n], Append(watch[k][n], obj)}
      /\ \A j \in Kind, m \in Name :
            j # k \/ m # n => store'[j][m] = store[j][m] /\ watch'[j][m] = watch[j][m]
  <2>1. store'[k][n] = obj /\ \A j \in Kind, m \in Name :
            j # k \/ m # n => store'[j][m] = store[j][m]
    BY <1>1 DEF Write
  <2>2. CASE watch' = watch
    BY <2>1, <2>2
  <2>3. CASE watch' = [watch EXCEPT ![k][n] = Append(@, obj)]
    BY <1>1, <2>1, <2>3
  <2> QED  BY <2>2, <2>3 DEF Write
<1>3. /\ cache' = cache /\ appCache' = appCache /\ app' = app /\ appWatch' = appWatch /\ phase' = phase
      /\ \A a \in App : AppVersions(a)' = AppVersions(a)
  BY DEF caches, appVars, AppVersions
<1>4. /\ Ordered(SameOrLaterOwner, cache[k][n], watch'[k][n], obj)
      /\ Versions(cache[k][n], watch'[k][n], obj) \subseteq Dependents(k, n) \cup {obj}
  <2>1. Ordered(SameOrLaterOwner, cache[k][n], watch[k][n], store[k][n])
    BY DEF OrderOK
  <2>2. <<obj, obj>> \in SameOrLaterOwner
    BY Reflexive
  <2> DEFINE c == cache[k][n]  q == watch[k][n]  s == store[k][n]
             Change == Dependent \cup {None}
  <2>3. \A x \in Versions(c, q, s) : <<x, obj>> \in SameOrLaterOwner
    BY DEF Dependents
  <2>4. q \in Seq(Change) /\ obj \in Change /\ Ordered(SameOrLaterOwner, c, q, s)
    BY <1>1, <2>1
  <2> HIDE DEF c, q, s, Change
  <2>5. /\ Ordered(SameOrLaterOwner, c, Append(q, obj), obj)
        /\ Ordered(SameOrLaterOwner, c, q, obj)
        /\ Versions(c, Append(q, obj), obj) \subseteq Versions(c, q, s) \cup {obj}
        /\ Versions(c, q, obj) \subseteq Versions(c, q, s) \cup {obj}
    BY <2>2, <2>3, <2>4, Push
  <2> QED  BY <1>2, <2>5 DEF Dependents, c, q, s
<1>5. /\ Dependents(k, n)' \subseteq Dependents(k, n) \cup {obj}
      /\ \A j \in Kind, m \in Name : j # k \/ m # n => Dependents(j, m)' = Dependents(j, m)
  BY <1>2, <1>3, <1>4 DEF Dependents
<1>6. OrderOK'
  <2>1. \A a \in App : Ordered(NoYounger, appCache'[a], appWatch'[a], app'[a])
    BY <1>3 DEF OrderOK
  <2>2. ASSUME NEW j \in Kind, NEW m \in Name
        PROVE  Ordered(SameOrLaterOwner, cache'[j][m], watch'[j][m], store'[j][m])
    <3>1. CASE j = k /\ m = n
      BY <1>2, <1>3, <1>4, <3>1
    <3>2. CASE j # k \/ m # n
      BY <1>2, <1>3, <3>2 DEF OrderOK
    <3> QED  BY <3>1, <3>2
  <2> QED  BY <2>1, <2>2 DEF OrderOK
<1>7. OwnersOK'
  <2> SUFFICES ASSUME NEW a \in App, NEW j \in Kind, NEW m \in Name,
                      NEW x \in AppVersions(a), NEW d \in Dependents(j, m)',
                      x # None, Controls(a, d)
               PROVE  d.owner <= x.uid
    BY <1>3 DEF OwnersOK, Controls
  <2>1. d \in Dependents(j, m) \/ d = obj
    BY <1>5
  <2> QED  BY <2>1 DEF OwnersOK
<1>8. QuietWhenDown'
  BY <1>3 DEF QuietWhenDown, Write, Alive
<1> QED  BY <1>2, <1>3, <1>5, <1>6, <1>7, <1>8

\* What a worker may do without a write: drop what it has, take the App from
\* the cache, or go on with the Deployment it has, or the cached one.
StaysHeld(s, t) ==
    /\ t.pc = "app" => t.got["dep"] = None
    /\ \/ t.app = None /\ t.got["dep"] \in {s.got["dep"], None}
       \/ /\ t.item \in App /\ t.app = appCache[t.item]
          /\ t.got["dep"] = None /\ t.pc # "update"
       \/ /\ s.app # None /\ t.item = s.item /\ t.app = s.app
          /\ t.got["dep"] \in {s.got["dep"], None, cache["dep"][s.app.spec.dep]}
          /\ t.pc \in Active => s.pc \in Active
          /\ t.pc = "update" => t.got["dep"] # None /\ t.got["dep"].owner = s.app.uid

\* A worker that is left alone stays as it is.
LEMMA Unmoved ==
    ASSUME Inv, NEW w \in Worker
    PROVE  StaysHeld(worker[w], worker[w])
  BY DEF Inv, OInv, HeldOK, Held, StaysHeld

\* A step after which nobody knows more, and every worker stays in its range.
LEMMA Calm ==
    ASSUME Inv, IInv', store' = store, edits' = edits,
           \A a \in App : AppVersions(a)' \subseteq AppVersions(a) \cup {None},
           \A k \in Kind, n \in Name : Dependents(k, n)' \subseteq Dependents(k, n) \cup {None},
           \A w \in Worker : StaysHeld(worker[w], worker'[w])
    PROVE  UidsOK' /\ OwnersOK' /\ HeldOK'
<1> USE DEF Inv, OInv
<1>0. TypeOK /\ TypeOK'
  BY DEF IInv
<1>1. \A w \in Worker : worker[w] \in Sync /\ worker'[w] \in Sync
  BY <1>0 DEF TypeOK
<1>2. ASSUME NEW w \in Worker, worker[w].app # None
      PROVE  /\ worker[w].app.spec.dep \in Name
             /\ cache["dep"][worker[w].app.spec.dep] \in Dependents("dep", worker[w].app.spec.dep)
             /\ <<cache["dep"][worker[w].app.spec.dep], store["dep"][worker[w].app.spec.dep]>>
                   \in SameOrLaterOwner
  <2>1. worker[w].app \in AppObject
    BY <1>1, <1>2 DEF Sync
  <2>2. worker[w].app.spec.dep \in Name
    BY <2>1, ConstantsAssumption DEF AppObject, AppSpec
  <2>3. "dep" \in Kind
    BY DEF Kind
  <2> QED  BY <1>0, <2>2, <2>3, VersionsType, LatestVersions
<1>3. UidsOK'
  <2>1. ASSUME NEW u \in 0 .. MaxEdits, NEW a \in App \cup {None}, Known(u, a)'
        PROVE  Known(u, a)
    <3>1. CASE a \in App /\ \E x \in AppVersions(a)' : x # None /\ x.uid = u
      BY <3>1 DEF Known
    <3>2. CASE \E k \in Kind, n \in Name :
                  \E d \in Dependents(k, n)' : Controls(a, d) /\ d.owner = u
      BY <3>2 DEF Known, Controls
    <3>3. ASSUME NEW w \in Worker, worker'[w].app # None, worker'[w].item = a,
                 worker'[w].app.uid = u
          PROVE  Known(u, a)
      <4>1. CASE worker'[w].item \in App /\ worker'[w].app = appCache[worker'[w].item]
        BY <1>0, <3>3, <4>1, VersionsType DEF Known
      <4>2. CASE worker'[w].item = worker[w].item /\ worker'[w].app = worker[w].app
        BY <3>3, <4>2 DEF Known
      <4> QED  BY <3>3, <4>1, <4>2 DEF StaysHeld
    <3>4. ASSUME NEW w \in Worker, Controls(a, worker'[w].got["dep"]),
                 worker'[w].got["dep"].owner = u
          PROVE  Known(u, a)
      <4>1. CASE worker'[w].got["dep"] = worker[w].got["dep"]
        BY <3>4, <4>1 DEF Known
      <4>2. CASE worker[w].app # None /\ worker'[w].got["dep"] = cache["dep"][worker[w].app.spec.dep]
        BY <1>2, <3>4, <4>2 DEF Known, Kind
      <4>3. worker'[w].got["dep"] # None
        BY <3>4 DEF Controls
      <4> QED  BY <4>1, <4>2, <4>3 DEF StaysHeld
    <3> QED  BY <2>1, <3>1, <3>2, <3>3, <3>4 DEF Known, Controls
  <2> QED  BY <1>0, <2>1, UidsStep, ConstantsAssumption DEF TypeOK
<1>4. OwnersOK'
  <2> SUFFICES ASSUME NEW a \in App, NEW k \in Kind, NEW n \in Name,
                      NEW x \in AppVersions(a)', NEW d \in Dependents(k, n)',
                      x # None, Controls(a, d)
               PROVE  d.owner <= x.uid
    BY DEF OwnersOK, Controls
  <2> QED  BY DEF OwnersOK, Controls
<1>5. HeldOK'
  <2> SUFFICES ASSUME NEW w \in Worker, worker'[w].app # None
               PROVE  Held(worker[w])'
    BY DEF HeldOK, StaysHeld
  <2> DEFINE s == worker[w]  t == worker'[w]
  <2>1. ASSUME NEW a \in App, t.item = a, t.app = appCache[a], t.got["dep"] = None, t.pc # "update"
        PROVE  Held(worker[w])'
    <3>1. appCache[a] \in AppVersions(a) /\ appCache[a] # None
      BY <1>0, <2>1, VersionsType
    <3>2. ASSUME NEW x \in AppVersions(a)', x # None
          PROVE  t.app.uid <= x.uid
      <4>1. <<appCache[a], x>> \in NoYounger
        BY <3>2, LatestVersions
      <4> QED  BY <2>1, <3>1, <3>2, <4>1, PairsOf
    <3>3. ASSUME NEW k \in Kind, NEW n \in Name, NEW d \in Dependents(k, n)', Controls(a, d)
          PROVE  d.owner <= t.app.uid
      BY <2>1, <3>1, <3>3 DEF OwnersOK, Controls
    <3> QED  BY <2>1, <3>2, <3>3 DEF Held, Controls
  <2>2. CASE /\ s.app # None /\ t.item = s.item /\ t.app = s.app
             /\ t.got["dep"] \in {s.got["dep"], None, cache["dep"][s.app.spec.dep]}
             /\ t.pc \in Active => s.pc \in Active
             /\ t.pc = "update" => t.got["dep"] # None /\ t.got["dep"].owner = s.app.uid
    <3>1. Held(s)
      BY <2>2 DEF HeldOK
    <3>2. ASSUME t.pc \in Active, Controls(t.item, t.got["dep"]),
                 Controls(t.item, store["dep"][t.app.spec.dep])
          PROVE  t.got["dep"].owner <= store["dep"][t.app.spec.dep].owner
      <4>1. CASE t.got["dep"] = s.got["dep"]
        BY <2>2, <3>1, <3>2, <4>1 DEF Held
      <4>2. CASE t.got["dep"] = cache["dep"][s.app.spec.dep]
        BY <1>2, <2>2, <3>1, <3>2, <4>2, PairsOf DEF Held
      <4> QED  BY <2>2, <3>2, <4>1, <4>2 DEF Controls
    <3> QED  BY <2>2, <3>1, <3>2 DEF Held, Controls
  <2> QED  BY <2>1, <2>2 DEF StaysHeld, App
<1> QED  BY <1>3, <1>4, <1>5

\* Nobody knows a uid before the first start.
LEMMA InitOwn == Init => OInv
<1> SUFFICES ASSUME Init PROVE OInv
  OBVIOUS
<1>1. \A w \in Worker : worker[w].app = None /\ worker[w].got["dep"] = None
  BY DEF Init, Idle, Nothing, Kind
<1>2. /\ \A a \in App : /\ AppVersions(a) = {None}
                        /\ Ordered(NoYounger, appCache[a], appWatch[a], app[a])
      /\ \A k \in Kind, n \in Name :
            /\ Dependents(k, n) = {None}
            /\ Ordered(SameOrLaterOwner, cache[k][n], watch[k][n], store[k][n])
  <2>1. <<None, None>> \in NoYounger /\ <<None, None>> \in SameOrLaterOwner
    BY Reflexive
  <2>2. /\ \A a \in App : app[a] = None /\ appCache[a] = None /\ appWatch[a] = <<>>
        /\ \A k \in Kind, n \in Name : store[k][n] = None /\ cache[k][n] = None /\ watch[k][n] = <<>>
    BY DEF Init, NoObjects, NoEvents
  <2> QED  BY <2>1, <2>2, Relist DEF AppVersions, Dependents
<1>3. UidsOK /\ OwnersOK /\ HeldOK
  BY <1>1, <1>2 DEF UidsOK, OwnersOK, HeldOK, Known, Controls
<1>4. OrderOK
  BY <1>2 DEF OrderOK
<1>5. QuietWhenDown
  BY DEF Init, QuietWhenDown
<1> QED  BY <1>3, <1>4, <1>5 DEF OInv

\* A new version of an App: gone, edited, or a later incarnation.
LEMMA AppWrite ==
    ASSUME Inv, IInv', NEW a \in App, NEW obj \in AppObject \cup {None}, WriteApp(a, obj),
           UNCHANGED <<storeVars, caches, process>>, edits' = edits + 1,
           \/ obj = None
           \/ app[a] # None /\ obj.uid = app[a].uid
           \/ obj.uid = edits + 1
    PROVE  OInv'
<1> USE DEF Inv, OInv
<1>0. TypeOK /\ TypeOK' /\ edits \in Nat /\ edits' \in 0 .. MaxEdits
  BY ConstantsAssumption DEF IInv, TypeOK
<1>1. /\ worker' = worker /\ phase' = phase /\ store' = store /\ cache' = cache /\ watch' = watch
      /\ appCache' = appCache /\ \A k \in Kind, n \in Name : Dependents(k, n)' = Dependents(k, n)
  BY DEF storeVars, caches, process, Dependents
<1>2. /\ app'[a] = obj /\ appWatch'[a] \in {appWatch[a], Append(appWatch[a], obj)}
      /\ \A b \in App : b # a => app'[b] = app[b] /\ appWatch'[b] = appWatch[b]
  <2>1. app \in [App -> AppObject \cup {None}] /\ appWatch \in [App -> Seq(AppObject \cup {None})]
    BY <1>0 DEF TypeOK
  <2> QED  BY <2>1 DEF WriteApp
<1>3. \A b \in App, x \in AppObject : x \in AppVersions(b) => x.uid <= edits
  <2>1. \A x \in AppObject : x.uid \in 0 .. MaxEdits /\ x # None
    BY ConstantsAssumption DEF AppObject
  <2> QED  BY <2>1 DEF UidsOK, Known
<1>4. \A x \in AppVersions(a) : <<x, obj>> \in NoYounger
  <2> SUFFICES ASSUME NEW x \in AppVersions(a), x # None, obj # None
               PROVE  x.uid <= obj.uid
    BY <1>0, PairsOf, VersionsType
  <2>1. x \in AppObject /\ x.uid \in Nat
    BY <1>0, VersionsType, ConstantsAssumption DEF AppObject
  <2>2. CASE app[a] # None /\ obj.uid = app[a].uid
    BY <2>1, <2>2, LatestVersions, PairsOf
  <2>3. CASE obj.uid = edits + 1
    BY <1>0, <1>3, <2>1, <2>3
  <2> QED  BY <2>2, <2>3
<1>5. /\ Ordered(NoYounger, appCache[a], appWatch'[a], obj)
      /\ Versions(appCache[a], appWatch'[a], obj) \subseteq AppVersions(a) \cup {obj}
  <2> DEFINE c == appCache[a]  q == appWatch[a]  s == app[a]  Change == AppObject \cup {None}
  <2>1. \A x \in Versions(c, q, s) : <<x, obj>> \in NoYounger
    BY <1>4 DEF AppVersions
  <2>2. q \in Seq(Change) /\ obj \in Change /\ Ordered(NoYounger, c, q, s) /\ <<obj, obj>> \in NoYounger
    BY <1>0, VersionsType, Reflexive DEF OrderOK
  <2> HIDE DEF c, q, s, Change
  <2>3. /\ Ordered(NoYounger, c, Append(q, obj), obj)
        /\ Ordered(NoYounger, c, q, obj)
        /\ Versions(c, Append(q, obj), obj) \subseteq Versions(c, q, s) \cup {obj}
        /\ Versions(c, q, obj) \subseteq Versions(c, q, s) \cup {obj}
    BY <2>1, <2>2, Push
  <2> QED  BY <1>2, <2>3 DEF AppVersions, c, q, s
<1>6. /\ AppVersions(a)' \subseteq AppVersions(a) \cup {obj}
      /\ \A b \in App : b # a => AppVersions(b)' = AppVersions(b)
  BY <1>1, <1>2, <1>5 DEF AppVersions
<1>7. OrderOK'
  BY <1>1, <1>2, <1>5 DEF OrderOK
<1>8. \A u \in 0 .. MaxEdits, b \in App \cup {None} :
         Known(u, b)' => Known(u, b) \/ (u = edits + 1 /\ b = a)
  <2> SUFFICES ASSUME NEW u \in 0 .. MaxEdits, NEW b \in App \cup {None}, Known(u, b)'
               PROVE  Known(u, b) \/ (u = edits + 1 /\ b = a)
    OBVIOUS
  <2>1. CASE b \in App /\ \E x \in AppVersions(b)' : x # None /\ x.uid = u
    BY <1>0, <1>6, <2>1, VersionsType DEF Known
  <2>2. CASE ~(b \in App /\ \E x \in AppVersions(b)' : x # None /\ x.uid = u)
    BY <1>1, <2>2 DEF Known, Controls
  <2> QED  BY <2>1, <2>2
<1>9. UidsOK'
  <2> SUFFICES ASSUME NEW u \in 0 .. MaxEdits, NEW b \in App \cup {None}, Known(u, b)'
               PROVE  /\ u <= edits'
                      /\ \A e \in App \cup {None} : Known(u, e)' => e = b
    BY DEF UidsOK
  <2>1. \A e \in App \cup {None} : ~Known(edits + 1, e)
    BY <1>0 DEF UidsOK
  <2> QED  BY <1>0, <1>8, <2>1 DEF UidsOK
<1>10. ASSUME NEW u \in 0 .. MaxEdits, Known(u, a), obj # None,
              app[a] # None => u <= app[a].uid
       PROVE  u <= obj.uid
  <2>1. u <= edits
    BY <1>10 DEF UidsOK
  <2> QED  BY <1>0, <1>10, <2>1
<1>11. OwnersOK'
  <2> SUFFICES ASSUME NEW b \in App, NEW k \in Kind, NEW n \in Name,
                      NEW x \in AppVersions(b)', NEW d \in Dependents(k, n),
                      x # None, Controls(b, d)
               PROVE  d.owner <= x.uid
    BY <1>1 DEF OwnersOK, Controls
  <2>1. CASE x \in AppVersions(b)
    BY <2>1 DEF OwnersOK
  <2>2. CASE b = a /\ x = obj
    <3>1. d.owner \in 0 .. MaxEdits
      BY <1>0, VersionsType, ConstantsAssumption DEF Controls, Dependent
    <3>2. Known(d.owner, a)
      BY <2>2 DEF Known
    <3>3. app[a] # None => d.owner <= app[a].uid
      BY <1>0, <2>2, VersionsType DEF OwnersOK
    <3> QED  BY <1>10, <2>2, <3>1, <3>2, <3>3
  <2> QED  BY <1>6, <2>1, <2>2
<1>12. HeldOK'
  <2> SUFFICES ASSUME NEW w \in Worker, worker[w].app # None
               PROVE  Held(worker[w])'
    BY <1>1 DEF HeldOK
  <2>1. Held(worker[w])
    BY DEF HeldOK
  <2>2. ASSUME NEW x \in AppVersions(worker[w].item)', x # None
        PROVE  worker[w].app.uid <= x.uid
    <3>1. CASE x \in AppVersions(worker[w].item)
      BY <2>1, <2>2, <3>1 DEF Held
    <3>2. CASE worker[w].item = a /\ x = obj
      <4>1. worker[w].app \in AppObject
        BY <1>0 DEF TypeOK, Sync
      <4>2. worker[w].app.uid \in 0 .. MaxEdits
        BY <4>1, ConstantsAssumption DEF AppObject
      <4>3. Known(worker[w].app.uid, a)
        BY <3>2 DEF Known
      <4>4. app[a] # None => worker[w].app.uid <= app[a].uid
        BY <1>0, <2>1, <3>2, VersionsType DEF Held
      <4> QED  BY <1>10, <2>2, <3>2, <4>2, <4>3, <4>4
    <3> QED  BY <1>1, <1>6, <2>1, <2>2, <3>1, <3>2 DEF Held
  <2> QED  BY <1>1, <2>1, <2>2 DEF Held, Controls
<1>13. QuietWhenDown'
  BY <1>1 DEF QuietWhenDown, Alive
<1> QED  BY <1>7, <1>9, <1>11, <1>12, <1>13

\* Users and the garbage collector delete a dependent, take its owner off, or
\* leave owner and selector alone.
LEMMA UserWrite ==
    ASSUME Inv, IInv', NEW k \in Kind, NEW n \in Name, NEW obj \in Dependent \cup {None},
           Write(k, n, obj), UNCHANGED <<appVars, caches, process>>, edits' >= edits,
           \/ obj = None
           \/ obj.owner = 0
           \/ store[k][n] # None /\ obj.owner = store[k][n].owner /\ obj.label = store[k][n].label
    PROVE  OInv'
<1> USE DEF Inv, OInv
<1>0. TypeOK /\ TypeOK' /\ edits \in Nat /\ edits' \in Nat
  BY ConstantsAssumption DEF IInv, TypeOK
<1>1. phase' = phase /\ worker' = worker /\ appCache' = appCache
  BY DEF process, caches
<1>2. \A a \in App \cup {None} :
         Controls(a, obj) => Controls(a, store[k][n]) /\ obj.owner = store[k][n].owner
  BY DEF Controls
<1>3. store[k][n] \in Dependents(k, n)
  BY <1>0, VersionsType
<1>4. \A d \in Dependents(k, n) : <<d, obj>> \in SameOrLaterOwner
  <2> SUFFICES ASSUME NEW d \in Dependents(k, n), NEW a \in App \cup {None},
                      Controls(a, d), Controls(a, obj)
               PROVE  d.owner <= obj.owner
    BY <1>0, VersionsType, PairsOf
  <2>1. <<d, store[k][n]>> \in SameOrLaterOwner
    BY LatestVersions
  <2> QED  BY <1>2, <2>1, PairsOf
<1>5. \A a \in App : Controls(a, obj) =>
         \A x \in AppVersions(a) : x # None => obj.owner <= x.uid
  BY <1>2, <1>3 DEF OwnersOK
<1>6. /\ Dependents(k, n)' \subseteq Dependents(k, n) \cup {obj}
      /\ \A j \in Kind, m \in Name :
            j # k \/ m # n => Dependents(j, m)' = Dependents(j, m) /\ store'[j][m] = store[j][m]
      /\ store'[k][n] = obj
      /\ \A a \in App : AppVersions(a)' = AppVersions(a)
      /\ OrderOK' /\ OwnersOK' /\ QuietWhenDown'
  BY <1>1, <1>4, <1>5, StoreWrite
<1>7. ASSUME NEW j \in Kind, NEW m \in Name, NEW d \in Dependents(j, m)',
             NEW a \in App \cup {None}, Controls(a, d)
      PROVE  \E e \in Dependents(j, m) : Controls(a, e) /\ e.owner = d.owner
  BY <1>2, <1>3, <1>6, <1>7
<1>8. UidsOK'
  <2>1. ASSUME NEW u \in 0 .. MaxEdits, NEW a \in App \cup {None}, Known(u, a)'
        PROVE  Known(u, a)
    <3>1. CASE \E j \in Kind, m \in Name : \E d \in Dependents(j, m)' : Controls(a, d) /\ d.owner = u
      BY <1>7, <3>1 DEF Known
    <3>2. CASE ~\E j \in Kind, m \in Name : \E d \in Dependents(j, m)' : Controls(a, d) /\ d.owner = u
      BY <1>1, <1>6, <2>1, <3>2 DEF Known, Controls
    <3> QED  BY <3>1, <3>2
  <2> QED  BY <1>0, <2>1, UidsStep
<1>9. HeldOK'
  <2> SUFFICES ASSUME NEW w \in Worker, worker[w].app # None
               PROVE  Held(worker[w])'
    BY <1>1 DEF HeldOK
  <2>1. Held(worker[w])
    BY DEF HeldOK
  <2>2. worker[w].app.spec.dep \in Name /\ "dep" \in Kind
    <3>1. worker[w].app \in AppObject
      BY <1>0 DEF TypeOK, Sync
    <3> QED  BY <3>1, ConstantsAssumption DEF AppObject, AppSpec, Kind
  <2>3. ASSUME NEW a \in App, Controls(a, store'["dep"][worker[w].app.spec.dep])
        PROVE  /\ Controls(a, store["dep"][worker[w].app.spec.dep])
               /\ store'["dep"][worker[w].app.spec.dep].owner
                    = store["dep"][worker[w].app.spec.dep].owner
    BY <1>2, <1>6, <2>2, <2>3
  <2>4. \A j \in Kind, m \in Name : \A d \in Dependents(j, m)' :
           Controls(worker[w].item, d) => d.owner <= worker[w].app.uid
    BY <1>7, <2>1 DEF Held
  <2> QED  BY <1>1, <1>6, <2>1, <2>3, <2>4 DEF Held, Controls
<1> QED  BY <1>6, <1>8, <1>9

\* A worker creates a dependent of the App it holds, or updates its Deployment.
LEMMA WorkerWrite ==
    ASSUME Inv, IInv', NEW w \in Worker, worker[w].app # None, worker[w].pc \in {"create", "update"},
           NEW k \in Kind, NEW n \in Name, NEW obj \in Dependent,
           obj = NewDependent(k, worker[w].item, worker[w].app), Write(k, n, obj),
           NEW s \in Sync, worker' = [worker EXCEPT ![w] = s],
           s.item = worker[w].item, s.app = worker[w].app, s.pc \notin {"app", "update"},
           \/ s.got["dep"] = None
           \/ k = "dep" /\ n = worker[w].app.spec.dep /\ s.got["dep"] = obj
           \/ k # "dep" /\ s.got["dep"] = worker[w].got["dep"]
           \/ s.pc \notin Active /\ s.got["dep"] = worker[w].got["dep"],
           UNCHANGED <<appVars, caches, phase>>, edits' = edits
    PROVE  OInv'
<1> USE DEF Inv, OInv
<1> DEFINE a == worker[w].item  u == worker[w].app.uid
<1>0. TypeOK /\ TypeOK' /\ edits \in Nat /\ worker \in [Worker -> Sync] /\ MutualExclusion
  <2>1. TypeOK /\ TypeOK' /\ MutualExclusion
    BY DEF IInv
  <2> QED  BY <2>1, ConstantsAssumption DEF TypeOK
<1>1. /\ Held(worker[w]) /\ a \in App /\ worker[w].app \in AppObject /\ u \in 1 .. MaxEdits
      /\ obj.owner = u /\ obj.label = a
  <2>1. worker[w].app \in AppObject /\ Held(worker[w])
    BY <1>0 DEF HeldOK, Sync
  <2> QED  BY <2>1 DEF Held, NewDependent, AppObject
<1>2. \A v \in Worker \ {w} : worker'[v] = worker[v] /\ worker[v].item # a
  BY <1>0, <1>1, ConstantsAssumption DEF MutualExclusion
<1>3. worker'[w] = s
  BY <1>0
<1>4. \A b \in App \cup {None} : Controls(b, obj) <=> b = a
  BY <1>1, ConstantsAssumption DEF Controls
<1>5. \A d \in Dependents(k, n) : <<d, obj>> \in SameOrLaterOwner
  <2>1. \A d \in Dependents(k, n) : d \in Dependent \cup {None}
    BY <1>0, VersionsType
  <2>2. \A d \in Dependents(k, n) : Controls(a, d) => d.owner <= obj.owner
    BY <1>1 DEF Held
  <2> QED  BY <1>4, <2>1, <2>2, PairsOf
<1>6. \A b \in App : Controls(b, obj) =>
         \A x \in AppVersions(b) : x # None => obj.owner <= x.uid
  BY <1>1, <1>4 DEF Held
<1>7. /\ Dependents(k, n)' \subseteq Dependents(k, n) \cup {obj}
      /\ \A j \in Kind, m \in Name :
            j # k \/ m # n => Dependents(j, m)' = Dependents(j, m) /\ store'[j][m] = store[j][m]
      /\ store'[k][n] = obj
      /\ \A b \in App : AppVersions(b)' = AppVersions(b)
      /\ OrderOK' /\ OwnersOK' /\ QuietWhenDown'
  BY <1>5, <1>6, StoreWrite
<1>8. Known(u, a)
  BY <1>1 DEF Known
<1>9. UidsOK'
  <2>1. ASSUME NEW i \in 0 .. MaxEdits, NEW b \in App \cup {None}, Known(i, b)'
        PROVE  Known(i, b)
    <3>1. CASE b \in App /\ \E x \in AppVersions(b)' : x # None /\ x.uid = i
      BY <1>7, <3>1 DEF Known
    <3>2. ASSUME NEW j \in Kind, NEW m \in Name, NEW d \in Dependents(j, m)',
                 Controls(b, d), d.owner = i
          PROVE  Known(i, b)
      <4>1. CASE d \in Dependents(j, m)
        BY <3>2, <4>1 DEF Known
      <4>2. CASE d = obj
        BY <1>1, <1>4, <1>8, <3>2, <4>2
      <4> QED  BY <1>7, <4>1, <4>2
    <3>3. ASSUME NEW v \in Worker, worker'[v].app # None, worker'[v].item = b, worker'[v].app.uid = i
          PROVE  Known(i, b)
      BY <1>2, <1>3, <3>3 DEF Known
    <3>4. ASSUME NEW v \in Worker, Controls(b, worker'[v].got["dep"]), worker'[v].got["dep"].owner = i
          PROVE  Known(i, b)
      <4>1. CASE worker'[v].got["dep"] = worker[v].got["dep"]
        BY <3>4, <4>1 DEF Known
      <4>2. CASE worker'[v].got["dep"] = obj
        BY <1>1, <1>4, <1>8, <3>4, <4>2
      <4>3. worker'[v].got["dep"] # None
        BY <3>4 DEF Controls
      <4> QED  BY <1>2, <1>3, <4>1, <4>2, <4>3
    <3> QED  BY <2>1, <3>1, <3>2, <3>3, <3>4 DEF Known, Controls
  <2> QED  BY <1>0, <2>1, UidsStep
<1>10. HeldOK'
  <2>0. \A v \in Worker : worker'[v].pc = "app" => worker'[v].got["dep"] = None
    BY <1>2, <1>3 DEF HeldOK
  <2> SUFFICES ASSUME NEW v \in Worker, worker'[v].app # None
               PROVE  Held(worker[v])'
    BY <2>0 DEF HeldOK
  <2>1. CASE v = w
    <3>1. \A j \in Kind, m \in Name : \A d \in Dependents(j, m)' :
             Controls(a, d) => d.owner <= u
      BY <1>1, <1>7 DEF Held
    <3>2. ASSUME s.pc \in Active, Controls(a, s.got["dep"]),
                 Controls(a, store'["dep"][worker[w].app.spec.dep])
          PROVE  s.got["dep"].owner <= store'["dep"][worker[w].app.spec.dep].owner
      <4>1. worker[w].app.spec.dep \in Name /\ "dep" \in Kind
        BY <1>1, ConstantsAssumption DEF AppObject, AppSpec, Kind
      <4>2. CASE k # "dep" /\ s.got["dep"] = worker[w].got["dep"]
        BY <1>1, <1>7, <3>2, <4>1, <4>2 DEF Held, Active
      <4>3. CASE n = worker[w].app.spec.dep /\ k = "dep" /\ s.got["dep"] = obj
        BY <1>1, <1>7, <4>3
      <4> QED  BY <3>2, <4>2, <4>3 DEF Controls
    <3>3. AppVersions(a)' = AppVersions(a) /\ \A x \in AppVersions(a) : x # None => u <= x.uid
      BY <1>1, <1>7 DEF Held
    <3>4. worker'[v].item = a /\ worker'[v].app = worker[w].app /\ worker'[v] = s
      BY <1>3, <2>1
    <3> QED  BY <1>1, <2>1, <3>1, <3>2, <3>3, <3>4 DEF Held, Controls
  <2>2. CASE v # w
    <3>1. Held(worker[v]) /\ worker'[v] = worker[v] /\ worker[v].item # a
      BY <1>2, <2>2 DEF HeldOK
    <3>2. worker[v].item \in App /\ ~Controls(worker[v].item, obj)
      BY <1>4, <3>1 DEF Held
    <3>3. \A j \in Kind, m \in Name : \A d \in Dependents(j, m)' :
             Controls(worker[v].item, d) => d.owner <= worker[v].app.uid
      BY <1>7, <3>1, <3>2 DEF Held
    <3>4. ASSUME worker[v].pc \in Active, Controls(worker[v].item, worker[v].got["dep"]),
                 Controls(worker[v].item, store'["dep"][worker[v].app.spec.dep])
          PROVE  worker[v].got["dep"].owner <= store'["dep"][worker[v].app.spec.dep].owner
      <4>1. worker[v].app.spec.dep \in Name /\ "dep" \in Kind
        <5>1. worker[v].app \in AppObject
          BY <1>0, <2>2, <3>1 DEF Sync
        <5> QED  BY <5>1, ConstantsAssumption DEF AppObject, AppSpec, Kind
      <4>2. store'["dep"][worker[v].app.spec.dep] = store["dep"][worker[v].app.spec.dep]
        BY <1>7, <3>2, <3>4, <4>1
      <4> QED  BY <3>1, <3>4, <4>2 DEF Held
    <3>5. \A x \in AppVersions(worker[v].item) : x # None => worker[v].app.uid <= x.uid
      BY <3>1 DEF Held
    <3> QED  BY <1>7, <3>1, <3>2, <3>3, <3>4, <3>5 DEF Held, Controls
  <2> QED  BY <2>1, <2>2
<1> QED  BY <1>7, <1>9, <1>10
-----------------------------------------------------------------------------
\* What users and the garbage collector do.
LEMMA UserOwn ==
    ASSUME Inv, IInv',
           \/ \E a \in App : CreateApp(a) \/ EditApp(a) \/ DeleteApp(a)
           \/ \E n \in Name : Scale(n)
           \/ \E k \in Kind, n \in Name :
                 \/ DeleteDependent(k, n) \/ CreateForeign(k, n) \/ Orphan(k, n)
                 \/ GarbageCollect(k, n)
    PROVE  OInv'
<1>0. TypeOK /\ edits \in Nat /\ "dep" \in Kind
  <2>1. TypeOK
    BY DEF Inv, IInv
  <2> QED  BY <2>1, ConstantsAssumption DEF TypeOK, Kind
<1>1. ASSUME NEW a \in App, CreateApp(a) \/ EditApp(a) \/ DeleteApp(a)
      PROVE  OInv'
  <2>1. /\ UserEdit /\ UNCHANGED storeVars
        /\ \E obj \in AppObject \cup {None} :
              /\ WriteApp(a, obj)
              /\ \/ obj = None
                 \/ app[a] # None /\ obj.uid = app[a].uid
                 \/ obj.uid = edits + 1
    <3>1. CASE CreateApp(a)
      <4>1. PICK s \in Specs : WriteApp(a, [uid |-> edits + 1, spec |-> s])
        BY <3>1 DEF CreateApp
      <4>2. edits + 1 \in 1 .. MaxEdits
        BY <1>0, <3>1, ConstantsAssumption DEF CreateApp, UserEdit
      <4>3. [uid |-> edits + 1, spec |-> s] \in AppObject
        BY <4>2 DEF AppObject
      <4> QED  BY <3>1, <4>1, <4>3 DEF CreateApp
    <3>2. CASE EditApp(a)
      <4>1. PICK s \in Specs : WriteApp(a, [app[a] EXCEPT !.spec = s])
        BY <3>2 DEF EditApp
      <4>2. app[a] \in AppObject /\ app[a] # None
        BY <1>0, <3>2 DEF EditApp, TypeOK
      <4>3. [app[a] EXCEPT !.spec = s] \in AppObject /\ [app[a] EXCEPT !.spec = s].uid = app[a].uid
        BY <4>2 DEF AppObject
      <4> QED  BY <3>2, <4>1, <4>2, <4>3 DEF EditApp
    <3>3. CASE DeleteApp(a)
      BY <3>3 DEF DeleteApp
    <3> QED  BY <1>1, <3>1, <3>2, <3>3
  <2> QED  BY <2>1, AppWrite DEF UserEdit
<1>2. ASSUME NEW k \in Kind, NEW n \in Name,
             \/ DeleteDependent(k, n) \/ CreateForeign(k, n) \/ Orphan(k, n)
             \/ GarbageCollect(k, n) \/ (k = "dep" /\ Scale(n))
      PROVE  OInv'
  <2>0. store[k][n] \in Dependent \cup {None}
    BY <1>0 DEF TypeOK
  <2>1. /\ UNCHANGED <<appVars, caches, process>> /\ edits' >= edits
        /\ \E obj \in Dependent \cup {None} :
              /\ Write(k, n, obj)
              /\ \/ obj = None
                 \/ obj.owner = 0
                 \/ /\ store[k][n] # None
                    /\ obj.owner = store[k][n].owner /\ obj.label = store[k][n].label
    <3>1. CASE DeleteDependent(k, n)
      BY <1>0, <3>1 DEF DeleteDependent, UserEdit
    <3>2. CASE CreateForeign(k, n)
      <4>1. [owner |-> 0, label |-> None, replicas |-> 0] \in Dependent
        BY ConstantsAssumption DEF Dependent
      <4> QED  BY <1>0, <3>2, <4>1 DEF CreateForeign, UserEdit
    <3>3. CASE Orphan(k, n)
      <4>1. store[k][n] \in Dependent
        BY <2>0, <3>3 DEF Orphan
      <4> DEFINE obj == [store[k][n] EXCEPT !.owner = 0]
      <4>2. obj \in Dependent /\ obj.owner = 0
        BY <4>1, ConstantsAssumption DEF Dependent
      <4>3. Write(k, n, obj) /\ UserEdit /\ UNCHANGED appVars
        BY <3>3 DEF Orphan
      <4> HIDE DEF obj
      <4> QED  BY <1>0, <4>2, <4>3 DEF UserEdit
    <3>4. CASE GarbageCollect(k, n)
      BY <1>0, <3>4 DEF GarbageCollect, counters
    <3>5. CASE k = "dep" /\ Scale(n)
      <4>1. PICK s \in Specs : Write("dep", n, [store["dep"][n] EXCEPT !.replicas = s.replicas])
        BY <3>5 DEF Scale
      <4>2. s.replicas \in Nat
        BY ConstantsAssumption DEF AppSpec
      <4>3. store["dep"][n] \in Dependent /\ store["dep"][n] # None
        BY <2>0, <3>5 DEF Scale
      <4> DEFINE obj == [store["dep"][n] EXCEPT !.replicas = s.replicas]
      <4>4. /\ obj \in Dependent /\ obj.owner = store["dep"][n].owner
            /\ obj.label = store["dep"][n].label
        BY <4>2, <4>3 DEF Dependent
      <4>5. Write("dep", n, obj) /\ UserEdit /\ UNCHANGED appVars
        BY <3>5, <4>1 DEF Scale
      <4> HIDE DEF obj
      <4> QED  BY <1>0, <3>5, <4>3, <4>4, <4>5 DEF UserEdit
    <3> QED  BY <1>2, <3>1, <3>2, <3>3, <3>4, <3>5
  <2> QED  BY <2>1, UserWrite
<1> QED  BY <1>0, <1>1, <1>2

\* Changes entering the caches, resyncs and back-offs.
LEMMA InformerOwn ==
    ASSUME Inv, IInv',
           \/ \E a \in App : WatchApp(a) \/ Resync(a) \/ BackoffElapsed(a)
           \/ \E k \in Kind, n \in Name : Watch(k, n)
    PROVE  OInv'
<1>0. TypeOK
  BY DEF Inv, IInv
<1>1. ASSUME NEW a \in App, WatchApp(a)
      PROVE  OInv'
  <2>1. /\ appWatch[a] \in Seq(AppObject \cup {None}) /\ appWatch[a] # <<>>
        /\ appWatch'[a] = Tail(appWatch[a]) /\ appCache'[a] = Head(appWatch[a])
        /\ \A b \in App : b # a => appWatch'[b] = appWatch[b] /\ appCache'[b] = appCache[b]
    BY <1>0, <1>1 DEF WatchApp, TypeOK
  <2>2. /\ app' = app /\ store' = store /\ watch' = watch /\ cache' = cache
        /\ phase' = phase /\ worker' = worker /\ edits' = edits
    BY <1>1 DEF WatchApp, storeVars, counters
  <2>3. /\ Ordered(NoYounger, appCache'[a], appWatch'[a], app[a])
        /\ Versions(appCache'[a], appWatch'[a], app[a]) \subseteq AppVersions(a)
    <3> DEFINE c == appCache[a]  q == appWatch[a]  s == app[a]  Change == AppObject \cup {None}
    <3>1. q \in Seq(Change) /\ q # <<>> /\ Ordered(NoYounger, c, q, s)
      BY <2>1 DEF Inv, OInv, OrderOK
    <3> HIDE DEF c, q, s, Change
    <3>2. Ordered(NoYounger, Head(q), Tail(q), s) /\ Versions(Head(q), Tail(q), s) \subseteq Versions(c, q, s)
      BY <3>1, Arrive
    <3> QED  BY <2>1, <3>2 DEF AppVersions, c, q, s
  <2>4. \A b \in App : AppVersions(b)' \subseteq AppVersions(b)
    BY <2>1, <2>2, <2>3 DEF AppVersions
  <2>5. \A k \in Kind, n \in Name : Dependents(k, n)' = Dependents(k, n)
    BY <2>2 DEF Dependents
  <2>6. OrderOK'
    BY <2>1, <2>2, <2>3 DEF Inv, OInv, OrderOK
  <2>7. UidsOK' /\ OwnersOK' /\ HeldOK'
    BY <2>2, <2>4, <2>5, Unmoved, Calm
  <2> QED  BY <2>2, <2>6, <2>7 DEF Inv, OInv, QuietWhenDown, Alive
<1>2. ASSUME NEW a \in App, Resync(a) \/ BackoffElapsed(a)
      PROVE  OInv'
  <2>1. /\ UNCHANGED <<appVars, storeVars, caches, phase, worker, counters>>
    BY <1>2 DEF Resync, BackoffElapsed
  <2>2. /\ app' = app /\ appWatch' = appWatch /\ appCache' = appCache /\ store' = store
        /\ watch' = watch /\ cache' = cache /\ phase' = phase /\ worker' = worker /\ edits' = edits
    BY <2>1 DEF appVars, storeVars, caches, counters
  <2>3. UidsOK' /\ OwnersOK' /\ HeldOK'
    BY <2>2, Unmoved, Calm DEF AppVersions, Dependents
  <2> QED  BY <2>2, <2>3 DEF Inv, OInv, OrderOK, QuietWhenDown, Alive
<1>3. ASSUME NEW k \in Kind, NEW n \in Name, Watch(k, n)
      PROVE  OInv'
  <2>1. /\ app' = app /\ appWatch' = appWatch /\ appCache' = appCache /\ store' = store
        /\ phase' = phase /\ worker' = worker /\ edits' = edits /\ Alive
    BY <1>3 DEF Watch, appVars, process, counters
  <2>2. /\ watch \in [Kind -> [Name -> Seq(Dependent \cup {None})]]
        /\ cache \in [Kind -> [Name -> Dependent \cup {None}]]
        /\ watch[k] \in [Name -> Seq(Dependent \cup {None})]
        /\ cache[k] \in [Name -> Dependent \cup {None}]
    BY <1>0 DEF TypeOK
  <2>3. /\ watch[k][n] \in Seq(Dependent \cup {None}) /\ watch[k][n] # <<>>
        /\ watch'[k][n] = Tail(watch[k][n]) /\ cache'[k][n] = Head(watch[k][n])
        /\ \A j \in Kind, m \in Name :
              j # k \/ m # n => watch'[j][m] = watch[j][m] /\ cache'[j][m] = cache[j][m]
    BY <1>3, <2>2 DEF Watch
  <2>4. /\ Ordered(SameOrLaterOwner, cache'[k][n], watch'[k][n], store[k][n])
        /\ Versions(cache'[k][n], watch'[k][n], store[k][n]) \subseteq Dependents(k, n)
    <3> DEFINE c == cache[k][n]  q == watch[k][n]  s == store[k][n]  Change == Dependent \cup {None}
    <3>1. q \in Seq(Change) /\ q # <<>> /\ Ordered(SameOrLaterOwner, c, q, s)
      BY <2>3 DEF Inv, OInv, OrderOK
    <3> HIDE DEF c, q, s, Change
    <3>2. Ordered(SameOrLaterOwner, Head(q), Tail(q), s)
          /\ Versions(Head(q), Tail(q), s) \subseteq Versions(c, q, s)
      BY <3>1, Arrive
    <3> QED  BY <2>3, <3>2 DEF Dependents, c, q, s
  <2>5. \A j \in Kind, m \in Name : Dependents(j, m)' \subseteq Dependents(j, m)
    BY <2>1, <2>3, <2>4 DEF Dependents
  <2>6. \A a \in App : AppVersions(a)' = AppVersions(a)
    BY <2>1 DEF AppVersions
  <2>7. OrderOK'
    BY <2>1, <2>3, <2>4 DEF Inv, OInv, OrderOK
  <2>8. UidsOK' /\ OwnersOK' /\ HeldOK'
    BY <2>1, <2>5, <2>6, Unmoved, Calm
  <2> QED  BY <2>1, <2>7, <2>8 DEF OInv, QuietWhenDown, Alive
<1> QED  BY <1>1, <1>2, <1>3

\* Starting, stopping and steps that change nothing.
LEMMA DownOwn ==
    ASSUME Inv, IInv', Down, edits' = edits
    PROVE  OInv'
<1>0. TypeOK
  BY DEF Inv, IInv
<1>1. /\ app' = app /\ store' = store
      /\ \A a \in App : appWatch'[a] = <<>> /\ appCache'[a] = None
      /\ \A k \in Kind, n \in Name : watch'[k][n] = <<>> /\ cache'[k][n] = None
      /\ \A w \in Worker : worker'[w].app = None /\ worker'[w].got["dep"] = None
  BY DEF Down, NoObjects, NoEvents, Idle, Nothing, Kind
<1>2. /\ \A a \in App : AppVersions(a)' = {None, app[a]} /\ app[a] \in AppVersions(a)
      /\ \A k \in Kind, n \in Name :
            Dependents(k, n)' = {None, store[k][n]} /\ store[k][n] \in Dependents(k, n)
  BY <1>0, <1>1, Relist, VersionsType DEF AppVersions, Dependents
<1>3. UidsOK' /\ OwnersOK' /\ HeldOK'
  <2>1. \A w \in Worker : StaysHeld(worker[w], worker'[w])
    BY <1>1 DEF StaysHeld
  <2> QED  BY <1>1, <1>2, <2>1, Calm
<1>4. OrderOK'
  <2>1. /\ \A a \in App : <<None, app[a]>> \in NoYounger
        /\ \A k \in Kind, n \in Name : <<None, store[k][n]>> \in SameOrLaterOwner
    BY <1>0, PairsOf DEF TypeOK, Controls
  <2>2. ASSUME NEW a \in App
        PROVE  Ordered(NoYounger, appCache'[a], appWatch'[a], app'[a])
    <3>1. Ordered(NoYounger, None, <<>>, app[a])
      BY <2>1, Relist
    <3> QED  BY <1>1, <3>1
  <2>3. ASSUME NEW k \in Kind, NEW n \in Name
        PROVE  Ordered(SameOrLaterOwner, cache'[k][n], watch'[k][n], store'[k][n])
    <3>1. Ordered(SameOrLaterOwner, None, <<>>, store[k][n])
      BY <2>1, Relist
    <3> QED  BY <1>1, <3>1
  <2> QED  BY <2>2, <2>3 DEF OrderOK
<1>5. QuietWhenDown'
  BY DEF Down, QuietWhenDown
<1> QED  BY <1>3, <1>4, <1>5 DEF OInv

\* Start, first signal, exit and the first lists of the caches.
LEMMA ProcessOwn ==
    ASSUME Inv, IInv', CachesSynced \/ Signal \/ Exit \/ Start \/ UNCHANGED vars
    PROVE  OInv'
<1>0. TypeOK
  BY DEF Inv, IInv
<1>1. CASE CachesSynced
  <2>1. /\ app' = app /\ store' = store /\ watch' = watch /\ cache' = store
        /\ appCache' = appCache /\ worker' = worker /\ edits' = edits
        /\ \A a \in App : appWatch'[a] = IF app[a] = None THEN <<>> ELSE <<app[a]>>
        /\ \A k \in Kind, n \in Name : watch[k][n] = <<>>
        /\ phase' = "running"
    BY <1>1 DEF CachesSynced, storeVars, counters, Inv, OInv, QuietWhenDown, Alive, NoEvents
  <2>2. ASSUME NEW a \in App
        PROVE  /\ AppVersions(a)' \subseteq AppVersions(a)
               /\ Ordered(NoYounger, appCache'[a], appWatch'[a], app'[a])
    <3>1. /\ app[a] \in AppVersions(a) /\ appCache[a] \in AppVersions(a)
          /\ <<appCache[a], app[a]>> \in NoYounger /\ <<app[a], app[a]>> \in NoYounger
      BY <1>0, VersionsType, LatestVersions
    <3>2. CASE appWatch'[a] = <<>>
      BY <2>1, <3>1, <3>2, Relist DEF AppVersions
    <3>3. CASE appWatch'[a] = <<app[a]>>
      <4>1. Len(<<app[a]>>) = 1 /\ <<app[a]>>[1] = app[a] /\ 1 .. 1 = {1}
        OBVIOUS
      <4> QED  BY <2>1, <3>1, <3>3, <4>1 DEF AppVersions, Versions, Ordered
    <3> QED  BY <2>1, <3>2, <3>3
  <2>3. ASSUME NEW k \in Kind, NEW n \in Name
        PROVE  /\ Dependents(k, n)' \subseteq Dependents(k, n)
               /\ Ordered(SameOrLaterOwner, cache'[k][n], watch'[k][n], store'[k][n])
    <3>1. store[k][n] \in Dependents(k, n) /\ <<store[k][n], store[k][n]>> \in SameOrLaterOwner
      BY <1>0, VersionsType, LatestVersions
    <3> QED  BY <2>1, <3>1, Relist DEF Dependents
  <2>4. UidsOK' /\ OwnersOK' /\ HeldOK'
    BY <2>1, <2>2, <2>3, Unmoved, Calm
  <2>5. OrderOK' /\ QuietWhenDown'
    BY <2>1, <2>2, <2>3 DEF OrderOK, QuietWhenDown, Alive
  <2> QED  BY <2>4, <2>5 DEF OInv
<1>2. CASE Signal
  <2>1. CASE Down
    BY <1>2, <2>1, DownOwn DEF Signal
  <2>2. CASE ~Down
    <3>1. /\ app' = app /\ appWatch' = appWatch /\ appCache' = appCache /\ store' = store
          /\ watch' = watch /\ cache' = cache /\ worker' = worker /\ edits' = edits
          /\ phase' = "stopping"
      BY <1>2, <2>2 DEF Signal, appVars, storeVars, caches
    <3>2. UidsOK' /\ OwnersOK' /\ HeldOK'
      BY <3>1, Unmoved, Calm DEF AppVersions, Dependents
    <3> QED  BY <3>1, <3>2 DEF Inv, OInv, OrderOK, QuietWhenDown, Alive
  <2> QED  BY <2>1, <2>2
<1>3. CASE Exit
  BY <1>3, DownOwn DEF Exit, counters
<1>4. CASE Start \/ UNCHANGED vars
  <2>1. /\ app' = app /\ appWatch' = appWatch /\ appCache' = appCache /\ store' = store
        /\ watch' = watch /\ cache' = cache /\ worker' = worker /\ edits' = edits
        /\ Alive' = Alive
    BY <1>4 DEF Start, vars, appVars, storeVars, caches, process, counters, Alive
  <2>2. UidsOK' /\ OwnersOK' /\ HeldOK'
    BY <2>1, Unmoved, Calm DEF AppVersions, Dependents
  <2> QED  BY <2>1, <2>2 DEF Inv, OInv, OrderOK, QuietWhenDown
<1> QED  BY <1>1, <1>2, <1>3, <1>4

\* A step of one worker that writes nothing.
LEMMA QuietStep ==
    ASSUME Inv, IInv', NEW w \in Worker, NEW s,
           worker' = [worker EXCEPT ![w] = s], StaysHeld(worker[w], s),
           UNCHANGED <<appVars, storeVars, caches, phase>>, edits' = edits
    PROVE  OInv'
<1>1. /\ worker'[w] = s
      /\ \A v \in Worker : v # w => worker'[v] = worker[v]
  BY DEF Inv, IInv, TypeOK
<1>2. \A v \in Worker : StaysHeld(worker[v], worker'[v])
  BY <1>1, Unmoved
<1>3. /\ app' = app /\ appWatch' = appWatch /\ appCache' = appCache /\ store' = store
      /\ watch' = watch /\ cache' = cache /\ phase' = phase
  BY DEF appVars, storeVars, caches
<1>4. UidsOK' /\ OwnersOK' /\ HeldOK'
  BY <1>2, <1>3, Calm DEF AppVersions, Dependents
<1> QED  BY <1>3, <1>4 DEF Inv, OInv, OrderOK, QuietWhenDown, Alive

\* What workers do, with failing calls and lost answers.
LEMMA WorkerOwn ==
    ASSUME Inv, IInv', NEW w \in Worker,
           ProcessNextWorkItem(w) \/ CallFails(w) \/ AnswerLost(w)
    PROVE  OInv'
<1>0. /\ IInv /\ TypeOK /\ worker[w] \in Sync /\ worker \in [Worker -> Sync]
      /\ "dep" \in Kind /\ WorkersOK
  BY DEF Inv, IInv, TypeOK, Kind
<1>1. ASSUME worker[w].pc # "idle"
      PROVE  worker[w].item \in App
  BY <1>0, <1>1, WorkerHolds
<1>2. ASSUME worker[w].pc \in {"read", "create", "check", "update"}
      PROVE  /\ worker[w].app \in AppObject /\ worker[w].app # None
             /\ \A k \in Kind : /\ worker[w].app.spec[k] \in Name
                                /\ NewDependent(k, worker[w].item, worker[w].app) \in Dependent
             /\ worker[w].pc \in {"read", "create"} => worker[w].kind \in Kind
             /\ worker[w].pc \in Active /\ worker[w].got \in [Kind -> Dependent \cup {None}]
  <2>1. worker[w].app \in AppObject /\ worker[w].app # None /\ worker[w].item \in App
    BY <1>0, <1>1, <1>2 DEF WorkersOK, Sync
  <2>2. worker[w].app.spec \in AppSpec
    BY <2>1, ConstantsAssumption DEF AppObject
  <2>3. \A k \in Kind : worker[w].app.spec[k] \in Name
    BY <2>2 DEF AppSpec, Kind
  <2>4. worker[w].pc \in {"read", "create"} => worker[w].kind \in Kind
    BY <1>0 DEF WorkersOK, Sync
  <2> QED  BY <1>0, <1>2, <2>1, <2>3, <2>4, NewDependentType DEF Active, Sync
\* Proceed without a write.
<1>3. ASSUME NEW obj \in Dependent \cup {None}, NEW failed \in BOOLEAN, Proceed(w, obj, failed),
             worker[w].pc \in {"read", "create"},
             obj = None \/ (worker[w].kind = "dep" => obj = cache["dep"][worker[w].app.spec.dep]),
             UNCHANGED <<appVars, storeVars, caches, phase>>, edits' = edits
      PROVE  OInv'
  <2>1. PICK s \in Sync :
            /\ worker' = [worker EXCEPT ![w] = s]
            /\ s.pc \in {"read", "fail", "check"}
            /\ s.item = worker[w].item /\ s.app = worker[w].app
            /\ s.got = [worker[w].got EXCEPT ![worker[w].kind] = obj]
    BY <1>0, <1>3, ProceedMove
  <2>2. s.got["dep"] = IF worker[w].kind = "dep" THEN obj ELSE worker[w].got["dep"]
    BY <1>0, <1>2, <1>3, <2>1
  <2>3. StaysHeld(worker[w], s)
    BY <1>2, <1>3, <2>1, <2>2 DEF StaysHeld
  <2> QED  BY <1>3, <2>1, <2>3, QuietStep
\* A step to another pc without a write.
<1>4. ASSUME NEW to \in {"create", "update", "ok", "fail"}, worker' = [worker EXCEPT ![w].pc = to],
             worker[w].pc \in {"read", "check", "update"},
             to = "update" => worker[w].got["dep"] # None
                              /\ worker[w].got["dep"].owner = worker[w].app.uid,
             UNCHANGED <<appVars, storeVars, caches, phase>>, edits' = edits
      PROVE  OInv'
  <2> DEFINE s == [worker[w] EXCEPT !.pc = to]
  <2>1. worker' = [worker EXCEPT ![w] = s]
    BY <1>4
  <2>2. s.item = worker[w].item /\ s.app = worker[w].app /\ s.got = worker[w].got /\ s.pc = to
    BY <1>0 DEF Sync
  <2> HIDE DEF s
  <2>3. StaysHeld(worker[w], s)
    BY <1>2, <1>4, <2>2 DEF StaysHeld
  <2> QED  BY <1>4, <2>1, <2>3, QuietStep
\* A write.
<1>5. ASSUME NEW k \in Kind, NEW n \in Name, NEW s \in Sync,
             worker[w].pc \in {"create", "update"}, n = worker[w].app.spec[k],
             Write(k, n, NewDependent(k, worker[w].item, worker[w].app)),
             worker' = [worker EXCEPT ![w] = s],
             s.item = worker[w].item, s.app = worker[w].app, s.pc \notin {"app", "update"},
             \/ s.got["dep"] = None
             \/ k = "dep" /\ s.got["dep"] = NewDependent(k, worker[w].item, worker[w].app)
             \/ k # "dep" /\ s.got["dep"] = worker[w].got["dep"]
             \/ s.pc \notin Active /\ s.got["dep"] = worker[w].got["dep"],
             UNCHANGED <<appVars, caches, phase>>, edits' = edits
      PROVE  OInv'
  <2> DEFINE obj == NewDependent(k, worker[w].item, worker[w].app)
  <2>1. obj \in Dependent /\ worker[w].app # None
    BY <1>2, <1>5
  <2>2. \/ s.got["dep"] = None
        \/ k = "dep" /\ n = worker[w].app.spec.dep /\ s.got["dep"] = obj
        \/ k # "dep" /\ s.got["dep"] = worker[w].got["dep"]
        \/ s.pc \notin Active /\ s.got["dep"] = worker[w].got["dep"]
    BY <1>5
  <2>3. obj = NewDependent(k, worker[w].item, worker[w].app)
        /\ Write(k, n, obj)
    BY <1>5
  <2>4. /\ worker[w].pc \in {"create", "update"} /\ worker' = [worker EXCEPT ![w] = s]
        /\ s.item = worker[w].item /\ s.app = worker[w].app /\ s.pc \notin {"app", "update"}
        /\ UNCHANGED <<appVars, caches, phase>> /\ edits' = edits
    BY <1>5
  <2> HIDE DEF obj
  <2> QED  BY <2>1, <2>2, <2>3, <2>4, WorkerWrite
<1>6. ASSUME worker[w].pc = "create", NEW obj \in Dependent \cup {None}, NEW failed \in BOOLEAN,
             Proceed(w, obj, failed),
             Write(worker[w].kind, worker[w].app.spec[worker[w].kind],
                   NewDependent(worker[w].kind, worker[w].item, worker[w].app)),
             obj \in {None, NewDependent(worker[w].kind, worker[w].item, worker[w].app)},
             UNCHANGED <<appVars, caches, phase>>, edits' = edits
      PROVE  OInv'
  <2>1. PICK s \in Sync :
            /\ worker' = [worker EXCEPT ![w] = s]
            /\ s.pc \in {"read", "fail", "check"}
            /\ s.item = worker[w].item /\ s.app = worker[w].app
            /\ s.got = [worker[w].got EXCEPT ![worker[w].kind] = obj]
    BY <1>0, <1>6, ProceedMove
  <2>2. s.got["dep"] = IF worker[w].kind = "dep" THEN obj ELSE worker[w].got["dep"]
    BY <1>0, <1>2, <1>6, <2>1
  <2>3. worker[w].kind \in Kind /\ worker[w].app.spec[worker[w].kind] \in Name
    BY <1>2, <1>6
  <2> QED  BY <1>5, <1>6, <2>1, <2>2, <2>3
<1>7. CASE Get(w)
  <2> DEFINE s == [Idle EXCEPT !.pc = "app", !.item = Head(wq.queue)]
  <2>1. s.app = None /\ s.got["dep"] = None
    BY DEF Idle, Nothing, Kind
  <2>2. worker' = [worker EXCEPT ![w] = s] /\ UNCHANGED <<appVars, storeVars, caches, phase>>
        /\ edits' = edits
    BY <1>7 DEF Get, counters
  <2> HIDE DEF s
  <2>3. StaysHeld(worker[w], s)
    BY <2>1 DEF StaysHeld
  <2> QED  BY <2>2, <2>3, QuietStep
<1>8. CASE GetApp(w)
  <2> DEFINE a == appCache[worker[w].item]
             s == IF a = None \/ a.spec.replicas < 1
                  THEN [worker[w] EXCEPT !.pc = "ok"]
                  ELSE [worker[w] EXCEPT !.pc = "read", !.app = a, !.kind = "dep"]
  <2>1. /\ worker' = [worker EXCEPT ![w] = s] /\ worker[w].item \in App /\ worker[w].pc = "app"
        /\ UNCHANGED <<appVars, storeVars, caches, phase>> /\ edits' = edits
    BY <1>0, <1>1, <1>8 DEF GetApp, counters
  <2>2. CASE a = None \/ a.spec.replicas < 1
    <3>1. s.item = worker[w].item /\ s.app = worker[w].app /\ s.got = worker[w].got /\ s.pc = "ok"
      BY <1>0, <2>2 DEF Sync
    <3> HIDE DEF s
    <3>2. StaysHeld(worker[w], s)
      BY <3>1 DEF StaysHeld, Active
    <3> QED  BY <2>1, <3>2, QuietStep
  <2>3. CASE ~(a = None \/ a.spec.replicas < 1)
    <3>1. s.item = worker[w].item /\ s.app = a /\ s.got = worker[w].got /\ s.pc = "read"
      BY <1>0, <2>3 DEF Sync
    <3>2. worker[w].got["dep"] = None
      BY <2>1 DEF Inv, OInv, HeldOK
    <3> HIDE DEF s
    <3>3. StaysHeld(worker[w], s)
      BY <2>1, <3>1, <3>2 DEF StaysHeld
    <3> QED  BY <2>1, <3>3, QuietStep
  <2> QED  BY <2>2, <2>3
<1>9. CASE ReadDependent(w)
  <2> DEFINE k == worker[w].kind
             found == cache[k][LookupName(k, worker[w].app.spec)]
  <2>1. /\ worker[w].pc = "read" /\ UNCHANGED <<appVars, storeVars, caches, phase>>
        /\ edits' = edits
    BY <1>9 DEF ReadDependent, counters
  <2>2. /\ k \in Kind /\ LookupName(k, worker[w].app.spec) \in Name
        /\ k = "dep" => LookupName(k, worker[w].app.spec) = worker[w].app.spec.dep
    <3>1. \A j \in Kind : worker[w].app.spec[j] \in Name
      BY <1>2, <2>1
    <3> QED  BY <1>2, <2>1, <3>1 DEF LookupName, Kind
  <2>3. found \in Dependent \cup {None}
    BY <1>0, <2>2 DEF TypeOK
  <2>4. k = "dep" => found = cache["dep"][worker[w].app.spec.dep]
    BY <2>2
  <2>5. \/ Proceed(w, found, FALSE)
        \/ worker' = [worker EXCEPT ![w].pc = "create"]
    BY <1>9 DEF ReadDependent
  <2> HIDE DEF found, k
  <2>6. CASE Proceed(w, found, FALSE)
    BY <1>3, <2>1, <2>3, <2>4, <2>6 DEF k
  <2>7. CASE worker' = [worker EXCEPT ![w].pc = "create"]
    BY <1>4, <2>1, <2>7
  <2> QED  BY <2>5, <2>6, <2>7
<1>10. CASE CreateDependent(w)
  <2>1. worker[w].pc = "create" /\ UNCHANGED <<appVars, caches, phase>> /\ edits' = edits
    BY <1>10 DEF CreateDependent, counters
  <2> DEFINE k == worker[w].kind
             obj == NewDependent(k, worker[w].item, worker[w].app)
  <2>2. obj \in Dependent
    BY <1>2, <2>1
  <2>3. \/ Write(k, worker[w].app.spec[k], obj) /\ Proceed(w, obj, FALSE)
        \/ Proceed(w, None, TRUE) /\ UNCHANGED storeVars
    BY <1>10 DEF CreateDependent
  <2> HIDE DEF obj
  <2>4. CASE Write(k, worker[w].app.spec[k], obj) /\ Proceed(w, obj, FALSE)
    BY <1>6, <2>1, <2>2, <2>4 DEF obj
  <2>5. CASE Proceed(w, None, TRUE) /\ UNCHANGED storeVars
    BY <1>3, <2>1, <2>5
  <2> QED  BY <2>3, <2>4, <2>5
<1>11. CASE Check(w)
  <2>1. /\ worker[w].pc = "check" /\ UNCHANGED <<appVars, storeVars, caches, phase>>
        /\ edits' = edits
    BY <1>11 DEF Check, counters
  <2>2. \E to \in {"update", "ok", "fail"} :
           /\ worker' = [worker EXCEPT ![w].pc = to]
           /\ to = "update" => worker[w].got["dep"] # None
                               /\ worker[w].got["dep"].owner = worker[w].app.uid
    BY <1>0, <1>11 DEF Check
  <2> QED  BY <1>4, <2>1, <2>2
<1>12. ASSUME worker[w].pc = "update", Write("dep", worker[w].app.spec.dep,
                                             NewDependent("dep", worker[w].item, worker[w].app)),
              NEW to \in {"ok", "fail"}, worker' = [worker EXCEPT ![w].pc = to],
              UNCHANGED <<appVars, caches, phase>>, edits' = edits
       PROVE  OInv'
  <2> DEFINE s == [worker[w] EXCEPT !.pc = to]
  <2>1. worker' = [worker EXCEPT ![w] = s]
    BY <1>12
  <2>2. s \in Sync /\ s.item = worker[w].item /\ s.app = worker[w].app /\ s.got = worker[w].got
        /\ s.pc = to
    BY <1>0 DEF Sync
  <2> HIDE DEF s
  <2>3. worker[w].app.spec["dep"] \in Name /\ s.pc \notin Active \cup {"app"}
    BY <1>0, <1>2, <1>12, <2>2 DEF Active
  <2> QED  BY <1>0, <1>5, <1>12, <2>1, <2>2, <2>3
<1>13. CASE UpdateDeployment(w)
  <2>1. worker[w].pc = "update" /\ UNCHANGED <<appVars, caches, phase>> /\ edits' = edits
    BY <1>13 DEF UpdateDeployment, counters
  <2>2. \/ /\ Write("dep", worker[w].app.spec.dep, NewDependent("dep", worker[w].item, worker[w].app))
           /\ worker' = [worker EXCEPT ![w].pc = "ok"]
        \/ worker' = [worker EXCEPT ![w].pc = "fail"] /\ UNCHANGED storeVars
    BY <1>13 DEF UpdateDeployment
  <2> QED  BY <1>4, <1>12, <2>1, <2>2
<1>14. CASE CallFails(w)
  <2>1. UNCHANGED <<appVars, storeVars, caches, phase>> /\ edits' = edits
    BY <1>14 DEF CallFails
  <2>2. \/ worker[w].pc = "create" /\ Proceed(w, None, TRUE)
        \/ worker[w].pc = "update" /\ worker' = [worker EXCEPT ![w].pc = "fail"]
    BY <1>14 DEF CallFails
  <2> QED  BY <1>3, <1>4, <2>1, <2>2
<1>15. CASE AnswerLost(w)
  <2>1. UNCHANGED <<appVars, caches, phase>> /\ edits' = edits
    BY <1>15 DEF AnswerLost
  <2>2. CASE worker[w].pc = "create"
    <3>1. /\ Write(worker[w].kind, worker[w].app.spec[worker[w].kind],
                   NewDependent(worker[w].kind, worker[w].item, worker[w].app))
          /\ Proceed(w, None, TRUE)
      BY <1>15, <2>2 DEF AnswerLost
    <3> QED  BY <1>6, <2>1, <2>2, <3>1
  <2>3. CASE worker[w].pc = "update"
    <3>1. /\ Write("dep", worker[w].app.spec["dep"],
                   NewDependent("dep", worker[w].item, worker[w].app))
          /\ worker' = [worker EXCEPT ![w].pc = "fail"]
      BY <1>15, <2>3 DEF AnswerLost
    <3> QED  BY <1>12, <2>1, <2>3, <3>1
  <2> QED  BY <1>15, <2>2, <2>3 DEF AnswerLost
<1>16. CASE Finish(w)
  <2>1. worker' = [worker EXCEPT ![w] = Idle] /\ UNCHANGED <<appVars, storeVars, caches, phase>>
        /\ edits' = edits
    BY <1>16 DEF Finish, counters
  <2>2. StaysHeld(worker[w], Idle)
    BY DEF StaysHeld, Idle, Nothing, Kind
  <2> QED  BY <2>1, <2>2, QuietStep
<1> QED  BY <1>7, <1>8, <1>9, <1>10, <1>11, <1>13, <1>14, <1>15, <1>16 DEF ProcessNextWorkItem

\* Inv is inductive.
LEMMA NextOwn ==
    ASSUME Inv, [Next]_vars
    PROVE  Inv'
<1>1. IInv'
  BY NextIInv DEF Inv
<1>2. CASE \/ \E a \in App : CreateApp(a) \/ EditApp(a) \/ DeleteApp(a)
           \/ \E n \in Name : Scale(n)
           \/ \E k \in Kind, n \in Name :
                 \/ DeleteDependent(k, n) \/ CreateForeign(k, n) \/ Orphan(k, n)
                 \/ GarbageCollect(k, n)
  BY <1>1, <1>2, UserOwn DEF Inv
<1>3. CASE \/ \E a \in App : WatchApp(a) \/ Resync(a) \/ BackoffElapsed(a)
           \/ \E k \in Kind, n \in Name : Watch(k, n)
  BY <1>1, <1>3, InformerOwn DEF Inv
<1>4. CASE \E w \in Worker : ProcessNextWorkItem(w) \/ CallFails(w) \/ AnswerLost(w)
  BY <1>1, <1>4, WorkerOwn DEF Inv
<1>5. CASE CachesSynced \/ Signal \/ Exit \/ Start \/ UNCHANGED vars
  BY <1>1, <1>5, ProcessOwn DEF Inv
<1> QED  BY <1>2, <1>3, <1>4, <1>5 DEF Next

\* An Update is the only write that could hand a dependent over.
LEMMA UpdateKeepsOwner ==
    ASSUME Inv, NEW w \in Worker, worker[w].pc = "update",
           store["dep"][worker[w].app.spec.dep] # None,
           store["dep"][worker[w].app.spec.dep].label = worker[w].item,
           store["dep"][worker[w].app.spec.dep].owner # 0
    PROVE  store["dep"][worker[w].app.spec.dep].owner = worker[w].app.uid
<1> DEFINE a == worker[w].item
           u == worker[w].app.uid
           old == store["dep"][worker[w].app.spec.dep]
           g == worker[w].got["dep"]
<1>1. TypeOK /\ WorkersOK /\ worker[w] \in Sync
  BY DEF Inv, IInv, TypeOK
<1>2. worker[w].app \in AppObject /\ worker[w].app # None
  BY <1>1 DEF WorkersOK, Sync
<1>3. Held(worker[w]) /\ u \in 1 .. MaxEdits /\ a \in App
  <2>1. Held(worker[w])
    BY <1>2 DEF Inv, OInv, HeldOK
  <2> QED  BY <1>2, <2>1 DEF AppObject, Held
<1>4. worker[w].app.spec.dep \in Name /\ "dep" \in Kind
  BY <1>2, ConstantsAssumption DEF AppObject, AppSpec, Kind
<1>5. old.owner \in Nat /\ Controls(a, old) /\ old \in Dependents("dep", worker[w].app.spec.dep)
  <2>1. old \in Dependents("dep", worker[w].app.spec.dep) /\ old \in Dependent
    BY <1>1, <1>4, VersionsType
  <2> QED  BY <2>1, ConstantsAssumption DEF Controls, Dependent
<1>6. old.owner <= u
  BY <1>3, <1>4, <1>5 DEF Held
<1>7. g # None /\ g.owner = u /\ g \in Dependent
  <2>1. g \in Dependent \cup {None}
    BY <1>1, <1>4 DEF Sync
  <2> QED  BY <1>3, <2>1 DEF Held
<1>8. Controls(a, g)
  <2>1. g.label \in App \cup {None} /\ Controls(g.label, g)
    BY <1>3, <1>7, ConstantsAssumption DEF Dependent, Controls
  <2>2. Known(u, a) /\ Known(u, g.label)
    BY <1>2, <1>7, <2>1 DEF Known
  <2>3. a = g.label
    BY <1>3, <2>1, <2>2, ConstantsAssumption DEF Inv, OInv, UidsOK
  <2> QED  BY <2>1, <2>3
<1>9. u <= old.owner
  BY <1>3, <1>5, <1>7, <1>8 DEF Held, Active
<1>10. u \in Nat /\ old.owner \in Nat
  <2>1. u \in 1 .. MaxEdits /\ MaxEdits \in Nat
    BY <1>3, ConstantsAssumption
  <2>2. u \in Nat
    <3> HIDE DEF u
    <3> QED  BY <2>1
  <2> QED  BY <2>2, <1>5
<1>11. old.owner = u
  <2> HIDE DEF u, old
  <2> QED  BY <1>6, <1>9, <1>10
<1> QED  BY <1>11

\* No step changes the owner of a dependent that has one before and after.
LEMMA OwnerStep ==
    ASSUME Inv, [Next]_vars, NEW k \in Kind, NEW n \in Name,
           store[k][n] # None, store'[k][n] # None,
           store[k][n].owner # 0, store'[k][n].owner # 0
    PROVE  store[k][n].owner = store'[k][n].owner
<1>1. /\ TypeOK /\ store \in [Kind -> [Name -> Dependent \cup {None}]]
      /\ store[k] \in [Name -> Dependent \cup {None}]
  BY DEF Inv, IInv, TypeOK
<1>2. ASSUME NEW j \in Kind, NEW m \in Name, NEW obj, Write(j, m, obj)
      PROVE  /\ j = k /\ m = n => store'[k][n] = obj
             /\ j # k \/ m # n => store'[k][n] = store[k][n]
  <2>1. store[j] \in [Name -> Dependent \cup {None}]
    BY <1>1
  <2> QED  BY <1>1, <1>2, <2>1 DEF Write
<1>3. ASSUME NEW w \in Worker, worker[w].pc = "update",
             Write("dep", worker[w].app.spec.dep, NewDependent("dep", worker[w].item, worker[w].app)),
             store["dep"][worker[w].app.spec.dep].label = worker[w].item
      PROVE  store[k][n].owner = store'[k][n].owner
  <2>1. worker[w].app \in AppObject
    <3>1. worker[w] \in Sync /\ WorkersOK
      BY DEF Inv, IInv, TypeOK
    <3> QED  BY <1>3, <3>1 DEF WorkersOK, Sync
  <2>2. worker[w].app.spec.dep \in Name /\ "dep" \in Kind
    BY <2>1, ConstantsAssumption DEF AppObject, AppSpec, Kind
  <2>3. CASE k = "dep" /\ n = worker[w].app.spec.dep
    <3>1. store'[k][n] = NewDependent("dep", worker[w].item, worker[w].app)
      BY <1>2, <1>3, <2>2, <2>3
    <3>2. store[k][n].owner = worker[w].app.uid
      BY <1>3, <2>3, UpdateKeepsOwner
    <3> QED  BY <3>1, <3>2 DEF NewDependent
  <2>4. CASE ~(k = "dep" /\ n = worker[w].app.spec.dep)
    BY <1>2, <1>3, <2>2, <2>4
  <2> QED  BY <2>3, <2>4
<1>4. CASE \E w \in Worker : UpdateDeployment(w) \/ AnswerLost(w) \/ CreateDependent(w)
  <2>1. PICK w \in Worker : UpdateDeployment(w) \/ AnswerLost(w) \/ CreateDependent(w)
    BY <1>4
  <2>2. CASE UNCHANGED storeVars
    BY <2>2 DEF storeVars
  <2>3. CASE worker[w].pc = "update" /\ ~UNCHANGED storeVars
    <3>1. /\ Write("dep", worker[w].app.spec.dep, NewDependent("dep", worker[w].item, worker[w].app))
          /\ store["dep"][worker[w].app.spec.dep].label = worker[w].item
      <4>1. CASE UpdateDeployment(w)
        BY <2>3, <4>1 DEF UpdateDeployment, NewDependent
      <4>2. CASE AnswerLost(w)
        BY <2>3, <4>2 DEF AnswerLost, NewDependent
      <4> QED  BY <2>1, <2>3, <4>1, <4>2 DEF CreateDependent
    <3> QED  BY <1>3, <2>3, <3>1
  <2>4. CASE worker[w].pc = "create" /\ ~UNCHANGED storeVars
    <3> DEFINE j == worker[w].kind
               m == worker[w].app.spec[j]
               obj == NewDependent(j, worker[w].item, worker[w].app)
    <3>1. Write(j, m, obj) /\ store[j][m] = None
      <4>1. CASE CreateDependent(w)
        BY <2>4, <4>1 DEF CreateDependent
      <4>2. CASE AnswerLost(w)
        BY <2>4, <4>2 DEF AnswerLost
      <4> QED  BY <2>1, <2>4, <4>1, <4>2 DEF UpdateDeployment
    <3>2. j \in Kind /\ m \in Name
      <4>1. worker[w] \in Sync /\ WorkersOK
        BY DEF Inv, IInv, TypeOK
      <4>2. j \in Kind /\ worker[w].app \in AppObject
        BY <2>4, <4>1 DEF WorkersOK, Sync
      <4>3. worker[w].app.spec \in AppSpec
        BY <4>2, ConstantsAssumption DEF AppObject
      <4> QED  BY <4>2, <4>3 DEF AppSpec, Kind
    <3> HIDE DEF obj, j, m
    <3> QED  BY <1>2, <3>1, <3>2
  <2> QED  BY <2>1, <2>2, <2>3, <2>4 DEF UpdateDeployment, AnswerLost, CreateDependent
<1>5. CASE \/ \E m \in Name : Scale(m)
           \/ \E j \in Kind, m \in Name :
                 \/ DeleteDependent(j, m) \/ CreateForeign(j, m) \/ Orphan(j, m)
                 \/ GarbageCollect(j, m)
  <2> DEFINE Keeps(j, m, obj) ==
               /\ Write(j, m, obj)
               /\ \/ obj = None
                  \/ obj.owner = 0
                  \/ obj.owner = store[j][m].owner
  <2>1. \E j \in Kind, m \in Name : \E obj : Keeps(j, m, obj)
    <3>1. CASE \E m \in Name : Scale(m)
      <4>1. PICK m \in Name : Scale(m)
        BY <3>1
      <4>2. PICK s \in Specs : Write("dep", m, [store["dep"][m] EXCEPT !.replicas = s.replicas])
        BY <4>1 DEF Scale
      <4>3. store["dep"][m] \in Dependent /\ "dep" \in Kind
        BY <1>1, <4>1 DEF Scale, Kind
      <4>4. [store["dep"][m] EXCEPT !.replicas = s.replicas].owner = store["dep"][m].owner
        BY <4>3 DEF Dependent
      <4> QED  BY <4>2, <4>3, <4>4
    <3>2. CASE \E j \in Kind, m \in Name : Orphan(j, m)
      <4>1. PICK j \in Kind, m \in Name : Orphan(j, m)
        BY <3>2
      <4>2. store[j][m] \in Dependent
        BY <1>1, <4>1 DEF Orphan
      <4>3. [store[j][m] EXCEPT !.owner = 0].owner = 0
        BY <4>2 DEF Dependent
      <4> QED  BY <4>1, <4>3 DEF Orphan
    <3>3. CASE \E j \in Kind, m \in Name :
                  DeleteDependent(j, m) \/ CreateForeign(j, m) \/ GarbageCollect(j, m)
      BY <3>3 DEF DeleteDependent, CreateForeign, GarbageCollect
    <3> QED  BY <1>5, <3>1, <3>2, <3>3
  <2>2. PICK j \in Kind, m \in Name : \E obj : Keeps(j, m, obj)
    BY <2>1
  <2>3. PICK obj : Keeps(j, m, obj)
    BY <2>2
  <2> QED  BY <1>2, <2>3
<1>6. CASE \/ \E a \in App : \/ CreateApp(a) \/ EditApp(a) \/ DeleteApp(a)
                             \/ WatchApp(a) \/ Resync(a) \/ BackoffElapsed(a)
           \/ \E j \in Kind, m \in Name : Watch(j, m)
           \/ \E w \in Worker : \/ Get(w) \/ GetApp(w) \/ ReadDependent(w) \/ Check(w)
                                \/ Finish(w) \/ CallFails(w)
           \/ CachesSynced \/ Signal \/ Exit \/ Start \/ UNCHANGED vars
  <2>1. store' = store
    BY <1>6 DEF CreateApp, EditApp, DeleteApp, WatchApp, Resync, BackoffElapsed, Watch,
       Get, GetApp, ReadDependent, Check, Finish, CallFails, CachesSynced, Signal, Exit, Start,
       Down, storeVars, vars
  <2> QED  BY <2>1
<1> QED  BY <1>4, <1>5, <1>6 DEF Next, ProcessNextWorkItem

\* A dependent one App controls never becomes another's, or another
\* incarnation's, without having been deleted or orphaned in between, although
\* Update overwrites blindly what the worker saw in a cache (controller.go:354).
THEOREM OwnersStay == Spec => OwnerNeverFlips
<1> DEFINE Step ==
      \A k \in Kind, n \in Name :
          LET old == store[k][n]
              new == store'[k][n]
          IN old # None /\ new # None /\ old.owner # 0 /\ new.owner # 0
             => old.owner = new.owner
<1>1. Init => Inv
  BY InitIInv, InitOwn DEF Inv
<1>2. Inv /\ [Next]_vars => Inv'
  BY NextOwn
<1>3. Inv /\ [Next]_vars => [Step]_vars
  BY OwnerStep
<1>4. OwnerNeverFlips <=> [][Step]_vars
  BY DEF OwnerNeverFlips
<1> HIDE DEF Step
<1> QED  BY <1>1, <1>2, <1>3, <1>4, PTL DEF Spec

-----------------------------------------------------------------------------
(***************************************************************************)
(* The work queue's promise.  What the phase of the process says about the *)
(* queue: requests are accepted until it is told to stop, nothing waits    *)
(* from then on, and a process that is not there yet has an empty queue.   *)
(***************************************************************************)
Open == phase \in {"starting", "running"}

QueueOK ==
    /\ Open => ~wq.shut
    /\ phase = "stopping" => wq.shut /\ wq.waiting = {}
    /\ ~Alive => wq = NewQueue /\ worker = [w \in Worker |-> Idle]

\* A worker whose key stays in its hands works on it or decides.
LEMMA WorkMoves ==
    ASSUME IInv, IInv', NEW w \in Worker, worker[w].pc \notin {"idle", "ok", "fail"},
           worker'[w].item = worker[w].item, \A v \in Worker \ {w} : worker'[v] = worker[v],
           UNCHANGED <<phase, wq>>
    PROVE  [Work!Next]_Work!vars
<1> DEFINE hand == [v \in Worker |-> Hand(worker[v])]
           hands == [v \in Worker |-> Hand(worker'[v])]
<1>1. worker[w].item # None
  BY DEF IInv, WorkersOK
<1>2. /\ \A v \in Worker \ {w} : hands[v] = hand[v]
      /\ hand[w] = [key |-> worker[w].item, result |-> "none"]
      /\ hands[w] = [key |-> worker[w].item,
                     result |-> IF worker'[w].pc \in {"ok", "fail"} THEN worker'[w].pc ELSE "none"]
  BY DEF Hand
<1>3. CASE worker'[w].pc \in {"ok", "fail"}
  <2> DEFINE r == worker'[w].pc
  <2>1. hands[w] = [hand[w] EXCEPT !.result = r]
    BY <1>2, <1>3
  <2>2. DOMAIN hand = Worker /\ hand = [v \in Worker |-> hand[v]]
        /\ hands = [v \in Worker |-> hands[v]]
    OBVIOUS
  <2> HIDE DEF hand, hands, r
  <2>3. hands = [hand EXCEPT ![w].result = r]
    BY <1>2, <2>1, <2>2
  <2>4. /\ hand[w].key # None /\ hand[w].result = "none"
        /\ r \in {"ok", "fail"}
    BY <1>1, <1>2, <1>3 DEF r
  <2>5. Work!Decide(w)
    BY <2>3, <2>4 DEF Work!Decide, hand, hands
  <2> QED  BY <2>5 DEF Work!Next
<1>4. CASE worker'[w].pc \notin {"ok", "fail"}
  <2>1. hands = hand
    BY <1>2, <1>4
  <2> QED  BY <2>1 DEF Work!vars
<1> QED  BY <1>3, <1>4

\* Get is the only step that takes a key from the queue.
LEMMA WorkTakes ==
    ASSUME IInv, NEW w \in Worker, Get(w)
    PROVE  Work!Next
<1> DEFINE h == Head(wq.queue)
           hand == [v \in Worker |-> Hand(worker[v])]
           hands == [v \in Worker |-> Hand(worker'[v])]
<1>1. /\ WellFormed(wq) /\ HasItem(wq) /\ worker \in [Worker -> Sync]
      /\ worker[w].pc = "idle" /\ wq' = Take(wq) /\ phase' = phase
  BY DEF Get, IInv, TypeOK, MutualExclusion, WellFormed
<1>2. /\ h \in App \ wq.processing /\ h \in Pending(wq)
      /\ Pending(wq') \in {Pending(wq), Pending(wq) \ {h}}
  BY <1>1, TakeWellFormed, TakesPending DEF App
<1>3. /\ worker'[w].item = h /\ worker'[w].pc = "app"
      /\ \A v \in Worker \ {w} : worker'[v] = worker[v]
  BY <1>1 DEF Get, Idle
<1>4. hand[w] = Work!Free
  BY <1>1 DEF IInv, WorkersOK, Hand, Work!Free
<1>5. \A v \in Worker : hand[v].key # h
  BY <1>2, ConstantsAssumption DEF IInv, MutualExclusion, Hand
<1>6. hands = [hand EXCEPT ![w].key = h]
  BY <1>3, <1>4 DEF Hand, Work!Free
<1> HIDE DEF h, hand, hands
<1>7. Work!Take(w)
  BY <1>1, <1>2, <1>4, <1>5, <1>6 DEF Work!Take, hand, hands
<1> QED  BY <1>7 DEF Work!Next

\* A key whose sync failed is owed again, unless the queue is shut down.
LEMMA WorkFinishes ==
    ASSUME IInv, QueueOK, NEW w \in Worker, Finish(w)
    PROVE  QueueOK' /\ Work!Next
<1> DEFINE k == worker[w].item
           q == IF worker[w].pc = "ok" THEN Forget(wq, k) ELSE AddRateLimited(wq, k)
           hand == [v \in Worker |-> Hand(worker[v])]
           hands == [v \in Worker |-> Hand(worker'[v])]
<1>1. /\ WellFormed(wq) /\ wq \in Queue /\ Alive /\ worker[w].pc \in {"ok", "fail"}
      /\ wq' = Done(q, k) /\ phase' = phase /\ worker' = [worker EXCEPT ![w] = Idle]
      /\ k \in Key
  BY WorkerHolds DEF Finish, IInv, TypeOK, MutualExclusion, WellFormed, App
<1>2. /\ q \in Queue /\ (phase = "stopping" <=> wq.shut)
  <2>1. WellFormed(q)
    BY <1>1, ForgetWellFormed, AddRateLimitedWellFormed
  <2> QED  BY <1>1, <2>1 DEF WellFormed, QueueOK, Alive, Open
<1>3. /\ q.shut = wq.shut /\ (wq.shut => q.waiting = wq.waiting)
      /\ Pending(q) = IF Open /\ worker[w].pc = "fail" THEN Pending(wq) \cup {k} ELSE Pending(wq)
  <2>1. CASE worker[w].pc = "ok"
    BY <1>1, <2>1, SameWaiting, ForgetPending
  <2>2. CASE worker[w].pc = "fail" /\ wq.shut
    BY <1>1, <1>2, <2>2, ShutIgnores DEF Open
  <2>3. CASE worker[w].pc = "fail" /\ ~wq.shut
    <3>1. Open /\ q = AddRateLimited(wq, k)
      BY <1>1, <1>2, <2>3 DEF Open, Alive
    <3> HIDE DEF k, q
    <3>2. Pending(q) = Pending(wq) \cup {k} /\ ~q.shut
      BY <1>1, <2>3, <3>1, AddRateLimitedPending
    <3>3. q.shut = wq.shut
      BY <1>1, <1>2, <2>3, <3>2 DEF Queue
    <3> QED  BY <2>3, <3>1, <3>2, <3>3
  <2> QED  BY <1>1, <2>1, <2>2, <2>3
<1> HIDE DEF q
<1>4. wq'.shut = wq.shut /\ wq'.waiting = q.waiting /\ Pending(wq') = Pending(q)
  BY <1>1, <1>2, <1>3, SameWaiting, DonePending
<1>5. QueueOK'
  BY <1>1, <1>2, <1>3, <1>4 DEF QueueOK, Open, Alive
<1>6. worker \in [Worker -> Sync] /\ k # None
  BY <1>1, ConstantsAssumption DEF IInv, TypeOK, App
<1>7. hand[w].result = worker[w].pc /\ hand[w].key = k
  BY <1>1 DEF Hand
<1>8. hands = [hand EXCEPT ![w] = Work!Free]
  BY <1>1, <1>6 DEF Hand, Idle, Work!Free
<1> HIDE DEF hand, hands
<1>9. Work!Finish(w)
  BY <1>1, <1>3, <1>4, <1>7, <1>8 DEF Work!Finish, hand, hands, Open
<1> QED  BY <1>5, <1>9 DEF Work!Next

\* A step that leaves queue and workers alone is nothing to the promise.
LEMMA WorkUntouched ==
    ASSUME QueueOK, UNCHANGED <<wq, worker>>,
           phase' = phase \/ (phase = "starting" /\ phase' = "running")
    PROVE  QueueOK' /\ UNCHANGED Work!vars
<1>1. Open' = Open
  BY DEF Open
<1> QED  BY <1>1 DEF QueueOK, Open, Alive, Work!vars

\* A request is one as long as the queue takes it.
LEMMA WorkAsked ==
    ASSUME IInv, QueueOK, NEW a \in App, Alive, UNCHANGED <<phase, worker>>,
           wq' = Add(wq, a) \/ (a \in wq.waiting /\ wq' = Elapse(wq, a))
    PROVE  QueueOK' /\ [Work!Next]_Work!vars
<1>1. wq \in Queue /\ a \in Key
  BY DEF IInv, TypeOK, App
<1>2. CASE phase = "stopping"
  <2>1. wq' = wq
    BY <1>1, <1>2, ShutIgnores DEF QueueOK
  <2> QED  BY <2>1, WorkUntouched
<1>3. CASE phase = "running"
  <2>1. ~wq.shut
    BY <1>3 DEF QueueOK, Open
  <2>2. Pending(wq') = Pending(wq) \cup {a} /\ ~wq'.shut
    BY <1>1, <2>1, AddPending, ElapsePending
  <2>3. Work!Ask
    BY <1>1, <1>3, <2>2 DEF Work!Ask
  <2> QED  BY <1>3, <2>2, <2>3 DEF Work!Next, QueueOK, Open, Alive
<1> QED  BY <1>2, <1>3 DEF Alive

\* Starting and stopping close and open the queue.
LEMMA WorkStops ==
    ASSUME IInv, QueueOK, Signal \/ Exit \/ Start
    PROVE  QueueOK' /\ Work!Next
<1> DEFINE hands == [v \in Worker |-> Hand(worker'[v])]
<1>1. Pending(NewQueue) = {}
  BY DEF Pending, NewQueue
<1>2. ASSUME worker' = [w \in Worker |-> Idle]
      PROVE  hands = Work!AllFree
  BY <1>2 DEF Hand, Idle, Work!AllFree, Work!Free
<1>3. ASSUME Down
      PROVE  /\ phase' = "down" /\ QueueOK' /\ Pending(wq') = {}
             /\ hands = Work!AllFree
  BY <1>1, <1>2, <1>3 DEF Down, QueueOK, Open, Alive
<1>4. CASE Signal
  <2>1. CASE phase = "starting" /\ Down
    BY <1>3, <2>1 DEF Work!Next, Work!Close
  <2>2. CASE phase = "running" /\ phase' = "stopping" /\ wq' = ShutDown(wq) /\ worker' = worker
    <3>1. wq'.shut /\ wq'.waiting = {} /\ Pending(wq') \subseteq Pending(wq)
      BY <2>2, ShutDownPending DEF IInv, TypeOK
    <3>2. Work!Close
      BY <2>2, <3>1 DEF Work!Close
    <3> QED  BY <2>2, <3>1, <3>2 DEF Work!Next, QueueOK, Open, Alive
  <2> QED  BY <1>4, <2>1, <2>2 DEF Signal
<1>5. CASE Exit
  BY <1>3, <1>5 DEF Exit, Work!Next, Work!Exit
<1>6. CASE Start
  <2>1. /\ phase = "down" /\ phase' = "starting" /\ wq' = wq /\ worker' = worker
        /\ wq = NewQueue /\ worker = [w \in Worker |-> Idle]
    BY <1>6 DEF Start, QueueOK, Alive
  <2>2. QueueOK'
    BY <2>1 DEF QueueOK, Open, Alive, NewQueue
  <2>3. Work!Open
    BY <1>1, <1>2, <2>1 DEF Work!Open
  <2> QED  BY <2>2, <2>3 DEF Work!Next
<1> QED  BY <1>4, <1>5, <1>6

\* Between Get and Finish a worker keeps its key.
LEMMA WorkerKeeps ==
    ASSUME IInv, NEW w \in Worker,
           ProcessNextWorkItem(w) \/ CallFails(w) \/ AnswerLost(w), ~Get(w), ~Finish(w)
    PROVE  /\ worker[w].pc \notin {"idle", "ok", "fail"} /\ UNCHANGED <<phase, wq>>
           /\ worker'[w].item = worker[w].item
           /\ \A v \in Worker \ {w} : worker'[v] = worker[v]
<1>1. worker \in [Worker -> Sync]
  BY DEF IInv, TypeOK
<1>2. ASSUME NEW obj, NEW failed, Proceed(w, obj, failed)
      PROVE  /\ worker'[w].item = worker[w].item
             /\ \A v \in Worker \ {w} : worker'[v] = worker[v]
  BY <1>1, <1>2 DEF Proceed, Sync
<1>3. ASSUME NEW to, worker' = [worker EXCEPT ![w].pc = to]
      PROVE  /\ worker'[w].item = worker[w].item
             /\ \A v \in Worker \ {w} : worker'[v] = worker[v]
  BY <1>1, <1>3 DEF Sync
<1>4. CASE GetApp(w)
  BY <1>1, <1>4 DEF GetApp, Sync
<1>5. CASE ReadDependent(w)
  BY <1>2, <1>3, <1>5 DEF ReadDependent
<1>6. CASE CreateDependent(w)
  BY <1>2, <1>6 DEF CreateDependent
<1>7. CASE Check(w)
  BY <1>3, <1>7 DEF Check
<1>8. CASE UpdateDeployment(w)
  BY <1>3, <1>8 DEF UpdateDeployment
<1>9. CASE CallFails(w)
  BY <1>2, <1>3, <1>9 DEF CallFails
<1>10. CASE AnswerLost(w)
  BY <1>2, <1>3, <1>10 DEF AnswerLost
<1> QED  BY <1>4, <1>5, <1>6, <1>7, <1>8, <1>9, <1>10 DEF ProcessNextWorkItem

\* Every step is one of the promise, or nothing to it.
LEMMA WorkStep ==
    ASSUME IInv, QueueOK, [Next]_vars
    PROVE  QueueOK' /\ [Work!Next]_Work!vars
<1>1. IInv'
  BY NextIInv
<1>2. CASE \/ \E a \in App : CreateApp(a) \/ EditApp(a) \/ DeleteApp(a)
           \/ \E n \in Name : Scale(n)
           \/ \E k \in Kind, n \in Name :
                 \/ DeleteDependent(k, n) \/ CreateForeign(k, n) \/ Orphan(k, n)
                 \/ GarbageCollect(k, n) \/ Watch(k, n)
           \/ CachesSynced \/ UNCHANGED vars
  <2>1. /\ UNCHANGED <<wq, worker>>
        /\ phase' = phase \/ (phase = "starting" /\ phase' = "running")
    BY <1>2 DEF CreateApp, EditApp, DeleteApp, Scale, DeleteDependent, CreateForeign, Orphan,
                UserEdit, GarbageCollect, Watch, CachesSynced, process, vars
  <2> QED  BY <2>1, WorkUntouched
<1>3. CASE \E a \in App : WatchApp(a) \/ Resync(a) \/ BackoffElapsed(a)
  <2>1. PICK a \in App : WatchApp(a) \/ Resync(a) \/ BackoffElapsed(a)
    BY <1>3
  <2>2. Alive /\ UNCHANGED <<phase, worker>>
    BY <2>1 DEF WatchApp, Resync, BackoffElapsed
  <2>3. CASE wq' = wq
    BY <2>2, <2>3, WorkUntouched
  <2>4. CASE wq' # wq
    <3>1. wq' = Add(wq, a) \/ (a \in wq.waiting /\ wq' = Elapse(wq, a))
      BY <2>1, <2>4 DEF WatchApp, Resync, BackoffElapsed
    <3> QED  BY <2>2, <3>1, WorkAsked
  <2> QED  BY <2>3, <2>4
<1>4. CASE \E w \in Worker : ProcessNextWorkItem(w) \/ CallFails(w) \/ AnswerLost(w)
  <2>1. PICK w \in Worker : ProcessNextWorkItem(w) \/ CallFails(w) \/ AnswerLost(w)
    BY <1>4
  <2>2. CASE Get(w)
    <3>1. wq \in Queue /\ Alive /\ wq' = Take(wq) /\ phase' = phase
      BY <2>2 DEF Get, IInv, TypeOK
    <3>2. wq'.waiting = wq.waiting /\ wq'.shut = wq.shut
      BY <3>1, SameWaiting
    <3>3. QueueOK'
      BY <3>1, <3>2 DEF QueueOK, Open, Alive
    <3> QED  BY <2>2, <3>3, WorkTakes
  <2>3. CASE Finish(w)
    BY <2>3, WorkFinishes
  <2>4. CASE ~Get(w) /\ ~Finish(w)
    <3>1. /\ worker[w].pc \notin {"idle", "ok", "fail"} /\ UNCHANGED <<phase, wq>>
          /\ worker'[w].item = worker[w].item
          /\ \A v \in Worker \ {w} : worker'[v] = worker[v]
      BY <2>1, <2>4, WorkerKeeps
    <3>2. Alive
      BY <2>1 DEF ProcessNextWorkItem, Get, GetApp, ReadDependent, CreateDependent, Check,
                  UpdateDeployment, Finish, CallFails, AnswerLost
    <3>3. QueueOK'
      BY <3>1, <3>2 DEF QueueOK, Open, Alive
    <3> QED  BY <1>1, <3>1, <3>3, WorkMoves
  <2> QED  BY <2>2, <2>3, <2>4
<1>5. CASE Signal \/ Exit \/ Start
  BY <1>5, WorkStops
<1> QED  BY <1>2, <1>3, <1>4, <1>5 DEF Next

\* At first the queue is open, and nothing is due.
LEMMA InitWork == Init => QueueOK /\ Work!Init
<1> SUFFICES ASSUME Init PROVE QueueOK /\ Work!Init
  OBVIOUS
<1>1. Pending(wq) = {} /\ ~wq.shut
  BY DEF Init, Pending, NewQueue
<1>2. [w \in Worker |-> Hand(worker[w])] = Work!AllFree
  BY DEF Init, Hand, Idle, Work!AllFree, Work!Free
<1> QED  BY <1>1, <1>2 DEF Init, QueueOK, Open, Alive, Work!Init

\* An App that is due is handed to one worker at a time, is due again when it
\* was asked for meanwhile or its sync failed, and is never lost before the
\* queue is shut down (controller.go:86-90 and 195-246).
THEOREM AppsAreWorkedOn == Spec => WorkIsExclusive
<1>1. Init => IInv /\ QueueOK /\ Work!Init
  BY InitIInv, InitWork
<1>2. IInv /\ QueueOK /\ [Next]_vars => IInv' /\ QueueOK' /\ [Work!Next]_Work!vars
  BY NextIInv, WorkStep
<1> QED  BY <1>1, <1>2, PTL DEF Spec, WorkIsExclusive, Work!Spec
=============================================================================
