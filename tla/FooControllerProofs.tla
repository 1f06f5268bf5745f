------------------------- MODULE FooControllerProofs -------------------------
(***************************************************************************)
(* For every set of Foos, names and specs, every number of workers and     *)
(* every bound: the controller is type correct, no two workers sync the    *)
(* same Foo, no Foo's status tells of a Deployment it does not control,    *)
(* and a Foo the controller is done with is synced.                        *)
(***************************************************************************)
EXTENDS FooController, WorkQueueProofs

Busy == {"dep", "create", "check", "update", "status"}

\* What syncHandler relies on where it is: a Foo that names a Deployment, a
\* Deployment to compare, and, once it is past the check, that the Foo
\* controls it.
WorkersOK ==
    \A w \in Worker :
        /\ worker[w].pc = "idle" <=> worker[w].item = None
        /\ worker[w].pc \in Busy => worker[w].foo # None /\ worker[w].foo.spec.dep # None
        /\ worker[w].pc \in {"check", "update", "status"} => worker[w].dep # None
        /\ worker[w].pc \in {"update", "status"} => worker[w].dep.owner = worker[w].foo.uid

IInv == TypeOK /\ WorkersOK /\ MutualExclusion

\* What a step that leaves the workers' keys alone must establish.
LEMMA SameItems ==
    ASSUME MutualExclusion, QueueInv(wq'), wq'.processing = wq.processing,
           \A w \in Worker : worker'[w].item = worker[w].item
    PROVE  MutualExclusion'
  BY DEF MutualExclusion

\* A worker that has nothing to do is well formed.
LEMMA IdleType == Idle \in Sync /\ Idle.pc = "idle" /\ Idle.item = None
  BY DEF Idle, Sync

\* Empty stores and watches have their types.
LEMMA EmptyTypes ==
    /\ [f \in Foo |-> None] \in [Foo -> FooObject \cup {None}]
    /\ [f \in Foo |-> <<>>] \in [Foo -> Seq(FooObject \cup {None})]
    /\ [n \in Name |-> None] \in [Name -> Deployment \cup {None}]
    /\ [n \in Name |-> <<>>] \in [Name -> Seq(Deployment \cup {None})]
  OBVIOUS

\* The invariant holds at first.
LEMMA InitIInv == Init => IInv
<1> SUFFICES ASSUME Init PROVE IInv
  OBVIOUS
<1>1. NewQueue \in Queue /\ QueueInv(NewQueue) /\ NewQueue.processing = {}
  BY NewQueueWellFormed DEF WellFormed
<1>2. TypeOK
  BY <1>1, EmptyTypes, IdleType, ConstantsAssumption DEF Init, TypeOK
<1>3. WorkersOK
  BY IdleType DEF Init, WorkersOK, Busy
<1>4. MutualExclusion
  BY <1>1, IdleType DEF Init, MutualExclusion
<1> QED  BY <1>2, <1>3, <1>4 DEF IInv

\* A process that is gone has an empty queue and idle workers.
LEMMA DownIInv ==
    ASSUME IInv, Down, edits' = edits, failures' = failures, stops' \in 0..MaxStops
    PROVE  IInv'
<1>1. NewQueue \in Queue /\ QueueInv(NewQueue) /\ NewQueue.processing = {}
  BY NewQueueWellFormed DEF WellFormed
<1>2. TypeOK'
  <2>1. worker' \in [Worker -> Sync]
    BY IdleType DEF Down
  <2>2. foo' = foo /\ store' = store
    BY DEF Down
  <2> QED  BY <1>1, <2>1, <2>2, EmptyTypes DEF Down, IInv, TypeOK
<1>3. WorkersOK'
  BY IdleType DEF Down, WorkersOK, Busy
<1>4. MutualExclusion'
  BY <1>1, IdleType DEF Down, MutualExclusion
<1> QED  BY <1>2, <1>3, <1>4 DEF IInv

\* A write to the API server stores and sends a well-typed object.
LEMMA WriteFooType ==
    ASSUME TypeOK, NEW f \in Foo, NEW obj \in FooObject \cup {None}, WriteFoo(f, obj)
    PROVE  /\ foo' \in [Foo -> FooObject \cup {None}]
           /\ fooWatch' \in [Foo -> Seq(FooObject \cup {None})]
<1>1. fooWatch[f] \in Seq(FooObject \cup {None})
  BY DEF TypeOK
<1>2. Append(fooWatch[f], obj) \in Seq(FooObject \cup {None})
  BY <1>1
<1> QED  BY <1>2 DEF TypeOK, WriteFoo

\* A write keeps the types of store and watches.
LEMMA WriteType ==
    ASSUME TypeOK, NEW n \in Name, NEW obj \in Deployment \cup {None}, Write(n, obj)
    PROVE  /\ store' \in [Name -> Deployment \cup {None}]
           /\ watch' \in [Name -> Seq(Deployment \cup {None})]
<1>1. watch[n] \in Seq(Deployment \cup {None})
  BY DEF TypeOK
<1>2. Append(watch[n], obj) \in Seq(Deployment \cup {None})
  BY <1>1
<1> QED  BY <1>2 DEF TypeOK, Write

\* A step that touches neither queue nor workers needs its types only.
LEMMA OutsideIInv ==
    ASSUME IInv, UNCHANGED <<caches, process, failures, stops>>,
           edits' \in 0..MaxEdits,
           \/ UNCHANGED storeVars
              /\ \E f \in Foo, obj \in FooObject \cup {None} : WriteFoo(f, obj)
           \/ UNCHANGED fooVars
              /\ \E n \in Name, obj \in Deployment \cup {None} : Write(n, obj)
    PROVE  IInv'
<1>1. /\ foo' \in [Foo -> FooObject \cup {None}]
      /\ fooWatch' \in [Foo -> Seq(FooObject \cup {None})]
      /\ store' \in [Name -> Deployment \cup {None}]
      /\ watch' \in [Name -> Seq(Deployment \cup {None})]
  BY WriteFooType, WriteType DEF IInv, TypeOK, fooVars, storeVars
<1>2. TypeOK'
  BY <1>1 DEF IInv, TypeOK, caches, process
<1> QED  BY <1>2 DEF IInv, WorkersOK, MutualExclusion, process

\* What users do to a Foo keeps the invariant.
LEMMA FooEdits ==
    ASSUME IInv, NEW f \in Foo, CreateFoo(f) \/ EditFoo(f) \/ DeleteFoo(f)
    PROVE  IInv'
<1>0. /\ edits < MaxEdits => edits + 1 \in 1..MaxEdits /\ edits + 1 \in 0..MaxEdits
      /\ foo[f] \in FooObject \cup {None}
  BY ConstantsAssumption DEF IInv, TypeOK
<1>1. UserEdit /\ UNCHANGED storeVars
      /\ \E obj \in FooObject \cup {None} : WriteFoo(f, obj)
  <2>1. CASE CreateFoo(f)
    <3>1. PICK s \in Specs :
              WriteFoo(f, [uid |-> edits + 1, rv |-> 1, spec |-> s, status |-> 0])
      BY <2>1 DEF CreateFoo
    <3>2. [uid |-> edits + 1, rv |-> 1, spec |-> s, status |-> 0] \in FooObject
      BY <1>0, <2>1 DEF CreateFoo, UserEdit, FooObject
    <3> QED  BY <2>1, <3>1, <3>2 DEF CreateFoo
  <2>2. CASE EditFoo(f)
    <3>1. PICK s \in Specs : WriteFoo(f, [foo[f] EXCEPT !.spec = s, !.rv = @ + 1])
      BY <2>2 DEF EditFoo
    <3>2. foo[f] \in FooObject /\ foo[f].rv \in Nat
      BY <1>0, <2>2 DEF EditFoo, FooObject
    <3>3. foo[f].rv + 1 \in Nat
      BY <3>2
    <3>4. [foo[f] EXCEPT !.spec = s, !.rv = foo[f].rv + 1] \in FooObject
      BY <3>2, <3>3 DEF FooObject
    <3> QED  BY <2>2, <3>1, <3>4 DEF EditFoo
  <2>3. CASE DeleteFoo(f)
    BY <2>3 DEF DeleteFoo
  <2> QED  BY <2>1, <2>2, <2>3
<1> QED  BY <1>0, <1>1, OutsideIInv DEF UserEdit

\* What users and other controllers do to a Deployment keeps the invariant.
LEMMA DeploymentEdits ==
    ASSUME IInv, NEW n \in Name,
           \/ Scale(n) \/ DeleteDeployment(n) \/ CreateForeign(n) \/ Orphan(n)
           \/ PodsFail(n) \/ Rollout(n) \/ GarbageCollect(n)
    PROVE  IInv'
<1>0. /\ edits \in 0..MaxEdits /\ (edits < MaxEdits => edits + 1 \in 0..MaxEdits)
      /\ store[n] \in Deployment \cup {None}
  BY ConstantsAssumption DEF IInv, TypeOK
<1>1. ASSUME UserEdit, UNCHANGED fooVars,
             \E obj \in Deployment \cup {None} : Write(n, obj)
      PROVE  IInv'
  BY <1>0, <1>1, OutsideIInv DEF UserEdit
<1>2. CASE Scale(n)
  <2>1. PICK s \in Specs : s.replicas # None
                           /\ Write(n, [store[n] EXCEPT !.replicas = s.replicas])
    BY <1>2 DEF Scale
  <2>2. s.replicas \in Nat
    BY <2>1, ConstantsAssumption DEF FooSpec
  <2>3. [store[n] EXCEPT !.replicas = s.replicas] \in Deployment
    BY <1>0, <1>2, <2>2 DEF Scale, Deployment
  <2> QED  BY <1>1, <1>2, <2>1, <2>3 DEF Scale
<1>3. CASE DeleteDeployment(n)
  BY <1>1, <1>3 DEF DeleteDeployment
<1>4. CASE CreateForeign(n)
  <2>1. [owner |-> 0, label |-> None, replicas |-> 1, available |-> 0] \in Deployment
    BY ConstantsAssumption DEF Deployment
  <2> QED  BY <1>1, <1>4, <2>1 DEF CreateForeign
<1>5. CASE Orphan(n)
  <2>1. [store[n] EXCEPT !.owner = 0] \in Deployment
    BY <1>0, <1>5, ConstantsAssumption DEF Orphan, Deployment
  <2> QED  BY <1>1, <1>5, <2>1 DEF Orphan
<1>6. CASE PodsFail(n)
  <2>1. [store[n] EXCEPT !.available = 0] \in Deployment
    BY <1>0, <1>6 DEF PodsFail, Deployment
  <2> QED  BY <1>1, <1>6, <2>1 DEF PodsFail
<1>7. CASE Rollout(n)
  <2>1. [store[n] EXCEPT !.available = store[n].replicas] \in Deployment
    BY <1>0, <1>7 DEF Rollout, Deployment
  <2>2. Write(n, [store[n] EXCEPT !.available = store[n].replicas])
        /\ UNCHANGED <<fooVars, caches, process, counters>>
    BY <1>7 DEF Rollout
  <2> QED  BY <1>0, <2>1, <2>2, OutsideIInv DEF counters
<1>8. CASE GarbageCollect(n)
  <2>1. Write(n, None) /\ UNCHANGED <<fooVars, caches, process, counters>>
    BY <1>8 DEF GarbageCollect
  <2> QED  BY <1>0, <2>1, OutsideIInv DEF counters
<1> QED  BY <1>2, <1>3, <1>4, <1>5, <1>6, <1>7, <1>8

\* handleObject puts nothing but Foos into the queue.
LEMMA HandleObjectWellFormed ==
    ASSUME IInv, NEW old \in Deployment \cup {None}, NEW new \in Deployment \cup {None}
    PROVE  WellFormed(HandleObject(old, new))
           /\ HandleObject(old, new).processing = wq.processing
<1>0. WellFormed(wq)
  BY DEF IInv, TypeOK, MutualExclusion, WellFormed
<1> DEFINE object == IF new = None THEN old ELSE new
<1>1. CASE object # None /\ object.owner # 0 /\ fooCache[object.label] # None
  <2>1. object.label \in Key
    BY <1>1 DEF Deployment, Foo
  <2>2. HandleObject(old, new) = Add(wq, object.label)
    BY <1>1 DEF HandleObject
  <2> QED  BY <1>0, <2>1, <2>2, AddWellFormed
<1>2. CASE ~(object # None /\ object.owner # 0 /\ fooCache[object.label] # None)
  BY <1>0, <1>2 DEF HandleObject
<1> QED  BY <1>1, <1>2

\* Changes entering the caches, their handlers, resyncs and back-offs.
LEMMA InformerIInv ==
    ASSUME IInv,
           \/ \E f \in Foo : WatchFoo(f) \/ Resync(f) \/ BackoffElapsed(f)
           \/ \E n \in Name : Watch(n)
    PROVE  IInv'
<1>0. WellFormed(wq)
  BY DEF IInv, TypeOK, MutualExclusion, WellFormed
<1>1. ASSUME NEW f \in Foo, WatchFoo(f)
      PROVE  IInv'
  <2>1. fooWatch[f] \in Seq(FooObject \cup {None}) /\ fooWatch[f] # <<>>
    BY <1>1 DEF WatchFoo, IInv, TypeOK
  <2>2. Head(fooWatch[f]) \in FooObject \cup {None}
        /\ Tail(fooWatch[f]) \in Seq(FooObject \cup {None})
    BY <2>1
  <2>3. /\ fooCache' \in [Foo -> FooObject \cup {None}]
        /\ fooWatch' \in [Foo -> Seq(FooObject \cup {None})]
    BY <1>1, <2>2 DEF WatchFoo, IInv, TypeOK
  <2>4. WellFormed(wq') /\ wq'.processing = wq.processing
    BY <1>0, <1>1, AddWellFormed DEF WatchFoo, Foo
  <2>5. TypeOK'
    BY <1>1, <2>3, <2>4 DEF WatchFoo, IInv, TypeOK, storeVars, counters, WellFormed
  <2>6. MutualExclusion'
    BY <1>1, <2>4, SameItems DEF WatchFoo, WellFormed, IInv
  <2> QED  BY <1>1, <2>5, <2>6 DEF WatchFoo, WorkersOK, IInv
<1>2. ASSUME NEW f \in Foo, Resync(f) \/ BackoffElapsed(f)
      PROVE  IInv'
  <2>1. WellFormed(wq') /\ wq'.processing = wq.processing
    <3>1. wq' = Add(wq, f) \/ wq' = Elapse(wq, f)
      BY <1>2 DEF Resync, BackoffElapsed
    <3> QED  BY <1>0, <3>1, AddWellFormed, ElapseWellFormed DEF Foo
  <2>2. UNCHANGED <<fooVars, storeVars, caches, phase, worker, counters>>
    BY <1>2 DEF Resync, BackoffElapsed
  <2>3. TypeOK'
    BY <2>1, <2>2 DEF IInv, TypeOK, fooVars, storeVars, caches, counters, WellFormed
  <2>4. MutualExclusion'
    BY <2>1, <2>2, SameItems DEF WellFormed, IInv
  <2> QED  BY <2>2, <2>3, <2>4 DEF WorkersOK, IInv
<1>3. ASSUME NEW n \in Name, Watch(n)
      PROVE  IInv'
  <2>1. watch[n] \in Seq(Deployment \cup {None}) /\ watch[n] # <<>>
        /\ cache[n] \in Deployment \cup {None}
    BY <1>3 DEF Watch, IInv, TypeOK
  <2>2. Head(watch[n]) \in Deployment \cup {None}
        /\ Tail(watch[n]) \in Seq(Deployment \cup {None})
    BY <2>1
  <2>3. /\ cache' \in [Name -> Deployment \cup {None}]
        /\ watch' \in [Name -> Seq(Deployment \cup {None})]
    BY <1>3, <2>2 DEF Watch, IInv, TypeOK
  <2>4. WellFormed(wq') /\ wq'.processing = wq.processing
    BY <1>3, <2>1, <2>2, HandleObjectWellFormed DEF Watch
  <2>5. TypeOK'
    BY <1>3, <2>3, <2>4 DEF Watch, IInv, TypeOK, fooVars, counters, WellFormed
  <2>6. MutualExclusion'
    BY <1>3, <2>4, SameItems DEF Watch, WellFormed, IInv
  <2> QED  BY <1>3, <2>5, <2>6 DEF Watch, WorkersOK, IInv
<1> QED  BY <1>1, <1>2, <1>3

\* Starting, stopping and steps that change nothing.
LEMMA ProcessIInv ==
    ASSUME IInv, CachesSynced \/ Signal \/ Exit \/ Start \/ UNCHANGED vars
    PROVE  IInv'
<1>0. WellFormed(wq)
  BY DEF IInv, TypeOK, MutualExclusion, WellFormed
<1>1. CASE CachesSynced
  <2>1. fooWatch' \in [Foo -> Seq(FooObject \cup {None})]
    <3> DEFINE Change == FooObject \cup {None}
    <3>1. \A f \in Foo : foo[f] \in Change
      BY DEF IInv, TypeOK
    <3>2. <<>> \in Seq(Change) /\ \A obj \in Change : <<obj>> \in Seq(Change)
      OBVIOUS
    <3>3. fooWatch' = [f \in Foo |-> IF foo[f] = None THEN <<>> ELSE <<foo[f]>>]
      BY <1>1 DEF CachesSynced
    <3> HIDE DEF Change
    <3>4. fooWatch' \in [Foo -> Seq(Change)]
      BY <3>1, <3>2, <3>3
    <3> QED  BY <3>4 DEF Change
  <2>2. TypeOK'
    BY <1>1, <2>1 DEF CachesSynced, IInv, TypeOK, storeVars, counters
  <2> QED  BY <1>1, <2>2 DEF CachesSynced, WorkersOK, MutualExclusion, IInv
<1>2. CASE Signal
  <2>1. stops' \in 0..MaxStops
    BY <1>2, ConstantsAssumption DEF Signal, IInv, TypeOK
  <2>2. CASE Down
    BY <1>2, <2>1, <2>2, DownIInv DEF Signal
  <2>3. CASE ~Down
    <3>1. /\ phase' = "stopping" /\ wq' = ShutDown(wq)
          /\ UNCHANGED <<fooVars, storeVars, caches, worker, edits, failures>>
      BY <1>2, <2>3 DEF Signal
    <3>2. WellFormed(wq') /\ wq'.processing = wq.processing
      BY <1>0, <3>1, ShutDownWellFormed
    <3>3. TypeOK'
      BY <2>1, <3>1, <3>2 DEF IInv, TypeOK, fooVars, storeVars, caches, WellFormed
    <3>4. MutualExclusion'
      BY <3>1, <3>2, SameItems DEF WellFormed, IInv
    <3> QED  BY <3>1, <3>3, <3>4 DEF WorkersOK, IInv
  <2> QED  BY <2>2, <2>3
<1>3. CASE Exit
  BY <1>3, DownIInv DEF Exit, counters, IInv, TypeOK
<1>4. CASE Start
  BY <1>4 DEF Start, IInv, TypeOK, WorkersOK, MutualExclusion, fooVars, storeVars, caches, counters
<1>5. CASE UNCHANGED vars
  BY <1>5 DEF vars, IInv, TypeOK, WorkersOK, MutualExclusion, fooVars, storeVars, caches,
              process, counters
<1> QED  BY <1>1, <1>2, <1>3, <1>4, <1>5
-----------------------------------------------------------------------------
\* A worker that is not idle holds a Foo, and holds it in `processing'.
LEMMA WorkerHolds ==
    ASSUME IInv, NEW w \in Worker, worker[w].pc # "idle"
    PROVE  worker[w].item \in Foo /\ worker[w].item \in wq.processing
<1>1. worker[w] \in Sync
  BY DEF IInv, TypeOK
<1>2. worker[w].item \in Foo
  BY <1>1 DEF IInv, WorkersOK, Sync
<1> QED  BY <1>2, ConstantsAssumption DEF IInv, MutualExclusion

\* What holds of a worker wherever it is.
WorkerOK(s) ==
    /\ s.pc # "idle"
    /\ s.pc \in Busy => s.foo # None /\ s.foo.spec.dep # None
    /\ s.pc \in {"check", "update", "status"} => s.dep # None
    /\ s.pc \in {"update", "status"} => s.dep.owner = s.foo.uid

\* A worker moves from one record to another and keeps its key; it may have
\* written one object.
LEMMA MoveIInv ==
    ASSUME IInv, NEW w \in Worker, NEW s \in Sync,
           worker' = [worker EXCEPT ![w] = s],
           worker[w].pc # "idle", WorkerOK(s), s.item = worker[w].item,
           UNCHANGED <<caches, phase, wq>>,
           edits' = edits, failures' \in 0..MaxFailures, stops' = stops,
           \/ UNCHANGED fooVars
           \/ \E f \in Foo, obj \in FooObject \cup {None} : WriteFoo(f, obj),
           \/ UNCHANGED storeVars
           \/ \E n \in Name, obj \in Deployment \cup {None} : Write(n, obj)
    PROVE  IInv'
<1>1. worker \in [Worker -> Sync] /\ QueueInv(wq)
  BY DEF IInv, TypeOK, MutualExclusion
<1>2. /\ \A v \in Worker \ {w} : worker'[v] = worker[v]
      /\ worker'[w] = s /\ worker' \in [Worker -> Sync]
  BY <1>1
<1>3. /\ foo' \in [Foo -> FooObject \cup {None}]
      /\ fooWatch' \in [Foo -> Seq(FooObject \cup {None})]
      /\ store' \in [Name -> Deployment \cup {None}]
      /\ watch' \in [Name -> Seq(Deployment \cup {None})]
  BY WriteFooType, WriteType DEF IInv, TypeOK, fooVars, storeVars
<1>4. TypeOK'
  BY <1>2, <1>3 DEF IInv, TypeOK, caches
<1>5. WorkersOK'
  BY <1>2 DEF IInv, WorkersOK, WorkerOK
<1>6. MutualExclusion'
  BY <1>1, <1>2, SameItems DEF IInv
<1> QED  BY <1>4, <1>5, <1>6 DEF IInv

\* The same, for a step that goes on with Goto.
LEMMA GotoIInv ==
    ASSUME IInv, NEW w \in Worker, NEW dep \in Deployment \cup {None},
           NEW pc \in {"create", "check", "update", "status", "ok", "fail"},
           Goto(w, pc, dep), worker[w].pc \in Busy,
           pc \in {"check", "update", "status"} => dep # None,
           pc \in {"update", "status"} => dep.owner = worker[w].foo.uid,
           UNCHANGED <<caches, phase, wq>>,
           edits' = edits, failures' \in 0..MaxFailures, stops' = stops,
           \/ UNCHANGED fooVars
           \/ \E f \in Foo, obj \in FooObject \cup {None} : WriteFoo(f, obj),
           \/ UNCHANGED storeVars
           \/ \E n \in Name, obj \in Deployment \cup {None} : Write(n, obj)
    PROVE  IInv'
<1>1. worker[w] \in Sync /\ worker \in [Worker -> Sync]
  BY DEF IInv, TypeOK
<1> DEFINE s == [worker[w] EXCEPT !.pc = pc, !.dep = dep]
<1>2. worker' = [worker EXCEPT ![w] = s]
  BY <1>1 DEF Goto, Sync
<1>3. s \in Sync /\ s.pc = pc /\ s.dep = dep /\ s.item = worker[w].item
      /\ s.foo = worker[w].foo
  BY <1>1 DEF Sync
<1>4. worker[w].foo # None /\ worker[w].foo.spec.dep # None /\ worker[w].pc # "idle"
  BY DEF IInv, WorkersOK, Busy
<1> HIDE DEF s
<1>5. WorkerOK(s)
  BY <1>3, <1>4 DEF WorkerOK
<1> QED  BY <1>2, <1>3, <1>4, <1>5, MoveIInv

\* What the calls of syncHandler send is well typed.
LEMMA SentTypes ==
    ASSUME IInv, NEW w \in Worker, worker[w].pc \in Busy
    PROVE  /\ worker[w].foo \in FooObject /\ worker[w].foo.spec.dep \in Name
           /\ worker[w].item \in Foo
           /\ NewDeployment(worker[w].item, worker[w].foo) \in Deployment
           /\ NewDeployment(worker[w].item, worker[w].foo).owner = worker[w].foo.uid
           /\ \A n \in Name : LET obj == NewDeployment(worker[w].item, worker[w].foo) IN
                 Updatable(n, obj) => /\ Updated(n, obj) \in Deployment
                                      /\ Updated(n, obj).owner = worker[w].foo.uid
<1>1. worker[w].foo \in FooObject /\ worker[w].foo.spec.dep # None
  BY DEF IInv, TypeOK, WorkersOK, Sync
<1>2. worker[w].foo.spec \in FooSpec /\ worker[w].foo.uid \in 0..MaxEdits
  BY <1>1, ConstantsAssumption DEF FooObject
<1>3. worker[w].item \in Foo
  BY WorkerHolds DEF Busy
<1> DEFINE obj == NewDeployment(worker[w].item, worker[w].foo)
<1>4. obj \in Deployment /\ obj.owner = worker[w].foo.uid
  BY <1>2, <1>3, ConstantsAssumption DEF NewDeployment, Deployment, FooSpec
<1> HIDE DEF obj
<1>5. ASSUME NEW n \in Name, Updatable(n, obj)
      PROVE  Updated(n, obj) \in Deployment /\ Updated(n, obj).owner = worker[w].foo.uid
  <2>1. store[n] \in Deployment
    BY <1>5 DEF Updatable, IInv, TypeOK
  <2> QED  BY <1>4, <2>1 DEF Updated, Deployment
<1> QED  BY <1>1, <1>2, <1>3, <1>4, <1>5 DEF FooSpec, obj

\* A status write stores a well-typed Foo and changes the status only.
LEMMA StatusTypes ==
    ASSUME IInv, NEW f \in Foo, foo[f] # None, NEW n \in Nat, WriteStatus(f, n)
    PROVE  \E obj \in FooObject \cup {None} : WriteFoo(f, obj)
<1>1. foo[f] \in FooObject /\ foo[f].rv \in Nat
  BY DEF IInv, TypeOK, FooObject
<1>2. foo[f].rv + 1 \in Nat
  BY <1>1
<1>3. [foo[f] EXCEPT !.status = n, !.rv = foo[f].rv + 1] \in FooObject
  BY <1>1, <1>2 DEF FooObject
<1> QED  BY <1>1, <1>3 DEF WriteStatus

\* What workers do keeps the invariant.
LEMMA WorkerIInv ==
    ASSUME IInv, NEW w \in Worker,
           ProcessNextWorkItem(w) \/ CallFails(w) \/ AnswerLost(w)
    PROVE  IInv'
<1>0. WellFormed(wq) /\ worker[w] \in Sync /\ worker \in [Worker -> Sync]
      /\ failures \in 0..MaxFailures
  BY DEF IInv, TypeOK, MutualExclusion, WellFormed
<1>1. ASSUME worker[w].pc # "idle"
      PROVE  worker[w].item \in Foo /\ worker[w].item \in wq.processing
  BY <1>1, WorkerHolds
<1>2. CASE Get(w)
  <2> DEFINE h == Head(wq.queue)
             s == [Idle EXCEPT !.pc = "foo", !.item = h]
  <2>1. /\ WellFormed(wq') /\ h \in Foo \ wq.processing
        /\ wq'.processing = wq.processing \cup {h}
    BY <1>0, <1>2, TakeWellFormed DEF Get, Foo
  <2>2. s \in Sync /\ s.item = h /\ s.pc = "foo" /\ h # None
    BY <2>1, IdleType, ConstantsAssumption DEF Sync
  <2>3. worker' = [worker EXCEPT ![w] = s] /\ worker[w].pc = "idle"
    BY <1>2 DEF Get
  <2> HIDE DEF h, s
  <2>4. /\ \A v \in Worker \ {w} : worker'[v] = worker[v]
        /\ worker'[w] = s /\ worker' \in [Worker -> Sync]
        /\ worker[w].item = None
    BY <1>0, <2>2, <2>3 DEF IInv, WorkersOK
  <2>5. TypeOK'
    BY <1>2, <2>1, <2>4 DEF Get, IInv, TypeOK, fooVars, storeVars, caches, counters, WellFormed
  <2>6. WorkersOK'
    BY <2>2, <2>4 DEF IInv, WorkersOK, Busy
  <2>7. MutualExclusion'
    <3>1. wq.processing = {worker[v].item : v \in Worker} \ {None}
      BY DEF IInv, MutualExclusion
    <3>2. \A v \in Worker : worker[v].item # h
      BY <2>1, <2>2, <3>1
    <3>3. wq'.processing = {worker'[v].item : v \in Worker} \ {None}
      BY <2>1, <2>2, <2>4, <3>1
    <3>4. \A u, v \in Worker :
             worker'[u].item = worker'[v].item /\ worker'[u].item # None => u = v
      BY <2>2, <2>4, <3>2 DEF IInv, MutualExclusion
    <3> QED  BY <2>1, <3>3, <3>4 DEF MutualExclusion, WellFormed
  <2> QED  BY <2>5, <2>6, <2>7 DEF IInv
<1>3. CASE GetFoo(w)
  <2> DEFINE f == fooCache[worker[w].item]
             pc == IF f = None \/ f.spec.dep = None THEN "ok" ELSE "dep"
             s == [worker[w] EXCEPT !.foo = f, !.pc = pc]
  <2>1. worker[w].pc = "foo" /\ worker[w].item \in Foo
    BY <1>1, <1>3 DEF GetFoo
  <2>2. f \in FooObject \cup {None}
    BY <2>1 DEF IInv, TypeOK
  <2>3. worker' = [worker EXCEPT ![w] = s]
    BY <1>0, <1>3 DEF GetFoo
  <2>4. pc \in {"ok", "dep"} /\ (pc = "dep" => f # None /\ f.spec.dep # None)
    OBVIOUS
  <2>5. UNCHANGED <<fooVars, storeVars, caches, phase, wq, counters>>
    BY <1>3 DEF GetFoo
  <2> HIDE DEF f, pc
  <2>6. s \in Sync /\ s.pc = pc /\ s.foo = f /\ s.item = worker[w].item
    BY <1>0, <2>2, <2>4 DEF Sync
  <2> HIDE DEF s
  <2>7. WorkerOK(s)
    BY <2>4, <2>6 DEF WorkerOK, Busy
  <2> QED  BY <1>0, <2>1, <2>3, <2>5, <2>6, <2>7, MoveIInv DEF counters
<1>4. CASE GetDeployment(w)
  <2> DEFINE found == cache[worker[w].foo.spec.dep]
             pc == IF found = None THEN "create" ELSE "check"
  <2>1. worker[w].pc = "dep" /\ Goto(w, pc, found)
        /\ UNCHANGED <<fooVars, storeVars, caches, phase, wq, counters>>
    BY <1>4 DEF GetDeployment
  <2>2. worker[w].pc \in Busy
    BY <2>1 DEF Busy
  <2>3. found \in Deployment \cup {None}
    BY <2>2, SentTypes DEF IInv, TypeOK
  <2>4. pc \in {"create", "check"} /\ (pc = "check" => found # None)
    OBVIOUS
  <2> HIDE DEF found, pc
  <2> QED  BY <1>0, <2>1, <2>2, <2>3, <2>4, GotoIInv DEF counters
<1>5. ASSUME worker[w].pc \in Busy,
             \E n \in Name, obj \in Deployment \cup {None} : Write(n, obj)
      PROVE  \A pc \in {"check", "status", "fail"}, dep \in Deployment \cup {None} :
                Goto(w, pc, dep) /\ (pc # "fail" => dep # None /\ dep.owner = worker[w].foo.uid)
                /\ UNCHANGED <<fooVars, caches, phase, wq, edits, stops>>
                /\ failures' \in 0..MaxFailures => IInv'
  BY <1>5, GotoIInv
<1>6. CASE CreateDeployment(w)
  <2> DEFINE n == worker[w].foo.spec.dep
             obj == NewDeployment(worker[w].item, worker[w].foo)
  <2>1. worker[w].pc = "create" /\ UNCHANGED <<fooVars, caches, phase, wq, counters>>
    BY <1>6 DEF CreateDeployment
  <2>2. worker[w].pc \in Busy
    BY <2>1 DEF Busy
  <2>3. n \in Name /\ obj \in Deployment /\ obj.owner = worker[w].foo.uid
    BY <2>2, SentTypes
  <2>4. \/ Write(n, obj) /\ Goto(w, "check", obj)
        \/ Goto(w, "fail", None) /\ UNCHANGED storeVars
    BY <1>6 DEF CreateDeployment
  <2> HIDE DEF n, obj
  <2>5. obj # None
    BY <2>3, ConstantsAssumption
  <2>6. CASE Write(n, obj) /\ Goto(w, "check", obj)
    BY <1>0, <1>5, <2>1, <2>2, <2>3, <2>5, <2>6 DEF counters
  <2>7. CASE Goto(w, "fail", None) /\ UNCHANGED storeVars
    BY <1>0, <2>1, <2>2, <2>7, GotoIInv DEF counters
  <2> QED  BY <2>4, <2>6, <2>7
<1>7. CASE Check(w)
  <2> DEFINE pc == IF worker[w].dep.owner # worker[w].foo.uid THEN "fail"
                   ELSE IF worker[w].foo.spec.replicas \notin {None, worker[w].dep.replicas}
                   THEN "update" ELSE "status"
  <2>1. worker[w].pc = "check" /\ Goto(w, pc, worker[w].dep)
        /\ UNCHANGED <<fooVars, storeVars, caches, phase, wq, counters>>
    BY <1>7 DEF Check
  <2>2. worker[w].pc \in Busy
    BY <2>1 DEF Busy
  <2>3. worker[w].dep \in Deployment \cup {None} /\ worker[w].dep # None
    BY <1>0, <2>1 DEF Sync, IInv, WorkersOK
  <2>4. pc \in {"update", "status", "fail"}
        /\ (pc # "fail" => worker[w].dep.owner = worker[w].foo.uid)
    OBVIOUS
  <2> HIDE DEF pc
  <2> QED  BY <1>0, <2>1, <2>2, <2>3, <2>4, GotoIInv DEF counters
<1>8. CASE UpdateDeployment(w)
  <2> DEFINE n == worker[w].foo.spec.dep
             obj == NewDeployment(worker[w].item, worker[w].foo)
  <2>1. worker[w].pc = "update" /\ UNCHANGED <<fooVars, caches, phase, wq, counters>>
    BY <1>8 DEF UpdateDeployment
  <2>2. worker[w].pc \in Busy
    BY <2>1 DEF Busy
  <2>3. n \in Name
        /\ (Updatable(n, obj) => /\ Updated(n, obj) \in Deployment
                                 /\ Updated(n, obj).owner = worker[w].foo.uid)
    BY <2>2, SentTypes
  <2>4. \/ Updatable(n, obj) /\ Write(n, Updated(n, obj)) /\ Goto(w, "status", Updated(n, obj))
        \/ Goto(w, "fail", None) /\ UNCHANGED storeVars
    BY <1>8 DEF UpdateDeployment
  <2> HIDE DEF n, obj
  <2>5. CASE Updatable(n, obj) /\ Write(n, Updated(n, obj)) /\ Goto(w, "status", Updated(n, obj))
    <3>1. Updated(n, obj) # None
      BY <2>3, <2>5, ConstantsAssumption
    <3> QED  BY <1>0, <1>5, <2>1, <2>2, <2>3, <2>5, <3>1 DEF counters
  <2>6. CASE Goto(w, "fail", None) /\ UNCHANGED storeVars
    BY <1>0, <2>1, <2>2, <2>6, GotoIInv DEF counters
  <2> QED  BY <2>4, <2>5, <2>6
<1>9. ASSUME worker[w].pc = "status"
      PROVE  /\ worker[w].pc \in Busy /\ worker[w].dep \in Deployment \cup {None}
             /\ worker[w].item \in Foo
             /\ IsCurrent(worker[w].item, worker[w].foo)
                /\ WriteStatus(worker[w].item, worker[w].dep.available)
                => \E obj \in FooObject \cup {None} : WriteFoo(worker[w].item, obj)
  <2>1. worker[w].item \in Foo /\ worker[w].dep \in Deployment
    BY <1>0, <1>1, <1>9 DEF Sync, IInv, WorkersOK
  <2>2. worker[w].dep.available \in Nat
    BY <2>1 DEF Deployment
  <2>3. IsCurrent(worker[w].item, worker[w].foo) => foo[worker[w].item] # None
    BY DEF IsCurrent
  <2> QED  BY <1>9, <2>1, <2>2, <2>3, StatusTypes DEF Busy
<1>10. CASE UpdateFooStatus(w)
  <2>1. worker[w].pc = "status" /\ UNCHANGED <<storeVars, caches, phase, wq, counters>>
    BY <1>10 DEF UpdateFooStatus
  <2>2. \E pc \in {"ok", "fail"} : Goto(w, pc, worker[w].dep)
    BY <1>10 DEF UpdateFooStatus
  <2>3. UNCHANGED fooVars \/ \E f \in Foo, obj \in FooObject \cup {None} : WriteFoo(f, obj)
    BY <1>9, <1>10, <2>1 DEF UpdateFooStatus
  <2> QED  BY <1>0, <1>9, <2>1, <2>2, <2>3, GotoIInv DEF counters
<1>11. ASSUME failures < MaxFailures, failures' = failures + 1
       PROVE  failures' \in 0..MaxFailures
  BY <1>0, <1>11, ConstantsAssumption
<1>12. CASE CallFails(w)
  <2>1. /\ worker[w].pc \in Busy /\ Goto(w, "fail", None) /\ failures' \in 0..MaxFailures
        /\ UNCHANGED <<fooVars, storeVars, caches, phase, wq, edits, stops>>
    BY <1>11, <1>12 DEF CallFails, Busy
  <2> QED  BY <2>1, GotoIInv
<1>13. CASE AnswerLost(w)
  <2>1. /\ Goto(w, "fail", None) /\ failures' \in 0..MaxFailures
        /\ UNCHANGED <<caches, phase, wq, edits, stops>>
    BY <1>11, <1>13 DEF AnswerLost
  <2> DEFINE n == worker[w].foo.spec.dep
             obj == NewDeployment(worker[w].item, worker[w].foo)
  <2>2. \/ worker[w].pc = "create" /\ Write(n, obj) /\ UNCHANGED fooVars
        \/ worker[w].pc = "update" /\ Updatable(n, obj) /\ Write(n, Updated(n, obj))
           /\ UNCHANGED fooVars
        \/ worker[w].pc = "status" /\ IsCurrent(worker[w].item, worker[w].foo)
           /\ WriteStatus(worker[w].item, worker[w].dep.available) /\ UNCHANGED storeVars
    BY <1>13 DEF AnswerLost
  <2>3. worker[w].pc \in Busy
    BY <2>2 DEF Busy
  <2>4. n \in Name /\ obj \in Deployment /\ (Updatable(n, obj) => Updated(n, obj) \in Deployment)
    BY <2>3, SentTypes
  <2> HIDE DEF n, obj
  <2>5. \/ UNCHANGED fooVars
           /\ \E m \in Name, d \in Deployment \cup {None} : Write(m, d)
        \/ UNCHANGED storeVars
           /\ \E f \in Foo, o \in FooObject \cup {None} : WriteFoo(f, o)
    BY <1>9, <2>2, <2>4
  <2> QED  BY <2>1, <2>3, <2>5, GotoIInv
<1>14. CASE Finish(w)
  <2> DEFINE k == worker[w].item
             q == IF worker[w].pc = "ok" THEN Forget(wq, k) ELSE AddRateLimited(wq, k)
  <2>1. worker[w].pc # "idle" /\ worker' = [worker EXCEPT ![w] = Idle]
    BY <1>14 DEF Finish
  <2>2. k \in Foo /\ k \in wq.processing
    BY <1>1, <2>1
  <2>3. WellFormed(q) /\ q.processing = wq.processing
    BY <1>0, <2>2, ForgetWellFormed, AddRateLimitedWellFormed DEF Foo
  <2>4. wq' = Done(q, k)
    BY <1>14 DEF Finish
  <2> HIDE DEF q
  <2>5. WellFormed(wq') /\ wq'.processing = wq.processing \ {k}
    BY <2>2, <2>3, <2>4, DoneWellFormed
  <2>6. /\ \A v \in Worker \ {w} : worker'[v] = worker[v]
        /\ worker'[w] = Idle /\ worker' \in [Worker -> Sync]
    BY <1>0, <2>1, IdleType
  <2>7. TypeOK'
    BY <1>14, <2>5, <2>6 DEF Finish, IInv, TypeOK, fooVars, storeVars, caches, counters, WellFormed
  <2>8. WorkersOK'
    BY <2>6, IdleType DEF IInv, WorkersOK, Busy
  <2>9. MutualExclusion'
    <3>1. /\ wq.processing = {worker[v].item : v \in Worker} \ {None}
          /\ \A v \in Worker \ {w} : worker[v].item # k
      BY <2>2, ConstantsAssumption DEF IInv, MutualExclusion
    <3>2. wq'.processing = {worker'[v].item : v \in Worker} \ {None}
      BY <2>5, <2>6, <3>1, IdleType
    <3>3. \A u, v \in Worker :
             worker'[u].item = worker'[v].item /\ worker'[u].item # None => u = v
      BY <2>6, IdleType DEF IInv, MutualExclusion
    <3> QED  BY <2>5, <3>2, <3>3 DEF MutualExclusion, WellFormed
  <2> QED  BY <2>7, <2>8, <2>9 DEF IInv
<1> QED  BY <1>2, <1>3, <1>4, <1>6, <1>7, <1>8, <1>10, <1>12, <1>13, <1>14
         DEF ProcessNextWorkItem

\* IInv is inductive.
LEMMA NextIInv == IInv /\ [Next]_vars => IInv'
<1> SUFFICES ASSUME IInv, [Next]_vars PROVE IInv'
  OBVIOUS
<1>1. CASE \E f \in Foo : CreateFoo(f) \/ EditFoo(f) \/ DeleteFoo(f)
  BY <1>1, FooEdits
<1>2. CASE \E n \in Name :
              \/ Scale(n) \/ DeleteDeployment(n) \/ CreateForeign(n) \/ Orphan(n)
              \/ PodsFail(n) \/ Rollout(n) \/ GarbageCollect(n)
  BY <1>2, DeploymentEdits
<1>3. CASE \/ \E f \in Foo : WatchFoo(f) \/ Resync(f) \/ BackoffElapsed(f)
           \/ \E n \in Name : Watch(n)
  BY <1>3, InformerIInv
<1>4. CASE \E w \in Worker : ProcessNextWorkItem(w) \/ CallFails(w) \/ AnswerLost(w)
  BY <1>4, WorkerIInv
<1>5. CASE CachesSynced \/ Signal \/ Exit \/ Start \/ UNCHANGED vars
  BY <1>5, ProcessIInv
<1> QED  BY <1>1, <1>2, <1>3, <1>4, <1>5 DEF Next

\* The variables keep their types whatever users, informers, workers,
\* failures and shutdowns do: in particular syncHandler never uses a Foo or a
\* Deployment it does not have.
THEOREM TypeCorrect == Spec => []TypeOK
<1>1. IInv => TypeOK
  BY DEF IInv
<1> QED  BY <1>1, InitIInv, NextIInv, PTL DEF Spec

\* "We are never processing the same item simultaneously in two different
\* workers" (controller.go:77-80), for any number of workers and Foos.
THEOREM WorkersExclude == Spec => []MutualExclusion
<1>1. IInv => MutualExclusion
  BY DEF IInv
<1> QED  BY <1>1, InitIInv, NextIInv, PTL DEF Spec

\* The status of a Foo is written by a worker that is past the check, for the
\* version of the Foo it read; so the Deployment it tells of is the Foo's own.
LEMMA StatusStep ==
    ASSUME IInv, [Next]_vars, NEW f \in Foo,
           foo[f] # None, foo'[f] # None, foo[f].uid = foo'[f].uid,
           foo[f].status # foo'[f].status
    PROVE  \E w \in Worker : worker[w].item = f /\ worker[w].dep.owner = foo[f].uid
<1>0. foo \in [Foo -> FooObject \cup {None}]
  BY DEF IInv, TypeOK
<1>1. foo' # foo
  OBVIOUS
<1>2. ASSUME NEW w \in Worker, worker[w].pc = "status",
             IsCurrent(worker[w].item, worker[w].foo),
             WriteStatus(worker[w].item, worker[w].dep.available)
      PROVE  worker[w].item = f /\ worker[w].dep.owner = foo[f].uid
  <2>1. foo'[f] # foo[f] => worker[w].item = f
    BY <1>0, <1>2, WorkerHolds DEF WriteStatus, WriteFoo
  <2>2. worker[w].dep.owner = worker[w].foo.uid
    BY <1>2 DEF IInv, WorkersOK
  <2> QED  BY <1>2, <2>1, <2>2 DEF IsCurrent
<1>3. CASE \E w \in Worker : ProcessNextWorkItem(w) \/ CallFails(w) \/ AnswerLost(w)
  <2>1. PICK w \in Worker : ProcessNextWorkItem(w) \/ CallFails(w) \/ AnswerLost(w)
    BY <1>3
  <2>2. CASE UpdateFooStatus(w)
    BY <1>1, <1>2, <2>2 DEF UpdateFooStatus, fooVars
  <2>3. CASE AnswerLost(w)
    BY <1>1, <1>2, <2>3 DEF AnswerLost, fooVars
  <2>4. CASE ~UpdateFooStatus(w) /\ ~AnswerLost(w)
    BY <1>1, <2>1, <2>4 DEF ProcessNextWorkItem, Get, GetFoo, GetDeployment,
       CreateDeployment, Check, UpdateDeployment, Finish, CallFails, fooVars
  <2> QED  BY <2>2, <2>3, <2>4
<1>4. CASE \E g \in Foo : CreateFoo(g) \/ EditFoo(g) \/ DeleteFoo(g)
  <2>1. PICK g \in Foo : CreateFoo(g) \/ EditFoo(g) \/ DeleteFoo(g)
    BY <1>4
  <2>2. PICK obj : foo' = [foo EXCEPT ![g] = obj]
    BY <2>1 DEF CreateFoo, EditFoo, DeleteFoo, WriteFoo
  <2>3. g = f
    BY <1>0, <2>2
  <2>4. EditFoo(f)
    BY <1>0, <2>1, <2>3 DEF CreateFoo, DeleteFoo, WriteFoo
  <2>5. PICK s \in Specs : foo' = [foo EXCEPT ![f] = [foo[f] EXCEPT !.spec = s, !.rv = @ + 1]]
    BY <2>4 DEF EditFoo, WriteFoo
  <2>6. foo[f] \in FooObject
    BY <1>0
  <2>7. foo'[f].status = foo[f].status
    BY <1>0, <2>5, <2>6 DEF FooObject
  <2> QED  BY <2>7
<1>5. CASE \/ \E n \in Name :
                 \/ Scale(n) \/ DeleteDeployment(n) \/ CreateForeign(n) \/ Orphan(n)
                 \/ PodsFail(n) \/ Rollout(n) \/ GarbageCollect(n) \/ Watch(n)
           \/ \E g \in Foo : WatchFoo(g) \/ Resync(g) \/ BackoffElapsed(g)
           \/ CachesSynced \/ Signal \/ Exit \/ Start \/ UNCHANGED vars
  BY <1>1, <1>5 DEF Scale, DeleteDeployment, CreateForeign, Orphan, PodsFail, Rollout,
     GarbageCollect, Watch, WatchFoo, Resync, BackoffElapsed, CachesSynced, Signal, Exit,
     Start, Down, fooVars, vars
<1> QED  BY <1>3, <1>4, <1>5 DEF Next

\* The status of a Foo only ever tells of a Deployment that Foo controls, for
\* any number of Foos, Deployments and workers and however old the caches are.
THEOREM StatusTellsOwn == Spec => StatusIsOwn
<1> DEFINE Step ==
      \A f \in Foo :
          foo[f] # None /\ foo'[f] # None /\ foo[f].uid = foo'[f].uid
          /\ foo[f].status # foo'[f].status
          => \E w \in Worker : worker[w].item = f /\ worker[w].dep.owner = foo[f].uid
<1>1. IInv /\ [Next]_vars => Step
  BY StatusStep
<1>2. IInv /\ [Next]_vars => [Step]_vars
  BY <1>1
<1>3. StatusIsOwn <=> [][Step]_vars
  BY DEF StatusIsOwn
<1> HIDE DEF Step
<1> QED  BY <1>2, <1>3, InitIInv, NextIInv, PTL DEF Spec
-----------------------------------------------------------------------------
(***************************************************************************)
(* A Foo the process is done with is synced, as long as nobody takes an    *)
(* owner reference off a Deployment.                                       *)
(*                                                                         *)
(* The argument: a Foo that is not synced is in the hands of a worker, is  *)
(* queued, or something is on its way that will queue it: a change of the  *)
(* Foo, or a change of its Deployment, which handleObject traces to the    *)
(* Foo by its label.  That the label names the right Foo rests on uids     *)
(* being of one Foo each; that no change of a Deployment is overlooked, on *)
(* owner references that stay.                                             *)
(***************************************************************************)
\* handleObject would look for f when it gets d.
Concerns(f, d) == d # None /\ d.owner # 0 /\ d.label = f

\* The versions of an object: the cached one and the events on their way.
Version(c, q, i) == IF i = 0 THEN c ELSE q[i]

\* A Deployment that concerns a Foo does so until it is gone.
Faithful(c, q) ==
    \A i \in 1..Len(q), f \in Foo :
        Concerns(f, Version(c, q, i - 1)) => q[i] = None \/ Concerns(f, q[i])

\* One of the events will be traced to f.
Mentions(f, c, q) ==
    \E i \in 1..Len(q) :
        Concerns(f, IF q[i] = None THEN Version(c, q, i - 1) ELSE q[i])

Change == Deployment \cup {None}

\* The last version is what the API server has.
LEMMA LastVersion ==
    ASSUME NEW q \in Seq(Change), NEW c, NEW s
    PROVE  Leads(c, q, s) <=> Version(c, q, Len(q)) = s
<1>1. q = <<>> <=> Len(q) = 0
  BY EmptyHasNoElements
<1> QED  BY <1>1 DEF Leads, Version

\* A write is one more event, after the last version.
LEMMA VersionsAppend ==
    ASSUME NEW q \in Seq(Change), NEW c, NEW s, Leads(c, q, s), NEW o \in Change
    PROVE  /\ Append(q, o) \in Seq(Change)
           /\ Len(q) \in Nat /\ Len(Append(q, o)) = Len(q) + 1
           /\ Append(q, o)[Len(q) + 1] = o
           /\ \A i \in 1..Len(q) : Append(q, o)[i] = q[i]
           /\ \A i \in 0..Len(q) : Version(c, Append(q, o), i) = Version(c, q, i)
           /\ Version(c, q, Len(q)) = s
<1>1. /\ Append(q, o) \in Seq(Change)
      /\ Len(q) \in Nat /\ Len(Append(q, o)) = Len(q) + 1
      /\ Append(q, o)[Len(q) + 1] = o
      /\ \A i \in 1..Len(q) : Append(q, o)[i] = q[i]
  OBVIOUS
<1>2. \A i \in 0..Len(q) : Version(c, Append(q, o), i) = Version(c, q, i)
  BY <1>1 DEF Version
<1> QED  BY <1>1, <1>2, LastVersion

\* It leaves what the events mention, ...
LEMMA MentionsAppend ==
    ASSUME NEW q \in Seq(Change), NEW c, NEW s, Leads(c, q, s), NEW o \in Change,
           NEW f, \/ Mentions(f, c, q)
                  \/ Concerns(f, IF o = None THEN s ELSE o)
    PROVE  Mentions(f, c, Append(q, o))
<1> DEFINE p == Append(q, o)
<1>1. /\ Len(q) \in Nat /\ Len(p) = Len(q) + 1 /\ p[Len(q) + 1] = o
      /\ \A i \in 1..Len(q) : p[i] = q[i]
      /\ \A i \in 0..Len(q) : Version(c, p, i) = Version(c, q, i)
      /\ Version(c, q, Len(q)) = s
  BY VersionsAppend
<1> HIDE DEF p
<1>2. CASE Mentions(f, c, q)
  <2>1. PICK i \in 1..Len(q) : Concerns(f, IF q[i] = None THEN Version(c, q, i - 1) ELSE q[i])
    BY <1>2 DEF Mentions
  <2>2. i \in 1..Len(p) /\ i - 1 \in 0..Len(q)
    BY <1>1
  <2>3. Concerns(f, IF p[i] = None THEN Version(c, p, i - 1) ELSE p[i])
    BY <1>1, <2>1, <2>2
  <2>4. Mentions(f, c, p)
    BY <2>2, <2>3 DEF Mentions
  <2> QED  BY <2>4 DEF p
<1>3. CASE Concerns(f, IF o = None THEN s ELSE o)
  <2> DEFINE i == Len(q) + 1
  <2>1. i \in 1..Len(p) /\ i - 1 = Len(q) /\ Len(q) \in 0..Len(q)
    BY <1>1
  <2>2. p[i] = o /\ Version(c, p, i - 1) = s
    BY <1>1, <2>1
  <2> HIDE DEF i
  <2>3. Concerns(f, IF p[i] = None THEN Version(c, p, i - 1) ELSE p[i])
    BY <1>3, <2>2
  <2>4. Mentions(f, c, p)
    BY <2>1, <2>3 DEF Mentions
  <2> QED  BY <2>4 DEF p
<1> QED  BY <1>2, <1>3

\* ... and the versions faithful, if the new one is.
LEMMA FaithfulAppend ==
    ASSUME NEW q \in Seq(Change), NEW c, NEW s, Leads(c, q, s), NEW o \in Change,
           Faithful(c, q), \A f \in Foo : Concerns(f, s) => o = None \/ Concerns(f, o)
    PROVE  Faithful(c, Append(q, o))
<1> DEFINE p == Append(q, o)
<1>1. /\ Len(q) \in Nat /\ Len(p) = Len(q) + 1 /\ p[Len(q) + 1] = o
      /\ \A i \in 1..Len(q) : p[i] = q[i]
      /\ \A i \in 0..Len(q) : Version(c, p, i) = Version(c, q, i)
      /\ Version(c, q, Len(q)) = s
  BY VersionsAppend
<1> HIDE DEF p
<1>2. ASSUME NEW i \in 1..Len(p), NEW f \in Foo, Concerns(f, Version(c, p, i - 1))
      PROVE  p[i] = None \/ Concerns(f, p[i])
  <2>1. i - 1 \in 0..Len(q) /\ Version(c, p, i - 1) = Version(c, q, i - 1)
    BY <1>1
  <2>2. CASE i \in 1..Len(q)
    BY <1>1, <1>2, <2>1, <2>2 DEF Faithful
  <2>3. CASE i = Len(q) + 1
    <3>1. i - 1 = Len(q) /\ p[i] = o
      BY <1>1, <2>3
    <3> QED  BY <1>1, <1>2, <2>1, <3>1
  <2> QED  BY <1>1, <2>2, <2>3
<1>3. Faithful(c, p)
  BY <1>2 DEF Faithful
<1> QED  BY <1>3 DEF p

\* When the first event enters the cache, the others stay.
LEMMA VersionsTail ==
    ASSUME NEW q \in Seq(Change), q # <<>>, NEW c
    PROVE  /\ Len(Tail(q)) = Len(q) - 1 /\ Len(q) \in Nat
           /\ 1 \in 1..Len(q) /\ Head(q) = q[1]
           /\ \A i \in 1..Len(Tail(q)) : /\ i + 1 \in 1..Len(q)
                                         /\ Tail(q)[i] = q[i + 1]
           /\ \A i \in 0..Len(Tail(q)) : Version(Head(q), Tail(q), i) = Version(c, q, i + 1)
<1>1. /\ Head(q) = q[1] /\ Len(Tail(q)) = Len(q) - 1 /\ Len(q) \in Nat /\ Len(q) >= 1
      /\ \A i \in 1..Len(Tail(q)) : Tail(q)[i] = q[i + 1]
  BY TailFacts
<1> QED  BY <1>1 DEF Version

\* What an event mentioned is mentioned still or by the event taken.
LEMMA MentionsTail ==
    ASSUME NEW q \in Seq(Change), q # <<>>, NEW c, NEW f, Mentions(f, c, q)
    PROVE  \/ Concerns(f, IF Head(q) = None THEN c ELSE Head(q))
           \/ Mentions(f, Head(q), Tail(q))
<1>0. /\ Len(Tail(q)) = Len(q) - 1 /\ Len(q) \in Nat /\ Head(q) = q[1]
      /\ \A i \in 1..Len(Tail(q)) : Tail(q)[i] = q[i + 1]
      /\ \A i \in 0..Len(Tail(q)) : Version(Head(q), Tail(q), i) = Version(c, q, i + 1)
  BY VersionsTail
<1>1. PICK i \in 1..Len(q) : Concerns(f, IF q[i] = None THEN Version(c, q, i - 1) ELSE q[i])
  BY DEF Mentions
<1>2. CASE i = 1
  <2>1. i - 1 = 0
    BY <1>2
  <2>2. Version(c, q, i - 1) = c
    BY <2>1 DEF Version
  <2> QED  BY <1>0, <1>1, <1>2, <2>2
<1>3. CASE i # 1
  <2> DEFINE j == i - 1
             t == Tail(q)
  <2>1. j \in 1..Len(t) /\ j - 1 \in 0..Len(t) /\ j + 1 = i /\ (j - 1) + 1 = i - 1
    BY <1>0, <1>3
  <2>2. t[j] = q[i] /\ Version(Head(q), t, j - 1) = Version(c, q, i - 1)
    BY <1>0, <2>1
  <2> HIDE DEF j, t
  <2>3. Mentions(f, Head(q), t)
    BY <1>1, <2>1, <2>2 DEF Mentions
  <2> QED  BY <2>3 DEF t
<1> QED  BY <1>2, <1>3

LEMMA FaithfulTail ==
    ASSUME NEW q \in Seq(Change), q # <<>>, NEW c, Faithful(c, q)
    PROVE  Faithful(Head(q), Tail(q))
<1> DEFINE t == Tail(q)
           h == Head(q)
<1>0. /\ Len(t) = Len(q) - 1 /\ Len(q) \in Nat
      /\ \A i \in 1..Len(t) : i + 1 \in 1..Len(q) /\ t[i] = q[i + 1]
      /\ \A i \in 0..Len(t) : Version(h, t, i) = Version(c, q, i + 1)
  BY VersionsTail
<1> HIDE DEF t, h
<1>1. ASSUME NEW i \in 1..Len(t), NEW f \in Foo, Concerns(f, Version(h, t, i - 1))
      PROVE  t[i] = None \/ Concerns(f, t[i])
  <2>1. i - 1 \in 0..Len(t) /\ (i - 1) + 1 = (i + 1) - 1
    BY <1>0
  <2>2. Version(h, t, i - 1) = Version(c, q, (i + 1) - 1)
    BY <1>0, <2>1
  <2> QED  BY <1>0, <1>1, <2>2 DEF Faithful
<1>2. Faithful(h, t)
  BY <1>1 DEF Faithful
<1> QED  BY <1>2 DEF h, t

\* A cached Deployment that is out of date will be mentioned.
LEMMA BehindIsMentioned ==
    ASSUME NEW q \in Seq(Change), NEW c, NEW s, Leads(c, q, s), Faithful(c, q),
           NEW f \in Foo, Concerns(f, c), c # s
    PROVE  Mentions(f, c, q)
<1>1. q # <<>>
  BY DEF Leads
<1>2. 1 \in 1..Len(q)
  BY <1>1, VersionsTail
<1>3. 1 - 1 = 0 /\ Version(c, q, 0) = c
  BY DEF Version
<1>4. q[1] = None \/ Concerns(f, q[1])
  BY <1>2, <1>3 DEF Faithful
<1>5. Concerns(f, IF q[1] = None THEN Version(c, q, 1 - 1) ELSE q[1])
  BY <1>3, <1>4
<1> QED  BY <1>2, <1>5 DEF Mentions
\* who[uid] is the Foo that got the uid.
FooIs(who, f, obj) == obj # None => who[obj.uid] = f
OwnerIs(who, d) == d # None /\ d.owner # 0 => who[d.owner] = d.label

FoosAre(who) ==
    \A f \in Foo :
        /\ FooIs(who, f, foo[f]) /\ FooIs(who, f, fooCache[f])
        /\ \A i \in 1..Len(fooWatch[f]) : FooIs(who, f, fooWatch[f][i])

OwnersAre(who) ==
    \A n \in Name :
        /\ OwnerIs(who, store[n]) /\ OwnerIs(who, cache[n])
        /\ \A i \in 1..Len(watch[n]) : OwnerIs(who, watch[n][i])

HeldAre(who) ==
    \A w \in Worker :
        /\ worker[w].item # None => FooIs(who, worker[w].item, worker[w].foo)
        /\ OwnerIs(who, worker[w].dep)

\* Every uid that is taken is of one Foo, for everybody.
UidsOK ==
    \E who \in [1..MaxEdits -> Foo \cup {None}] :
        /\ \A uid \in 1..MaxEdits : uid > edits => who[uid] = None
        /\ FoosAre(who) /\ OwnersAre(who) /\ HeldAre(who)

\* What a process that does not run, or is not told to stop, has.
PhaseOK ==
    /\ phase # "stopping" => ~wq.shut
    /\ ~Alive => /\ \A f \in Foo : fooWatch[f] = <<>> /\ fooCache[f] = None
                 /\ \A n \in Name : watch[n] = <<>>
                 /\ \A w \in Worker : worker[w].pc = "idle"

Follows ==
    /\ \A f \in Foo : Leads(fooCache[f], fooWatch[f], foo[f])
    /\ \A n \in Name : Leads(cache[n], watch[n], store[n]) /\ Faithful(cache[n], watch[n])

\* Something will queue f, which names the Deployment n.
FooAsked(f) == fooWatch[f] # <<>> \/ f \in Pending(wq)
Asked(f, n) == FooAsked(f) \/ Mentions(f, cache[n], watch[n])

\* What a worker holds is what the API server has, or it will look again; a
\* Deployment of somebody else will be an error.
FooCurrent(s) == foo[s.item] # None => s.foo = foo[s.item] \/ FooAsked(s.item)
DepCurrent(s) ==
    foo[s.item] # None => s.dep = store[s.foo.spec.dep] \/ Asked(s.item, s.foo.spec.dep)

Current(s) ==
    /\ s.pc \in Busy => FooCurrent(s)
    /\ s.pc \in {"check", "update", "status"} =>
          DepCurrent(s) \/ (s.pc = "check" /\ s.dep.owner # s.foo.uid)
    /\ s.pc = "update" => s.foo.spec.replicas # None
    /\ s.pc = "status" => s.foo.spec.replicas \in {None, s.dep.replicas}

InHand(f) == \E w \in Worker : worker[w].item = f /\ worker[w].pc # "ok"

Settled ==
    \A f \in Foo :
        Valid(f) => Synced(f) \/ Asked(f, foo[f].spec.dep) \/ InHand(f)

Runs == Follows /\ Settled /\ \A w \in Worker : Current(worker[w])

XInv == UidsOK /\ PhaseOK /\ (phase = "running" => Runs)
\* The elements of a sequence after Append.
LEMMA AppendIndex ==
    ASSUME NEW S, NEW q \in Seq(S), NEW o \in S
    PROVE  \A i \in 1..Len(Append(q, o)) :
              Append(q, o)[i] = o \/ (i \in 1..Len(q) /\ Append(q, o)[i] = q[i])
<1> DEFINE p == Append(q, o)
<1>1. /\ Len(p) = Len(q) + 1 /\ Len(q) \in Nat /\ p[Len(q) + 1] = o
      /\ \A i \in 1..Len(q) : p[i] = q[i]
  OBVIOUS
<1> HIDE DEF p
<1>2. \A i \in 1..Len(p) : p[i] = o \/ (i \in 1..Len(q) /\ p[i] = q[i])
  <2> SUFFICES ASSUME NEW i \in 1..Len(p) PROVE p[i] = o \/ (i \in 1..Len(q) /\ p[i] = q[i])
    OBVIOUS
  <2>1. i = Len(q) + 1 \/ i \in 1..Len(q)
    BY <1>1
  <2> QED  BY <1>1, <2>1
<1> QED  BY <1>2 DEF p

\* A write of a Foo with a uid of its own, or of one that keeps it.
LEMMA FoosAreAfterWrite ==
    ASSUME TypeOK, NEW who, FoosAre(who), NEW f \in Foo,
           NEW obj \in FooObject \cup {None}, WriteFoo(f, obj), FooIs(who, f, obj),
           fooCache' = fooCache
    PROVE  FoosAre(who)'
<1>1. foo' = [foo EXCEPT ![f] = obj] /\ foo \in [Foo -> FooObject \cup {None}]
  BY DEF WriteFoo, TypeOK
<1>2. \A g \in Foo : (foo'[g] = obj /\ g = f) \/ foo'[g] = foo[g]
  BY <1>1
<1>3. ASSUME NEW g \in Foo, NEW i \in 1..Len(fooWatch'[g])
      PROVE  FooIs(who, g, fooWatch'[g][i])
  <2>1. fooWatch \in [Foo -> Seq(FooObject \cup {None})]
    BY DEF TypeOK
  <2>2. CASE fooWatch'[g] = fooWatch[g]
    BY <1>3, <2>2 DEF FoosAre
  <2>3. CASE fooWatch'[g] # fooWatch[g]
    <3>1. g = f /\ fooWatch'[g] = Append(fooWatch[g], obj)
      BY <2>1, <2>3 DEF WriteFoo
    <3>2. fooWatch[g] \in Seq(FooObject \cup {None})
      BY <2>1
    <3> DEFINE q == fooWatch[g]
               p == Append(q, obj)
    <3>3. \A j \in 1..Len(p) : p[j] = obj \/ (j \in 1..Len(q) /\ p[j] = q[j])
      BY <3>2, AppendIndex
    <3>4. fooWatch'[g] = p
      BY <3>1
    <3> HIDE DEF p
    <3>5. fooWatch'[g][i] = obj \/ (i \in 1..Len(q) /\ fooWatch'[g][i] = q[i])
      BY <1>3, <3>3, <3>4
    <3> QED  BY <3>1, <3>5 DEF FoosAre
  <2> QED  BY <2>2, <2>3
<1> QED  BY <1>2, <1>3 DEF FoosAre

\* A write of a Deployment whose owner is of the Foo in its label.
LEMMA OwnersAreAfterWrite ==
    ASSUME TypeOK, NEW who, OwnersAre(who), NEW n \in Name,
           NEW obj \in Deployment \cup {None}, Write(n, obj), OwnerIs(who, obj),
           cache' = cache
    PROVE  OwnersAre(who)'
<1>1. store' = [store EXCEPT ![n] = obj] /\ store \in [Name -> Deployment \cup {None}]
  BY DEF Write, TypeOK
<1>2. \A m \in Name : store'[m] = obj \/ store'[m] = store[m]
  BY <1>1
<1>3. ASSUME NEW m \in Name, NEW i \in 1..Len(watch'[m])
      PROVE  OwnerIs(who, watch'[m][i])
  <2>1. watch \in [Name -> Seq(Deployment \cup {None})]
    BY DEF TypeOK
  <2>2. CASE watch'[m] = watch[m]
    BY <1>3, <2>2 DEF OwnersAre
  <2>3. CASE watch'[m] # watch[m]
    <3>1. watch'[m] = Append(watch[m], obj)
      BY <2>1, <2>3 DEF Write
    <3>2. watch[m] \in Seq(Deployment \cup {None})
      BY <2>1
    <3> DEFINE q == watch[m]
               p == Append(q, obj)
    <3>3. \A j \in 1..Len(p) : p[j] = obj \/ (j \in 1..Len(q) /\ p[j] = q[j])
      BY <3>2, AppendIndex
    <3>4. watch'[m] = p
      BY <3>1
    <3> HIDE DEF p
    <3>5. watch'[m][i] = obj \/ (i \in 1..Len(q) /\ watch'[m][i] = q[i])
      BY <1>3, <3>3, <3>4
    <3> QED  BY <3>5 DEF OwnersAre
  <2> QED  BY <2>2, <2>3
<1> QED  BY <1>2, <1>3 DEF OwnersAre

\* A Foo that is created gets a uid nobody knows.
LEMMA CreateFooUids ==
    ASSUME IInv, UidsOK, NEW f \in Foo, CreateFoo(f)
    PROVE  UidsOK'
<1>1. PICK who \in [1..MaxEdits -> Foo \cup {None}] :
         /\ \A uid \in 1..MaxEdits : uid > edits => who[uid] = None
         /\ FoosAre(who) /\ OwnersAre(who) /\ HeldAre(who)
  BY DEF UidsOK
<1>2. PICK new : new = edits + 1
  OBVIOUS
<1>3. new \in 1..MaxEdits /\ edits' = new /\ who[new] = None
  <2>1. edits \in Nat /\ edits < MaxEdits /\ edits' = edits + 1 /\ MaxEdits \in Nat
    BY ConstantsAssumption DEF CreateFoo, UserEdit, IInv, TypeOK
  <2>2. new \in 1..MaxEdits /\ new > edits
    BY <1>2, <2>1
  <2> QED  BY <1>1, <1>2, <2>1, <2>2
<1> DEFINE then == [who EXCEPT ![new] = f]
<1>4. /\ then \in [1..MaxEdits -> Foo \cup {None}] /\ then[new] = f
      /\ \A uid \in 1..MaxEdits : uid # new => then[uid] = who[uid]
  BY <1>3
<1> HIDE DEF then
<1>5. \A uid \in 1..MaxEdits : uid > edits' => then[uid] = None
  <2>1. edits \in Nat /\ edits' = edits + 1
    BY <1>2, <1>3 DEF IInv, TypeOK
  <2>2. \A uid \in 1..MaxEdits : uid > edits' => uid # new /\ uid > edits
    BY <1>3, <2>1
  <2> QED  BY <1>1, <1>4, <2>2
<1>6. None \notin Foo
  BY ConstantsAssumption DEF Foo
<1>7. \A g \in Foo, obj \in FooObject \cup {None} : FooIs(who, g, obj) => FooIs(then, g, obj)
  <2>1. \A obj \in FooObject : obj.uid \in 1..MaxEdits
    BY DEF FooObject
  <2> QED  BY <1>3, <1>4, <1>6, <2>1 DEF FooIs
<1>8. \A d \in Deployment \cup {None} : OwnerIs(who, d) => OwnerIs(then, d)
  <2>1. \A d \in Deployment : d.owner # 0 => d.owner \in 1..MaxEdits /\ d.label # None
    BY ConstantsAssumption DEF Deployment
  <2> QED  BY <1>3, <1>4, <2>1 DEF OwnerIs
<1>9. FoosAre(then)
  <2>1. \A g \in Foo : foo[g] \in FooObject \cup {None} /\ fooCache[g] \in FooObject \cup {None}
                       /\ fooWatch[g] \in Seq(FooObject \cup {None})
    BY DEF IInv, TypeOK
  <2>2. \A g \in Foo : \A i \in 1..Len(fooWatch[g]) : fooWatch[g][i] \in FooObject \cup {None}
    BY <2>1
  <2> QED  BY <1>1, <1>7, <2>1, <2>2 DEF FoosAre
<1>10. OwnersAre(then)
  <2>1. \A n \in Name : store[n] \in Deployment \cup {None} /\ cache[n] \in Deployment \cup {None}
                        /\ watch[n] \in Seq(Deployment \cup {None})
    BY DEF IInv, TypeOK
  <2>2. \A n \in Name : \A i \in 1..Len(watch[n]) : watch[n][i] \in Deployment \cup {None}
    BY <2>1
  <2> QED  BY <1>1, <1>8, <2>1, <2>2 DEF OwnersAre
<1>11. HeldAre(then)
  <2>1. ASSUME NEW w \in Worker
        PROVE  /\ worker[w].item # None => FooIs(then, worker[w].item, worker[w].foo)
               /\ OwnerIs(then, worker[w].dep)
    <3>1. worker[w] \in Sync
      BY DEF IInv, TypeOK
    <3>2. /\ worker[w].foo \in FooObject \cup {None} /\ worker[w].dep \in Deployment \cup {None}
          /\ worker[w].item \in Foo \cup {None}
      BY <3>1 DEF Sync
    <3> QED  BY <1>1, <1>7, <1>8, <3>2 DEF HeldAre
  <2> QED  BY <2>1 DEF HeldAre
<1>12. UNCHANGED storeVars /\ UNCHANGED <<caches, process>>
  BY DEF CreateFoo, UserEdit
<1>13. PICK s \in Specs : WriteFoo(f, [uid |-> edits + 1, rv |-> 1, spec |-> s, status |-> 0])
  BY DEF CreateFoo
<1> DEFINE obj == [uid |-> edits + 1, rv |-> 1, spec |-> s, status |-> 0]
<1>14. obj \in FooObject /\ FooIs(then, f, obj)
  BY <1>2, <1>3, <1>4 DEF FooObject, FooIs
<1>15. WriteFoo(f, obj) /\ TypeOK
  BY <1>13 DEF IInv
<1> HIDE DEF obj
<1>16. FoosAre(then)'
  BY <1>9, <1>12, <1>14, <1>15, FoosAreAfterWrite DEF caches
<1>17. OwnersAre(then)' /\ HeldAre(then)'
  BY <1>10, <1>11, <1>12 DEF OwnersAre, HeldAre, storeVars, caches, process
<1> QED  BY <1>4, <1>5, <1>16, <1>17 DEF UidsOK

\* What a worker's calls write is owned by the Foo it holds.
LEMMA SentOwner ==
    ASSUME IInv, NEW who, HeldAre(who), NEW w \in Worker, worker[w].pc \in Busy
    PROVE  LET obj == NewDeployment(worker[w].item, worker[w].foo)
           IN  OwnerIs(who, obj) /\ \A n \in Name : OwnerIs(who, Updated(n, obj))
<1>1. worker[w].item \in Foo /\ worker[w].foo \in FooObject /\ worker[w].item # None
  BY SentTypes, ConstantsAssumption DEF Foo
<1>2. who[worker[w].foo.uid] = worker[w].item
  BY <1>1, ConstantsAssumption DEF HeldAre, FooIs
<1> DEFINE obj == NewDeployment(worker[w].item, worker[w].foo)
<1>3. obj.owner = worker[w].foo.uid /\ obj.label = worker[w].item
  BY DEF NewDeployment
<1>4. \A n \in Name : Updated(n, obj).owner = obj.owner /\ Updated(n, obj).label = obj.label
  BY DEF Updated, NewDeployment
<1> QED  BY <1>2, <1>3, <1>4 DEF OwnerIs

\* A Foo keeps its uid.
LEMMA FoosStayAs ==
    ASSUME IInv, [Next]_vars, \A f \in Foo : ~CreateFoo(f),
           NEW who, FoosAre(who)
    PROVE  FoosAre(who)'
<1>0. TypeOK /\ foo \in [Foo -> FooObject \cup {None}]
  BY DEF IInv, TypeOK
<1>1. CASE UNCHANGED <<foo, fooWatch, fooCache>>
  BY <1>1 DEF FoosAre
<1>2. ASSUME NEW f \in Foo, NEW obj \in FooObject \cup {None}, WriteFoo(f, obj),
             fooCache' = fooCache, obj # None => foo[f] # None /\ obj.uid = foo[f].uid
      PROVE  FoosAre(who)'
  <2>1. FooIs(who, f, obj)
    BY <1>2 DEF FoosAre, FooIs
  <2> QED  BY <1>0, <1>2, <2>1, FoosAreAfterWrite
<1>3. ASSUME NEW f \in Foo, EditFoo(f) \/ DeleteFoo(f)
      PROVE  FoosAre(who)'
  <2>1. fooCache' = fooCache
    BY <1>3 DEF EditFoo, DeleteFoo, UserEdit, caches
  <2>2. CASE EditFoo(f)
    <3>1. PICK s \in Specs : WriteFoo(f, [foo[f] EXCEPT !.spec = s, !.rv = @ + 1])
      BY <2>2 DEF EditFoo
    <3>2. foo[f] \in FooObject /\ foo[f] # None /\ foo[f].rv \in Nat
      BY <1>0, <2>2 DEF EditFoo, FooObject
    <3>3. foo[f].rv + 1 \in Nat
      BY <3>2
    <3>4. /\ [foo[f] EXCEPT !.spec = s, !.rv = foo[f].rv + 1] \in FooObject
          /\ [foo[f] EXCEPT !.spec = s, !.rv = foo[f].rv + 1].uid = foo[f].uid
      BY <3>2, <3>3 DEF FooObject
    <3> QED  BY <1>2, <2>1, <3>1, <3>2, <3>4
  <2>3. CASE DeleteFoo(f)
    BY <1>2, <2>1, <2>3 DEF DeleteFoo
  <2> QED  BY <1>3, <2>2, <2>3
<1>4. ASSUME NEW w \in Worker, worker[w].pc = "status", IsCurrent(worker[w].item, worker[w].foo),
             WriteStatus(worker[w].item, worker[w].dep.available), fooCache' = fooCache
      PROVE  FoosAre(who)'
  <2> DEFINE f == worker[w].item
             n == worker[w].dep.available
  <2>1. f \in Foo /\ worker[w].dep \in Deployment
    BY <1>4, WorkerHolds DEF IInv, TypeOK, WorkersOK, Sync
  <2>2. n \in Nat
    BY <2>1 DEF Deployment
  <2>3. foo[f] \in FooObject /\ foo[f] # None /\ foo[f].rv \in Nat
    BY <1>0, <1>4, <2>1 DEF IsCurrent, FooObject
  <2>4. foo[f].rv + 1 \in Nat
    BY <2>3
  <2>5. /\ [foo[f] EXCEPT !.status = n, !.rv = foo[f].rv + 1] \in FooObject
        /\ [foo[f] EXCEPT !.status = n, !.rv = foo[f].rv + 1].uid = foo[f].uid
    BY <2>2, <2>3, <2>4 DEF FooObject
  <2>6. WriteStatus(f, n)
    BY <1>4
  <2> HIDE DEF f, n
  <2> QED  BY <1>2, <1>4, <2>1, <2>3, <2>5, <2>6 DEF WriteStatus
<1>5. ASSUME NEW f \in Foo, WatchFoo(f)
      PROVE  FoosAre(who)'
  <2>1. /\ foo' = foo /\ fooWatch[f] \in Seq(FooObject \cup {None}) /\ fooWatch[f] # <<>>
        /\ fooCache' = [fooCache EXCEPT ![f] = Head(fooWatch[f])]
        /\ fooWatch' = [fooWatch EXCEPT ![f] = Tail(fooWatch[f])]
        /\ fooCache \in [Foo -> FooObject \cup {None}]
        /\ fooWatch \in [Foo -> Seq(FooObject \cup {None})]
    BY <1>5 DEF WatchFoo, IInv, TypeOK
  <2>2. /\ Head(fooWatch[f]) = fooWatch[f][1] /\ 1 \in 1..Len(fooWatch[f])
        /\ \A i \in 1..Len(Tail(fooWatch[f])) :
              i + 1 \in 1..Len(fooWatch[f]) /\ Tail(fooWatch[f])[i] = fooWatch[f][i + 1]
    BY <2>1, TailFacts
  <2>3. \A g \in Foo : /\ fooCache'[g] = IF g = f THEN Head(fooWatch[f]) ELSE fooCache[g]
                       /\ fooWatch'[g] = IF g = f THEN Tail(fooWatch[f]) ELSE fooWatch[g]
    BY <2>1
  <2>4. FooIs(who, f, Head(fooWatch[f]))
        /\ \A i \in 1..Len(Tail(fooWatch[f])) : FooIs(who, f, Tail(fooWatch[f])[i])
    BY <2>2 DEF FoosAre
  <2>5. ASSUME NEW g \in Foo
        PROVE  /\ FooIs(who, g, fooCache'[g])
               /\ \A i \in 1..Len(fooWatch'[g]) : FooIs(who, g, fooWatch'[g][i])
    <3>1. CASE g = f
      BY <2>3, <2>4, <3>1
    <3>2. CASE g # f
      <4>1. fooCache'[g] = fooCache[g] /\ fooWatch'[g] = fooWatch[g]
        BY <2>3, <3>2
      <4> QED  BY <4>1 DEF FoosAre
    <3> QED  BY <3>1, <3>2
  <2>6. \A g \in Foo : FooIs(who, g, foo'[g])
    BY <2>1 DEF FoosAre
  <2> QED  BY <2>5, <2>6 DEF FoosAre
<1>6. CASE CachesSynced
  <2>1. /\ foo' = foo /\ fooCache' = fooCache
        /\ \A f \in Foo : fooWatch'[f] = IF foo[f] = None THEN <<>> ELSE <<foo[f]>>
    BY <1>6 DEF CachesSynced
  <2>2. \A f \in Foo : \A i \in 1..Len(fooWatch'[f]) : fooWatch'[f][i] = foo[f]
    <3> SUFFICES ASSUME NEW f \in Foo
                 PROVE  \A i \in 1..Len(fooWatch'[f]) : fooWatch'[f][i] = foo[f]
      OBVIOUS
    <3>1. CASE fooWatch'[f] = <<>>
      BY <3>1
    <3>2. CASE fooWatch'[f] = <<foo[f]>>
      BY <3>2
    <3> QED  BY <2>1, <3>1, <3>2
  <2> QED  BY <2>1, <2>2 DEF FoosAre
<1>7. CASE Down
  <2>1. foo' = foo /\ \A f \in Foo : fooCache'[f] = None /\ fooWatch'[f] = <<>>
    BY <1>7 DEF Down
  <2> QED  BY <2>1 DEF FoosAre, FooIs
<1>8. CASE \E w \in Worker : ProcessNextWorkItem(w) \/ CallFails(w) \/ AnswerLost(w)
  <2>1. PICK w \in Worker : ProcessNextWorkItem(w) \/ CallFails(w) \/ AnswerLost(w)
    BY <1>8
  <2>2. fooCache' = fooCache
    BY <2>1 DEF ProcessNextWorkItem, Get, GetFoo, GetDeployment, CreateDeployment, Check,
       UpdateDeployment, UpdateFooStatus, Finish, CallFails, AnswerLost, caches
  <2>3. \/ UNCHANGED fooVars
        \/ /\ worker[w].pc = "status" /\ IsCurrent(worker[w].item, worker[w].foo)
           /\ WriteStatus(worker[w].item, worker[w].dep.available)
    BY <2>1 DEF ProcessNextWorkItem, Get, GetFoo, GetDeployment, CreateDeployment, Check,
       UpdateDeployment, UpdateFooStatus, Finish, CallFails, AnswerLost
  <2> QED  BY <1>1, <1>4, <2>2, <2>3 DEF fooVars
<1>9. CASE \/ \E n \in Name :
                 \/ Scale(n) \/ DeleteDeployment(n) \/ CreateForeign(n) \/ Orphan(n)
                 \/ PodsFail(n) \/ Rollout(n) \/ GarbageCollect(n) \/ Watch(n)
           \/ \E f \in Foo : Resync(f) \/ BackoffElapsed(f)
           \/ (Signal /\ ~Down) \/ Start \/ UNCHANGED vars
  BY <1>1, <1>9 DEF Scale, DeleteDeployment, CreateForeign, Orphan, PodsFail, Rollout,
     GarbageCollect, Watch, Resync, BackoffElapsed, Signal, Start, UserEdit, fooVars, caches,
     vars
<1> QED  BY <1>3, <1>5, <1>6, <1>7, <1>8, <1>9 DEF Next, Exit

\* A Deployment is written with its owner and label, with neither, or by a
\* worker.
LEMMA OwnersStayAs ==
    ASSUME IInv, [Next]_vars, NEW who, OwnersAre(who), HeldAre(who)
    PROVE  OwnersAre(who)'
<1>0. TypeOK /\ store \in [Name -> Deployment \cup {None}]
  BY DEF IInv, TypeOK
<1>1. CASE UNCHANGED <<store, watch, cache>>
  BY <1>1 DEF OwnersAre
<1>2. ASSUME NEW n \in Name, NEW obj \in Deployment \cup {None}, Write(n, obj),
             cache' = cache, OwnerIs(who, obj)
      PROVE  OwnersAre(who)'
  BY <1>0, <1>2, OwnersAreAfterWrite
<1>3. ASSUME NEW n \in Name, NEW obj, Write(n, obj), cache' = cache,
             store[n] \in Deployment => /\ obj \in Deployment /\ obj.label = store[n].label
                                        /\ obj.owner \in {0, store[n].owner},
             store[n] # None
      PROVE  OwnersAre(who)'
  <2>1. store[n] \in Deployment /\ OwnerIs(who, store[n])
    BY <1>0, <1>3 DEF OwnersAre
  <2>2. obj \in Deployment /\ OwnerIs(who, obj)
    BY <1>3, <2>1, ConstantsAssumption DEF OwnerIs
  <2> QED  BY <1>2, <1>3, <2>2
<1>4. ASSUME NEW n \in Name,
             \/ Scale(n) \/ DeleteDeployment(n) \/ CreateForeign(n) \/ Orphan(n)
             \/ PodsFail(n) \/ Rollout(n) \/ GarbageCollect(n)
      PROVE  OwnersAre(who)'
  <2>1. cache' = cache
    BY <1>4 DEF Scale, DeleteDeployment, CreateForeign, Orphan, PodsFail, Rollout,
       GarbageCollect, UserEdit, caches
  <2>2. CASE Scale(n)
    <3>1. PICK s \in Specs : s.replicas # None
                             /\ Write(n, [store[n] EXCEPT !.replicas = s.replicas])
      BY <2>2 DEF Scale
    <3>2. s.replicas \in Nat
      BY <3>1, ConstantsAssumption DEF FooSpec
    <3> DEFINE obj == [store[n] EXCEPT !.replicas = s.replicas]
    <3>3. store[n] \in Deployment => /\ obj \in Deployment /\ obj.label = store[n].label
                                     /\ obj.owner = store[n].owner
      BY <3>2 DEF Deployment
    <3> HIDE DEF obj
    <3> QED  BY <1>3, <2>1, <2>2, <3>1, <3>3 DEF Scale, obj
  <2>3. CASE DeleteDeployment(n) \/ GarbageCollect(n)
    BY <1>2, <2>1, <2>3 DEF DeleteDeployment, GarbageCollect, OwnerIs
  <2>4. CASE CreateForeign(n)
    <3> DEFINE obj == [owner |-> 0, label |-> None, replicas |-> 1, available |-> 0]
    <3>1. obj \in Deployment /\ OwnerIs(who, obj)
      BY ConstantsAssumption DEF Deployment, OwnerIs
    <3>2. Write(n, obj)
      BY <2>4 DEF CreateForeign
    <3> HIDE DEF obj
    <3> QED  BY <1>2, <2>1, <3>1, <3>2
  <2>5. CASE Orphan(n)
    <3> DEFINE obj == [store[n] EXCEPT !.owner = 0]
    <3>1. store[n] \in Deployment => /\ obj \in Deployment /\ obj.label = store[n].label
                                     /\ obj.owner = 0
      BY ConstantsAssumption DEF Deployment
    <3>2. Write(n, obj) /\ store[n] # None
      BY <2>5 DEF Orphan
    <3> HIDE DEF obj
    <3> QED  BY <1>3, <2>1, <3>1, <3>2
  <2>6. CASE PodsFail(n) \/ Rollout(n)
    <3>1. PICK m : /\ store[n] \in Deployment => m \in Nat
                   /\ Write(n, [store[n] EXCEPT !.available = m]) /\ store[n] # None
      BY <2>6 DEF PodsFail, Rollout, Deployment
    <3> DEFINE obj == [store[n] EXCEPT !.available = m]
    <3>2. store[n] \in Deployment => /\ obj \in Deployment /\ obj.label = store[n].label
                                     /\ obj.owner = store[n].owner
      BY <3>1 DEF Deployment
    <3> HIDE DEF obj
    <3> QED  BY <1>3, <2>1, <3>1, <3>2 DEF obj
  <2> QED  BY <1>4, <2>2, <2>3, <2>4, <2>5, <2>6
<1>5. ASSUME NEW n \in Name, Watch(n)
      PROVE  OwnersAre(who)'
  <2>1. /\ store' = store /\ watch[n] \in Seq(Change) /\ watch[n] # <<>>
        /\ cache' = [cache EXCEPT ![n] = Head(watch[n])]
        /\ watch' = [watch EXCEPT ![n] = Tail(watch[n])]
        /\ cache \in [Name -> Change] /\ watch \in [Name -> Seq(Change)]
    BY <1>5 DEF Watch, IInv, TypeOK, Change
  <2>2. /\ Head(watch[n]) = watch[n][1] /\ 1 \in 1..Len(watch[n])
        /\ \A i \in 1..Len(Tail(watch[n])) :
              i + 1 \in 1..Len(watch[n]) /\ Tail(watch[n])[i] = watch[n][i + 1]
    BY <2>1, VersionsTail
  <2>3. OwnerIs(who, Head(watch[n]))
        /\ \A i \in 1..Len(Tail(watch[n])) : OwnerIs(who, Tail(watch[n])[i])
    BY <2>2 DEF OwnersAre
  <2>4. ASSUME NEW m \in Name
        PROVE  /\ OwnerIs(who, cache'[m])
               /\ \A i \in 1..Len(watch'[m]) : OwnerIs(who, watch'[m][i])
    <3>1. CASE m = n
      BY <2>1, <2>3, <3>1
    <3>2. CASE m # n
      <4>1. cache'[m] = cache[m] /\ watch'[m] = watch[m]
        BY <2>1, <3>2
      <4> QED  BY <4>1 DEF OwnersAre
    <3> QED  BY <3>1, <3>2
  <2>5. \A m \in Name : OwnerIs(who, store'[m])
    BY <2>1 DEF OwnersAre
  <2> QED  BY <2>4, <2>5 DEF OwnersAre
<1>6. CASE CachesSynced
  BY <1>6 DEF CachesSynced, storeVars, OwnersAre
<1>7. CASE Down
  <2>1. store' = store /\ \A n \in Name : cache'[n] = None /\ watch'[n] = <<>>
    BY <1>7 DEF Down
  <2> QED  BY <2>1 DEF OwnersAre, OwnerIs
<1>8. CASE \E w \in Worker : ProcessNextWorkItem(w) \/ CallFails(w) \/ AnswerLost(w)
  <2>1. PICK w \in Worker : ProcessNextWorkItem(w) \/ CallFails(w) \/ AnswerLost(w)
    BY <1>8
  <2>2. cache' = cache
    BY <2>1 DEF ProcessNextWorkItem, Get, GetFoo, GetDeployment, CreateDeployment, Check,
       UpdateDeployment, UpdateFooStatus, Finish, CallFails, AnswerLost, caches
  <2> DEFINE n == worker[w].foo.spec.dep
             obj == NewDeployment(worker[w].item, worker[w].foo)
  <2>3. \/ UNCHANGED storeVars
        \/ worker[w].pc \in Busy /\ Write(n, obj)
        \/ worker[w].pc \in Busy /\ Updatable(n, obj) /\ Write(n, Updated(n, obj))
    BY <2>1 DEF ProcessNextWorkItem, Get, GetFoo, GetDeployment, CreateDeployment, Check,
       UpdateDeployment, UpdateFooStatus, Finish, CallFails, AnswerLost, Busy
  <2>4. CASE worker[w].pc \in Busy
    <3>1. n \in Name /\ obj \in Deployment
          /\ (Updatable(n, obj) => Updated(n, obj) \in Deployment)
      BY <2>4, SentTypes
    <3>2. OwnerIs(who, obj) /\ OwnerIs(who, Updated(n, obj))
      BY <2>4, <3>1, SentOwner
    <3> HIDE DEF n, obj
    <3> QED  BY <1>1, <1>2, <2>2, <2>3, <3>1, <3>2 DEF storeVars
  <2> QED  BY <1>1, <2>2, <2>3, <2>4 DEF storeVars
<1>9. CASE \/ \E f \in Foo : \/ CreateFoo(f) \/ EditFoo(f) \/ DeleteFoo(f)
                             \/ WatchFoo(f) \/ Resync(f) \/ BackoffElapsed(f)
           \/ (Signal /\ ~Down) \/ Start \/ UNCHANGED vars
  BY <1>1, <1>9 DEF CreateFoo, EditFoo, DeleteFoo, WatchFoo, Resync, BackoffElapsed, Signal,
     Start, UserEdit, storeVars, caches, vars
<1> QED  BY <1>4, <1>5, <1>6, <1>7, <1>8, <1>9 DEF Next, Exit

\* A worker gets its Foo and its Deployment from the caches, or makes one.
LEMMA HeldStayAs ==
    ASSUME IInv, [Next]_vars, NEW who, FoosAre(who), OwnersAre(who), HeldAre(who)
    PROVE  HeldAre(who)'
<1>0. worker \in [Worker -> Sync]
  BY DEF IInv, TypeOK
<1>1. ASSUME NEW w \in Worker, NEW s, worker' = [worker EXCEPT ![w] = s],
             s.item # None => FooIs(who, s.item, s.foo), OwnerIs(who, s.dep)
      PROVE  HeldAre(who)'
  BY <1>0, <1>1 DEF HeldAre
<1>2. Idle.item = None /\ Idle.foo = None /\ Idle.dep = None
  BY DEF Idle
<1>3. ASSUME NEW w \in Worker, NEW pc, NEW dep, Goto(w, pc, dep), OwnerIs(who, dep)
      PROVE  HeldAre(who)'
  <2> DEFINE s == [worker[w] EXCEPT !.pc = pc, !.dep = dep]
  <2>1. worker' = [worker EXCEPT ![w] = s]
    BY <1>0, <1>3 DEF Goto, Sync
  <2>2. s.item = worker[w].item /\ s.foo = worker[w].foo /\ s.dep = dep
    BY <1>0 DEF Sync
  <2> HIDE DEF s
  <2> QED  BY <1>1, <1>3, <2>1, <2>2 DEF HeldAre
<1>4. OwnerIs(who, None)
  BY DEF OwnerIs
<1>5. CASE \E w \in Worker : ProcessNextWorkItem(w) \/ CallFails(w) \/ AnswerLost(w)
  <2>1. PICK w \in Worker : ProcessNextWorkItem(w) \/ CallFails(w) \/ AnswerLost(w)
    BY <1>5
  <2>2. worker[w] \in Sync /\ OwnerIs(who, worker[w].dep)
    BY <1>0 DEF HeldAre
  <2>3. CASE Get(w)
    <3> DEFINE s == [Idle EXCEPT !.pc = "foo", !.item = Head(wq.queue)]
    <3>1. worker' = [worker EXCEPT ![w] = s] /\ s.foo = None /\ s.dep = None
      BY <2>3 DEF Get, Idle
    <3> HIDE DEF s
    <3> QED  BY <1>1, <1>4, <3>1 DEF FooIs
  <2>4. CASE GetFoo(w)
    <3> DEFINE f == fooCache[worker[w].item]
               pc == IF f = None \/ f.spec.dep = None THEN "ok" ELSE "dep"
               s == [worker[w] EXCEPT !.foo = f, !.pc = pc]
    <3>1. worker[w].item \in Foo
      BY <2>4, WorkerHolds DEF GetFoo
    <3>2. worker' = [worker EXCEPT ![w] = s]
      BY <2>2, <2>4 DEF GetFoo
    <3>3. FooIs(who, worker[w].item, f)
      BY <3>1 DEF FoosAre
    <3> HIDE DEF f, pc
    <3>4. s.foo = f /\ s.item = worker[w].item /\ s.dep = worker[w].dep
      BY <2>2 DEF Sync
    <3> HIDE DEF s
    <3> QED  BY <1>1, <2>2, <3>2, <3>3, <3>4
  <2>5. CASE Finish(w)
    BY <1>1, <1>2, <1>4, <2>5 DEF Finish, FooIs
  <2>6. CASE /\ worker[w].pc \in Busy
             /\ \/ GetDeployment(w) \/ CreateDeployment(w) \/ Check(w) \/ UpdateDeployment(w)
                \/ UpdateFooStatus(w) \/ CallFails(w) \/ AnswerLost(w)
    <3> DEFINE n == worker[w].foo.spec.dep
               obj == NewDeployment(worker[w].item, worker[w].foo)
    <3>1. n \in Name
      BY <2>6, SentTypes
    <3>2. OwnerIs(who, cache[n]) /\ OwnerIs(who, obj) /\ OwnerIs(who, Updated(n, obj))
      BY <2>6, <3>1, SentOwner DEF OwnersAre
    <3>3. \E pc, dep : /\ Goto(w, pc, dep)
                       /\ dep \in {None, worker[w].dep, cache[n], obj, Updated(n, obj)}
      BY <2>6 DEF GetDeployment, CreateDeployment, Check, UpdateDeployment, UpdateFooStatus,
         CallFails, AnswerLost
    <3> HIDE DEF n, obj
    <3> QED  BY <1>3, <1>4, <2>2, <3>2, <3>3
  <2>7. GetFoo(w) \/ Get(w) \/ Finish(w) \/ worker[w].pc \in Busy
    BY <2>1 DEF ProcessNextWorkItem, GetDeployment, CreateDeployment, Check, UpdateDeployment,
       UpdateFooStatus, CallFails, AnswerLost, Busy
  <2> QED  BY <2>1, <2>3, <2>4, <2>5, <2>6, <2>7 DEF ProcessNextWorkItem
<1>6. CASE Down
  <2>1. \A w \in Worker : worker'[w] = Idle
    BY <1>6 DEF Down
  <2> QED  BY <1>2, <1>4, <2>1 DEF HeldAre
<1>7. CASE worker' = worker
  BY <1>7 DEF HeldAre
<1>8. CASE \/ \E f \in Foo : \/ CreateFoo(f) \/ EditFoo(f) \/ DeleteFoo(f)
                             \/ WatchFoo(f) \/ Resync(f) \/ BackoffElapsed(f)
           \/ \E n \in Name :
                 \/ Scale(n) \/ DeleteDeployment(n) \/ CreateForeign(n) \/ Orphan(n)
                 \/ PodsFail(n) \/ Rollout(n) \/ GarbageCollect(n) \/ Watch(n)
           \/ CachesSynced \/ (Signal /\ ~Down) \/ Start \/ UNCHANGED vars
  BY <1>7, <1>8 DEF CreateFoo, EditFoo, DeleteFoo, WatchFoo, Resync, BackoffElapsed, Scale,
     DeleteDeployment, CreateForeign, Orphan, PodsFail, Rollout, GarbageCollect, Watch,
     CachesSynced, Signal, Start, UserEdit, process, vars
<1> QED  BY <1>5, <1>6, <1>8 DEF Next, Exit

\* Nobody ever gives a uid to a second Foo.
LEMMA NextUids == IInv /\ UidsOK /\ [Next]_vars => UidsOK'
<1> SUFFICES ASSUME IInv, UidsOK, [Next]_vars PROVE UidsOK'
  OBVIOUS
<1>1. CASE \E f \in Foo : CreateFoo(f)
  BY <1>1, CreateFooUids
<1>2. CASE \A f \in Foo : ~CreateFoo(f)
  <2>1. PICK who \in [1..MaxEdits -> Foo \cup {None}] :
           /\ \A uid \in 1..MaxEdits : uid > edits => who[uid] = None
           /\ FoosAre(who) /\ OwnersAre(who) /\ HeldAre(who)
    BY DEF UidsOK
  <2>2. FoosAre(who)' /\ OwnersAre(who)' /\ HeldAre(who)'
    BY <1>2, <2>1, FoosStayAs, OwnersStayAs, HeldStayAs
  <2>3. edits \in Nat /\ (edits' = edits \/ edits' = edits + 1)
    <3>0. edits \in Nat
      BY DEF IInv, TypeOK
    <3>1. CASE \/ \E f \in Foo : EditFoo(f) \/ DeleteFoo(f)
               \/ \E n \in Name : \/ Scale(n) \/ DeleteDeployment(n) \/ CreateForeign(n)
                                  \/ Orphan(n) \/ PodsFail(n)
      BY <3>0, <3>1 DEF EditFoo, DeleteFoo, Scale, DeleteDeployment, CreateForeign, Orphan,
         PodsFail, UserEdit
    <3>2. CASE \/ \E f \in Foo : WatchFoo(f) \/ Resync(f) \/ BackoffElapsed(f)
               \/ \E n \in Name : Rollout(n) \/ GarbageCollect(n) \/ Watch(n)
               \/ CachesSynced \/ Signal \/ Exit \/ Start \/ UNCHANGED vars
      BY <3>0, <3>2 DEF WatchFoo, Resync, BackoffElapsed, Rollout, GarbageCollect, Watch,
         CachesSynced, Signal, Exit, Start, counters, vars
    <3>3. CASE \E w \in Worker : ProcessNextWorkItem(w) \/ CallFails(w) \/ AnswerLost(w)
      BY <3>0, <3>3 DEF ProcessNextWorkItem, Get, GetFoo, GetDeployment, CreateDeployment,
         Check, UpdateDeployment, UpdateFooStatus, Finish, CallFails, AnswerLost, counters
    <3> QED  BY <1>2, <3>1, <3>2, <3>3 DEF Next
  <2>4. \A uid \in 1..MaxEdits : uid > edits' => who[uid] = None
    <3>1. \A uid \in 1..MaxEdits : uid > edits' => uid > edits
      BY <2>3, ConstantsAssumption
    <3> QED  BY <2>1, <3>1
  <2> QED  BY <2>1, <2>2, <2>4 DEF UidsOK
<1> QED  BY <1>1, <1>2
-----------------------------------------------------------------------------
\* A uid tells whom a Deployment concerns.
LEMMA OwnerConcerns ==
    ASSUME IInv, UidsOK
    PROVE  /\ \A f \in Foo, n \in Name :
                 foo[f] # None /\ store[n] # None /\ store[n].owner = foo[f].uid
                 => Concerns(f, store[n])
           /\ \A w \in Worker, n \in Name :
                 worker[w].pc \in Busy /\ cache[n] # None /\ cache[n].owner = worker[w].foo.uid
                 => Concerns(worker[w].item, cache[n])
           /\ \A w \in Worker :
                 /\ worker[w].pc \in Busy /\ worker[w].dep # None
                 /\ worker[w].dep.owner = worker[w].foo.uid
                 => Concerns(worker[w].item, worker[w].dep)
<1>1. PICK who \in [1..MaxEdits -> Foo \cup {None}] :
         FoosAre(who) /\ OwnersAre(who) /\ HeldAre(who)
  BY DEF UidsOK
<1>2. \A obj \in FooObject : obj.uid # 0
  BY DEF FooObject
<1>3. ASSUME NEW f \in Foo, NEW obj \in FooObject, FooIs(who, f, obj), obj # None,
             NEW d, OwnerIs(who, d), d # None, d.owner = obj.uid
      PROVE  Concerns(f, d)
  BY <1>2, <1>3 DEF FooIs, OwnerIs, Concerns
<1>4. ASSUME NEW f \in Foo, NEW n \in Name, foo[f] # None, store[n] # None,
             store[n].owner = foo[f].uid
      PROVE  Concerns(f, store[n])
  <2>1. foo[f] \in FooObject
    BY <1>4 DEF IInv, TypeOK
  <2> QED  BY <1>1, <1>3, <1>4, <2>1 DEF FoosAre, OwnersAre
<1>5. ASSUME NEW w \in Worker, worker[w].pc \in Busy
      PROVE  /\ worker[w].item \in Foo /\ worker[w].foo \in FooObject /\ worker[w].foo # None
             /\ FooIs(who, worker[w].item, worker[w].foo) /\ OwnerIs(who, worker[w].dep)
  <2>1. worker[w].item \in Foo /\ worker[w].foo \in FooObject
    BY <1>5, SentTypes
  <2> QED  BY <1>1, <2>1, ConstantsAssumption DEF HeldAre, Foo
<1>6. \A n \in Name : OwnerIs(who, cache[n])
  BY <1>1 DEF OwnersAre
<1> QED  BY <1>3, <1>4, <1>5, <1>6

\* What a step may do to f while the process runs: whatever asked for it does
\* so still, and a change of the Foo or of a Deployment that concerns it asks.
Attentive(f) ==
    foo'[f] # None =>
        /\ FooAsked(f) => FooAsked(f)'
        /\ foo'[f] # foo[f] => FooAsked(f)'
        /\ \A n \in Name : Asked(f, n) => Asked(f, n)'
        /\ \A n \in Name : Concerns(f, store[n]) /\ store'[n] # store[n] => Asked(f, n)'

\* Then a Foo that a worker holds stays current, ...
LEMMA FooStays ==
    ASSUME NEW s, s.item \in Foo, FooCurrent(s), Attentive(s.item)
    PROVE  FooCurrent(s)'
  BY DEF FooCurrent, Attentive

\* ... and so does its Deployment.
LEMMA DepStays ==
    ASSUME NEW s, s.item \in Foo, s.foo.spec.dep \in Name, DepCurrent(s), Attentive(s.item),
           Concerns(s.item, s.dep)
    PROVE  DepCurrent(s)'
<1> DEFINE f == s.item
           n == s.foo.spec.dep
<1> SUFFICES ASSUME foo'[f] # None PROVE s.dep = store'[n] \/ Asked(f, n)'
  BY DEF DepCurrent
<1>1. CASE foo'[f] # foo[f]
  BY <1>1 DEF Attentive, Asked
<1>2. CASE foo'[f] = foo[f]
  <2>1. s.dep = store[n] \/ Asked(f, n)
    BY <1>2 DEF DepCurrent
  <2> QED  BY <2>1 DEF Attentive
<1> QED  BY <1>1, <1>2

\* A worker that does nothing stays current.
LEMMA WorkerStays ==
    ASSUME IInv, UidsOK, NEW w \in Worker, Current(worker[w]), worker'[w] = worker[w],
           worker[w].pc # "idle" => Attentive(worker[w].item)
    PROVE  Current(worker[w])'
<1>1. PICK s : s = worker[w]
  OBVIOUS
<1>2. worker'[w] = s /\ Current(s)
  BY <1>1
<1>3. s.pc \in Busy => /\ s.item \in Foo /\ s.foo.spec.dep \in Name /\ Attentive(s.item)
                       /\ s.dep # None /\ s.dep.owner = s.foo.uid => Concerns(s.item, s.dep)
  BY <1>1, SentTypes, OwnerConcerns DEF Busy
<1>4. s.pc \in {"check", "update", "status"} => s.dep # None
  BY <1>1 DEF IInv, WorkersOK
<1>5. s.pc \in {"update", "status"} => s.dep.owner = s.foo.uid
  BY <1>1 DEF IInv, WorkersOK
<1>6. s.pc \in Busy => FooCurrent(s)'
  BY <1>2, <1>3, FooStays DEF Current
<1>7. s.pc \in {"check", "update", "status"} =>
         DepCurrent(s)' \/ (s.pc = "check" /\ s.dep.owner # s.foo.uid)
  BY <1>2, <1>3, <1>4, <1>5, DepStays DEF Current, Busy
<1>8. Current(s)'
  BY <1>2, <1>6, <1>7 DEF Current
<1> QED  BY <1>2, <1>8

\* A Foo that is settled without the help of a worker stays so.
LEMMA SettledStays ==
    ASSUME IInv, UidsOK, NEW f \in Foo, Attentive(f),
           Valid(f) => Synced(f) \/ Asked(f, foo[f].spec.dep), Valid(f)'
    PROVE  Synced(f)' \/ Asked(f, foo[f].spec.dep)'
<1>1. CASE foo'[f] # foo[f]
  BY <1>1 DEF Attentive, Asked, Valid
<1>2. CASE foo'[f] = foo[f]
  <2> DEFINE n == foo[f].spec.dep
  <2>1. foo'[f] # None /\ foo[f] # None /\ n # None
    BY <1>2 DEF Valid
  <2>2. n \in Name
    BY <2>1, ConstantsAssumption DEF IInv, TypeOK, FooObject, FooSpec
  <2>3. CASE Asked(f, n)
    BY <1>2, <2>1, <2>2, <2>3 DEF Attentive
  <2>4. CASE Synced(f)
    <3>1. Concerns(f, store[n])
      BY <2>1, <2>2, <2>4, OwnerConcerns DEF Synced, DeploymentOf
    <3>2. store'[n] # store[n] => Asked(f, n)'
      BY <1>2, <2>1, <2>2, <3>1 DEF Attentive
    <3>3. store'[n] = store[n] => Synced(f)'
      <4>1. ASSUME store'[n] = store[n] PROVE Synced(f)'
        <5>1. DeploymentOf(f)' = DeploymentOf(f)
          BY <1>2, <4>1 DEF DeploymentOf
        <5> QED  BY <1>2, <2>4, <5>1 DEF Synced
      <4> QED  BY <4>1
    <3> QED  BY <1>2, <3>2, <3>3
  <2> QED  BY <1>2, <2>1, <2>3, <2>4 DEF Valid
<1> QED  BY <1>1, <1>2

\* A write of a Foo is an event.
LEMMA FooWritten ==
    ASSUME TypeOK, Follows, Alive, NEW f \in Foo, NEW obj \in FooObject \cup {None},
           WriteFoo(f, obj), UNCHANGED storeVars, UNCHANGED caches, wq' = wq
    PROVE  Follows' /\ \A g \in Foo : Attentive(g)
<1>0. /\ foo \in [Foo -> FooObject \cup {None}]
      /\ fooWatch \in [Foo -> Seq(FooObject \cup {None})]
  BY DEF TypeOK
<1>1. foo' = [foo EXCEPT ![f] = obj] /\ fooCache' = fooCache
  BY DEF WriteFoo, caches
<1>2. ASSUME NEW g \in Foo
      PROVE  \/ foo'[g] = foo[g] /\ fooWatch'[g] = fooWatch[g]
             \/ foo'[g] = obj /\ fooWatch'[g] = Append(fooWatch[g], obj)
  BY <1>0, <1>1 DEF WriteFoo
<1>3. ASSUME NEW g \in Foo
      PROVE  /\ Leads(fooCache'[g], fooWatch'[g], foo'[g])
             /\ fooWatch[g] # <<>> => fooWatch'[g] # <<>>
             /\ foo'[g] # foo[g] => fooWatch'[g] # <<>>
  <2>1. CASE foo'[g] = foo[g] /\ fooWatch'[g] = fooWatch[g]
    BY <1>1, <2>1 DEF Follows
  <2>2. CASE foo'[g] = obj /\ fooWatch'[g] = Append(fooWatch[g], obj)
    <3>1. fooWatch[g] \in Seq(FooObject \cup {None})
          /\ Leads(fooCache[g], fooWatch[g], foo[g])
      BY <1>0 DEF Follows
    <3>2. Append(fooWatch[g], obj) # <<>>
      BY <3>1
    <3>3. Leads(fooCache[g], Append(fooWatch[g], obj), obj)
      BY <3>1, LeadsAppend
    <3> QED  BY <1>1, <2>2, <3>2, <3>3
  <2> QED  BY <1>2, <2>1, <2>2
<1>4. Follows'
  BY <1>3 DEF Follows, storeVars, caches
<1>5. \A g \in Foo : Attentive(g)
  BY <1>3 DEF Attentive, FooAsked, Asked, storeVars, caches
<1> QED  BY <1>4, <1>5

\* So is a write of a Deployment; as it keeps whom it concerns, the event is
\* traced to it.
LEMMA DeploymentWritten ==
    ASSUME TypeOK, Follows, Alive, NEW n \in Name, NEW obj \in Change, Write(n, obj),
           \A f \in Foo : Concerns(f, store[n]) => obj = None \/ Concerns(f, obj),
           UNCHANGED fooVars, UNCHANGED caches, wq' = wq
    PROVE  Follows' /\ \A f \in Foo : Attentive(f)
<1>0. store \in [Name -> Change] /\ watch \in [Name -> Seq(Change)]
  BY DEF TypeOK, Change
<1>1. store' = [store EXCEPT ![n] = obj] /\ cache' = cache
      /\ foo' = foo /\ fooWatch' = fooWatch /\ fooCache' = fooCache
  BY DEF Write, caches, fooVars
<1>2. ASSUME NEW m \in Name
      PROVE  \/ store'[m] = store[m] /\ watch'[m] = watch[m]
             \/ m = n /\ store'[m] = obj /\ watch'[m] = Append(watch[m], obj)
  BY <1>0, <1>1 DEF Write
<1>3. ASSUME NEW m \in Name
      PROVE  /\ Leads(cache[m], watch'[m], store'[m]) /\ Faithful(cache[m], watch'[m])
             /\ \A f \in Foo : Mentions(f, cache[m], watch[m]) => Mentions(f, cache[m], watch'[m])
             /\ \A f \in Foo : Concerns(f, store[m]) /\ store'[m] # store[m]
                               => Mentions(f, cache[m], watch'[m])
  <2>0. /\ watch[m] \in Seq(Change)
        /\ Leads(cache[m], watch[m], store[m]) /\ Faithful(cache[m], watch[m])
    BY <1>0 DEF Follows
  <2>1. CASE store'[m] = store[m] /\ watch'[m] = watch[m]
    BY <2>0, <2>1
  <2>2. CASE m = n /\ store'[m] = obj /\ watch'[m] = Append(watch[m], obj)
    <3>1. Leads(cache[m], watch'[m], store'[m])
      BY <2>0, <2>2, LeadsAppend
    <3>2. Faithful(cache[m], watch'[m])
      BY <2>0, <2>2, FaithfulAppend
    <3>3. \A f \in Foo : Mentions(f, cache[m], watch[m]) => Mentions(f, cache[m], watch'[m])
      BY <2>0, <2>2, MentionsAppend
    <3>4. \A f \in Foo : Concerns(f, store[m]) => Concerns(f, IF obj = None THEN store[m] ELSE obj)
      BY <2>2
    <3>5. \A f \in Foo : Concerns(f, store[m]) => Mentions(f, cache[m], watch'[m])
      BY <2>0, <2>2, <3>4, MentionsAppend
    <3> QED  BY <3>1, <3>2, <3>3, <3>5
  <2> QED  BY <1>2, <2>1, <2>2
<1>4. Follows'
  BY <1>1, <1>3 DEF Follows
<1>5. \A f \in Foo : Attentive(f)
  BY <1>1, <1>3 DEF Attentive, FooAsked, Asked
<1> QED  BY <1>4, <1>5

\* A step that writes nothing only has to keep what is pending.
LEMMA NothingWritten ==
    ASSUME Follows, UNCHANGED <<fooVars, storeVars, caches>>
    PROVE  /\ Follows'
           /\ \A f \in Foo : (f \in Pending(wq) => f \in Pending(wq')) => Attentive(f)
<1>1. Follows'
  BY DEF Follows, fooVars, storeVars, caches
<1>2. \A f \in Foo : (f \in Pending(wq) => f \in Pending(wq')) => Attentive(f)
  BY DEF Attentive, FooAsked, Asked, fooVars, storeVars, caches
<1> QED  BY <1>1, <1>2

\* A change of a Foo enters the cache: the Foo is queued, or more is to come,
\* or there is no Foo.
LEMMA WatchFooAttentive ==
    ASSUME IInv, Follows, ~wq.shut, NEW f \in Foo, WatchFoo(f)
    PROVE  Follows' /\ ~wq'.shut /\ \A g \in Foo : Attentive(g)
<1>0. /\ fooWatch \in [Foo -> Seq(FooObject \cup {None})]
      /\ fooCache \in [Foo -> FooObject \cup {None}] /\ wq \in Queue
  BY DEF IInv, TypeOK
<1>1. /\ foo' = foo /\ UNCHANGED <<storeVars, cache>> /\ fooWatch[f] # <<>>
      /\ fooCache' = [fooCache EXCEPT ![f] = Head(fooWatch[f])]
      /\ fooWatch' = [fooWatch EXCEPT ![f] = Tail(fooWatch[f])]
      /\ wq' = IF Head(fooWatch[f]) = None THEN wq ELSE Add(wq, f)
  BY DEF WatchFoo
<1>2. /\ Pending(wq) \subseteq Pending(wq') /\ ~wq'.shut
      /\ Head(fooWatch[f]) # None => f \in Pending(wq')
  BY <1>0, <1>1, AddPending DEF Foo
<1>3. Leads(Head(fooWatch[f]), Tail(fooWatch[f]), foo[f])
  BY <1>0, <1>1, LeadsTail DEF Follows
<1>4. \A g \in Foo : /\ fooCache'[g] = IF g = f THEN Head(fooWatch[f]) ELSE fooCache[g]
                     /\ fooWatch'[g] = IF g = f THEN Tail(fooWatch[f]) ELSE fooWatch[g]
  BY <1>0, <1>1
<1>5. \A g \in Foo : Leads(fooCache'[g], fooWatch'[g], foo'[g])
  BY <1>1, <1>3, <1>4 DEF Follows
<1>6. Follows'
  BY <1>1, <1>5 DEF Follows, storeVars
<1>7. ASSUME NEW g \in Foo, foo'[g] # None, FooAsked(g)
      PROVE  FooAsked(g)'
  <2>1. CASE g = f
    <3>1. Head(fooWatch[f]) # None \/ Tail(fooWatch[f]) # <<>>
      BY <1>1, <1>3, <1>7, <2>1 DEF Leads
    <3> QED  BY <1>2, <1>4, <2>1, <3>1 DEF FooAsked
  <2>2. CASE g # f
    BY <1>2, <1>4, <1>7, <2>2 DEF FooAsked
  <2> QED  BY <2>1, <2>2
<1>8. \A g \in Foo : Attentive(g)
  BY <1>1, <1>7 DEF Attentive, Asked, storeVars
<1> QED  BY <1>2, <1>6, <1>8

\* A change of a Deployment enters the cache: handleObject queues whom it
\* concerns, unless the Foo is not in the cache, but then it is on its way.
LEMMA WatchAttentive ==
    ASSUME IInv, Follows, ~wq.shut, NEW n \in Name, Watch(n)
    PROVE  Follows' /\ ~wq'.shut /\ \A f \in Foo : Attentive(f)
<1>0. /\ watch \in [Name -> Seq(Change)] /\ cache \in [Name -> Change] /\ wq \in Queue
  BY DEF IInv, TypeOK, Change
<1>1. /\ UNCHANGED <<fooVars, store, fooCache>> /\ watch[n] # <<>>
      /\ cache' = [cache EXCEPT ![n] = Head(watch[n])]
      /\ watch' = [watch EXCEPT ![n] = Tail(watch[n])]
      /\ wq' = HandleObject(cache[n], Head(watch[n]))
  BY DEF Watch
<1>2. watch[n] \in Seq(Change) /\ Head(watch[n]) \in Change /\ cache[n] \in Change
  BY <1>0, <1>1
<1> DEFINE object == IF Head(watch[n]) = None THEN cache[n] ELSE Head(watch[n])
<1>3. /\ Pending(wq) \subseteq Pending(wq') /\ ~wq'.shut
      /\ \A f \in Foo : Concerns(f, object) /\ fooCache[f] # None => f \in Pending(wq')
  <2>1. object \in Change
    BY <1>2
  <2>2. CASE object # None /\ object.owner # 0 /\ fooCache[object.label] # None
    <3>1. object.label \in Key
      BY <2>1, <2>2 DEF Change, Deployment, Foo
    <3>2. wq' = Add(wq, object.label)
      BY <1>1, <2>2 DEF HandleObject
    <3> HIDE DEF object
    <3> QED  BY <1>0, <3>1, <3>2, AddPending DEF Concerns
  <2>3. CASE ~(object # None /\ object.owner # 0 /\ fooCache[object.label] # None)
    <3>1. wq' = wq
      BY <1>1, <2>3 DEF HandleObject
    <3> HIDE DEF object
    <3> QED  BY <2>3, <3>1 DEF Concerns
  <2> QED  BY <2>2, <2>3
<1>4. \A m \in Name : /\ cache'[m] = IF m = n THEN Head(watch[n]) ELSE cache[m]
                      /\ watch'[m] = IF m = n THEN Tail(watch[n]) ELSE watch[m]
  BY <1>0, <1>1
<1>5. /\ Leads(Head(watch[n]), Tail(watch[n]), store[n])
      /\ Faithful(Head(watch[n]), Tail(watch[n]))
  <2>1. Leads(cache[n], watch[n], store[n]) /\ Faithful(cache[n], watch[n])
    BY DEF Follows
  <2> QED  BY <1>1, <1>2, <2>1, LeadsTail, FaithfulTail
<1>6. \A m \in Name : Leads(cache'[m], watch'[m], store'[m]) /\ Faithful(cache'[m], watch'[m])
  BY <1>1, <1>4, <1>5 DEF Follows
<1>7. Follows'
  BY <1>1, <1>6 DEF Follows, fooVars
<1>8. ASSUME NEW f \in Foo, NEW m \in Name, foo'[f] # None, Mentions(f, cache[m], watch[m])
      PROVE  Asked(f, m)'
  <2>1. CASE m # n
    BY <1>4, <1>8, <2>1 DEF Asked
  <2>2. CASE m = n /\ Mentions(f, Head(watch[n]), Tail(watch[n]))
    BY <1>4, <2>2 DEF Asked
  <2>3. CASE m = n /\ Concerns(f, object)
    <3>1. fooCache[f] = None => fooWatch[f] # <<>>
      BY <1>1, <1>8 DEF Follows, Leads, fooVars
    <3> QED  BY <1>1, <1>3, <2>3, <3>1 DEF Asked, FooAsked, fooVars
  <2> QED  BY <1>1, <1>2, <1>8, <2>1, <2>2, <2>3, MentionsTail
<1>9. \A f \in Foo : Attentive(f)
  BY <1>1, <1>3, <1>8 DEF Attentive, Asked, FooAsked, fooVars
<1> QED  BY <1>3, <1>7, <1>9

\* When a step is attentive, all is as before but for the Foo k that a worker
\* goes on with: that one it must settle itself, unless it goes on holding it.
LEMMA WorkerMoves ==
    ASSUME IInv, UidsOK, Runs, Follows',
           NEW w \in Worker, NEW s, worker' = [worker EXCEPT ![w] = s],
           NEW k \in Foo, worker[w].item \in {k, None},
           \A v \in Worker \ {w} : worker[v].item # k,
           \A f \in Foo \ {k} : Attentive(f),
           Current(s)',
           \/ s.item = k /\ s.pc # "ok"
           \/ Valid(k)' => Synced(k)' \/ Asked(k, foo[k].spec.dep)'
    PROVE  Runs'
<1>1. /\ worker \in [Worker -> Sync] /\ worker'[w] = s
      /\ \A v \in Worker \ {w} : worker'[v] = worker[v]
  BY DEF IInv, TypeOK
<1>2. \A v \in Worker : Current(worker[v])'
  <2> SUFFICES ASSUME NEW v \in Worker PROVE Current(worker[v])'
    OBVIOUS
  <2>1. CASE v = w
    BY <1>1, <2>1
  <2>2. CASE v # w
    <3>1. worker'[v] = worker[v] /\ worker[v].item # k /\ Current(worker[v])
      BY <1>1, <2>2 DEF Runs
    <3>2. worker[v].pc # "idle" => Attentive(worker[v].item)
      BY <3>1, WorkerHolds
    <3> QED  BY <3>1, <3>2, WorkerStays
  <2> QED  BY <2>1, <2>2
<1>3. Settled'
  <2> SUFFICES ASSUME NEW f \in Foo, Valid(f)'
               PROVE  Synced(f)' \/ Asked(f, foo[f].spec.dep)' \/ InHand(f)'
    BY DEF Settled
  <2>1. CASE f = k
    BY <1>1, <2>1 DEF InHand
  <2>2. CASE f # k
    <3>1. CASE InHand(f)
      <4>1. PICK v \in Worker : worker[v].item = f /\ worker[v].pc # "ok"
        BY <3>1 DEF InHand
      <4>2. v # w
        BY <2>2, <4>1, ConstantsAssumption
      <4> QED  BY <1>1, <4>1, <4>2 DEF InHand
    <3>2. CASE ~InHand(f)
      <4>1. Attentive(f) /\ (Valid(f) => Synced(f) \/ Asked(f, foo[f].spec.dep))
        BY <2>2, <3>2 DEF Runs, Settled
      <4> QED  BY <4>1, SettledStays
    <3> QED  BY <3>1, <3>2
  <2> QED  BY <2>1, <2>2
<1> QED  BY <1>2, <1>3 DEF Runs

\* A step of somebody else, if it is attentive to all.
LEMMA OthersMove ==
    ASSUME IInv, UidsOK, Runs, Follows', worker' = worker, \A f \in Foo : Attentive(f)
    PROVE  Runs'
<1>1. \A v \in Worker : Current(worker[v])'
  <2> SUFFICES ASSUME NEW v \in Worker PROVE Current(worker[v])'
    OBVIOUS
  <2>1. worker[v].pc # "idle" => Attentive(worker[v].item)
    BY WorkerHolds
  <2> QED  BY <2>1, WorkerStays DEF Runs
<1>2. Settled'
  <2> SUFFICES ASSUME NEW f \in Foo, Valid(f)'
               PROVE  Synced(f)' \/ Asked(f, foo[f].spec.dep)' \/ InHand(f)'
    BY DEF Settled
  <2>1. CASE InHand(f)
    BY <2>1 DEF InHand
  <2>2. CASE ~InHand(f)
    <3>1. Valid(f) => Synced(f) \/ Asked(f, foo[f].spec.dep)
      BY <2>2 DEF Runs, Settled
    <3> QED  BY <3>1, SettledStays
  <2> QED  BY <2>1, <2>2
<1> QED  BY <1>1, <1>2 DEF Runs

\* What users do to a Foo.
LEMMA FooEditXInv ==
    ASSUME IInv, XInv, NEW f \in Foo, CreateFoo(f) \/ EditFoo(f) \/ DeleteFoo(f)
    PROVE  PhaseOK' /\ (phase' = "running" => Runs')
<1>1. UNCHANGED storeVars /\ UNCHANGED caches /\ phase' = phase /\ wq' = wq /\ worker' = worker
  BY DEF CreateFoo, EditFoo, DeleteFoo, UserEdit, process
<1>2. PICK obj : WriteFoo(f, obj)
  BY DEF CreateFoo, EditFoo, DeleteFoo
<1>3. PhaseOK'
  BY <1>1, <1>2 DEF XInv, PhaseOK, Alive, WriteFoo, storeVars, caches
<1>4. obj \in FooObject \cup {None}
  <2>1. foo \in [Foo -> FooObject \cup {None}] /\ foo' = [foo EXCEPT ![f] = obj]
    BY <1>2 DEF IInv, TypeOK, WriteFoo
  <2>2. foo' \in [Foo -> FooObject \cup {None}]
    BY FooEdits DEF IInv, TypeOK
  <2>3. foo'[f] = obj
    BY <2>1
  <2> QED  BY <2>2, <2>3
<1>5. ASSUME phase = "running"
      PROVE  Runs'
  <2>1. Runs /\ Alive
    BY <1>5 DEF XInv, Alive
  <2>2. Follows' /\ \A g \in Foo : Attentive(g)
    BY <1>1, <1>2, <1>4, <2>1, FooWritten DEF Runs, IInv
  <2> QED  BY <1>1, <2>1, <2>2, OthersMove DEF XInv
<1> QED  BY <1>1, <1>3, <1>5

\* What users and other controllers do to a Deployment.
LEMMA DeploymentEditXInv ==
    ASSUME "orphan" \notin UserActs, IInv, XInv, NEW n \in Name,
           \/ Scale(n) \/ DeleteDeployment(n) \/ CreateForeign(n) \/ Orphan(n)
           \/ PodsFail(n) \/ Rollout(n) \/ GarbageCollect(n)
    PROVE  PhaseOK' /\ (phase' = "running" => Runs')
<1>1. UNCHANGED fooVars /\ UNCHANGED caches /\ phase' = phase /\ wq' = wq /\ worker' = worker
  BY DEF Scale, DeleteDeployment, CreateForeign, Orphan, PodsFail, Rollout, GarbageCollect,
     UserEdit, process
<1>2. PICK obj : /\ Write(n, obj)
                 /\ store[n] # None =>
                       \/ obj = None
                       \/ obj.owner = store[n].owner /\ obj.label = store[n].label
  <2>1. store[n] \in Deployment \cup {None}
    BY DEF IInv, TypeOK
  <2> DEFINE Like(o) == o.owner = store[n].owner /\ o.label = store[n].label
  <2>2. CASE Scale(n)
    <3>1. PICK s \in Specs : Write(n, [store[n] EXCEPT !.replicas = s.replicas])
      BY <2>2 DEF Scale
    <3>2. Like([store[n] EXCEPT !.replicas = s.replicas])
      BY <2>1, <2>2 DEF Scale, Deployment
    <3> QED  BY <3>1, <3>2
  <2>3. CASE DeleteDeployment(n) \/ GarbageCollect(n)
    BY <2>3 DEF DeleteDeployment, GarbageCollect
  <2>4. CASE CreateForeign(n)
    BY <2>4 DEF CreateForeign
  <2>5. CASE PodsFail(n)
    <3>1. Like([store[n] EXCEPT !.available = 0])
      BY <2>1, <2>5 DEF PodsFail, Deployment
    <3> QED  BY <2>5, <3>1 DEF PodsFail
  <2>6. CASE Rollout(n)
    <3>1. Like([store[n] EXCEPT !.available = store[n].replicas])
      BY <2>1, <2>6 DEF Rollout, Deployment
    <3> QED  BY <2>6, <3>1 DEF Rollout
  <2>7. ~Orphan(n)
    BY DEF Orphan
  <2> QED  BY <2>2, <2>3, <2>4, <2>5, <2>6, <2>7
<1>3. PhaseOK'
  BY <1>1, <1>2 DEF XInv, PhaseOK, Alive, Write, fooVars, caches
<1>4. obj \in Change
  <2>1. store \in [Name -> Change] /\ store' = [store EXCEPT ![n] = obj]
    BY <1>2 DEF IInv, TypeOK, Write, Change
  <2>2. store' \in [Name -> Change]
    BY DeploymentEdits DEF IInv, TypeOK, Change
  <2>3. store'[n] = obj
    BY <2>1
  <2> QED  BY <2>2, <2>3
<1>5. \A f \in Foo : Concerns(f, store[n]) => obj = None \/ Concerns(f, obj)
  <2>1. store[n] \in Change
    BY DEF IInv, TypeOK, Change
  <2> QED  BY <1>2, <2>1 DEF Concerns, Change
<1>6. ASSUME phase = "running"
      PROVE  Runs'
  <2>1. Runs /\ Alive
    BY <1>6 DEF XInv, Alive
  <2>2. Follows' /\ \A f \in Foo : Attentive(f)
    BY <1>1, <1>2, <1>4, <1>5, <2>1, DeploymentWritten DEF Runs, IInv
  <2> QED  BY <1>1, <2>1, <2>2, OthersMove DEF XInv
<1> QED  BY <1>1, <1>3, <1>6

\* Changes entering the caches, resyncs and back-offs.
LEMMA InformerXInv ==
    ASSUME IInv, XInv,
           \/ \E f \in Foo : WatchFoo(f) \/ Resync(f) \/ BackoffElapsed(f)
           \/ \E n \in Name : Watch(n)
    PROVE  PhaseOK' /\ (phase' = "running" => Runs')
<1>1. /\ Alive /\ phase' = phase /\ worker' = worker /\ wq \in Queue
  BY DEF WatchFoo, Resync, BackoffElapsed, Watch, IInv, TypeOK
<1>2. CASE phase = "running"
  <2>1. Runs /\ ~wq.shut
    BY <1>2 DEF XInv, PhaseOK
  <2>2. Follows' /\ ~wq'.shut /\ \A f \in Foo : Attentive(f)
    <3>1. CASE \E f \in Foo : WatchFoo(f)
      BY <2>1, <3>1, WatchFooAttentive DEF Runs
    <3>2. CASE \E n \in Name : Watch(n)
      BY <2>1, <3>2, WatchAttentive DEF Runs
    <3>3. ASSUME NEW f \in Foo, Resync(f) \/ BackoffElapsed(f)
          PROVE  Follows' /\ ~wq'.shut /\ \A g \in Foo : Attentive(g)
      <4>1. UNCHANGED <<fooVars, storeVars, caches>>
            /\ (wq' = Add(wq, f) \/ wq' = Elapse(wq, f))
        BY <3>3 DEF Resync, BackoffElapsed
      <4>2. Pending(wq) \subseteq Pending(wq') /\ ~wq'.shut
        BY <1>1, <2>1, <4>1, AddPending, ElapsePending DEF Foo
      <4> QED  BY <2>1, <4>1, <4>2, NothingWritten DEF Runs
    <3> QED  BY <3>1, <3>2, <3>3
  <2>3. Runs'
    BY <1>1, <2>1, <2>2, OthersMove DEF XInv
  <2> QED  BY <1>1, <1>2, <2>2, <2>3 DEF PhaseOK, Alive
<1>3. CASE phase # "running"
  BY <1>1, <1>3 DEF PhaseOK, Alive
<1> QED  BY <1>2, <1>3

\* The process starts with what it lists, and ends with nothing.
LEMMA ProcessXInv ==
    ASSUME IInv, XInv, CachesSynced \/ Signal \/ Exit \/ Start \/ UNCHANGED vars
    PROVE  PhaseOK' /\ (phase' = "running" => Runs')
<1>1. CASE CachesSynced
  <2>1. /\ ~Alive /\ phase' = "running" /\ Alive' /\ cache' = store
        /\ UNCHANGED <<foo, storeVars, fooCache, wq, worker>>
        /\ \A f \in Foo : fooWatch'[f] = IF foo[f] = None THEN <<>> ELSE <<foo[f]>>
    BY <1>1 DEF CachesSynced, Alive
  <2>2. /\ ~wq.shut /\ \A f \in Foo : fooCache[f] = None
        /\ \A n \in Name : watch[n] = <<>>
        /\ \A w \in Worker : worker[w].pc = "idle"
    BY <1>1, <2>1 DEF CachesSynced, XInv, PhaseOK
  <2>3. PhaseOK'
    BY <2>1, <2>2 DEF PhaseOK
  <2>4. \A f \in Foo : /\ Leads(fooCache'[f], fooWatch'[f], foo'[f])
                       /\ foo'[f] # None => fooWatch'[f] # <<>>
    <3> SUFFICES ASSUME NEW f \in Foo
                 PROVE  /\ Leads(fooCache'[f], fooWatch'[f], foo'[f])
                        /\ foo'[f] # None => fooWatch'[f] # <<>>
      OBVIOUS
    <3>1. foo'[f] = foo[f] /\ fooCache'[f] = None
      BY <2>1, <2>2
    <3>2. CASE foo[f] = None
      BY <2>1, <3>1, <3>2 DEF Leads
    <3>3. CASE foo[f] # None
      <4>1. fooWatch'[f] = <<foo[f]>>
        BY <2>1, <3>3
      <4>2. <<foo[f]>> # <<>> /\ <<foo[f]>>[Len(<<foo[f]>>)] = foo[f]
        OBVIOUS
      <4> QED  BY <3>1, <4>1, <4>2 DEF Leads
    <3> QED  BY <3>2, <3>3
  <2>5. \A n \in Name : Leads(cache'[n], watch'[n], store'[n]) /\ Faithful(cache'[n], watch'[n])
    <3>1. \A n \in Name : watch'[n] = <<>> /\ cache'[n] = store'[n]
      BY <2>1, <2>2 DEF storeVars
    <3> QED  BY <3>1 DEF Leads, Faithful
  <2>6. Follows'
    BY <2>4, <2>5 DEF Follows
  <2>7. Settled'
    BY <2>4 DEF Settled, Valid, Asked, FooAsked
  <2>8. \A w \in Worker : Current(worker[w])'
    BY <2>1, <2>2 DEF Current, Busy
  <2> QED  BY <2>3, <2>6, <2>7, <2>8 DEF Runs
<1>2. CASE Down
  <2>1. /\ phase' = "down" /\ wq' = NewQueue
        /\ \A f \in Foo : fooWatch'[f] = <<>> /\ fooCache'[f] = None
        /\ \A n \in Name : watch'[n] = <<>>
        /\ \A w \in Worker : worker'[w] = Idle
    BY <1>2 DEF Down
  <2> QED  BY <2>1 DEF PhaseOK, NewQueue, Idle
<1>3. CASE Signal /\ ~Down
  BY <1>3 DEF Signal, PhaseOK, Alive
<1>4. CASE Start
  <2>1. /\ ~Alive /\ phase' = "starting" /\ ~wq.shut
        /\ UNCHANGED <<fooVars, storeVars, caches, wq, worker>>
    BY <1>4 DEF Start, Alive, XInv, PhaseOK
  <2> QED  BY <2>1 DEF XInv, PhaseOK, fooVars, storeVars, caches
<1>5. CASE UNCHANGED vars
  <2>1. UNCHANGED <<fooVars, storeVars, caches, phase, wq, worker>>
    BY <1>5 DEF vars, process
  <2>2. PhaseOK'
    BY <2>1 DEF XInv, PhaseOK, Alive, fooVars, storeVars, caches
  <2>3. ASSUME phase = "running" PROVE Runs'
    BY <2>1, <2>3, NothingWritten, OthersMove DEF XInv, Runs
  <2> QED  BY <2>1, <2>2, <2>3
<1> QED  BY <1>1, <1>2, <1>3, <1>4, <1>5 DEF Exit

\* The steps of a worker that has a Foo: WorkerMoves for the Foo it holds.
LEMMA WorkerGoes ==
    ASSUME IInv, UidsOK, Runs, Follows',
           NEW w \in Worker, NEW s, worker' = [worker EXCEPT ![w] = s],
           NEW k \in Foo, worker[w].item = k, s.item = k,
           \A f \in Foo : Attentive(f),
           Current(s)',
           s.pc = "ok" /\ Valid(k)' => Synced(k)' \/ Asked(k, foo[k].spec.dep)'
    PROVE  Runs'
<1>1. \A v \in Worker \ {w} : worker[v].item # k
  BY ConstantsAssumption DEF IInv, MutualExclusion
<1> QED  BY <1>1, WorkerMoves

\* Goto keeps the Foo.
LEMMA GotoMoves ==
    ASSUME TypeOK, NEW w \in Worker, NEW pc, NEW dep, Goto(w, pc, dep)
    PROVE  \E s : /\ worker' = [worker EXCEPT ![w] = s]
                  /\ s.pc = pc /\ s.dep = dep
                  /\ s.item = worker[w].item /\ s.foo = worker[w].foo
<1>1. worker[w] \in Sync /\ worker \in [Worker -> Sync]
  BY DEF TypeOK
<1> DEFINE s == [worker[w] EXCEPT !.pc = pc, !.dep = dep]
<1>2. worker' = [worker EXCEPT ![w] = s]
  BY <1>1 DEF Goto, Sync
<1>3. s.pc = pc /\ s.dep = dep /\ s.item = worker[w].item /\ s.foo = worker[w].foo
  BY <1>1 DEF Sync
<1> QED  BY <1>2, <1>3

\* A failed sync is retried, so there is nothing to know about it.
LEMMA FailedStep ==
    ASSUME IInv, UidsOK, Runs, Follows', NEW w \in Worker, worker[w].pc \in Busy,
           \A f \in Foo : Attentive(f), NEW dep, Goto(w, "fail", dep)
    PROVE  Runs'
<1>1. PICK s : /\ worker' = [worker EXCEPT ![w] = s]
               /\ s.pc = "fail" /\ s.item = worker[w].item
  BY GotoMoves DEF IInv
<1>2. PICK k \in Foo : worker[w].item = k
  BY SentTypes
<1>3. Current(s)'
  BY <1>1 DEF Current, Busy
<1> QED  BY <1>1, <1>2, <1>3, WorkerGoes

\* What the two calls that write a Deployment do: neither takes it from a Foo
\* it concerns.
LEMMA SentWritten ==
    ASSUME IInv, Follows, Alive, NEW w \in Worker, NEW n \in Name, NEW obj,
           n = worker[w].foo.spec.dep,
           obj = NewDeployment(worker[w].item, worker[w].foo), worker[w].pc \in Busy,
           NEW sent, Write(n, sent),
           \/ store[n] = None /\ sent = obj
           \/ Updatable(n, obj) /\ sent = Updated(n, obj),
           UNCHANGED fooVars, UNCHANGED caches, wq' = wq
    PROVE  /\ Follows' /\ \A f \in Foo : Attentive(f)
           /\ sent \in Deployment /\ store'[n] = sent
<1>1. obj \in Deployment /\ (Updatable(n, obj) => /\ Updated(n, obj) \in Deployment
                                                  /\ Updated(n, obj).owner = worker[w].foo.uid)
      /\ worker[w].foo \in FooObject
  BY SentTypes
<1>2. sent \in Deployment /\ sent \in Change
  BY <1>1 DEF Change
<1>3. store'[n] = sent
  BY DEF Write, IInv, TypeOK
<1>4. \A f \in Foo : Concerns(f, store[n]) => Concerns(f, sent)
  <2>1. CASE store[n] = None
    BY <2>1 DEF Concerns
  <2>2. CASE store[n] # None
    <3>1. Updatable(n, obj) /\ sent = Updated(n, obj)
      BY <2>2
    <3>2. sent.label = store[n].label
      BY <1>1, <3>1 DEF Updatable, Updated, Deployment
    <3>3. sent.owner # 0
      BY <1>1, <3>1 DEF FooObject
    <3> QED  BY <1>2, <3>2, <3>3, ConstantsAssumption DEF Concerns
  <2> QED  BY <2>1, <2>2
<1>5. Follows' /\ \A f \in Foo : Attentive(f)
  BY <1>2, <1>4, DeploymentWritten DEF IInv
<1> QED  BY <1>2, <1>3, <1>5

\* What the status write does.
LEMMA StatusWritten ==
    ASSUME IInv, Follows, Alive, NEW w \in Worker, NEW k \in Foo, worker[w].item = k,
           worker[w].pc = "status", IsCurrent(k, worker[w].foo),
           WriteStatus(k, worker[w].dep.available),
           UNCHANGED storeVars, UNCHANGED caches, wq' = wq
    PROVE  /\ Follows' /\ \A f \in Foo : Attentive(f)
           /\ foo'[k] # None => foo'[k].status = worker[w].dep.available
<1>1. worker[w].dep \in Deployment /\ worker[w].dep.available \in Nat
  BY DEF IInv, TypeOK, WorkersOK, Sync, Deployment
<1>2. foo[k] # None /\ foo[k] \in FooObject
  BY DEF IsCurrent, IInv, TypeOK
<1>3. PICK obj \in FooObject \cup {None} : WriteFoo(k, obj)
  BY <1>1, <1>2, StatusTypes
<1>4. Follows' /\ \A f \in Foo : Attentive(f)
  BY <1>3, FooWritten DEF IInv
<1>5. foo'[k].status = worker[w].dep.available
  <2>1. foo'[k] = IF foo[k].status = worker[w].dep.available THEN foo[k]
                  ELSE [foo[k] EXCEPT !.status = worker[w].dep.available, !.rv = @ + 1]
    BY DEF WriteStatus, WriteFoo, IInv, TypeOK
  <2>2. CASE foo[k].status = worker[w].dep.available
    BY <2>1, <2>2
  <2>3. CASE foo[k].status # worker[w].dep.available
    BY <1>2, <2>1, <2>3 DEF FooObject
  <2> QED  BY <2>2, <2>3
<1> QED  BY <1>4, <1>5

\* A worker that is handed a Foo holds it: it is no longer pending.
LEMMA GetRuns ==
    ASSUME IInv, UidsOK, Runs, NEW w \in Worker, Get(w)
    PROVE  Runs' /\ wq'.shut = wq.shut
<1>1. wq \in Queue /\ WellFormed(wq) /\ HasItem(wq) /\ wq' = Take(wq)
      /\ worker[w].pc = "idle" /\ UNCHANGED <<fooVars, storeVars, caches>>
  BY DEF Get, IInv, TypeOK, MutualExclusion, WellFormed
<1>2. PICK k : k = Head(wq.queue)
  OBVIOUS
<1>3. k \in Foo /\ k \notin wq.processing
  BY <1>1, <1>2, TakeWellFormed DEF Foo
<1>4. PICK s : s = [Idle EXCEPT !.pc = "foo", !.item = k]
  OBVIOUS
<1>5. worker' = [worker EXCEPT ![w] = s] /\ s.item = k /\ s.pc = "foo"
  BY <1>2, <1>4 DEF Get, Idle
<1>6. Follows' /\ \A f \in Foo \ {k} : Attentive(f)
  <2>1. \A f \in Foo \ {k} : f \in Pending(wq) => f \in Pending(wq')
    BY <1>1, <1>2, TakePending
  <2> QED  BY <1>1, <2>1, NothingWritten DEF Runs
<1>7. worker[w].item = None /\ \A v \in Worker : worker[v].item # k
  BY <1>1, <1>3, ConstantsAssumption DEF IInv, WorkersOK, MutualExclusion
<1>8. Current(s)'
  BY <1>5 DEF Current, Busy
<1> QED  BY <1>1, <1>3, <1>5, <1>6, <1>7, <1>8, TakePending, WorkerMoves

\* The Foo that is read is the API server's, or a change is on its way.
LEMMA GetFooRuns ==
    ASSUME IInv, UidsOK, Runs, NEW w \in Worker, GetFoo(w)
    PROVE  Runs'
<1>1. worker[w].pc = "foo" /\ wq' = wq /\ UNCHANGED <<fooVars, storeVars, caches>>
  BY DEF GetFoo
<1>2. PICK k \in Foo : worker[w].item = k
  BY <1>1, WorkerHolds
<1>3. PICK f : f = fooCache[k]
  OBVIOUS
<1>4. PICK s : s = [worker[w] EXCEPT !.foo = f,
                                     !.pc = IF f = None \/ f.spec.dep = None THEN "ok" ELSE "dep"]
  OBVIOUS
<1>5. worker[w] \in Sync /\ worker \in [Worker -> Sync]
  BY DEF IInv, TypeOK
<1>6. worker' = [worker EXCEPT ![w] = s]
  BY <1>2, <1>3, <1>4, <1>5 DEF GetFoo
<1>7. s.item = k /\ s.foo = f /\ s.pc = IF f = None \/ f.spec.dep = None THEN "ok" ELSE "dep"
  BY <1>2, <1>4, <1>5 DEF Sync
<1>8. Follows' /\ \A g \in Foo : Attentive(g)
  BY <1>1, NothingWritten DEF Runs
<1>9. f = foo'[k] \/ FooAsked(k)'
  BY <1>1, <1>3 DEF Runs, Follows, Leads, FooAsked, fooVars
<1>10. Current(s)'
  BY <1>7, <1>9 DEF Current, FooCurrent, Busy
<1>11. s.pc = "ok" /\ Valid(k)' => Synced(k)' \/ Asked(k, foo[k].spec.dep)'
  BY <1>7, <1>9 DEF Valid, Asked
<1> QED  BY <1>2, <1>6, <1>7, <1>8, <1>10, <1>11, WorkerGoes

\* So is the Deployment, if it is the Foo's: then the change will be traced.
LEMMA GetDeploymentRuns ==
    ASSUME IInv, UidsOK, Runs, NEW w \in Worker, GetDeployment(w)
    PROVE  Runs'
<1>1. worker[w].pc = "dep" /\ wq' = wq /\ UNCHANGED <<fooVars, storeVars, caches>>
  BY DEF GetDeployment
<1>2. PICK k \in Foo, n \in Name : worker[w].item = k /\ worker[w].foo.spec.dep = n
  BY <1>1, SentTypes DEF Busy
<1>3. PICK s : /\ worker' = [worker EXCEPT ![w] = s]
               /\ s.pc = (IF cache[n] = None THEN "create" ELSE "check") /\ s.dep = cache[n]
               /\ s.item = k /\ s.foo = worker[w].foo
  <2>1. Goto(w, IF cache[n] = None THEN "create" ELSE "check", cache[n])
    BY <1>2 DEF GetDeployment
  <2> QED  BY <1>2, <2>1, GotoMoves DEF IInv
<1>4. Follows' /\ \A f \in Foo : Attentive(f)
  BY <1>1, NothingWritten DEF Runs
<1>5. FooCurrent(s)'
  <2>1. FooCurrent(s)
    BY <1>1, <1>2, <1>3 DEF Runs, Current, FooCurrent, Busy
  <2> QED  BY <1>3, <1>4, <2>1, FooStays
<1>6. s.pc = "check" /\ s.dep.owner = s.foo.uid => DepCurrent(s)'
  <2> SUFFICES ASSUME s.pc = "check", s.dep.owner = s.foo.uid, cache[n] # store[n]
               PROVE  Mentions(k, cache[n], watch[n])
    BY <1>1, <1>2, <1>3 DEF DepCurrent, Asked, storeVars, caches
  <2>1. Concerns(k, cache[n])
    BY <1>1, <1>2, <1>3, OwnerConcerns DEF Busy
  <2>2. /\ watch[n] \in Seq(Change)
        /\ Leads(cache[n], watch[n], store[n]) /\ Faithful(cache[n], watch[n])
    BY DEF Runs, Follows, IInv, TypeOK, Change
  <2> QED  BY <2>1, <2>2, BehindIsMentioned
<1>7. Current(s)'
  BY <1>3, <1>5, <1>6 DEF Current
<1> QED  BY <1>2, <1>3, <1>4, <1>7, WorkerGoes

\* The check lets only the Foo's own Deployment pass.
LEMMA CheckRuns ==
    ASSUME IInv, UidsOK, Runs, NEW w \in Worker, Check(w)
    PROVE  Runs'
<1>1. worker[w].pc = "check" /\ wq' = wq /\ UNCHANGED <<fooVars, storeVars, caches>>
  BY DEF Check
<1>2. PICK k \in Foo : worker[w].item = k
  BY <1>1, SentTypes DEF Busy
<1>3. PICK t : t = worker[w]
  OBVIOUS
<1>4. PICK s : /\ worker' = [worker EXCEPT ![w] = s]
               /\ s.pc = IF t.dep.owner # t.foo.uid THEN "fail"
                         ELSE IF t.foo.spec.replicas \notin {None, t.dep.replicas} THEN "update"
                         ELSE "status"
               /\ s.dep = t.dep /\ s.item = k /\ s.foo = t.foo
  <2>1. Goto(w, IF t.dep.owner # t.foo.uid THEN "fail"
                ELSE IF t.foo.spec.replicas \notin {None, t.dep.replicas} THEN "update"
                ELSE "status", t.dep)
    BY <1>3 DEF Check
  <2> QED  BY <1>2, <1>3, <2>1, GotoMoves DEF IInv
<1>5. Follows' /\ \A f \in Foo : Attentive(f)
  BY <1>1, NothingWritten DEF Runs
<1>6. /\ t.pc = "check" /\ t.item = k /\ FooCurrent(t)
      /\ DepCurrent(t) \/ t.dep.owner # t.foo.uid
  BY <1>1, <1>2, <1>3 DEF Runs, Current, Busy
<1>7. FooCurrent(s)' /\ (t.dep.owner = t.foo.uid => DepCurrent(s)')
  BY <1>1, <1>4, <1>6
     DEF FooCurrent, DepCurrent, Asked, FooAsked, fooVars, storeVars, caches
<1>8. Current(s)'
  BY <1>4, <1>7 DEF Current
<1> QED  BY <1>2, <1>4, <1>5, <1>8, WorkerGoes

\* A worker that wrote the Deployment has what the API server has.
LEMMA SentRuns ==
    ASSUME IInv, UidsOK, Runs, Alive, NEW w \in Worker,
           CreateDeployment(w) \/ UpdateDeployment(w)
    PROVE  Runs'
<1>1. /\ worker[w].pc \in {"create", "update"} /\ wq' = wq
      /\ UNCHANGED fooVars /\ UNCHANGED caches
  BY DEF CreateDeployment, UpdateDeployment
<1>2. worker[w].pc \in Busy
  BY <1>1 DEF Busy
<1>3. PICK k \in Foo, n \in Name : worker[w].item = k /\ worker[w].foo.spec.dep = n
  BY <1>2, SentTypes
<1>4. PICK obj : obj = NewDeployment(worker[w].item, worker[w].foo)
  OBVIOUS
<1>5. \/ Goto(w, "fail", None) /\ UNCHANGED storeVars
      \/ store[n] = None /\ Write(n, obj) /\ Goto(w, "check", obj)
      \/ Updatable(n, obj) /\ Write(n, Updated(n, obj)) /\ Goto(w, "status", Updated(n, obj))
  BY <1>3, <1>4 DEF CreateDeployment, UpdateDeployment
<1>6. CASE Goto(w, "fail", None) /\ UNCHANGED storeVars
  BY <1>1, <1>2, <1>6, NothingWritten, FailedStep DEF Runs
<1>7. ASSUME NEW sent, NEW pc \in {"check", "status"}, Write(n, sent), Goto(w, pc, sent),
             \/ store[n] = None /\ sent = obj
             \/ Updatable(n, obj) /\ sent = Updated(n, obj),
             pc = "status" => sent.replicas = obj.replicas
      PROVE  Runs'
  <2>1. Follows' /\ (\A f \in Foo : Attentive(f)) /\ store'[n] = sent
    BY <1>1, <1>2, <1>3, <1>4, <1>7, SentWritten DEF Runs
  <2>2. PICK s : /\ worker' = [worker EXCEPT ![w] = s]
                 /\ s.pc = pc /\ s.dep = sent /\ s.item = k /\ s.foo = worker[w].foo
    BY <1>3, <1>7, GotoMoves DEF IInv
  <2>3. FooCurrent(s)
    BY <1>2, <1>3, <2>2 DEF Runs, Current, FooCurrent
  <2>4. FooCurrent(s)'
    BY <2>1, <2>2, <2>3, FooStays
  <2>5. DepCurrent(s)'
    BY <1>3, <2>1, <2>2 DEF DepCurrent
  <2>6. s.pc = "status" => s.foo.spec.replicas \in {None, s.dep.replicas}
    BY <1>4, <1>7, <2>2 DEF NewDeployment
  <2>7. Current(s)'
    BY <1>7, <2>2, <2>4, <2>5, <2>6 DEF Current
  <2> QED  BY <1>3, <1>7, <2>1, <2>2, <2>7, WorkerGoes
<1>8. Updatable(n, obj) => Updated(n, obj).replicas = obj.replicas
  BY <1>4 DEF Updated, NewDeployment
<1> QED  BY <1>5, <1>6, <1>7, <1>8

\* A status that is written without a change tells what the API server has.
LEMMA UpdateFooStatusRuns ==
    ASSUME IInv, UidsOK, Runs, Alive, NEW w \in Worker, UpdateFooStatus(w)
    PROVE  Runs'
<1>1. /\ worker[w].pc = "status" /\ worker[w].pc \in Busy /\ wq' = wq
      /\ UNCHANGED storeVars /\ UNCHANGED caches
  BY DEF UpdateFooStatus, Busy
<1>0. PICK t : t = worker[w]
  OBVIOUS
<1>2. PICK k \in Foo : worker[w].item = k /\ worker[w] = t
  BY <1>0, <1>1, SentTypes
<1>3. CASE Goto(w, "fail", t.dep) /\ UNCHANGED fooVars
  BY <1>1, <1>3, NothingWritten, FailedStep DEF Runs
<1>4. CASE IsCurrent(k, t.foo) /\ WriteStatus(k, t.dep.available) /\ Goto(w, "ok", t.dep)
  <2>1. /\ Follows' /\ \A f \in Foo : Attentive(f)
        /\ foo'[k] # None => foo'[k].status = t.dep.available
    BY <1>1, <1>2, <1>4, StatusWritten DEF Runs
  <2>2. PICK s : /\ worker' = [worker EXCEPT ![w] = s]
                 /\ s.pc = "ok" /\ s.item = k
    BY <1>2, <1>4, GotoMoves DEF IInv
  <2>3. Current(s)'
    BY <2>2 DEF Current, Busy
  <2>4. ASSUME Valid(k)'
        PROVE  Synced(k)' \/ Asked(k, foo[k].spec.dep)'
    <3>1. CASE foo'[k] # foo[k]
      BY <2>1, <2>4, <3>1 DEF Attentive, Asked, Valid
    <3>2. CASE foo'[k] = foo[k]
      <4>1. /\ t.item = k /\ t.pc = "status" /\ t.foo.spec.dep \in Name /\ t.dep # None
            /\ t.dep.owner = t.foo.uid /\ t.foo.spec.replicas \in {None, t.dep.replicas}
            /\ FooCurrent(t) /\ DepCurrent(t)
        BY <1>1, <1>2, SentTypes DEF Runs, Current, IInv, WorkersOK
      <4>2. foo[k] # None
        BY <2>4, <3>2 DEF Valid
      <4>3. CASE FooAsked(k)
        BY <2>1, <2>4, <4>3 DEF Attentive, Asked, Valid
      <4>4. CASE t.foo = foo[k] /\ Asked(k, t.foo.spec.dep)
        BY <2>1, <2>4, <3>2, <4>1, <4>4 DEF Attentive, Valid
      <4>5. CASE t.foo = foo[k] /\ t.dep = store[t.foo.spec.dep]
        <5>1. DeploymentOf(k)' = t.dep
          BY <1>1, <3>2, <4>5 DEF DeploymentOf, storeVars
        <5> QED  BY <2>1, <3>2, <4>1, <4>2, <4>5, <5>1 DEF Synced
      <4> QED  BY <4>1, <4>2, <4>3, <4>4, <4>5 DEF FooCurrent, DepCurrent
    <3> QED  BY <3>1, <3>2
  <2> QED  BY <1>2, <2>1, <2>2, <2>3, <2>4, WorkerGoes
<1> QED  BY <1>2, <1>3, <1>4 DEF UpdateFooStatus

\* Calls that fail, or whose answer is lost: what they wrote is an event.
LEMMA FailureRuns ==
    ASSUME IInv, UidsOK, Runs, Alive, NEW w \in Worker, CallFails(w) \/ AnswerLost(w)
    PROVE  Runs'
<1>1. Goto(w, "fail", None) /\ wq' = wq /\ UNCHANGED caches /\ worker[w].pc \in Busy
  BY DEF CallFails, AnswerLost, Busy
<1>2. Follows' /\ \A f \in Foo : Attentive(f)
  <2>1. CASE UNCHANGED fooVars /\ UNCHANGED storeVars
    BY <1>1, <2>1, NothingWritten DEF Runs
  <2>2. PICK k \in Foo, n \in Name : worker[w].item = k /\ worker[w].foo.spec.dep = n
    BY <1>1, SentTypes
  <2>3. PICK obj : obj = NewDeployment(worker[w].item, worker[w].foo)
    OBVIOUS
  <2>4. CASE /\ UNCHANGED fooVars
             /\ \/ store[n] = None /\ Write(n, obj)
                \/ Updatable(n, obj) /\ Write(n, Updated(n, obj))
    BY <1>1, <2>2, <2>3, <2>4, SentWritten DEF Runs
  <2>5. CASE /\ UNCHANGED storeVars /\ worker[w].pc = "status"
             /\ IsCurrent(k, worker[w].foo) /\ WriteStatus(k, worker[w].dep.available)
    BY <1>1, <2>2, <2>5, StatusWritten DEF Runs
  <2> QED  BY <2>1, <2>2, <2>3, <2>4, <2>5 DEF CallFails, AnswerLost
<1> QED  BY <1>1, <1>2, FailedStep

\* A worker gives a Foo back: it is settled, or retried.
LEMMA FinishRuns ==
    ASSUME IInv, UidsOK, Runs, ~wq.shut, NEW w \in Worker, Finish(w)
    PROVE  Runs' /\ ~wq'.shut
<1>1. /\ worker[w].pc \in {"ok", "fail"} /\ worker' = [worker EXCEPT ![w] = Idle]
      /\ UNCHANGED <<fooVars, storeVars, caches>>
  BY DEF Finish
<1>2. PICK k \in Foo : worker[w].item = k
  BY <1>1, WorkerHolds
<1>3. WellFormed(wq) /\ wq \in Queue
  BY DEF IInv, TypeOK, MutualExclusion, WellFormed
<1>4. PICK q : q = IF worker[w].pc = "ok" THEN Forget(wq, k) ELSE AddRateLimited(wq, k)
  OBVIOUS
<1>5. wq' = Done(q, k)
  BY <1>2, <1>4 DEF Finish
<1>6. /\ q \in Queue /\ ~q.shut /\ Pending(wq) \subseteq Pending(q)
      /\ worker[w].pc = "fail" => k \in Pending(q)
  <2>1. k \in Key
    BY DEF Foo
  <2>2. CASE worker[w].pc = "ok"
    BY <1>3, <1>4, <2>1, <2>2, ForgetWellFormed, ForgetPending DEF WellFormed
  <2>3. CASE worker[w].pc = "fail"
    <3>1. q = AddRateLimited(wq, k)
      BY <1>4, <2>3
    <3> QED  BY <1>3, <2>1, <3>1, AddRateLimitedWellFormed, AddRateLimitedPending DEF WellFormed
  <2> QED  BY <1>1, <2>2, <2>3
<1>7. /\ ~wq'.shut /\ Pending(wq) \subseteq Pending(wq')
      /\ worker[w].pc = "fail" => k \in Pending(wq')
  BY <1>5, <1>6, DonePending
<1>8. Follows' /\ \A f \in Foo : Attentive(f)
  BY <1>1, <1>7, NothingWritten DEF Runs
<1>9. PICK s : s = Idle
  OBVIOUS
<1>10. Current(s)'
  BY <1>9, IdleType DEF Current, Busy
<1>11. \A v \in Worker \ {w} : worker[v].item # k
  BY <1>2, ConstantsAssumption DEF IInv, MutualExclusion
<1>12. Valid(k)' => Synced(k)' \/ Asked(k, foo[k].spec.dep)'
  <2>1. CASE worker[w].pc = "fail"
    BY <1>7, <2>1 DEF Asked, FooAsked
  <2>2. CASE worker[w].pc = "ok"
    <3>1. ~InHand(k)
      BY <1>11, <2>2 DEF InHand
    <3>2. Valid(k) => Synced(k) \/ Asked(k, foo[k].spec.dep)
      BY <3>1 DEF Runs, Settled
    <3> QED  BY <1>8, <3>2, SettledStays
  <2> QED  BY <1>1, <2>1, <2>2
<1>13. worker' = [worker EXCEPT ![w] = s] /\ worker[w].item \in {k, None}
  BY <1>1, <1>2, <1>9
<1>14. Runs'
  BY <1>8, <1>10, <1>11, <1>12, <1>13, WorkerMoves
<1> QED  BY <1>7, <1>14

\* So whatever a worker does, as long as the process is not told to stop.
LEMMA WorkerXInv ==
    ASSUME IInv, XInv, NEW w \in Worker, ProcessNextWorkItem(w) \/ CallFails(w) \/ AnswerLost(w)
    PROVE  PhaseOK' /\ (phase' = "running" => Runs')
<1>1. Alive /\ phase' = phase
  BY DEF ProcessNextWorkItem, Get, GetFoo, GetDeployment, CreateDeployment, Check,
         UpdateDeployment, UpdateFooStatus, Finish, CallFails, AnswerLost
<1>2. CASE phase # "running"
  BY <1>1, <1>2 DEF PhaseOK, Alive
<1>3. CASE phase = "running"
  <2>1. Runs /\ UidsOK /\ ~wq.shut
    BY <1>3 DEF XInv, PhaseOK
  <2>2. CASE Get(w) \/ Finish(w)
    BY <1>1, <1>3, <2>1, <2>2, GetRuns, FinishRuns DEF PhaseOK, Alive
  <2>3. CASE ~Get(w) /\ ~Finish(w)
    <3>1. wq' = wq
      BY <2>3 DEF ProcessNextWorkItem, GetFoo, GetDeployment, CreateDeployment, Check,
         UpdateDeployment, UpdateFooStatus, CallFails, AnswerLost
    <3>2. Runs'
      BY <1>1, <2>1, <2>3, GetFooRuns, GetDeploymentRuns, CheckRuns, SentRuns,
         UpdateFooStatusRuns, FailureRuns DEF ProcessNextWorkItem
    <3> QED  BY <1>1, <1>3, <2>1, <3>1, <3>2 DEF PhaseOK, Alive
  <2> QED  BY <2>2, <2>3
<1> QED  BY <1>2, <1>3

\* XInv is inductive when nobody takes an owner reference off.
LEMMA NextXInv ==
    "orphan" \notin UserActs /\ IInv /\ XInv /\ [Next]_vars => XInv'
<1> SUFFICES ASSUME "orphan" \notin UserActs, IInv, XInv, [Next]_vars PROVE XInv'
  OBVIOUS
<1>1. UidsOK'
  BY NextUids DEF XInv
<1>2. PhaseOK' /\ (phase' = "running" => Runs')
  <2>1. CASE \E f \in Foo : CreateFoo(f) \/ EditFoo(f) \/ DeleteFoo(f)
    BY <2>1, FooEditXInv
  <2>2. CASE \E n \in Name :
                \/ Scale(n) \/ DeleteDeployment(n) \/ CreateForeign(n) \/ Orphan(n)
                \/ PodsFail(n) \/ Rollout(n) \/ GarbageCollect(n)
    BY <2>2, DeploymentEditXInv
  <2>3. CASE \/ \E f \in Foo : WatchFoo(f) \/ Resync(f) \/ BackoffElapsed(f)
             \/ \E n \in Name : Watch(n)
    BY <2>3, InformerXInv
  <2>4. CASE \E w \in Worker : ProcessNextWorkItem(w) \/ CallFails(w) \/ AnswerLost(w)
    BY <2>4, WorkerXInv
  <2>5. CASE CachesSynced \/ Signal \/ Exit \/ Start \/ UNCHANGED vars
    BY <2>5, ProcessXInv
  <2> QED  BY <2>1, <2>2, <2>3, <2>4, <2>5 DEF Next
<1> QED  BY <1>1, <1>2 DEF XInv

\* XInv holds at first: no uid is taken.
LEMMA InitXInv == Init => XInv
<1> SUFFICES ASSUME Init PROVE XInv
  OBVIOUS
<1>1. UidsOK
  <2> DEFINE who == [uid \in 1..MaxEdits |-> None]
  <2>1. who \in [1..MaxEdits -> Foo \cup {None}] /\ \A uid \in 1..MaxEdits : who[uid] = None
    OBVIOUS
  <2>2. FoosAre(who) /\ OwnersAre(who) /\ HeldAre(who)
    BY DEF Init, FoosAre, OwnersAre, HeldAre, FooIs, OwnerIs, Idle
  <2> HIDE DEF who
  <2> QED  BY <2>1, <2>2 DEF UidsOK
<1>2. PhaseOK /\ phase # "running"
  BY DEF Init, PhaseOK, Alive, NewQueue, Idle
<1> QED  BY <1>1, <1>2 DEF XInv

\* Nothing on its way, nothing pending, nothing held: all is settled.
LEMMA XInvIsSynced == IInv /\ XInv => QuiescentIsSynced
<1> SUFFICES ASSUME IInv, XInv, phase = "running",
                    \A f \in Foo : fooWatch[f] = <<>>, \A n \in Name : watch[n] = <<>>,
                    wq.dirty = {}, wq.processing = {}, wq.waiting = {},
                    NEW f \in Foo, Valid(f)
             PROVE  Synced(f)
  BY DEF QuiescentIsSynced
<1>1. Synced(f) \/ Asked(f, foo[f].spec.dep) \/ InHand(f)
  BY DEF XInv, Runs, Settled
<1>2. foo[f].spec.dep \in Name
  <2>1. foo[f] \in FooObject /\ foo[f].spec.dep # None
    BY DEF Valid, IInv, TypeOK
  <2> QED  BY <2>1, ConstantsAssumption DEF FooObject, FooSpec
<1>3. ~Asked(f, foo[f].spec.dep)
  BY <1>2 DEF Asked, FooAsked, Pending, Mentions
<1>4. ~InHand(f)
  <2>1. wq.processing = {worker[w].item : w \in Worker} \ {None}
    BY DEF IInv, MutualExclusion
  <2> QED  BY <2>1, ConstantsAssumption DEF InHand
<1> QED  BY <1>1, <1>3, <1>4

\* When the controller is done, with no change on its way and no Foo queued,
\* held or waiting, every Foo is synced: for any number of Foos, Deployments
\* and workers, whatever fails and whenever the process is stopped.  Nobody may
\* take an owner reference off by hand: what happens to a Deployment without one
\* is traced to nobody (handleObject, controller.go:379-394), and its Foo waits
\* for the next resync.
THEOREM DoneIsSynced ==
    ASSUME "orphan" \notin UserActs
    PROVE  Spec => []QuiescentIsSynced
<1>1. IInv /\ XInv /\ [Next]_vars => (IInv /\ XInv)'
  BY NextIInv, NextXInv
<1> QED  BY <1>1, InitIInv, InitXInv, XInvIsSynced, PTL DEF Spec

-----------------------------------------------------------------------------
(***************************************************************************)
(* The work queue's promise.  What the phase of the process says about the *)
(* queue: requests are accepted until it is told to stop, nothing waits    *)
(* from then on, and a process that is not there yet has an empty queue.   *)
(***************************************************************************)
Open == phase \in {"starting", "running"}

QueueOK ==
    /\ Open => ~wq.shut
    /\ phase = "stopping" => wq.shut /\ wq.waiting = {}
    /\ ~Alive => wq = NewQueue /\ worker = [w \in Worker |-> Idle]

\* A worker whose key stays in its hands works on it or decides.
LEMMA WorkMoves ==
    ASSUME IInv, IInv', NEW w \in Worker, worker[w].pc \notin {"idle", "ok", "fail"},
           worker'[w].item = worker[w].item, \A v \in Worker \ {w} : worker'[v] = worker[v],
           UNCHANGED <<phase, wq>>
    PROVE  [Work!Next]_Work!vars
<1> DEFINE hand == [v \in Worker |-> Hand(worker[v])]
           hands == [v \in Worker |-> Hand(worker'[v])]
<1>1. worker[w].item # None
  BY DEF IInv, WorkersOK
<1>2. /\ \A v \in Worker \ {w} : hands[v] = hand[v]
      /\ hand[w] = [key |-> worker[w].item, result |-> "none"]
      /\ hands[w] = [key |-> worker[w].item,
                     result |-> IF worker'[w].pc \in {"ok", "fail"} THEN worker'[w].pc ELSE "none"]
  BY DEF Hand
<1>3. CASE worker'[w].pc \in {"ok", "fail"}
  <2> DEFINE r == worker'[w].pc
  <2>1. hands[w] = [hand[w] EXCEPT !.result = r]
    BY <1>2, <1>3
  <2>2. DOMAIN hand = Worker /\ hand = [v \in Worker |-> hand[v]]
        /\ hands = [v \in Worker |-> hands[v]]
    OBVIOUS
  <2> HIDE DEF hand, hands, r
  <2>3. hands = [hand EXCEPT ![w].result = r]
    BY <1>2, <2>1, <2>2
  <2>4. /\ hand[w].key # None /\ hand[w].result = "none"
        /\ r \in {"ok", "fail"}
    BY <1>1, <1>2, <1>3 DEF r
  <2>5. Work!Decide(w)
    BY <2>3, <2>4 DEF Work!Decide, hand, hands
  <2> QED  BY <2>5 DEF Work!Next
<1>4. CASE worker'[w].pc \notin {"ok", "fail"}
  <2>1. hands = hand
    BY <1>2, <1>4
  <2> QED  BY <2>1 DEF Work!vars
<1> QED  BY <1>3, <1>4

\* Get is the only step that takes a key from the queue.
LEMMA WorkTakes ==
    ASSUME IInv, NEW w \in Worker, Get(w)
    PROVE  Work!Next
<1> DEFINE h == Head(wq.queue)
           hand == [v \in Worker |-> Hand(worker[v])]
           hands == [v \in Worker |-> Hand(worker'[v])]
<1>1. /\ WellFormed(wq) /\ HasItem(wq) /\ worker \in [Worker -> Sync]
      /\ worker[w].pc = "idle" /\ wq' = Take(wq) /\ phase' = phase
  BY DEF Get, IInv, TypeOK, MutualExclusion, WellFormed
<1>2. /\ h \in Foo \ wq.processing /\ h \in Pending(wq)
      /\ Pending(wq') \in {Pending(wq), Pending(wq) \ {h}}
  BY <1>1, TakeWellFormed, TakesPending DEF Foo
<1>3. /\ worker'[w].item = h /\ worker'[w].pc = "foo"
      /\ \A v \in Worker \ {w} : worker'[v] = worker[v]
  BY <1>1 DEF Get, Idle
<1>4. hand[w] = Work!Free
  BY <1>1 DEF IInv, WorkersOK, Hand, Work!Free
<1>5. \A v \in Worker : hand[v].key # h
  BY <1>2, ConstantsAssumption DEF IInv, MutualExclusion, Hand
<1>6. hands = [hand EXCEPT ![w].key = h]
  BY <1>3, <1>4 DEF Hand, Work!Free
<1> HIDE DEF h, hand, hands
<1>7. Work!Take(w)
  BY <1>1, <1>2, <1>4, <1>5, <1>6 DEF Work!Take, hand, hands
<1> QED  BY <1>7 DEF Work!Next

\* A key whose sync failed is owed again, unless the queue is shut down.
LEMMA WorkFinishes ==
    ASSUME IInv, QueueOK, NEW w \in Worker, Finish(w)
    PROVE  QueueOK' /\ Work!Next
<1> DEFINE k == worker[w].item
           q == IF worker[w].pc = "ok" THEN Forget(wq, k) ELSE AddRateLimited(wq, k)
           hand == [v \in Worker |-> Hand(worker[v])]
           hands == [v \in Worker |-> Hand(worker'[v])]
<1>1. /\ WellFormed(wq) /\ wq \in Queue /\ Alive /\ worker[w].pc \in {"ok", "fail"}
      /\ wq' = Done(q, k) /\ phase' = phase /\ worker' = [worker EXCEPT ![w] = Idle]
      /\ k \in Key
  BY WorkerHolds DEF Finish, IInv, TypeOK, MutualExclusion, WellFormed, Foo
<1>2. /\ q \in Queue /\ (phase = "stopping" <=> wq.shut)
  <2>1. WellFormed(q)
    BY <1>1, ForgetWellFormed, AddRateLimitedWellFormed
  <2> QED  BY <1>1, <2>1 DEF WellFormed, QueueOK, Alive, Open
<1>3. /\ q.shut = wq.shut /\ (wq.shut => q.waiting = wq.waiting)
      /\ Pending(q) = IF Open /\ worker[w].pc = "fail" THEN Pending(wq) \cup {k} ELSE Pending(wq)
  <2>1. CASE worker[w].pc = "ok"
    BY <1>1, <2>1, SameWaiting, ForgetPending
  <2>2. CASE worker[w].pc = "fail" /\ wq.shut
    BY <1>1, <1>2, <2>2, ShutIgnores DEF Open
  <2>3. CASE worker[w].pc = "fail" /\ ~wq.shut
    <3>1. Open /\ q = AddRateLimited(wq, k)
      BY <1>1, <1>2, <2>3 DEF Open, Alive
    <3> HIDE DEF k, q
    <3>2. Pending(q) = Pending(wq) \cup {k} /\ ~q.shut
      BY <1>1, <2>3, <3>1, AddRateLimitedPending
    <3>3. q.shut = wq.shut
      BY <1>1, <1>2, <2>3, <3>2 DEF Queue
    <3> QED  BY <2>3, <3>1, <3>2, <3>3
  <2> QED  BY <1>1, <2>1, <2>2, <2>3
<1> HIDE DEF q
<1>4. wq'.shut = wq.shut /\ wq'.waiting = q.waiting /\ Pending(wq') = Pending(q)
  BY <1>1, <1>2, <1>3, SameWaiting, DonePending
<1>5. QueueOK'
  BY <1>1, <1>2, <1>3, <1>4 DEF QueueOK, Open, Alive
<1>6. worker \in [Worker -> Sync] /\ k # None
  BY <1>1, ConstantsAssumption DEF IInv, TypeOK, Foo
<1>7. hand[w].result = worker[w].pc /\ hand[w].key = k
  BY <1>1 DEF Hand
<1>8. hands = [hand EXCEPT ![w] = Work!Free]
  BY <1>1, <1>6 DEF Hand, Idle, Work!Free
<1> HIDE DEF hand, hands
<1>9. Work!Finish(w)
  BY <1>1, <1>3, <1>4, <1>7, <1>8 DEF Work!Finish, hand, hands, Open
<1> QED  BY <1>5, <1>9 DEF Work!Next

\* A step that leaves queue and workers alone is nothing to the promise.
LEMMA WorkUntouched ==
    ASSUME QueueOK, UNCHANGED <<wq, worker>>,
           phase' = phase \/ (phase = "starting" /\ phase' = "running")
    PROVE  QueueOK' /\ UNCHANGED Work!vars
<1>1. Open' = Open
  BY DEF Open
<1> QED  BY <1>1 DEF QueueOK, Open, Alive, Work!vars

\* A request is one as long as the queue takes it.
LEMMA WorkAsked ==
    ASSUME IInv, QueueOK, NEW a \in Foo, Alive, UNCHANGED <<phase, worker>>,
           wq' = Add(wq, a) \/ (a \in wq.waiting /\ wq' = Elapse(wq, a))
    PROVE  QueueOK' /\ [Work!Next]_Work!vars
<1>1. wq \in Queue /\ a \in Key
  BY DEF IInv, TypeOK, Foo
<1>2. CASE phase = "stopping"
  <2>1. wq' = wq
    BY <1>1, <1>2, ShutIgnores DEF QueueOK
  <2> QED  BY <2>1, WorkUntouched
<1>3. CASE phase = "running"
  <2>1. ~wq.shut
    BY <1>3 DEF QueueOK, Open
  <2>2. Pending(wq') = Pending(wq) \cup {a} /\ ~wq'.shut
    BY <1>1, <2>1, AddPending, ElapsePending
  <2>3. Work!Ask
    BY <1>1, <1>3, <2>2 DEF Work!Ask
  <2> QED  BY <1>3, <2>2, <2>3 DEF Work!Next, QueueOK, Open, Alive
<1> QED  BY <1>2, <1>3 DEF Alive

\* Starting and stopping close and open the queue.
LEMMA WorkStops ==
    ASSUME IInv, QueueOK, Signal \/ Exit \/ Start
    PROVE  QueueOK' /\ Work!Next
<1> DEFINE hands == [v \in Worker |-> Hand(worker'[v])]
<1>1. Pending(NewQueue) = {}
  BY DEF Pending, NewQueue
<1>2. ASSUME worker' = [w \in Worker |-> Idle]
      PROVE  hands = Work!AllFree
  BY <1>2 DEF Hand, Idle, Work!AllFree, Work!Free
<1>3. ASSUME Down
      PROVE  /\ phase' = "down" /\ QueueOK' /\ Pending(wq') = {}
             /\ hands = Work!AllFree
  BY <1>1, <1>2, <1>3 DEF Down, QueueOK, Open, Alive
<1>4. CASE Signal
  <2>1. CASE phase = "starting" /\ Down
    BY <1>3, <2>1 DEF Work!Next, Work!Close
  <2>2. CASE phase = "running" /\ phase' = "stopping" /\ wq' = ShutDown(wq) /\ worker' = worker
    <3>1. wq'.shut /\ wq'.waiting = {} /\ Pending(wq') \subseteq Pending(wq)
      BY <2>2, ShutDownPending DEF IInv, TypeOK
    <3>2. Work!Close
      BY <2>2, <3>1 DEF Work!Close
    <3> QED  BY <2>2, <3>1, <3>2 DEF Work!Next, QueueOK, Open, Alive
  <2> QED  BY <1>4, <2>1, <2>2 DEF Signal
<1>5. CASE Exit
  BY <1>3, <1>5 DEF Exit, Work!Next, Work!Exit
<1>6. CASE Start
  <2>1. /\ phase = "down" /\ phase' = "starting" /\ wq' = wq /\ worker' = worker
        /\ wq = NewQueue /\ worker = [w \in Worker |-> Idle]
    BY <1>6 DEF Start, QueueOK, Alive
  <2>2. QueueOK'
    BY <2>1 DEF QueueOK, Open, Alive, NewQueue
  <2>3. Work!Open
    BY <1>1, <1>2, <2>1 DEF Work!Open
  <2> QED  BY <2>2, <2>3 DEF Work!Next
<1> QED  BY <1>4, <1>5, <1>6

\* Between Get and Finish a worker keeps its key.
LEMMA WorkerKeeps ==
    ASSUME IInv, NEW w \in Worker,
           ProcessNextWorkItem(w) \/ CallFails(w) \/ AnswerLost(w), ~Get(w), ~Finish(w)
    PROVE  /\ worker[w].pc \notin {"idle", "ok", "fail"} /\ UNCHANGED <<phase, wq>>
           /\ worker'[w].item = worker[w].item
           /\ \A v \in Worker \ {w} : worker'[v] = worker[v]
<1>1. worker \in [Worker -> Sync]
  BY DEF IInv, TypeOK
<1>2. ASSUME NEW pc, NEW dep, Goto(w, pc, dep)
      PROVE  /\ worker'[w].item = worker[w].item
             /\ \A v \in Worker \ {w} : worker'[v] = worker[v]
  BY <1>1, <1>2 DEF Goto, Sync
<1>3. ASSUME NEW to, worker' = [worker EXCEPT ![w].pc = to]
      PROVE  /\ worker'[w].item = worker[w].item
             /\ \A v \in Worker \ {w} : worker'[v] = worker[v]
  BY <1>1, <1>3 DEF Sync
<1>4. CASE GetFoo(w)
  BY <1>1, <1>4 DEF GetFoo, Sync
<1>5. CASE GetDeployment(w)
  BY <1>2, <1>5 DEF GetDeployment
<1>6. CASE CreateDeployment(w)
  BY <1>2, <1>6 DEF CreateDeployment
<1>7. CASE Check(w)
  BY <1>2, <1>3, <1>7 DEF Check
<1>8. CASE UpdateDeployment(w)
  BY <1>2, <1>3, <1>8 DEF UpdateDeployment
<1>9. CASE UpdateFooStatus(w)
  BY <1>2, <1>3, <1>9 DEF UpdateFooStatus
<1>10. CASE CallFails(w)
  BY <1>2, <1>10 DEF CallFails
<1>11. CASE AnswerLost(w)
  BY <1>2, <1>11 DEF AnswerLost
<1> QED  BY <1>4, <1>5, <1>6, <1>7, <1>8, <1>9, <1>10, <1>11 DEF ProcessNextWorkItem

\* Every step is one of the promise, or nothing to it.
LEMMA WorkStep ==
    ASSUME IInv, QueueOK, [Next]_vars
    PROVE  QueueOK' /\ [Work!Next]_Work!vars
<1>1. IInv'
  BY NextIInv
<1>2. CASE \/ \E f \in Foo : CreateFoo(f) \/ EditFoo(f) \/ DeleteFoo(f)
           \/ \E n \in Name :
                 \/ Scale(n) \/ DeleteDeployment(n) \/ CreateForeign(n) \/ Orphan(n)
                 \/ PodsFail(n) \/ Rollout(n) \/ GarbageCollect(n)
           \/ CachesSynced \/ UNCHANGED vars
  <2>1. /\ UNCHANGED <<wq, worker>>
        /\ phase' = phase \/ (phase = "starting" /\ phase' = "running")
    BY <1>2 DEF CreateFoo, EditFoo, DeleteFoo, Scale, DeleteDeployment, CreateForeign, Orphan,
                PodsFail, Rollout, UserEdit, GarbageCollect, CachesSynced, process, vars
  <2> QED  BY <2>1, WorkUntouched
<1>3. CASE \/ \E f \in Foo : WatchFoo(f) \/ Resync(f) \/ BackoffElapsed(f)
           \/ \E n \in Name : Watch(n)
  <2>1. Alive /\ UNCHANGED <<phase, worker>>
    BY <1>3 DEF WatchFoo, Resync, BackoffElapsed, Watch
  <2>2. CASE wq' = wq
    BY <2>1, <2>2, WorkUntouched
  <2>3. CASE wq' # wq
    <3>1. CASE \E f \in Foo : WatchFoo(f) \/ Resync(f) \/ BackoffElapsed(f)
      <4>1. PICK f \in Foo : WatchFoo(f) \/ Resync(f) \/ BackoffElapsed(f)
        BY <3>1
      <4>2. wq' = Add(wq, f) \/ (f \in wq.waiting /\ wq' = Elapse(wq, f))
        BY <2>3, <4>1 DEF WatchFoo, Resync, BackoffElapsed
      <4> QED  BY <2>1, <4>2, WorkAsked
    <3>2. CASE \E n \in Name : Watch(n)
      <4>1. PICK n \in Name : Watch(n)
        BY <3>2
      <4> DEFINE object == IF Head(watch[n]) = None THEN cache[n] ELSE Head(watch[n])
      <4>2. /\ object # None /\ object.owner # 0 /\ wq' = Add(wq, object.label)
        BY <2>3, <4>1 DEF Watch, HandleObject
      <4>3. object \in Deployment
        <5>1. /\ watch[n] \in Seq(Deployment \cup {None}) /\ watch[n] # <<>>
              /\ cache[n] \in Deployment \cup {None}
          BY <4>1 DEF Watch, IInv, TypeOK
        <5>2. Head(watch[n]) \in Deployment \cup {None}
          BY <5>1
        <5> QED  BY <4>2, <5>1, <5>2
      <4> HIDE DEF object
      <4>4. object.label \in Foo
        BY <4>2, <4>3 DEF Deployment
      <4> QED  BY <2>1, <4>2, <4>4, WorkAsked
    <3> QED  BY <1>3, <3>1, <3>2
  <2> QED  BY <2>2, <2>3
<1>4. CASE \E w \in Worker : ProcessNextWorkItem(w) \/ CallFails(w) \/ AnswerLost(w)
  <2>1. PICK w \in Worker : ProcessNextWorkItem(w) \/ CallFails(w) \/ AnswerLost(w)
    BY <1>4
  <2>2. CASE Get(w)
    <3>1. wq \in Queue /\ Alive /\ wq' = Take(wq) /\ phase' = phase
      BY <2>2 DEF Get, IInv, TypeOK
    <3>2. wq'.waiting = wq.waiting /\ wq'.shut = wq.shut
      BY <3>1, SameWaiting
    <3>3. QueueOK'
      BY <3>1, <3>2 DEF QueueOK, Open, Alive
    <3> QED  BY <2>2, <3>3, WorkTakes
  <2>3. CASE Finish(w)
    BY <2>3, WorkFinishes
  <2>4. CASE ~Get(w) /\ ~Finish(w)
    <3>1. /\ worker[w].pc \notin {"idle", "ok", "fail"} /\ UNCHANGED <<phase, wq>>
          /\ worker'[w].item = worker[w].item
          /\ \A v \in Worker \ {w} : worker'[v] = worker[v]
      BY <2>1, <2>4, WorkerKeeps
    <3>2. Alive
      BY <2>1 DEF ProcessNextWorkItem, Get, GetFoo, GetDeployment, CreateDeployment, Check,
                  UpdateDeployment, UpdateFooStatus, Finish, CallFails, AnswerLost
    <3>3. QueueOK'
      BY <3>1, <3>2 DEF QueueOK, Open, Alive
    <3> QED  BY <1>1, <3>1, <3>3, WorkMoves
  <2> QED  BY <2>2, <2>3, <2>4
<1>5. CASE Signal \/ Exit \/ Start
  BY <1>5, WorkStops
<1> QED  BY <1>2, <1>3, <1>4, <1>5 DEF Next

\* At first the queue is open, and nothing is due.
LEMMA InitWork == Init => QueueOK /\ Work!Init
<1> SUFFICES ASSUME Init PROVE QueueOK /\ Work!Init
  OBVIOUS
<1>1. Pending(wq) = {} /\ ~wq.shut
  BY DEF Init, Pending, NewQueue
<1>2. [w \in Worker |-> Hand(worker[w])] = Work!AllFree
  BY DEF Init, Hand, Idle, Work!AllFree, Work!Free
<1> QED  BY <1>1, <1>2 DEF Init, QueueOK, Open, Alive, Work!Init

\* A Foo that is due is handed to one worker at a time, is due again when it
\* was asked for meanwhile or its sync failed, and is never lost before the
\* queue is shut down (controller.go:76-80 and 192-243).
THEOREM FoosAreWorkedOn == Spec => WorkIsExclusive
<1>1. Init => IInv /\ QueueOK /\ Work!Init
  BY InitIInv, InitWork
<1>2. IInv /\ QueueOK /\ [Next]_vars => IInv' /\ QueueOK' /\ [Work!Next]_Work!vars
  BY NextIInv, WorkStep
<1> QED  BY <1>1, <1>2, PTL DEF Spec, WorkIsExclusive, Work!Spec
=============================================================================
