------------------------- MODULE AppReconcilerProofs -------------------------
(***************************************************************************)
(* For every set of Apps, specs and bounds: the reconciler is type         *)
(* correct, and what it is done with is as its App wants it.               *)
(***************************************************************************)
EXTENDS AppReconciler, WorkQueueProofs, FiniteSetTheorems

\* The locals of Reconcile at each pc, and the queue's view of the worker.
RecOK ==
    /\ rec.item = None <=> rec.pc = "idle"
    /\ rec.pc \in {"read", "create", "update", "delete"} =>
          rec.app # None /\ rec.kind # None
    /\ rec.pc \in {"create", "update"} => Wants(rec.app, rec.kind)
    /\ rec.pc = "delete" => ~Wants(rec.app, rec.kind)
    /\ rec.pc = "update" =>
          rec.got # None /\ (rec.kind # "dep" => rec.got.content = "template")
    /\ Running \/ rec = Idle

QueueOK ==
    /\ wq.processing = {rec.item} \ {None}
    /\ QueueInv(wq) /\ ~wq.shut

IInv == TypeOK /\ RecOK /\ QueueOK
-----------------------------------------------------------------------------
(***************************************************************************)
(* Versions: the next one is a number, as there are finitely many copies   *)
(* of an object.                                                           *)
(***************************************************************************)
\* A sequence has finitely many elements.
LEMMA FiniteRange ==
    ASSUME NEW S, NEW q \in Seq(S)
    PROVE  IsFiniteSet(Range(q)) /\ Range(q) \subseteq S
<1>1. q \in [1..Len(q) -> S] /\ Len(q) \in Nat /\ DOMAIN q = 1..Len(q)
  OBVIOUS
<1>2. q \in Surjection(1..Len(q), Range(q))
  BY <1>1 DEF Surjection, Range
<1>3. IsFiniteSet(1..Len(q))
  BY <1>1, FS_Interval
<1>4. IsFiniteSet(Range(q))
  BY <1>2, <1>3, FS_Surjection
<1> QED  BY <1>1, <1>4 DEF Range

\* There is a version that no copy of the object has.
LEMMA NextVersionType ==
    ASSUME TypeOK, NEW kind \in Kind, NEW k \in App
    PROVE  NextVersion(kind, k) \in Nat
<1> DEFINE copies == {store[kind][k], cache[kind][k], rec.got} \cup Range(watch[kind][k])
           found == copies \ {None}
           taken == {obj.rv : obj \in found}
           free == 1..(Cardinality(taken) + 1) \ taken
<1>1. /\ store[kind][k] \in Dependent \cup {None} /\ cache[kind][k] \in Dependent \cup {None}
      /\ watch[kind][k] \in Seq(Dependent \cup {None}) /\ rec.got \in Dependent \cup {None}
  BY DEF TypeOK, Locals
<1>2. IsFiniteSet(Range(watch[kind][k])) /\ Range(watch[kind][k]) \subseteq Dependent \cup {None}
  BY <1>1, FiniteRange
<1>3. IsFiniteSet({store[kind][k], cache[kind][k], rec.got})
  <2>1. IsFiniteSet({} \cup {rec.got})
    BY FS_EmptySet, FS_AddElement
  <2>2. IsFiniteSet(({} \cup {rec.got}) \cup {cache[kind][k]})
    BY <2>1, FS_AddElement
  <2>3. IsFiniteSet((({} \cup {rec.got}) \cup {cache[kind][k]}) \cup {store[kind][k]})
    BY <2>2, FS_AddElement
  <2>4. (({} \cup {rec.got}) \cup {cache[kind][k]}) \cup {store[kind][k]}
           = {store[kind][k], cache[kind][k], rec.got}
    OBVIOUS
  <2> QED  BY <2>3, <2>4
<1>4. IsFiniteSet(copies)
  BY <1>2, <1>3, FS_Union
<1>5. IsFiniteSet(found) /\ found \subseteq Dependent
  <2>1. IsFiniteSet(found)
    BY <1>4, FS_RemoveElement
  <2>2. found \subseteq Dependent
    BY <1>1, <1>2
  <2> QED  BY <2>1, <2>2
<1> HIDE DEF copies, found
<1>6. IsFiniteSet(taken)
  <2> DEFINE rv == [obj \in found |-> obj.rv]
  <2>1. rv \in Surjection(found, taken)
    BY DEF Surjection
  <2> QED  BY <1>5, <2>1, FS_Surjection
<1>7. taken \subseteq Nat /\ Cardinality(taken) \in Nat
  <2>1. \A obj \in Dependent : obj.rv \in Nat
    BY DEF Dependent
  <2>2. Cardinality(taken) \in Nat
    BY <1>6, FS_CardinalityType
  <2> QED  BY <1>5, <2>1, <2>2
<1> HIDE DEF taken
<1>8. free # {}
  <2> SUFFICES ASSUME free = {} PROVE FALSE
    OBVIOUS
  <2>1. 1..(Cardinality(taken) + 1) \in SUBSET taken
    OBVIOUS
  <2>2. Cardinality(1..(Cardinality(taken) + 1)) <= Cardinality(taken)
    BY <1>6, <2>1, FS_Subset
  <2>3. Cardinality(1..(Cardinality(taken) + 1)) = Cardinality(taken) + 1
    BY <1>7, FS_Interval
  <2> QED  BY <1>7, <2>2, <2>3
<1>9. (CHOOSE n \in free : TRUE) \in free
  BY <1>8
<1>10. free \subseteq Nat
  OBVIOUS
<1>11. NextVersion(kind, k) = CHOOSE n \in free : TRUE
  BY DEF NextVersion, taken, found, copies
<1> QED  BY <1>9, <1>10, <1>11
-----------------------------------------------------------------------------
(***************************************************************************)
(* The types.                                                              *)
(***************************************************************************)
\* Empty stores, watches and caches.
LEMMA EmptyTypes ==
    /\ NoObjects \in [Kind -> [App -> Dependent \cup {None}]]
    /\ NoEvents \in [Kind -> [App -> Seq(Dependent \cup {None})]]
    /\ [k \in App |-> <<>>] \in [App -> Seq(AppObject \cup {None})]
    /\ [k \in App |-> None] \in [App -> AppObject \cup {None}]
    /\ Idle \in Locals /\ Idle.item = None /\ Idle.pc = "idle"
<1>1. <<>> \in Seq(Dependent \cup {None}) /\ <<>> \in Seq(AppObject \cup {None})
  OBVIOUS
<1> QED  BY <1>1 DEF NoObjects, NoEvents, Idle, Locals

\* A write stores and sends a well-typed App.
LEMMA WriteAppType ==
    ASSUME TypeOK, NEW k \in App, NEW obj \in AppObject \cup {None}, WriteApp(k, obj)
    PROVE  /\ app' \in [App -> AppObject \cup {None}]
           /\ appWatch' \in [App -> Seq(AppObject \cup {None})]
<1>1. appWatch[k] \in Seq(AppObject \cup {None})
  BY DEF TypeOK
<1>2. Append(appWatch[k], obj) \in Seq(AppObject \cup {None})
  BY <1>1
<1> QED  BY <1>2 DEF TypeOK, WriteApp

\* A write stores and sends a well-typed dependent.
LEMMA WriteType ==
    ASSUME TypeOK, NEW kind \in Kind, NEW k \in App, NEW obj \in Dependent \cup {None},
           Write(kind, k, obj)
    PROVE  /\ store' \in [Kind -> [App -> Dependent \cup {None}]]
           /\ watch' \in [Kind -> [App -> Seq(Dependent \cup {None})]]
<1>1. watch[kind][k] \in Seq(Dependent \cup {None})
  BY DEF TypeOK
<1>2. Append(watch[kind][k], obj) \in Seq(Dependent \cup {None})
  BY <1>1
<1> QED  BY <1>2 DEF TypeOK, Write

\* A step that leaves the process alone.
LEMMA OutsideIInv ==
    ASSUME IInv, TypeOK', UNCHANGED process
    PROVE  IInv'
  BY DEF IInv, RecOK, QueueOK, process, Running

\* The invariant holds at first.
LEMMA InitIInv == Init => IInv
<1> SUFFICES ASSUME Init PROVE IInv
  OBVIOUS
<1>1. NewQueue \in Queue /\ QueueInv(NewQueue) /\ NewQueue.processing = {} /\ ~NewQueue.shut
  BY NewQueueWellFormed DEF WellFormed, NewQueue
<1>2. app \in [App -> AppObject \cup {None}]
  <2>1. [uid : {1}, spec : Before] \subseteq AppObject
    BY ConstantsAssumption DEF AppObject, Uid
  <2> QED  BY <2>1 DEF Init
<1>3. edits \in 0..MaxEdits /\ mishaps \in 0..MaxMishaps
  BY ConstantsAssumption DEF Init
<1>4. TypeOK
  BY <1>1, <1>2, <1>3, EmptyTypes DEF Init, TypeOK
<1>5. RecOK
  BY EmptyTypes DEF Init, RecOK
<1>6. QueueOK
  BY <1>1, EmptyTypes DEF Init, QueueOK
<1> QED  BY <1>4, <1>5, <1>6 DEF IInv

\* Users' edits of Apps.
LEMMA AppEditIInv ==
    ASSUME IInv, NEW k \in App, CreateApp(k) \/ EditApp(k) \/ DeleteApp(k)
    PROVE  /\ IInv' /\ UserEdit /\ UNCHANGED storeVars
           /\ \E obj \in AppObject \cup {None} : WriteApp(k, obj)
<1>1. UserEdit /\ UNCHANGED storeVars /\ \E obj \in AppObject \cup {None} : WriteApp(k, obj)
  <2>1. edits < MaxEdits => edits + 2 \in Uid
    BY ConstantsAssumption DEF IInv, TypeOK, Uid
  <2>2. CASE CreateApp(k)
    <3>1. UserEdit /\ UNCHANGED storeVars
      BY <2>2 DEF CreateApp
    <3>2. PICK s \in Specs : WriteApp(k, [uid |-> edits + 2, spec |-> s])
      BY <2>2 DEF CreateApp
    <3>3. [uid |-> edits + 2, spec |-> s] \in AppObject
      BY <2>1, <3>1 DEF AppObject, UserEdit
    <3> QED  BY <3>1, <3>2, <3>3
  <2>3. CASE EditApp(k)
    <3>1. UserEdit /\ UNCHANGED storeVars /\ app[k] # None
      BY <2>3 DEF EditApp
    <3>2. PICK s \in Specs : WriteApp(k, [app[k] EXCEPT !.spec = s])
      BY <2>3 DEF EditApp
    <3>3. [app[k] EXCEPT !.spec = s] \in AppObject
      BY <3>1 DEF AppObject, IInv, TypeOK
    <3> QED  BY <3>1, <3>2, <3>3
  <2>4. CASE DeleteApp(k)
    BY <2>4 DEF DeleteApp
  <2> QED  BY <2>2, <2>3, <2>4
<1>2. /\ app' \in [App -> AppObject \cup {None}]
      /\ appWatch' \in [App -> Seq(AppObject \cup {None})]
  BY <1>1, WriteAppType DEF IInv
<1>3. edits' \in 0..MaxEdits
  BY <1>1, ConstantsAssumption DEF UserEdit, IInv, TypeOK
<1>4. TypeOK'
  BY <1>1, <1>2, <1>3 DEF UserEdit, IInv, TypeOK, storeVars, caches, process
<1> QED  BY <1>1, <1>4, OutsideIInv DEF UserEdit

\* What happens to a dependent without the reconciler's doing.
Touched(kind, k) ==
    \/ EditDependent(kind, k) \/ DeleteDependent(kind, k) \/ CreateForeign(kind, k)
    \/ GarbageCollect(kind, k) \/ (kind = "dep" /\ WriteStatus(k))

\* It leaves the process alone and writes a well-typed object.
LEMMA TouchedIInv ==
    ASSUME IInv, NEW kind \in Kind, NEW k \in App, Touched(kind, k)
    PROVE  /\ IInv' /\ UNCHANGED <<appVars, caches, process>>
           /\ \E obj \in Dependent \cup {None} : Write(kind, k, obj)
<1> DEFINE v == NextVersion(kind, k)
<1>0. v \in Nat /\ (store[kind][k] # None => store[kind][k] \in Dependent)
      /\ edits \in 0..MaxEdits /\ mishaps \in 0..MaxMishaps
  BY NextVersionType DEF IInv, TypeOK
<1> HIDE DEF v
<1>1. /\ UNCHANGED <<appVars, caches, process>>
      /\ edits' \in 0..MaxEdits /\ mishaps' \in 0..MaxMishaps
      /\ \E obj \in Dependent \cup {None} : Write(kind, k, obj)
  <2>1. UserEdit => /\ UNCHANGED <<caches, process>>
                    /\ edits' \in 0..MaxEdits /\ mishaps' \in 0..MaxMishaps
    BY <1>0, ConstantsAssumption DEF UserEdit
  <2>2. CASE EditDependent(kind, k)
    <3>1. UserEdit /\ UNCHANGED appVars /\ store[kind][k] # None
          /\ Write(kind, k, [store[kind][k] EXCEPT !.content = "other", !.rv = v])
      BY <2>2 DEF EditDependent, v
    <3>2. [store[kind][k] EXCEPT !.content = "other", !.rv = v] \in Dependent
      BY <1>0, <3>1 DEF Dependent
    <3> QED  BY <2>1, <3>1, <3>2
  <2>3. CASE DeleteDependent(kind, k)
    BY <2>1, <2>3 DEF DeleteDependent
  <2>4. CASE CreateForeign(kind, k)
    <3>1. UserEdit /\ UNCHANGED appVars
          /\ Write(kind, k, [rv |-> v, owner |-> 0, content |-> "other"])
      BY <2>4 DEF CreateForeign, v
    <3>2. [rv |-> v, owner |-> 0, content |-> "other"] \in Dependent
      BY <1>0 DEF Dependent
    <3> QED  BY <2>1, <3>1, <3>2
  <2>5. CASE GarbageCollect(kind, k)
    BY <1>0, <2>5 DEF GarbageCollect, counters
  <2>6. CASE kind = "dep" /\ WriteStatus(k)
    <3>1. /\ Mishap /\ UNCHANGED <<appVars, caches, process>> /\ store[kind][k] # None
          /\ Write(kind, k, [store[kind][k] EXCEPT !.rv = v])
      BY <2>6 DEF WriteStatus, v
    <3>2. [store[kind][k] EXCEPT !.rv = v] \in Dependent
      BY <1>0, <3>1 DEF Dependent
    <3>3. edits' \in 0..MaxEdits /\ mishaps' \in 0..MaxMishaps
      BY <1>0, <3>1, ConstantsAssumption DEF Mishap
    <3> QED  BY <3>1, <3>2, <3>3
  <2> QED  BY <2>2, <2>3, <2>4, <2>5, <2>6 DEF Touched
<1>2. /\ store' \in [Kind -> [App -> Dependent \cup {None}]]
      /\ watch' \in [Kind -> [App -> Seq(Dependent \cup {None})]]
  BY <1>1, WriteType DEF IInv
<1>3. TypeOK'
  BY <1>1, <1>2 DEF IInv, TypeOK, appVars, caches, process
<1> QED  BY <1>1, <1>3, OutsideIInv

\* The process comes and goes.
LEMMA ProcessIInv ==
    ASSUME IInv, CacheSynced \/ Crash \/ Restart
    PROVE  IInv'
<1> USE DEF IInv
<1>0. /\ NewQueue \in Queue /\ QueueInv(NewQueue) /\ NewQueue.processing = {} /\ ~NewQueue.shut
      /\ mishaps' \in 0..MaxMishaps /\ edits' \in 0..MaxEdits
  <2>1. mishaps \in 0..MaxMishaps /\ edits \in 0..MaxEdits /\ MaxMishaps \in Nat
    BY ConstantsAssumption DEF TypeOK
  <2>2. mishaps' \in 0..MaxMishaps /\ edits' \in 0..MaxEdits
    BY <2>1 DEF CacheSynced, Crash, Restart, Mishap, counters
  <2> QED  BY <2>2, NewQueueWellFormed DEF WellFormed, NewQueue
<1>1. CASE CacheSynced
  <2>1. appWatch' \in [App -> Seq(AppObject \cup {None})]
    <3>1. ASSUME NEW k \in App
          PROVE  (IF app[k] = None THEN <<>> ELSE <<app[k]>>) \in Seq(AppObject \cup {None})
      <4>1. app[k] \in AppObject \cup {None}
        BY DEF TypeOK
      <4>2. <<app[k]>> \in Seq(AppObject \cup {None}) /\ <<>> \in Seq(AppObject \cup {None})
        BY <4>1
      <4> QED  BY <4>2
    <3> QED  BY <1>1, <3>1 DEF CacheSynced
  <2>2. watch' \in [Kind -> [App -> Seq(Dependent \cup {None})]]
    <3>1. ASSUME NEW kind \in Kind, NEW k \in App
          PROVE  (IF store[kind][k] = None THEN <<>> ELSE <<store[kind][k]>>)
                    \in Seq(Dependent \cup {None})
      <4>1. store[kind][k] \in Dependent \cup {None}
        BY DEF TypeOK
      <4>2. <<store[kind][k]>> \in Seq(Dependent \cup {None})
            /\ <<>> \in Seq(Dependent \cup {None})
        BY <4>1
      <4> QED  BY <4>2
    <3> QED  BY <1>1, <3>1 DEF CacheSynced
  <2>3. TypeOK'
    BY <1>0, <1>1, <2>1, <2>2 DEF CacheSynced, TypeOK
  <2>4. RecOK' /\ QueueOK'
    BY <1>1 DEF CacheSynced, RecOK, QueueOK, Running
  <2> QED  BY <2>3, <2>4
<1>2. CASE Crash
  <2>1. TypeOK'
    BY <1>0, <1>2, EmptyTypes DEF Crash, TypeOK
  <2>2. RecOK' /\ QueueOK'
    BY <1>0, <1>2, EmptyTypes DEF Crash, RecOK, QueueOK
  <2> QED  BY <2>1, <2>2
<1>3. CASE Restart
  <2>1. TypeOK'
    BY <1>0, <1>3 DEF Restart, TypeOK, appVars, storeVars, caches
  <2>2. rec = Idle
    BY <1>3 DEF Restart, RecOK, Running
  <2>3. RecOK' /\ QueueOK'
    BY <1>3, <2>2 DEF Restart, RecOK, QueueOK
  <2> QED  BY <2>1, <2>3
<1> QED  BY <1>1, <1>2, <1>3

\* Steps of the cache and of timers that only add to the queue.
LEMMA QueuedIInv ==
    ASSUME IInv, TypeOK', WellFormed(wq'), wq'.processing = wq.processing, ~wq'.shut,
           UNCHANGED <<phase, rec>>
    PROVE  IInv'
  BY DEF IInv, RecOK, QueueOK, WellFormed, Running

\* An event enters the cache.
LEMMA CacheIInv ==
    ASSUME IInv, NEW k \in App, NEW kind \in Kind,
           WatchApp(k) \/ Watch(kind, k) \/ Resync(k) \/ BackoffElapsed(k)
    PROVE  IInv'
<1>0. WellFormed(wq) /\ wq \in Queue /\ ~wq.shut
  BY DEF IInv, TypeOK, QueueOK, WellFormed
<1>1. /\ WellFormed(Add(wq, k)) /\ Add(wq, k).processing = wq.processing /\ ~Add(wq, k).shut
      /\ Add(wq, k) \in Queue
  BY <1>0, AddWellFormed, AddPending DEF WellFormed, App
<1>2. CASE WatchApp(k)
  <2>1. appWatch[k] \in Seq(AppObject \cup {None}) /\ appWatch[k] # <<>>
    BY <1>2 DEF IInv, TypeOK, WatchApp
  <2>2. Head(appWatch[k]) \in AppObject \cup {None}
        /\ Tail(appWatch[k]) \in Seq(AppObject \cup {None})
    BY <2>1
  <2>3. appCache' \in [App -> AppObject \cup {None}]
        /\ appWatch' \in [App -> Seq(AppObject \cup {None})]
    BY <1>2, <2>2 DEF WatchApp, IInv, TypeOK
  <2>4. TypeOK'
    BY <1>1, <1>2, <2>3 DEF WatchApp, IInv, TypeOK, storeVars, counters
  <2> QED  BY <1>1, <1>2, <2>4, QueuedIInv DEF WatchApp
<1>3. CASE Watch(kind, k)
  <2>1. watch[kind][k] \in Seq(Dependent \cup {None}) /\ watch[kind][k] # <<>>
    BY <1>3 DEF IInv, TypeOK, Watch
  <2>2. Head(watch[kind][k]) \in Dependent \cup {None}
        /\ Tail(watch[kind][k]) \in Seq(Dependent \cup {None})
    BY <2>1
  <2>3. cache' \in [Kind -> [App -> Dependent \cup {None}]]
        /\ watch' \in [Kind -> [App -> Seq(Dependent \cup {None})]]
    BY <1>3, <2>2 DEF Watch, IInv, TypeOK
  <2>4. wq' \in {wq, Add(wq, k)} /\ unseen' \in SUBSET App
    BY <1>3 DEF Watch, IInv, TypeOK
  <2>5. TypeOK'
    BY <1>0, <1>1, <1>3, <2>3, <2>4 DEF Watch, IInv, TypeOK, appVars, counters
  <2> QED  BY <1>0, <1>1, <1>3, <2>4, <2>5, QueuedIInv DEF Watch
<1>4. CASE Resync(k)
  <2>1. TypeOK'
    BY <1>1, <1>4 DEF Resync, IInv, TypeOK, appVars, storeVars, caches, counters
  <2> QED  BY <1>1, <1>4, <2>1, QueuedIInv DEF Resync
<1>5. CASE BackoffElapsed(k)
  <2>1. WellFormed(wq') /\ wq'.processing = wq.processing /\ ~wq'.shut
    BY <1>0, <1>5, ElapseWellFormed, ElapsePending DEF BackoffElapsed, App
  <2>2. TypeOK'
    BY <1>5, <2>1 DEF BackoffElapsed, IInv, TypeOK, appVars, storeVars, caches, counters, WellFormed
  <2> QED  BY <1>5, <2>1, <2>2, QueuedIInv DEF BackoffElapsed
<1> QED  BY <1>2, <1>3, <1>4, <1>5

\* Inside Reconcile, the worker keeps its request.
LEMMA RecStepIInv ==
    ASSUME IInv, TypeOK', rec'.item = rec.item, rec.pc # "idle", UNCHANGED <<phase, wq>>, RecOK'
    PROVE  IInv'
  BY DEF IInv, QueueOK

\* On to the next kind, or out.
LEMMA OnwardOK ==
    ASSUME IInv, rec.pc \in {"read", "update", "delete"}
    PROVE  /\ Onward \in Locals /\ Onward.item = rec.item
           /\ \/ Onward.pc = "ok" /\ rec.kind = "ing"
              \/ /\ Onward.pc = "read" /\ Onward.app = rec.app /\ rec.kind # "ing"
                 /\ Onward.kind = (IF rec.kind = "dep" THEN "svc" ELSE "ing")
<1>1. rec \in Locals /\ rec.item \in App /\ rec.kind \in Kind
  BY DEF IInv, TypeOK, RecOK, Locals
<1>2. CASE rec.kind = "ing"
  BY <1>1, <1>2, EmptyTypes DEF Onward, Return, Idle, Locals
<1>3. CASE rec.kind # "ing"
  BY <1>1, <1>3 DEF Onward, Locals, Kind
<1> QED  BY <1>2, <1>3

\* Reconcile returned.
LEMMA ReturnOK ==
    ASSUME IInv, rec.pc # "idle", NEW result \in {"ok", "fail"}
    PROVE  Return(result) \in Locals /\ Return(result).item = rec.item /\ Return(result).pc = result
<1>1. rec.item \in App
  BY DEF IInv, TypeOK, RecOK, Locals
<1> QED  BY <1>1 DEF Return, Idle, Locals

\* A request is taken, and given back.
LEMMA QueueIInv ==
    ASSUME IInv, Get \/ Finish
    PROVE  IInv'
<1>0. WellFormed(wq) /\ wq \in Queue /\ ~wq.shut /\ rec \in Locals
  BY DEF IInv, TypeOK, QueueOK, WellFormed
<1>1. CASE Get
  <2>1. /\ Running /\ rec.pc = "idle" /\ wq.queue # <<>> /\ wq' = Take(wq)
        /\ rec' = [Idle EXCEPT !.pc = "app", !.item = Head(wq.queue)]
        /\ unseen' \in SUBSET App
        /\ UNCHANGED <<appVars, storeVars, caches, phase, counters>>
    BY <1>1 DEF Get, HasItem, IInv, TypeOK
  <2>2. /\ WellFormed(wq') /\ Head(wq.queue) \in App
        /\ wq'.processing = wq.processing \cup {Head(wq.queue)} /\ ~wq'.shut
    BY <1>0, <2>1, TakeWellFormed, TakePending DEF App, HasItem
  <2>3. rec' \in Locals /\ rec'.pc = "app" /\ rec'.item = Head(wq.queue)
    BY <2>1, <2>2 DEF Idle, Locals
  <2>4. TypeOK'
    BY <2>1, <2>2, <2>3 DEF IInv, TypeOK, appVars, storeVars, caches, counters, WellFormed
  <2>5. rec'.item # None
    BY <2>2, <2>3, ConstantsAssumption
  <2>6. RecOK'
    BY <2>1, <2>3, <2>5 DEF RecOK, Running
  <2>7. QueueOK'
    BY <2>1, <2>2, <2>3, <2>5 DEF IInv, RecOK, QueueOK, WellFormed
  <2> QED  BY <2>4, <2>6, <2>7 DEF IInv
<1>2. CASE Finish
  <2> DEFINE q == IF rec.pc = "ok" THEN Forget(wq, rec.item) ELSE AddRateLimited(wq, rec.item)
  <2>1. /\ Running /\ rec.pc \in {"ok", "fail"} /\ rec' = Idle /\ wq' = Done(q, rec.item)
        /\ UNCHANGED <<appVars, storeVars, caches, phase, unseen, counters>>
    BY <1>2 DEF Finish
  <2>2. rec.item \in App /\ wq.processing = {rec.item}
    BY <1>0, <2>1, ConstantsAssumption DEF IInv, RecOK, QueueOK, Locals
  <2>3. WellFormed(q) /\ q.processing = wq.processing /\ ~q.shut
    BY <1>0, <2>2, ForgetWellFormed, AddRateLimitedWellFormed, ForgetPending,
       AddRateLimitedPending DEF App
  <2> HIDE DEF q
  <2>4. WellFormed(wq') /\ wq'.processing = {} /\ ~wq'.shut
    BY <2>1, <2>2, <2>3, DoneWellFormed, DonePending DEF App, WellFormed
  <2>5. TypeOK'
    BY <2>1, <2>4, EmptyTypes
       DEF IInv, TypeOK, appVars, storeVars, caches, counters, WellFormed
  <2>6. RecOK' /\ QueueOK'
    BY <2>1, <2>4, EmptyTypes DEF RecOK, QueueOK, Running, WellFormed
  <2> QED  BY <2>5, <2>6 DEF IInv
<1> QED  BY <1>1, <1>2

\* The writes of Reconcile are well typed.
LEMMA WrittenType ==
    ASSUME IInv, \/ rec.pc = "create" /\ Created
                 \/ rec.pc = "update" /\ Updated
                 \/ rec.pc = "delete" /\ Deleted
    PROVE  /\ store' \in [Kind -> [App -> Dependent \cup {None}]]
           /\ watch' \in [Kind -> [App -> Seq(Dependent \cup {None})]]
           /\ \/ /\ rec.pc = "update" /\ UNCHANGED storeVars
                 /\ Current # None /\ Current.content = rec.got.content
              \/ \E obj \in Dependent \cup {None} : Write(rec.kind, rec.item, obj)
<1> DEFINE v == NextVersion(rec.kind, rec.item)
<1>0. rec \in Locals /\ rec.item \in App /\ rec.kind \in Kind /\ rec.app \in AppObject
  BY DEF IInv, TypeOK, RecOK, Locals
<1>1. v \in Nat
  BY <1>0, NextVersionType DEF IInv
<1>2. ASSUME rec.pc = "create", Created
      PROVE  NewDependent(rec.kind, rec.app) \in Dependent
  <2>1. rec.app.uid \in Uid /\ Rendered(rec.kind, rec.app) \in Size \cup {"template"}
    BY <1>0, ConstantsAssumption DEF AppObject, AppSpec, Rendered
  <2> QED  BY <1>1, <2>1 DEF NewDependent, Dependent
<1>3. ASSUME rec.pc = "update"
      PROVE  [rec.got EXCEPT !.rv = v] \in Dependent
  <2>1. rec.got \in Dependent
    BY <1>0, <1>3 DEF IInv, RecOK, Locals
  <2> QED  BY <1>1, <2>1 DEF Dependent
<1>4. \/ /\ rec.pc = "update" /\ UNCHANGED storeVars
         /\ Current # None /\ Current.content = rec.got.content
      \/ \E obj \in Dependent \cup {None} : Write(rec.kind, rec.item, obj)
  BY <1>2, <1>3 DEF Created, Updated, Deleted
<1>5. UNCHANGED storeVars => /\ store' \in [Kind -> [App -> Dependent \cup {None}]]
                            /\ watch' \in [Kind -> [App -> Seq(Dependent \cup {None})]]
  BY DEF storeVars, IInv, TypeOK
<1> QED  BY <1>0, <1>4, <1>5, WriteType DEF IInv

\* What the new locals of Reconcile have to satisfy.
LEMMA LocalsIInv ==
    ASSUME IInv, Running, rec' \in Locals, rec'.item = rec.item, rec.pc # "idle", RecOK',
           store' \in [Kind -> [App -> Dependent \cup {None}]],
           watch' \in [Kind -> [App -> Seq(Dependent \cup {None})]],
           mishaps' \in 0..MaxMishaps, UNCHANGED <<appVars, caches, phase, wq, unseen, edits>>
    PROVE  IInv'
<1>1. TypeOK'
  BY DEF IInv, TypeOK, appVars, caches
<1> QED  BY <1>1, RecStepIInv

\* A return with a result, and on to the next kind, are fine whenever the
\* process runs.
LEMMA LeavesOK ==
    ASSUME IInv, Running, phase' = phase, rec.pc # "idle",
           \/ \E result \in {"ok", "fail"} : rec' = Return(result)
           \/ rec.pc \in {"read", "update", "delete"} /\ rec' = Onward
    PROVE  rec' \in Locals /\ rec'.item = rec.item /\ RecOK'
<1>1. rec.item \in App /\ rec.item # None
  BY ConstantsAssumption DEF IInv, TypeOK, RecOK, Locals
<1>2. CASE \E result \in {"ok", "fail"} : rec' = Return(result)
  <2>1. rec' \in Locals /\ rec'.item = rec.item /\ rec'.pc \in {"ok", "fail"}
    BY <1>2, ReturnOK
  <2> QED  BY <1>1, <2>1 DEF RecOK, Running
<1>3. CASE rec.pc \in {"read", "update", "delete"} /\ rec' = Onward
  <2>1. /\ rec' \in Locals /\ rec'.item = rec.item
        /\ \/ rec'.pc = "ok"
           \/ rec'.pc = "read" /\ rec'.app = rec.app /\ rec'.kind \in Kind
    BY <1>3, OnwardOK DEF Kind
  <2>2. rec.app # None
    BY <1>3 DEF IInv, RecOK
  <2> QED  BY <1>1, <2>1, <2>2, ConstantsAssumption DEF RecOK, Running
<1> QED  BY <1>2, <1>3

\* Between Get and Finish.
LEMMA RecIInv ==
    ASSUME IInv, \/ GetApp \/ ReadDependent \/ CreateDependent
                 \/ UpdateDependent \/ RemoveDependent \/ CallFails
    PROVE  IInv'
<1>0. /\ rec \in Locals /\ mishaps \in 0..MaxMishaps
      /\ store \in [Kind -> [App -> Dependent \cup {None}]]
      /\ watch \in [Kind -> [App -> Seq(Dependent \cup {None})]]
  BY DEF IInv, TypeOK
<1>1. rec.pc # "idle" => rec.item \in App /\ rec.item # None
  BY <1>0, ConstantsAssumption DEF IInv, RecOK, Locals
<1>2. CASE GetApp
  <2> DEFINE a == appCache[rec.item]
  <2>1. /\ Running /\ rec.pc = "app"
        /\ rec' = IF a = None THEN Return("ok")
                  ELSE [rec EXCEPT !.pc = "read", !.app = a, !.kind = "dep"]
        /\ UNCHANGED <<appVars, storeVars, caches, phase, wq, unseen, counters>>
    BY <1>2 DEF GetApp
  <2>2. a \in AppObject \cup {None}
    BY <1>1, <2>1 DEF IInv, TypeOK
  <2>3. rec' \in Locals /\ rec'.item = rec.item /\ RecOK'
    <3>1. CASE a = None
      BY <2>1, <3>1, LeavesOK
    <3>2. CASE a # None
      <4>1. /\ rec' \in Locals /\ rec'.item = rec.item /\ rec'.pc = "read"
            /\ rec'.app # None /\ rec'.kind = "dep"
        BY <1>0, <2>1, <2>2, <3>2 DEF Locals, Kind
      <4> QED  BY <1>1, <2>1, <4>1, ConstantsAssumption DEF RecOK, Running, Kind
    <3> QED  BY <3>1, <3>2
  <2> QED  BY <1>0, <2>1, <2>3, LocalsIInv DEF storeVars, counters
<1>3. CASE ReadDependent
  <2> DEFINE found == cache[rec.kind][rec.item]
             wanted == Wants(rec.app, rec.kind)
             got == IF rec.kind = "dep" THEN found
                    ELSE [found EXCEPT !.content = Rendered(rec.kind, rec.app)]
  <2>1. /\ Running /\ rec.pc = "read"
        /\ \/ ~wanted /\ rec' = Onward
           \/ wanted /\ rec' = [rec EXCEPT !.pc = "create"]
           \/ ~wanted /\ rec' = [rec EXCEPT !.pc = "delete"]
           \/ found # None /\ wanted /\ rec' = [rec EXCEPT !.pc = "update", !.got = got]
        /\ UNCHANGED <<appVars, storeVars, caches, phase, wq, unseen, counters>>
    BY <1>3 DEF ReadDependent
  <2>2. rec.kind \in Kind /\ rec.app \in AppObject /\ rec.app # None /\ rec.kind # None
    BY <1>0, <2>1 DEF IInv, RecOK, Locals
  <2>3. found \in Dependent \cup {None}
    BY <1>1, <2>1, <2>2 DEF IInv, TypeOK
  <2>4. found # None => got \in Dependent /\ (rec.kind # "dep" => got.content = "template")
    BY <2>3 DEF Dependent, Rendered
  <2>5. found # None => got # None
    BY <2>4, ConstantsAssumption
  <2>6. rec' \in Locals /\ rec'.item = rec.item /\ RecOK'
    <3>1. CASE rec' = Onward
      BY <2>1, <3>1, LeavesOK
    <3>2. CASE wanted /\ rec' = [rec EXCEPT !.pc = "create"]
      <4>1. /\ rec' \in Locals /\ rec'.item = rec.item /\ rec'.pc = "create"
            /\ rec'.app = rec.app /\ rec'.kind = rec.kind
        BY <1>0, <3>2 DEF Locals
      <4> QED  BY <1>1, <2>1, <2>2, <3>2, <4>1 DEF RecOK, Running
    <3>3. CASE ~wanted /\ rec' = [rec EXCEPT !.pc = "delete"]
      <4>1. /\ rec' \in Locals /\ rec'.item = rec.item /\ rec'.pc = "delete"
            /\ rec'.app = rec.app /\ rec'.kind = rec.kind
        BY <1>0, <3>3 DEF Locals
      <4> QED  BY <1>1, <2>1, <2>2, <3>3, <4>1 DEF RecOK, Running
    <3>4. CASE found # None /\ wanted /\ rec' = [rec EXCEPT !.pc = "update", !.got = got]
      <4> HIDE DEF got
      <4>1. /\ rec' \in Locals /\ rec'.item = rec.item /\ rec'.pc = "update"
            /\ rec'.app = rec.app /\ rec'.kind = rec.kind /\ rec'.got = got
        BY <1>0, <2>4, <3>4 DEF Locals
      <4> QED  BY <1>1, <2>1, <2>2, <2>4, <2>5, <3>4, <4>1 DEF RecOK, Running
    <3> QED  BY <2>1, <3>1, <3>2, <3>3, <3>4
  <2> QED  BY <1>0, <2>1, <2>6, LocalsIInv DEF storeVars, counters
<1>4. CASE CreateDependent
  <2> DEFINE new == NewDependent(rec.kind, rec.app)
  <2>1. /\ Running /\ rec.pc = "create"
        /\ \/ Created /\ rec' = [rec EXCEPT !.pc = "update", !.got = new]
           \/ rec' = Return("fail") /\ UNCHANGED storeVars
        /\ UNCHANGED <<appVars, caches, phase, wq, unseen, counters>>
    BY <1>4 DEF CreateDependent
  <2>2. CASE rec' = Return("fail") /\ UNCHANGED storeVars
    <3>1. rec' \in Locals /\ rec'.item = rec.item /\ RecOK'
      BY <2>1, <2>2, LeavesOK
    <3> QED  BY <1>0, <2>1, <2>2, <3>1, LocalsIInv DEF storeVars, counters
  <2>3. CASE Created /\ rec' = [rec EXCEPT !.pc = "update", !.got = new]
    <3>1. rec.kind \in Kind /\ rec.app \in AppObject /\ rec.app # None /\ rec.kind # None
          /\ Wants(rec.app, rec.kind)
      BY <1>0, <2>1 DEF IInv, RecOK, Locals
    <3>2. NextVersion(rec.kind, rec.item) \in Nat
      BY <1>1, <2>1, <3>1, NextVersionType DEF IInv
    <3>3. new \in Dependent /\ (rec.kind # "dep" => new.content = "template")
      <4>1. rec.app.uid \in Uid /\ Rendered(rec.kind, rec.app) \in Size \cup {"template"}
        BY <3>1, ConstantsAssumption DEF AppObject, AppSpec, Rendered
      <4> QED  BY <3>2, <4>1 DEF NewDependent, Dependent, Rendered
    <3>4. new # None
      BY <3>3, ConstantsAssumption
    <3> HIDE DEF new
    <3>5. /\ rec' \in Locals /\ rec'.item = rec.item /\ rec'.pc = "update"
          /\ rec'.app = rec.app /\ rec'.kind = rec.kind /\ rec'.got = new
      BY <1>0, <2>3, <3>3 DEF Locals
    <3>6. RecOK'
      BY <1>1, <2>1, <3>1, <3>3, <3>4, <3>5 DEF RecOK, Running
    <3> QED  BY <1>0, <2>1, <2>3, <3>5, <3>6, WrittenType, LocalsIInv DEF counters
  <2> QED  BY <2>1, <2>2, <2>3
<1>5. CASE UpdateDependent
  <2>1. /\ Running /\ rec.pc = "update"
        /\ \/ Updated /\ rec' = Onward
           \/ rec' = Return("fail") /\ UNCHANGED storeVars
        /\ UNCHANGED <<appVars, caches, phase, wq, unseen, counters>>
    BY <1>5 DEF UpdateDependent
  <2>2. rec' \in Locals /\ rec'.item = rec.item /\ RecOK'
    BY <2>1, LeavesOK
  <2> QED  BY <1>0, <2>1, <2>2, WrittenType, LocalsIInv DEF storeVars, counters
<1>6. CASE RemoveDependent
  <2>1. /\ Running /\ rec.pc = "delete"
        /\ \/ Deleted /\ rec' = Onward
           \/ rec' = Return("fail") /\ UNCHANGED storeVars
        /\ UNCHANGED <<appVars, caches, phase, wq, unseen, counters>>
    BY <1>6 DEF RemoveDependent
  <2>2. rec' \in Locals /\ rec'.item = rec.item /\ RecOK'
    BY <2>1, LeavesOK
  <2> QED  BY <1>0, <2>1, <2>2, WrittenType, LocalsIInv DEF storeVars, counters
<1>7. CASE CallFails
  <2>1. /\ Running /\ Mishap /\ rec.pc # "idle" /\ rec' = Return("fail")
        /\ \/ UNCHANGED storeVars
           \/ rec.pc = "create" /\ Created
           \/ rec.pc = "update" /\ Updated
           \/ rec.pc = "delete" /\ Deleted
        /\ UNCHANGED <<appVars, caches, phase, wq, unseen>>
    BY <1>7 DEF CallFails
  <2>2. rec' \in Locals /\ rec'.item = rec.item /\ RecOK'
    BY <2>1, LeavesOK
  <2>3. mishaps' \in 0..MaxMishaps /\ edits' = edits
    BY <1>0, <2>1, ConstantsAssumption DEF Mishap
  <2> QED  BY <1>0, <2>1, <2>2, <2>3, WrittenType, LocalsIInv DEF storeVars
<1> QED  BY <1>2, <1>3, <1>4, <1>5, <1>6, <1>7

\* IInv is inductive.
LEMMA NextIInv == IInv /\ [Next]_vars => IInv'
<1> SUFFICES ASSUME IInv, [Next]_vars PROVE IInv'
  OBVIOUS
<1>1. ASSUME NEW k \in App,
             \/ CreateApp(k) \/ EditApp(k) \/ DeleteApp(k) \/ WriteStatus(k)
             \/ WatchApp(k) \/ Resync(k) \/ BackoffElapsed(k)
      PROVE  IInv'
  <2>1. "dep" \in Kind
    BY DEF Kind
  <2> QED  BY <1>1, <2>1, AppEditIInv, TouchedIInv, CacheIInv DEF Touched
<1>2. ASSUME NEW kind \in Kind, NEW k \in App,
             \/ EditDependent(kind, k) \/ DeleteDependent(kind, k) \/ CreateForeign(kind, k)
             \/ GarbageCollect(kind, k) \/ Watch(kind, k)
      PROVE  IInv'
  BY <1>2, TouchedIInv, CacheIInv DEF Touched
<1>3. CASE Reconcile \/ CallFails
  BY <1>3, QueueIInv, RecIInv DEF Reconcile
<1>4. CASE CacheSynced \/ Crash \/ Restart
  BY <1>4, ProcessIInv
<1>5. CASE UNCHANGED vars
  BY <1>5 DEF vars, IInv, TypeOK, RecOK, QueueOK, Running, appVars, storeVars, caches, process,
          counters
<1> QED  BY <1>1, <1>2, <1>3, <1>4, <1>5 DEF Next

\* Whatever users, garbage collection, failing calls and restarts do, the
\* objects Reconcile works on are what its code takes them for: it renders no
\* template for an App it has not read and updates nothing it has not read or
\* created (app_controller.go:63-198).
THEOREM TypeCorrect == Spec => []TypeOK
<1>1. IInv => TypeOK
  BY DEF IInv
<1> QED  BY <1>1, InitIInv, NextIInv, PTL DEF Spec
-----------------------------------------------------------------------------
(***************************************************************************)
(* What Reconcile is done with is as the App wants it.                     *)
(*                                                                         *)
(* The argument: the caches never lose a change, so an App that is not as  *)
(* it should be has an event on its way, is queued, or is in the hands of  *)
(* the worker, which has then dealt with the kinds before the one it is at *)
(* and will deal with the others, or fail and be queued again.             *)
(***************************************************************************)
Follows ==
    Running => \A k \in App :
        /\ Leads(appCache[k], appWatch[k], app[k])
        /\ \A kind \in Kind : Leads(cache[kind][k], watch[kind][k], store[kind][k])

\* Reconciled, for one kind.
KindOK(k, kind) ==
    IF kind = "dep" THEN store[kind][k] # None
    ELSE IF app[k].spec[kind]
    THEN store[kind][k] # None /\ store[kind][k].content = "template"
    ELSE store[kind][k] = None

\* The kinds that come before.
Handled(kind) == IF kind = "dep" THEN {} ELSE IF kind = "svc" THEN {"dep"} ELSE {"dep", "svc"}

OnTheWay(k) ==
    \/ appWatch[k] # <<>> \/ \E kind \in Kind : watch[kind][k] # <<>>
    \/ k \in Pending(wq) \/ k \in unseen

InProgress(k) ==
    /\ rec.pc \in {"read", "create", "update", "delete"} =>
          rec.app = app[k] /\ \A kind \in Handled(rec.kind) : KindOK(k, kind)
    /\ rec.pc = "ok" => Reconciled(k)

Settled ==
    Running => \A k \in App :
        \/ OnTheWay(k)
        \/ rec.item = k /\ InProgress(k)
        \/ rec.item # k /\ Reconciled(k)

XInv == Follows /\ Settled

\* An App is reconciled when all kinds are as they should be.
LEMMA ReconciledByKind ==
    ASSUME NEW k \in App
    PROVE  Reconciled(k) <=> (app[k] # None => \A kind \in Kind : KindOK(k, kind))
  BY DEF Reconciled, KindOK, Kind

\* A process that does not run owes nothing.
LEMMA DownXInv == ASSUME ~Running' PROVE XInv'
  BY DEF XInv, Follows, Settled

\* A change of a dependent is on its way.
LEMMA WriteXInv ==
    ASSUME IInv, XInv, NEW kind \in Kind, NEW k \in App, NEW obj \in Dependent \cup {None},
           Write(kind, k, obj), UNCHANGED <<appVars, caches, phase, wq, unseen>>,
           rec' = rec \/ (rec.item = k /\ rec'.item = k)
    PROVE  XInv'
<1> SUFFICES ASSUME Running PROVE XInv'
  BY DownXInv DEF Running
<1>1. /\ store \in [Kind -> [App -> Dependent \cup {None}]]
      /\ watch \in [Kind -> [App -> Seq(Dependent \cup {None})]]
  BY DEF IInv, TypeOK
<1>2. /\ store'[kind][k] = obj /\ watch'[kind][k] = Append(watch[kind][k], obj)
      /\ \A other \in Kind, j \in App : other # kind \/ j # k =>
            store'[other][j] = store[other][j] /\ watch'[other][j] = watch[other][j]
  BY <1>1 DEF Write
<1>3. /\ Leads(cache[kind][k], Append(watch[kind][k], obj), obj)
      /\ Append(watch[kind][k], obj) # <<>>
  <2>1. watch[kind][k] \in Seq(Dependent \cup {None})
    BY <1>1
  <2> QED  BY <2>1, LeadsAppend
<1>4. Follows'
  <2>1. ASSUME NEW j \in App PROVE Leads(appCache[j], appWatch[j], app[j])'
    BY DEF XInv, Follows, appVars, caches
  <2>2. ASSUME NEW j \in App, NEW other \in Kind
        PROVE  Leads(cache[other][j], watch[other][j], store[other][j])'
    <3>1. CASE other = kind /\ j = k
      BY <1>2, <1>3, <3>1 DEF caches
    <3>2. CASE other # kind \/ j # k
      BY <1>2, <3>2 DEF XInv, Follows, caches
    <3> QED  BY <3>1, <3>2
  <2> QED  BY <2>1, <2>2 DEF Follows
<1>5. ASSUME NEW j \in App
      PROVE  (OnTheWay(j) \/ (rec.item = j /\ InProgress(j)) \/ (rec.item # j /\ Reconciled(j)))'
  <2>1. CASE j = k
    BY <1>2, <1>3, <2>1 DEF OnTheWay
  <2>2. CASE j # k
    <3>1. \A other \in Kind : store'[other][j] = store[other][j] /\ watch'[other][j] = watch[other][j]
      BY <1>2, <2>2
    <3>2. app' = app /\ appWatch' = appWatch
      BY DEF appVars
    <3>3. OnTheWay(j)' <=> OnTheWay(j)
      BY <3>1, <3>2 DEF OnTheWay
    <3>4. \A other \in Kind : KindOK(j, other)' <=> KindOK(j, other)
      BY <3>1, <3>2 DEF KindOK
    <3>5. Reconciled(j)' <=> Reconciled(j)
      BY <3>1, <3>2 DEF Reconciled, Kind
    <3>6. rec' = rec => (InProgress(j)' <=> InProgress(j))
      <4>1. Handled(rec.kind) \subseteq Kind
        BY DEF Handled, Kind
      <4> QED  BY <3>2, <3>4, <3>5, <4>1 DEF InProgress
    <3> QED  BY <2>2, <3>3, <3>5, <3>6 DEF XInv, Settled
  <2> QED  BY <2>1, <2>2
<1> QED  BY <1>4, <1>5 DEF XInv, Settled

\* A change of an App is on its way.
LEMMA AppEditXInv ==
    ASSUME IInv, XInv, NEW k \in App, CreateApp(k) \/ EditApp(k) \/ DeleteApp(k)
    PROVE  XInv'
<1>1. UNCHANGED <<storeVars, caches, process>>
  BY AppEditIInv DEF UserEdit
<1>2. PICK obj \in AppObject \cup {None} : WriteApp(k, obj)
  BY AppEditIInv
<1> SUFFICES ASSUME Running PROVE XInv'
  BY <1>1, DownXInv DEF Running, process
<1>3. app \in [App -> AppObject \cup {None}] /\ appWatch \in [App -> Seq(AppObject \cup {None})]
  BY DEF IInv, TypeOK
<1>4. /\ app'[k] = obj /\ appWatch'[k] = Append(appWatch[k], obj)
      /\ \A j \in App : j # k => app'[j] = app[j] /\ appWatch'[j] = appWatch[j]
  BY <1>2, <1>3 DEF WriteApp
<1>5. Leads(appCache[k], Append(appWatch[k], obj), obj) /\ Append(appWatch[k], obj) # <<>>
  <2>1. appWatch[k] \in Seq(AppObject \cup {None})
    BY <1>3
  <2> QED  BY <2>1, LeadsAppend
<1>6. Follows'
  <2>1. ASSUME NEW j \in App PROVE Leads(appCache[j], appWatch[j], app[j])'
    <3>1. CASE j = k
      BY <1>1, <1>4, <1>5, <3>1 DEF caches
    <3>2. CASE j # k
      BY <1>1, <1>4, <3>2 DEF XInv, Follows, caches
    <3> QED  BY <3>1, <3>2
  <2> QED  BY <1>1, <2>1 DEF XInv, Follows, storeVars, caches
<1>7. ASSUME NEW j \in App
      PROVE  (OnTheWay(j) \/ (rec.item = j /\ InProgress(j)) \/ (rec.item # j /\ Reconciled(j)))'
  <2>1. CASE j = k
    BY <1>4, <1>5, <2>1 DEF OnTheWay
  <2>2. CASE j # k
    BY <1>1, <1>4, <2>2
       DEF XInv, Settled, OnTheWay, InProgress, Reconciled, KindOK, storeVars, process
  <2> QED  BY <2>1, <2>2
<1> QED  BY <1>6, <1>7 DEF XInv, Settled

\* What enters the cache, or elapses, is queued or noted as unseen.
LEMMA CacheXInv ==
    ASSUME IInv, XInv, NEW k \in App, NEW kind \in Kind,
           WatchApp(k) \/ Watch(kind, k) \/ Resync(k) \/ BackoffElapsed(k)
    PROVE  XInv'
<1>0. wq \in Queue /\ ~wq.shut /\ k \in Key
  BY DEF IInv, TypeOK, QueueOK, App
<1>1. Pending(Add(wq, k)) = Pending(wq) \cup {k} /\ Pending(Elapse(wq, k)) = Pending(wq) \cup {k}
  BY <1>0, AddPending, ElapsePending
<1>2. ASSUME Follows', UNCHANGED <<app, store, phase, rec>>, Running,
             Pending(wq) \subseteq Pending(wq'), unseen \subseteq unseen',
             \A j \in App : j # k \/ UNCHANGED <<appWatch, watch>> =>
                 appWatch'[j] = appWatch[j] /\ \A other \in Kind : watch'[other][j] = watch[other][j],
             k \in Pending(wq') \/ k \in unseen'
      PROVE  XInv'
  <2>1. ASSUME NEW j \in App, j # k
        PROVE  (OnTheWay(j) \/ (rec.item = j /\ InProgress(j)) \/ (rec.item # j /\ Reconciled(j)))'
    BY <1>2, <2>1 DEF XInv, Settled, OnTheWay, InProgress, Reconciled, KindOK
  <2>2. OnTheWay(k)'
    BY <1>2 DEF OnTheWay
  <2> QED  BY <1>2, <2>1, <2>2 DEF XInv, Settled
<1>3. CASE WatchApp(k)
  <2>1. /\ Running /\ appWatch[k] # <<>> /\ wq' = Add(wq, k)
        /\ appCache' = [appCache EXCEPT ![k] = Head(appWatch[k])]
        /\ appWatch' = [appWatch EXCEPT ![k] = Tail(@)]
        /\ UNCHANGED <<app, storeVars, cache, phase, rec, unseen>>
    BY <1>3 DEF WatchApp
  <2>2. appWatch \in [App -> Seq(AppObject \cup {None})] /\ appCache \in [App -> AppObject \cup {None}]
    BY DEF IInv, TypeOK
  <2>3. /\ appCache'[k] = Head(appWatch[k]) /\ appWatch'[k] = Tail(appWatch[k])
        /\ \A j \in App : j # k => appCache'[j] = appCache[j] /\ appWatch'[j] = appWatch[j]
    BY <2>1, <2>2
  <2>4. Follows'
    <3>1. Leads(Head(appWatch[k]), Tail(appWatch[k]), app[k])
      <4>1. appWatch[k] \in Seq(AppObject \cup {None}) /\ Leads(appCache[k], appWatch[k], app[k])
        BY <2>1, <2>2 DEF XInv, Follows
      <4> QED  BY <2>1, <4>1, LeadsTail
    <3>2. ASSUME NEW j \in App PROVE Leads(appCache[j], appWatch[j], app[j])'
      <4>1. CASE j = k
        BY <2>1, <2>3, <3>1, <4>1
      <4>2. CASE j # k
        BY <2>1, <2>3, <4>2 DEF XInv, Follows
      <4> QED  BY <4>1, <4>2
    <3> QED  BY <2>1, <3>2 DEF XInv, Follows, storeVars
  <2> QED  BY <1>1, <1>2, <2>1, <2>3, <2>4 DEF storeVars
<1>4. CASE Watch(kind, k)
  <2>1. /\ Running /\ watch[kind][k] # <<>>
        /\ cache' = [cache EXCEPT ![kind][k] = Head(watch[kind][k])]
        /\ watch' = [watch EXCEPT ![kind][k] = Tail(@)]
        /\ \/ wq' = Add(wq, k) /\ unseen' = unseen
           \/ wq' = wq /\ unseen' = unseen \cup {k}
        /\ UNCHANGED <<appVars, store, appCache, phase, rec>>
    BY <1>4 DEF Watch
  <2>2. /\ watch \in [Kind -> [App -> Seq(Dependent \cup {None})]]
        /\ cache \in [Kind -> [App -> Dependent \cup {None}]]
    BY DEF IInv, TypeOK
  <2>3. /\ cache'[kind][k] = Head(watch[kind][k]) /\ watch'[kind][k] = Tail(watch[kind][k])
        /\ \A other \in Kind, j \in App : other # kind \/ j # k =>
              cache'[other][j] = cache[other][j] /\ watch'[other][j] = watch[other][j]
    BY <2>1, <2>2
  <2>4. Follows'
    <3>1. Leads(Head(watch[kind][k]), Tail(watch[kind][k]), store[kind][k])
      <4>1. watch[kind][k] \in Seq(Dependent \cup {None})
            /\ Leads(cache[kind][k], watch[kind][k], store[kind][k])
        BY <2>1, <2>2 DEF XInv, Follows
      <4> QED  BY <2>1, <4>1, LeadsTail
    <3>2. ASSUME NEW j \in App, NEW other \in Kind
          PROVE  Leads(cache[other][j], watch[other][j], store[other][j])'
      <4>1. CASE other = kind /\ j = k
        BY <2>1, <2>3, <3>1, <4>1
      <4>2. CASE other # kind \/ j # k
        BY <2>1, <2>3, <4>2 DEF XInv, Follows
      <4> QED  BY <4>1, <4>2
    <3>3. \A j \in App : Leads(appCache[j], appWatch[j], app[j])'
      BY <2>1 DEF XInv, Follows, appVars
    <3> QED  BY <3>2, <3>3 DEF Follows
  <2>5. /\ Pending(wq) \subseteq Pending(wq') /\ unseen \subseteq unseen'
        /\ k \in Pending(wq') \/ k \in unseen'
    BY <1>1, <2>1
  <2> QED  BY <1>2, <2>1, <2>3, <2>4, <2>5 DEF appVars
<1>5. CASE Resync(k) \/ BackoffElapsed(k)
  <2>1. /\ Running /\ Pending(wq') = Pending(wq) \cup {k}
        /\ UNCHANGED <<appVars, storeVars, caches, phase, rec, unseen>>
    BY <1>1, <1>5 DEF Resync, BackoffElapsed
  <2>2. Follows'
    BY <2>1 DEF XInv, Follows, appVars, storeVars, caches
  <2> QED  BY <1>2, <2>1, <2>2 DEF appVars, storeVars
<1> QED  BY <1>3, <1>4, <1>5

\* The process comes and goes; what it finds at the start is handed to it.
LEMMA ProcessXInv ==
    ASSUME IInv, XInv, CacheSynced \/ Crash \/ Restart
    PROVE  XInv'
<1>1. CASE CacheSynced
  <2>1. /\ phase = "starting" /\ appCache' = app /\ cache' = store
        /\ appWatch' = [k \in App |-> IF app[k] = None THEN <<>> ELSE <<app[k]>>]
        /\ watch' = [kind \in Kind |-> [k \in App |->
                        IF store[kind][k] = None THEN <<>> ELSE <<store[kind][k]>>]]
        /\ UNCHANGED <<app, store, rec>>
    BY <1>1 DEF CacheSynced
  <2>2. rec.item = None
    BY <2>1, EmptyTypes DEF IInv, RecOK, Running
  <2>3. \A s : Leads(s, <<>>, s) /\ Leads(s, <<s>>, s) /\ <<s>> # <<>>
    BY DEF Leads
  <2>4. ASSUME NEW k \in App
        PROVE  /\ Leads(appCache[k], appWatch[k], app[k])'
               /\ app[k] # None => appWatch'[k] # <<>>
    BY <2>1, <2>3
  <2>5. ASSUME NEW k \in App, NEW kind \in Kind
        PROVE  Leads(cache[kind][k], watch[kind][k], store[kind][k])'
    BY <2>1, <2>3
  <2>6. ASSUME NEW k \in App PROVE OnTheWay(k)' \/ (rec.item # k /\ Reconciled(k))'
    <3>1. CASE app[k] = None
      BY <2>1, <2>2, <3>1, ConstantsAssumption DEF Reconciled
    <3>2. CASE app[k] # None
      BY <2>4, <3>2 DEF OnTheWay
    <3> QED  BY <3>1, <3>2
  <2> QED  BY <2>4, <2>5, <2>6 DEF XInv, Follows, Settled
<1>2. CASE Crash \/ Restart
  BY <1>2, DownXInv DEF Crash, Restart, Running
<1> QED  BY <1>1, <1>2

\* When nothing about k is on its way, the caches have what the API server has.
LEMMA CachesCurrent ==
    ASSUME XInv, Running, NEW k \in App, ~OnTheWay(k)
    PROVE  appCache[k] = app[k] /\ \A kind \in Kind : cache[kind][k] = store[kind][k]
  BY DEF XInv, Follows, OnTheWay, Leads

\* A step of Reconcile that writes nothing.
LEMMA LocalXInv ==
    ASSUME IInv, XInv, Running, NEW k \in App, rec.item = k, rec'.item = k,
           UNCHANGED <<appVars, storeVars, caches, phase, wq, unseen>>,
           ~OnTheWay(k) /\ InProgress(k) => InProgress(k)'
    PROVE  XInv'
<1>1. Follows'
  BY DEF XInv, Follows, appVars, storeVars, caches
<1>2. ASSUME NEW j \in App
      PROVE  (OnTheWay(j) \/ (rec.item = j /\ InProgress(j)) \/ (rec.item # j /\ Reconciled(j)))'
  <2>1. OnTheWay(j)' <=> OnTheWay(j)
    BY DEF OnTheWay, appVars, storeVars
  <2>2. Reconciled(j)' <=> Reconciled(j)
    BY DEF Reconciled, appVars, storeVars
  <2>3. OnTheWay(j) \/ (rec.item = j /\ InProgress(j)) \/ (rec.item # j /\ Reconciled(j))
    BY DEF XInv, Settled
  <2> QED  BY <2>1, <2>2, <2>3
<1> QED  BY <1>1, <1>2 DEF XInv, Settled

\* When a kind is as it should be, Reconcile may go on to the next.
LEMMA OnwardInProgress ==
    ASSUME IInv, NEW k \in App, rec.item = k, rec.pc \in {"read", "update"}, InProgress(k),
           KindOK(k, rec.kind), rec' = Onward, UNCHANGED <<app, store>>
    PROVE  InProgress(k)'
<1>1. rec.app = app[k] /\ rec.kind \in Kind /\ \A kind \in Handled(rec.kind) : KindOK(k, kind)
  BY DEF InProgress, IInv, TypeOK, RecOK, Locals
<1>2. \A kind \in Kind : KindOK(k, kind)' <=> KindOK(k, kind)
  BY DEF KindOK
<1>3. CASE rec'.pc = "ok" /\ rec.kind = "ing"
  <2>1. \A kind \in Kind : KindOK(k, kind)
    BY <1>1, <1>3 DEF Handled, Kind
  <2>2. Reconciled(k)
    BY <2>1, ReconciledByKind
  <2>3. Reconciled(k)'
    BY <2>2 DEF Reconciled
  <2> QED  BY <1>3, <2>3 DEF InProgress
<1>4. CASE /\ rec'.pc = "read" /\ rec'.app = rec.app /\ rec.kind # "ing"
           /\ rec'.kind = (IF rec.kind = "dep" THEN "svc" ELSE "ing")
  <2>1. \A kind \in Handled(rec'.kind) : kind \in Kind /\ KindOK(k, kind)
    BY <1>1, <1>4 DEF Handled, Kind
  <2> QED  BY <1>1, <1>2, <1>4, <2>1 DEF InProgress
<1> QED  BY <1>3, <1>4, OnwardOK

\* A request is taken, and given back.
LEMMA QueueXInv ==
    ASSUME IInv, XInv, Get \/ Finish
    PROVE  XInv'
<1>0. wq \in Queue /\ ~wq.shut
  BY DEF IInv, TypeOK, QueueOK
<1>1. CASE Get
  <2>1. PICK h : h = Head(wq.queue)
    OBVIOUS
  <2>2. /\ Running /\ rec.pc = "idle" /\ wq' = Take(wq) /\ unseen' = unseen \ {h}
        /\ rec' = [Idle EXCEPT !.pc = "app", !.item = h]
        /\ UNCHANGED <<appVars, storeVars, caches, phase>>
    BY <1>1, <2>1 DEF Get
  <2>3. rec'.pc = "app" /\ rec'.item = h /\ rec.item = None
    BY <2>2 DEF Idle, IInv, RecOK
  <2>4. \A k \in Pending(wq) : k # h => k \in Pending(wq')
    BY <1>0, <2>1, <2>2, TakePending
  <2>5. Follows'
    BY <2>2 DEF XInv, Follows, appVars, storeVars, caches
  <2>6. ASSUME NEW k \in App
        PROVE  (OnTheWay(k) \/ (rec.item = k /\ InProgress(k)) \/ (rec.item # k /\ Reconciled(k)))'
    <3>1. CASE k = h
      BY <2>3, <3>1 DEF InProgress
    <3>2. CASE k # h
      <4>1. OnTheWay(k) \/ Reconciled(k)
        BY <2>2, <2>3, ConstantsAssumption DEF XInv, Settled
      <4>2. OnTheWay(k) => OnTheWay(k)'
        BY <2>2, <2>4, <3>2 DEF OnTheWay, appVars, storeVars
      <4>3. Reconciled(k) => Reconciled(k)'
        BY <2>2 DEF Reconciled, appVars, storeVars
      <4> QED  BY <2>3, <3>2, <4>1, <4>2, <4>3
    <3> QED  BY <3>1, <3>2
  <2> QED  BY <2>5, <2>6 DEF XInv, Settled
<1>2. CASE Finish
  <2>1. PICK h : h = rec.item
    OBVIOUS
  <2>2. PICK q : q = IF rec.pc = "ok" THEN Forget(wq, h) ELSE AddRateLimited(wq, h)
    OBVIOUS
  <2>3. /\ Running /\ rec.pc \in {"ok", "fail"} /\ rec' = Idle /\ wq' = Done(q, h)
        /\ UNCHANGED <<appVars, storeVars, caches, phase, unseen>>
    BY <1>2, <2>1, <2>2 DEF Finish
  <2>4. h \in Key
    BY <2>1, <2>3 DEF IInv, TypeOK, RecOK, Locals, App
  <2>5. q \in Queue /\ Pending(wq) \subseteq Pending(q) /\ (rec.pc = "fail" => h \in Pending(q))
    <3>1. WellFormed(wq)
      BY DEF IInv, QueueOK, TypeOK, WellFormed
    <3>2. q \in Queue
      BY <2>2, <2>4, <3>1, ForgetWellFormed, AddRateLimitedWellFormed DEF WellFormed
    <3>3. CASE rec.pc = "ok"
      BY <1>0, <2>2, <3>2, <3>3, ForgetPending
    <3>4. CASE rec.pc = "fail"
      BY <1>0, <2>2, <2>4, <3>2, <3>4, AddRateLimitedPending
    <3> QED  BY <2>3, <3>3, <3>4
  <2>6. Pending(wq') = Pending(q)
    BY <2>3, <2>5, DonePending
  <2>7. Follows'
    BY <2>3 DEF XInv, Follows, appVars, storeVars, caches
  <2>8. ASSUME NEW k \in App
        PROVE  (OnTheWay(k) \/ (rec.item = k /\ InProgress(k)) \/ (rec.item # k /\ Reconciled(k)))'
    <3>1. rec'.item # k
      BY <2>3, EmptyTypes, ConstantsAssumption
    <3>2. OnTheWay(k) => OnTheWay(k)'
      BY <2>3, <2>5, <2>6 DEF OnTheWay, appVars, storeVars
    <3>3. Reconciled(k) => Reconciled(k)'
      BY <2>3 DEF Reconciled, appVars, storeVars
    <3>4. CASE rec.item = k /\ rec.pc = "fail"
      BY <2>1, <2>5, <2>6, <3>4 DEF OnTheWay
    <3>5. CASE rec.item # k \/ rec.pc = "ok"
      <4>1. OnTheWay(k) \/ Reconciled(k)
        BY <2>3, <3>5 DEF XInv, Settled, InProgress
      <4> QED  BY <3>1, <3>2, <3>3, <4>1
    <3> QED  BY <2>3, <3>4, <3>5
  <2> QED  BY <2>7, <2>8 DEF XInv, Settled
<1> QED  BY <1>1, <1>2

\* A call of Reconcile that returned an error, whatever became of it.
LEMMA FailXInv ==
    ASSUME IInv, XInv, Running, rec.pc # "idle", rec' = Return("fail"),
           UNCHANGED <<appVars, caches, phase, wq, unseen>>,
           \/ UNCHANGED storeVars
           \/ \E obj \in Dependent \cup {None} : Write(rec.kind, rec.item, obj) /\ rec.kind \in Kind
    PROVE  XInv'
<1>1. PICK k \in App : rec.item = k
  BY DEF IInv, TypeOK, RecOK, Locals
<1>2. rec'.item = k /\ rec'.pc = "fail"
  BY <1>1, ReturnOK
<1>3. CASE UNCHANGED storeVars
  <2>1. InProgress(k)'
    BY <1>2 DEF InProgress
  <2> QED  BY <1>1, <1>2, <1>3, <2>1, LocalXInv
<1>4. CASE \E obj \in Dependent \cup {None} : Write(rec.kind, rec.item, obj) /\ rec.kind \in Kind
  BY <1>1, <1>2, <1>4, WriteXInv
<1> QED  BY <1>3, <1>4

\* Between Get and Finish.
LEMMA RecXInv ==
    ASSUME IInv, XInv, \/ GetApp \/ ReadDependent \/ CreateDependent
                       \/ UpdateDependent \/ RemoveDependent \/ CallFails
    PROVE  XInv'
<1>0. Running /\ rec.pc # "idle" /\ UNCHANGED <<appVars, caches, phase, wq, unseen>>
  BY DEF GetApp, ReadDependent, CreateDependent, UpdateDependent, RemoveDependent, CallFails
<1>1. PICK k \in App : rec.item = k
  BY <1>0 DEF IInv, TypeOK, RecOK, Locals
<1>2. PICK kind : kind = rec.kind
  OBVIOUS
<1>3. /\ rec.pc \in {"read", "create", "update", "delete"} =>
            kind \in Kind /\ rec.app \in AppObject /\ rec.app # None
      /\ rec \in Locals
  BY <1>2 DEF IInv, TypeOK, RecOK, Locals
<1>4. CASE GetApp
  <2>1. /\ rec' = IF appCache[k] = None THEN Return("ok")
                  ELSE [rec EXCEPT !.pc = "read", !.app = appCache[k], !.kind = "dep"]
        /\ UNCHANGED storeVars
    BY <1>1, <1>4 DEF GetApp
  <2>2. rec'.item = k /\ rec'.pc \in {"ok", "read"}
        /\ (appCache[k] = None => rec'.pc = "ok")
        /\ (appCache[k] # None => rec'.pc = "read" /\ rec'.app = appCache[k] /\ rec'.kind = "dep")
    BY <1>0, <1>1, <1>3, <2>1, ReturnOK DEF Locals
  <2>3. ~OnTheWay(k) => appCache[k] = app[k]
    BY <1>0, CachesCurrent
  <2>4. ~OnTheWay(k) => InProgress(k)'
    BY <1>0, <2>2, <2>3 DEF InProgress, Handled, Reconciled, appVars
  <2> QED  BY <1>0, <1>1, <2>1, <2>2, <2>4, LocalXInv
<1>5. CASE ReadDependent
  <2>1. /\ rec.pc = "read" /\ UNCHANGED storeVars
        /\ \/ cache[kind][k] = None /\ ~Wants(rec.app, kind) /\ rec' = Onward
           \/ /\ rec'.item = k /\ rec'.app = rec.app /\ rec'.kind = kind
              /\ rec'.pc \in {"create", "delete", "update"}
    BY <1>1, <1>2, <1>3, <1>5 DEF ReadDependent, Locals
  <2>2. CASE cache[kind][k] = None /\ ~Wants(rec.app, kind) /\ rec' = Onward
    <3>1. rec'.item = k
      BY <1>1, <2>1, <2>2, OnwardOK
    <3>2. ~OnTheWay(k) /\ InProgress(k) => KindOK(k, kind)
      <4>1. ~OnTheWay(k) => cache[kind][k] = store[kind][k]
        BY <1>0, <1>3, <2>1, CachesCurrent
      <4> QED  BY <1>2, <2>1, <2>2, <4>1 DEF Wants, KindOK, InProgress
    <3>3. ~OnTheWay(k) /\ InProgress(k) => InProgress(k)'
      BY <1>0, <1>1, <1>2, <2>1, <2>2, <3>2, OnwardInProgress DEF appVars, storeVars
    <3> QED  BY <1>0, <1>1, <2>1, <3>1, <3>3, LocalXInv
  <2>3. CASE /\ rec'.item = k /\ rec'.app = rec.app /\ rec'.kind = kind
             /\ rec'.pc \in {"create", "delete", "update"}
    <3>1. InProgress(k) => InProgress(k)'
      BY <1>0, <1>2, <2>1, <2>3 DEF InProgress, KindOK, appVars, storeVars
    <3> QED  BY <1>0, <1>1, <2>1, <2>3, <3>1, LocalXInv
  <2> QED  BY <2>1, <2>2, <2>3
<1>6. CASE CreateDependent
  <2>1. /\ rec.pc = "create"
        /\ \/ Created /\ rec'.item = k
           \/ rec' = Return("fail") /\ UNCHANGED storeVars
    BY <1>1, <1>3, <1>6 DEF CreateDependent, Locals
  <2>2. Created => \E obj \in Dependent \cup {None} : Write(kind, k, obj)
    BY <1>1, <1>2, <2>1, WrittenType
  <2> QED  BY <1>0, <1>1, <1>3, <2>1, <2>2, WriteXInv, FailXInv
<1>7. CASE UpdateDependent
  <2>1. /\ rec.pc = "update"
        /\ \/ Updated /\ rec' = Onward
           \/ rec' = Return("fail") /\ UNCHANGED storeVars
    BY <1>7 DEF UpdateDependent
  <2>2. CASE Updated /\ rec' = Onward
    <3>1. rec'.item = k
      BY <1>1, <2>1, <2>2, OnwardOK
    <3>2. CASE \E obj \in Dependent \cup {None} : Write(kind, k, obj)
      BY <1>0, <1>1, <1>3, <2>1, <3>1, <3>2, WriteXInv
    <3>3. CASE UNCHANGED storeVars /\ Current # None /\ Current.content = rec.got.content
      <4>1. Wants(rec.app, kind) /\ (kind # "dep" => rec.got.content = "template")
        BY <1>2, <2>1 DEF IInv, RecOK
      <4>2. InProgress(k) => KindOK(k, kind)
        BY <1>1, <1>2, <2>1, <3>3, <4>1 DEF Current, Wants, KindOK, InProgress
      <4>3. InProgress(k) => InProgress(k)'
        BY <1>0, <1>1, <1>2, <2>1, <2>2, <3>3, <4>2, OnwardInProgress DEF appVars, storeVars
      <4> QED  BY <1>0, <1>1, <3>1, <3>3, <4>3, LocalXInv
    <3> QED  BY <1>1, <1>2, <2>1, <2>2, <3>2, <3>3, WrittenType
  <2> QED  BY <1>0, <2>1, <2>2, FailXInv
<1>8. CASE RemoveDependent
  <2>1. /\ rec.pc = "delete"
        /\ \/ Deleted /\ rec' = Onward
           \/ rec' = Return("fail") /\ UNCHANGED storeVars
    BY <1>8 DEF RemoveDependent
  <2>2. Deleted => \E obj \in Dependent \cup {None} : Write(kind, k, obj)
    BY <1>1, <1>2, <2>1, WrittenType
  <2>3. rec' = Onward => rec'.item = k
    BY <1>1, <2>1, OnwardOK
  <2> QED  BY <1>0, <1>1, <1>3, <2>1, <2>2, <2>3, WriteXInv, FailXInv
<1>9. CASE CallFails
  <2>1. /\ rec' = Return("fail")
        /\ \/ UNCHANGED storeVars
           \/ rec.pc = "create" /\ Created
           \/ rec.pc = "update" /\ Updated
           \/ rec.pc = "delete" /\ Deleted
    BY <1>9 DEF CallFails
  <2>2. \/ UNCHANGED storeVars
        \/ \E obj \in Dependent \cup {None} : Write(rec.kind, rec.item, obj) /\ rec.kind \in Kind
    BY <1>2, <1>3, <2>1, WrittenType
  <2> QED  BY <1>0, <2>1, <2>2, FailXInv
<1> QED  BY <1>4, <1>5, <1>6, <1>7, <1>8, <1>9

\* A dependent changes without the reconciler's doing.
LEMMA TouchedXInv ==
    ASSUME IInv, XInv, NEW kind \in Kind, NEW k \in App, Touched(kind, k)
    PROVE  XInv'
<1>1. /\ UNCHANGED <<appVars, caches, process>>
      /\ \E obj \in Dependent \cup {None} : Write(kind, k, obj)
  BY TouchedIInv
<1> QED  BY <1>1, WriteXInv DEF process

\* XInv is inductive relative to IInv.
LEMMA NextXInv == IInv /\ XInv /\ [Next]_vars => XInv'
<1> SUFFICES ASSUME IInv, XInv, [Next]_vars PROVE XInv'
  OBVIOUS
<1>1. ASSUME NEW k \in App,
             \/ CreateApp(k) \/ EditApp(k) \/ DeleteApp(k) \/ WriteStatus(k)
             \/ WatchApp(k) \/ Resync(k) \/ BackoffElapsed(k)
      PROVE  XInv'
  <2>1. "dep" \in Kind
    BY DEF Kind
  <2> QED  BY <1>1, <2>1, AppEditXInv, TouchedXInv, CacheXInv DEF Touched
<1>2. ASSUME NEW kind \in Kind, NEW k \in App,
             \/ EditDependent(kind, k) \/ DeleteDependent(kind, k) \/ CreateForeign(kind, k)
             \/ GarbageCollect(kind, k) \/ Watch(kind, k)
      PROVE  XInv'
  BY <1>2, TouchedXInv, CacheXInv DEF Touched
<1>3. CASE Reconcile \/ CallFails
  BY <1>3, QueueXInv, RecXInv DEF Reconcile
<1>4. CASE CacheSynced \/ Crash \/ Restart
  BY <1>4, ProcessXInv
<1>5. CASE UNCHANGED vars
  BY <1>5 DEF vars, XInv, Follows, Settled, OnTheWay, InProgress, KindOK, Reconciled, Running,
          appVars, storeVars, caches, process
<1> QED  BY <1>1, <1>2, <1>3, <1>4, <1>5 DEF Next

\* When the manager is done with an App, what the App wants is there, without
\* the help of a resync: no stale cache, conflict, failing call, lost answer,
\* garbage collection or restart leaves it half done with nothing to ask for
\* it again (app_controller.go:63-198).
THEOREM WhatIsDoneIsReconciled == Spec => []QuiescentIsReconciled
<1>1. Init => XInv
  BY DEF Init, XInv, Follows, Settled, Running
<1>2. IInv /\ XInv => QuiescentIsReconciled
  <2> SUFFICES ASSUME IInv, XInv, NEW k \in App, Quiescent(k) PROVE Reconciled(k)
    BY DEF QuiescentIsReconciled
  <2> QED  BY DEF XInv, Settled, Quiescent, OnTheWay, Pending
<1> QED  BY <1>1, <1>2, InitIInv, NextIInv, NextXInv, PTL DEF Spec
-----------------------------------------------------------------------------
(***************************************************************************)
(* The work queue's promise.  A process that is not there yet has an empty *)
(* queue, so that it starts with nothing due.                              *)
(***************************************************************************)
EmptyQueue == ~Running => wq = NewQueue

\* A step that leaves the queue and the worker's hands alone is nothing to
\* the promise.
LEMMA WorkUntouched ==
    ASSUME EmptyQueue, UNCHANGED <<wq, rec>>,
           phase' = phase \/ (phase = "starting" /\ phase' = "running")
    PROVE  EmptyQueue' /\ UNCHANGED Work!vars
  BY DEF EmptyQueue, Running, Work!vars, Hand

\* A request makes a key due.
LEMMA WorkAsked ==
    ASSUME IInv, NEW k \in App, Running, UNCHANGED <<phase, rec>>,
           wq' = Add(wq, k) \/ wq' = Elapse(wq, k)
    PROVE  EmptyQueue' /\ Work!Next
<1>1. Pending(wq') = Pending(wq) \cup {k}
  BY AddPending, ElapsePending DEF IInv, TypeOK, QueueOK, App
<1>2. Work!Ask
  BY <1>1 DEF Work!Ask, Running, App, Hand
<1> QED  BY <1>2 DEF Work!Next, EmptyQueue, Running

\* Get is the only step that takes a key from the queue.
LEMMA WorkTakes ==
    ASSUME IInv, Get
    PROVE  EmptyQueue' /\ Work!Next
<1> DEFINE h == Head(wq.queue)
           hand == [w \in {"Reconcile"} |-> Hand]
           hands == [w \in {"Reconcile"} |-> Hand']
<1>1. /\ WellFormed(wq) /\ HasItem(wq) /\ rec.pc = "idle" /\ rec.item = None
      /\ wq.processing = {} /\ wq' = Take(wq) /\ phase' = phase /\ Running
  BY DEF Get, IInv, TypeOK, RecOK, QueueOK, WellFormed
<1>2. /\ h \in App /\ h \in Pending(wq)
      /\ Pending(wq') \in {Pending(wq), Pending(wq) \ {h}}
  BY <1>1, TakeWellFormed, TakesPending DEF App
<1>3. rec'.item = h /\ rec'.pc = "app"
  BY DEF Get, Idle
<1>4. Hand = Work!Free /\ Hand' = [key |-> h, result |-> "none"]
  BY <1>1, <1>3 DEF Hand, Work!Free
<1>5. \A w \in {"Reconcile"} : hand[w].key # h
  BY <1>2, <1>4, ConstantsAssumption DEF Work!Free
<1>6. /\ hand["Reconcile"] = Work!Free
      /\ hands = [hand EXCEPT !["Reconcile"].key = h]
  BY <1>4 DEF Work!Free
<1> HIDE DEF h, hand, hands
<1>7. Work!Take("Reconcile")
  BY <1>1, <1>2, <1>5, <1>6 DEF Work!Take, hand, hands
<1> QED  BY <1>1, <1>7 DEF Work!Next, EmptyQueue, Running

\* Between Get and Finish, Reconcile keeps its request and comes to a result.
LEMMA WorkDecides ==
    ASSUME IInv, \/ GetApp \/ ReadDependent \/ CreateDependent
                 \/ UpdateDependent \/ RemoveDependent \/ CallFails
    PROVE  EmptyQueue' /\ [Work!Next]_Work!vars
<1> DEFINE hand == [w \in {"Reconcile"} |-> Hand]
           hands == [w \in {"Reconcile"} |-> Hand']
<1>1. /\ Running /\ rec.pc \notin {"idle", "ok", "fail"} /\ rec \in Locals
      /\ UNCHANGED <<phase, wq>> /\ rec.item # None
  BY DEF GetApp, ReadDependent, CreateDependent, UpdateDependent, RemoveDependent, CallFails,
         IInv, TypeOK, RecOK
<1>2. rec'.item = rec.item
  <2>1. rec' = Onward \/ (\E result \in {"ok", "fail"} : rec' = Return(result))
        \/ rec'.item = rec.item
    BY <1>1 DEF GetApp, ReadDependent, CreateDependent, UpdateDependent, RemoveDependent,
                CallFails, Locals
  <2> QED  BY <1>1, <2>1, ReturnOK DEF Onward, Locals
<1>3. /\ Hand = [key |-> rec.item, result |-> "none"]
      /\ Hand' = [key |-> rec.item,
                  result |-> IF rec'.pc \in {"ok", "fail"} THEN rec'.pc ELSE "none"]
  BY <1>1, <1>2 DEF Hand
<1>4. CASE rec'.pc \in {"ok", "fail"}
  <2>1. /\ hand["Reconcile"].key # None /\ hand["Reconcile"].result = "none"
        /\ hands = [hand EXCEPT !["Reconcile"].result = rec'.pc]
    BY <1>1, <1>3, <1>4
  <2> HIDE DEF hand, hands
  <2>2. Work!Decide("Reconcile")
    BY <1>1, <1>4, <2>1 DEF Work!Decide, hand, hands, Running
  <2> QED  BY <1>1, <2>2 DEF Work!Next, EmptyQueue, Running
<1>5. CASE rec'.pc \notin {"ok", "fail"}
  <2>1. Hand' = Hand
    BY <1>3, <1>5
  <2> QED  BY <1>1, <2>1 DEF Work!vars, EmptyQueue, Running
<1> QED  BY <1>4, <1>5

\* A request whose Reconcile returned an error is due again.
LEMMA WorkFinishes ==
    ASSUME IInv, Finish
    PROVE  EmptyQueue' /\ Work!Next
<1> DEFINE k == rec.item
           q == IF rec.pc = "ok" THEN Forget(wq, k) ELSE AddRateLimited(wq, k)
           hand == [w \in {"Reconcile"} |-> Hand]
           hands == [w \in {"Reconcile"} |-> Hand']
<1>1. /\ Running /\ rec.pc \in {"ok", "fail"} /\ rec' = Idle /\ wq' = Done(q, k)
      /\ phase' = phase /\ WellFormed(wq) /\ ~wq.shut /\ wq \in Queue
  BY DEF Finish, IInv, TypeOK, QueueOK, WellFormed
<1>2. k \in Key
  BY <1>1 DEF IInv, TypeOK, RecOK, Locals, App
<1>3. /\ q \in Queue
      /\ Pending(q) = IF rec.pc = "fail" THEN Pending(wq) \cup {k} ELSE Pending(wq)
  <2>1. q \in Queue
    BY <1>1, <1>2, ForgetWellFormed, AddRateLimitedWellFormed DEF WellFormed
  <2> QED  BY <1>1, <1>2, <2>1, ForgetPending, AddRateLimitedPending
<1>4. Pending(wq') = Pending(q)
  BY <1>1, <1>3, DonePending
<1>5. /\ hand["Reconcile"] = [key |-> k, result |-> rec.pc]
      /\ hands = [hand EXCEPT !["Reconcile"] = Work!Free]
  BY <1>1, EmptyTypes DEF Hand, Work!Free
<1> HIDE DEF q, hand, hands
<1>6. Work!Finish("Reconcile")
  BY <1>1, <1>3, <1>4, <1>5 DEF Work!Finish, hand, hands, Running
<1> QED  BY <1>1, <1>6 DEF Work!Next, EmptyQueue, Running

\* Every step is one of the promise, or nothing to it.
LEMMA WorkStep ==
    ASSUME IInv, EmptyQueue, [Next]_vars
    PROVE  EmptyQueue' /\ [Work!Next]_Work!vars
<1>1. CASE \/ \E k \in App : CreateApp(k) \/ EditApp(k) \/ DeleteApp(k) \/ WriteStatus(k)
           \/ \E kind \in Kind, k \in App :
                 \/ EditDependent(kind, k) \/ DeleteDependent(kind, k)
                 \/ CreateForeign(kind, k) \/ GarbageCollect(kind, k)
           \/ CacheSynced \/ UNCHANGED vars
  <2>1. /\ UNCHANGED <<wq, rec>>
        /\ phase' = phase \/ (phase = "starting" /\ phase' = "running")
    BY <1>1 DEF CreateApp, EditApp, DeleteApp, WriteStatus, EditDependent, DeleteDependent,
                CreateForeign, UserEdit, GarbageCollect, CacheSynced, process, vars
  <2> QED  BY <2>1, WorkUntouched
<1>2. CASE \/ \E k \in App : WatchApp(k) \/ Resync(k) \/ BackoffElapsed(k)
           \/ \E kind \in Kind, k \in App : Watch(kind, k)
  <2>1. /\ Running /\ UNCHANGED <<phase, rec>>
        /\ \/ wq' = wq
           \/ \E k \in App : wq' = Add(wq, k) \/ wq' = Elapse(wq, k)
    BY <1>2 DEF WatchApp, Resync, BackoffElapsed, Watch
  <2> QED  BY <2>1, WorkUntouched, WorkAsked
<1>3. CASE Reconcile \/ CallFails
  BY <1>3, WorkTakes, WorkDecides, WorkFinishes DEF Reconcile
<1>4. CASE Crash \/ Restart
  <2>1. Pending(NewQueue) = {}
    BY DEF Pending, NewQueue
  <2>2. rec' = Idle => [w \in {"Reconcile"} |-> Hand'] = Work!AllFree
    BY EmptyTypes DEF Hand, Work!AllFree, Work!Free
  <2>3. CASE Crash
    <3>1. wq' = NewQueue /\ rec' = Idle /\ phase # "down" /\ phase' = "down"
      BY <2>3 DEF Crash
    <3>2. Work!Close
      BY <2>1, <2>2, <3>1 DEF Work!Close
    <3> QED  BY <3>1, <3>2 DEF Work!Next, EmptyQueue
  <2>4. CASE Restart
    <3>1. /\ wq' = NewQueue /\ rec' = Idle /\ phase = "down" /\ phase' = "starting"
      BY <2>4 DEF Restart, EmptyQueue, IInv, RecOK, Running
    <3>2. Work!Open
      BY <2>1, <2>2, <3>1 DEF Work!Open
    <3> QED  BY <3>1, <3>2 DEF Work!Next, EmptyQueue
  <2> QED  BY <1>4, <2>3, <2>4
<1> QED  BY <1>1, <1>2, <1>3, <1>4 DEF Next

\* At first nothing is due.
LEMMA InitWork == Init => EmptyQueue /\ Work!Init
<1> SUFFICES ASSUME Init PROVE EmptyQueue /\ Work!Init
  OBVIOUS
<1>1. Pending(wq) = {} /\ Hand = Work!Free
  BY EmptyTypes DEF Init, Pending, NewQueue, Hand, Work!Free
<1> QED  BY <1>1 DEF Init, EmptyQueue, Work!Init, Work!AllFree

\* A request that is due is due until Reconcile has it, is due again when it
\* was asked for meanwhile or Reconcile returned an error, and is lost with
\* the process only (app_controller.go:63-198).
THEOREM RequestsAreWorkedOn == Spec => WorkIsExclusive
<1>1. Init => IInv /\ EmptyQueue /\ Work!Init
  BY InitIInv, InitWork
<1>2. IInv /\ EmptyQueue /\ [Next]_vars => IInv' /\ EmptyQueue' /\ [Work!Next]_Work!vars
  BY NextIInv, WorkStep
<1> QED  BY <1>1, <1>2, PTL DEF Spec, WorkIsExclusive, Work!Spec
=============================================================================
