----------------------- MODULE IngressControllerProofs -----------------------
(***************************************************************************)
(* For every set of keys, every number of workers and every bound: the     *)
(* controller is type correct, no two workers process the same key, and a  *)
(* Service the controller is done with is exposed.                         *)
(***************************************************************************)
EXTENDS IngressController, WorkQueueProofs

\* MutualExclusion is not inductive by itself: a worker that holds nothing
\* must be idle, and one about to create an Ingress has read a Service.
WorkersOK ==
    \A w \in Worker :
        /\ worker[w].pc = "idle" <=> worker[w].item = None
        /\ worker[w].pc = "create" => worker[w].svc # None

IInv == TypeOK /\ WorkersOK /\ MutualExclusion

\* Items and queue may change as long as the held keys stay `processing'.
LEMMA SameItems ==
    ASSUME MutualExclusion, QueueInv(wq'), wq'.processing = wq.processing,
           \A w \in Worker : worker'[w].item = worker[w].item
    PROVE  MutualExclusion'
  BY DEF MutualExclusion

\* The invariant holds at first.
LEMMA InitIInv == Init => IInv
<1> SUFFICES ASSUME Init PROVE IInv
  OBVIOUS
<1>1. NewQueue \in Queue /\ QueueInv(NewQueue) /\ NewQueue.processing = {}
  BY NewQueueWellFormed DEF WellFormed
<1>2. Idle \in Seen /\ Idle.pc = "idle" /\ Idle.item = None
  BY DEF Seen, Idle
<1>3. TypeOK
  BY <1>1, <1>2, ConstantsAssumption DEF Init, TypeOK, NoObjects, NoEvents
<1>4. WorkersOK
  BY <1>2 DEF Init, WorkersOK
<1>5. MutualExclusion
  BY <1>1, <1>2 DEF Init, MutualExclusion
<1> QED  BY <1>3, <1>4, <1>5 DEF IInv

\* A process that went down has an empty queue and idle workers.
LEMMA GoDownIInv ==
    ASSUME IInv, GoDown, UNCHANGED api,
           edits' \in 0..MaxEdits, failures' \in 0..MaxFailures,
           crashes' \in 0..MaxCrashes, relists' \in [{"svc", "ing"} -> Nat]
    PROVE  IInv'
<1>1. NewQueue \in Queue /\ QueueInv(NewQueue) /\ NewQueue.processing = {}
  BY NewQueueWellFormed DEF WellFormed
<1>2. Idle \in Seen /\ Idle.pc = "idle" /\ Idle.item = None
  BY DEF Seen, Idle
<1>3. TypeOK'
  <2>1. /\ NoObjects \in [Key -> Service \cup {None}]
        /\ NoObjects \in [Key -> Ingress \cup {None}]
        /\ NoEvents \in [Key -> Seq(Service \cup {None})]
        /\ NoEvents \in [Key -> Seq(Ingress \cup {None})]
        /\ NoEvents \in [Key -> Seq(SvcNote)] /\ NoEvents \in [Key -> Seq(IngNote)]
    BY DEF NoObjects, NoEvents
  <2>2. worker' \in [Worker -> Seen]
    BY <1>2 DEF GoDown
  <2>3. svc' \in [Key -> Service \cup {None}] /\ ing' \in [Key -> Ingress \cup {None}]
    BY DEF IInv, TypeOK, api
  <2> QED  BY <1>1, <2>1, <2>2, <2>3 DEF GoDown, TypeOK
<1>4. WorkersOK'
  BY <1>2 DEF GoDown, WorkersOK
<1>5. MutualExclusion'
  BY <1>1, <1>2 DEF GoDown, MutualExclusion
<1> QED  BY <1>3, <1>4, <1>5 DEF IInv

\* A write to the API server stores and sends a well-typed object.
LEMMA WriteSvcType ==
    ASSUME TypeOK, NEW k \in Key, NEW obj \in Service \cup {None}, WriteSvc(k, obj)
    PROVE  svc' \in [Key -> Service \cup {None}]
           /\ svcWatch' \in [Key -> Seq(Service \cup {None})]
<1>1. svcWatch[k] \in Seq(Service \cup {None})
  BY DEF TypeOK
<1>2. Append(svcWatch[k], obj) \in Seq(Service \cup {None})
  BY <1>1
<1> QED  BY <1>2 DEF TypeOK, WriteSvc

\* A write of an Ingress keeps the types of store and watch.
LEMMA WriteIngType ==
    ASSUME TypeOK, NEW k \in Key, NEW obj \in Ingress \cup {None}, WriteIng(k, obj)
    PROVE  ing' \in [Key -> Ingress \cup {None}]
           /\ ingWatch' \in [Key -> Seq(Ingress \cup {None})]
<1>1. ingWatch[k] \in Seq(Ingress \cup {None})
  BY DEF TypeOK
<1>2. Append(ingWatch[k], obj) \in Seq(Ingress \cup {None})
  BY <1>1
<1> QED  BY <1>2 DEF TypeOK, WriteIng

\* Users and the garbage collector touch neither queue nor workers.
LEMMA UserIInv ==
    ASSUME IInv, NEW k \in Key, User(k) \/ GarbageCollect(k)
    PROVE  IInv'
<1> USE DEF IInv
<1>1. edits < MaxEdits => edits + 1 \in 1..MaxEdits /\ edits + 1 \in 0..MaxEdits
  BY ConstantsAssumption DEF TypeOK
<1>2. CASE CreateSvc(k)
  <2>1. PICK a \in Annotations, p \in PortChoices :
           WriteSvc(k, [uid |-> edits + 1, rv |-> edits + 1, ann |-> a, ports |-> p])
    BY <1>2 DEF CreateSvc
  <2>2. [uid |-> edits + 1, rv |-> edits + 1, ann |-> a, ports |-> p] \in Service
    BY <1>1, <1>2, ConstantsAssumption DEF CreateSvc, UserEdit, Service
  <2>3. svc' \in [Key -> Service \cup {None}]
        /\ svcWatch' \in [Key -> Seq(Service \cup {None})]
    BY <2>1, <2>2, WriteSvcType
  <2>4. TypeOK'
    BY <1>1, <1>2, <2>3 DEF CreateSvc, UserEdit, TypeOK
  <2> QED  BY <1>2, <2>4 DEF CreateSvc, UserEdit, WorkersOK, MutualExclusion
<1>3. CASE EditSvc(k)
  <2>1. PICK a \in Annotations, p \in PortChoices :
           WriteSvc(k, [svc[k] EXCEPT !.rv = edits + 1, !.ann = a, !.ports = p])
    BY <1>3 DEF EditSvc
  <2>2. svc[k] \in Service
    BY <1>3 DEF EditSvc, TypeOK
  <2>3. [svc[k] EXCEPT !.rv = edits + 1, !.ann = a, !.ports = p] \in Service
    BY <1>1, <1>3, <2>2, ConstantsAssumption DEF EditSvc, UserEdit, Service
  <2>4. svc' \in [Key -> Service \cup {None}]
        /\ svcWatch' \in [Key -> Seq(Service \cup {None})]
    BY <2>1, <2>3, WriteSvcType
  <2>5. TypeOK'
    BY <1>1, <1>3, <2>4 DEF EditSvc, UserEdit, TypeOK
  <2> QED  BY <1>3, <2>5 DEF EditSvc, UserEdit, WorkersOK, MutualExclusion
<1>4. CASE DeleteSvc(k)
  <2>1. svc' \in [Key -> Service \cup {None}]
        /\ svcWatch' \in [Key -> Seq(Service \cup {None})]
    BY <1>4, WriteSvcType DEF DeleteSvc
  <2>2. TypeOK'
    BY <1>1, <1>4, <2>1 DEF DeleteSvc, UserEdit, TypeOK
  <2> QED  BY <1>4, <2>2 DEF DeleteSvc, UserEdit, WorkersOK, MutualExclusion
<1>5. CASE CreateForeignIng(k)
  <2>1. PICK c \in ForeignControllers : WriteIng(k, [controller |-> c, owner |-> 0])
    BY <1>5 DEF CreateForeignIng
  <2>2. [controller |-> c, owner |-> 0] \in Ingress
    BY ConstantsAssumption DEF Ingress
  <2>3. ing' \in [Key -> Ingress \cup {None}]
        /\ ingWatch' \in [Key -> Seq(Ingress \cup {None})]
    BY <2>1, <2>2, WriteIngType
  <2>4. TypeOK'
    BY <1>1, <1>5, <2>3 DEF CreateForeignIng, UserEdit, TypeOK
  <2> QED  BY <1>5, <2>4 DEF CreateForeignIng, UserEdit, WorkersOK, MutualExclusion
<1>6. CASE DeleteIngByUser(k)
  <2>1. ing' \in [Key -> Ingress \cup {None}]
        /\ ingWatch' \in [Key -> Seq(Ingress \cup {None})]
    BY <1>6, WriteIngType DEF DeleteIngByUser
  <2>2. TypeOK'
    BY <1>1, <1>6, <2>1 DEF DeleteIngByUser, UserEdit, TypeOK
  <2> QED  BY <1>6, <2>2 DEF DeleteIngByUser, UserEdit, WorkersOK, MutualExclusion
<1>7. CASE GarbageCollect(k)
  <2>1. ing' \in [Key -> Ingress \cup {None}]
        /\ ingWatch' \in [Key -> Seq(Ingress \cup {None})]
    BY <1>7, WriteIngType DEF GarbageCollect
  <2>2. TypeOK'
    BY <1>7, <2>1 DEF GarbageCollect, TypeOK, counters
  <2> QED  BY <1>7, <2>2 DEF GarbageCollect, WorkersOK, MutualExclusion
<1> QED  BY <1>2, <1>3, <1>4, <1>5, <1>6, <1>7 DEF User

\* What the informers do keeps the invariant.
LEMMA InformerIInv ==
    ASSUME IInv, NEW k \in Key, Informer(k) \/ BackoffElapsed(k)
    PROVE  IInv'
<1> USE DEF IInv
<1>0. /\ svcWatch[k] \in Seq(Service \cup {None}) /\ ingWatch[k] \in Seq(Ingress \cup {None})
      /\ svcNotes[k] \in Seq(SvcNote) /\ ingNotes[k] \in Seq(IngNote)
      /\ svcCache[k] \in Service \cup {None} /\ ingCache[k] \in Ingress \cup {None}
      /\ WellFormed(wq)
  BY DEF TypeOK, MutualExclusion, WellFormed
<1>1. CASE WatchSvc(k)
  <2> DEFINE obj == Head(svcWatch[k])
             note == [old |-> svcCache[k], new |-> obj]
  <2>1. obj \in Service \cup {None} /\ Tail(svcWatch[k]) \in Seq(Service \cup {None})
    BY <1>0, <1>1 DEF WatchSvc
  <2>2. obj # None => Append(svcNotes[k], note) \in Seq(SvcNote)
    <3>1. obj # None => note \in SvcNote
      BY <1>0, <2>1 DEF SvcNote
    <3> QED  BY <1>0, <3>1
  <2> HIDE DEF note
  <2>3. svcNotes' \in [Key -> Seq(SvcNote)]
    BY <1>1, <2>2 DEF WatchSvc, TypeOK, note
  <2>4. svcCache' \in [Key -> Service \cup {None}]
        /\ svcWatch' \in [Key -> Seq(Service \cup {None})]
    BY <1>1, <2>1 DEF WatchSvc, TypeOK
  <2>5. TypeOK'
    BY <1>1, <2>3, <2>4 DEF WatchSvc, TypeOK, api, counters
  <2> QED  BY <1>1, <2>5 DEF WatchSvc, WorkersOK, MutualExclusion
<1>2. CASE WatchIng(k)
  <2> DEFINE obj == Head(ingWatch[k])
             note == [obj |-> ingCache[k], tombstone |-> FALSE]
  <2>1. obj \in Ingress \cup {None} /\ Tail(ingWatch[k]) \in Seq(Ingress \cup {None})
    BY <1>0, <1>2 DEF WatchIng
  <2>2. ingCache[k] # None => Append(ingNotes[k], note) \in Seq(IngNote)
    <3>1. ingCache[k] # None => note \in IngNote
      BY <1>0 DEF IngNote
    <3> QED  BY <1>0, <3>1
  <2> HIDE DEF note
  <2>3. ingNotes' \in [Key -> Seq(IngNote)]
    BY <1>2, <2>2 DEF WatchIng, TypeOK, note
  <2>4. ingCache' \in [Key -> Ingress \cup {None}]
        /\ ingWatch' \in [Key -> Seq(Ingress \cup {None})]
    BY <1>2, <2>1 DEF WatchIng, TypeOK
  <2>5. TypeOK'
    BY <1>2, <2>3, <2>4 DEF WatchIng, TypeOK, api, counters
  <2> QED  BY <1>2, <2>5 DEF WatchIng, WorkersOK, MutualExclusion
<1>3. CASE SvcHandler(k)
  <2>1. WellFormed(wq') /\ wq'.processing = wq.processing
    BY <1>0, <1>3, AddWellFormed DEF SvcHandler
  <2>2. svcNotes' \in [Key -> Seq(SvcNote)]
    <3>1. Tail(svcNotes[k]) \in Seq(SvcNote)
      BY <1>0, <1>3 DEF SvcHandler
    <3> QED  BY <1>3, <3>1 DEF SvcHandler, TypeOK
  <2>3. TypeOK'
    BY <1>3, <2>1, <2>2 DEF SvcHandler, TypeOK, api, counters, WellFormed
  <2>4. MutualExclusion'
    BY <1>3, <2>1, SameItems DEF SvcHandler, WellFormed
  <2> QED  BY <1>3, <2>3, <2>4 DEF SvcHandler, WorkersOK
<1>4. CASE IngressDel(k)
  <2>1. CASE Panic
    BY <2>1, GoDownIInv DEF Panic, TypeOK, counters
  <2>2. CASE ~Panic
    <3> DEFINE q == IF Head(ingNotes[k]).obj.controller # "Service"
                    THEN HandlerError(wq, k) ELSE wq
    <3>1. /\ wq' = Add(q, k)
          /\ ingNotes' = [ingNotes EXCEPT ![k] = Tail(@)]
          /\ ingNotes[k] # <<>>
          /\ UNCHANGED <<api, svcWatch, ingWatch, svcCache, ingCache, svcNotes,
                         synced, worker, up, counters>>
      BY <1>4, <2>2 DEF IngressDel
    <3>2. WellFormed(q) /\ q.processing = wq.processing
      BY <1>0, AddRateLimitedWellFormed, ForgetWellFormed DEF HandlerError
    <3>3. WellFormed(wq') /\ wq'.processing = wq.processing
      BY <3>1, <3>2, AddWellFormed
    <3>4. ingNotes' \in [Key -> Seq(IngNote)]
      <4>1. Tail(ingNotes[k]) \in Seq(IngNote)
        BY <1>0, <3>1
      <4> QED  BY <3>1, <4>1 DEF TypeOK
    <3> HIDE DEF q
    <3>5. TypeOK'
      BY <3>1, <3>3, <3>4 DEF TypeOK, api, counters, WellFormed
    <3>6. MutualExclusion'
      BY <3>1, <3>3, SameItems DEF WellFormed
    <3> QED  BY <3>1, <3>5, <3>6 DEF WorkersOK
  <2> QED  BY <2>1, <2>2
<1>5. CASE BackoffElapsed(k)
  <2>1. WellFormed(wq') /\ wq'.processing = wq.processing
    BY <1>0, <1>5, ElapseWellFormed DEF BackoffElapsed
  <2>2. TypeOK'
    BY <1>5, <2>1 DEF BackoffElapsed, TypeOK, api, counters, informers, WellFormed
  <2>3. MutualExclusion'
    BY <1>5, <2>1, SameItems DEF BackoffElapsed, WellFormed
  <2> QED  BY <1>5, <2>2, <2>3 DEF BackoffElapsed, WorkersOK
<1> QED  BY <1>1, <1>2, <1>3, <1>4, <1>5 DEF Informer

\* Lists replace a cache; the handlers are called later.
LEMMA ListIInv ==
    ASSUME IInv, ListSvc \/ ListIng
    PROVE  IInv'
<1> USE DEF IInv
<1>1. CASE ListSvc
  <2>1. svcNotes' \in [Key -> Seq(SvcNote)]
    <3>1. ASSUME NEW k \in Key, svc[k] # None
          PROVE  Append(svcNotes[k], [old |-> svcCache[k], new |-> svc[k]]) \in Seq(SvcNote)
      <4>1. [old |-> svcCache[k], new |-> svc[k]] \in SvcNote
        BY <3>1 DEF SvcNote, TypeOK
      <4>2. svcNotes[k] \in Seq(SvcNote)
        BY DEF TypeOK
      <4> QED  BY <4>1, <4>2
    <3>2. \A k \in Key : svcNotes[k] \in Seq(SvcNote)
      BY DEF TypeOK
    <3> QED  BY <1>1, <3>1, <3>2 DEF ListSvc
  <2>2. /\ svcCache' \in [Key -> Service \cup {None}]
        /\ svcWatch' \in [Key -> Seq(Service \cup {None})]
        /\ synced' \in SUBSET {"svc", "ing"}
        /\ relists' \in [{"svc", "ing"} -> Nat]
    BY <1>1 DEF ListSvc, TypeOK, NoEvents
  <2>3. TypeOK'
    BY <1>1, <2>1, <2>2 DEF ListSvc, TypeOK, api
  <2> QED  BY <1>1, <2>3 DEF ListSvc, WorkersOK, MutualExclusion
<1>2. CASE ListIng
  <2>1. ingNotes' \in [Key -> Seq(IngNote)]
    <3>1. ASSUME NEW k \in Key, ingCache[k] # None
          PROVE  Append(ingNotes[k], [obj |-> ingCache[k], tombstone |-> TRUE]) \in Seq(IngNote)
      <4>1. [obj |-> ingCache[k], tombstone |-> TRUE] \in IngNote
        BY <3>1 DEF IngNote, TypeOK
      <4>2. ingNotes[k] \in Seq(IngNote)
        BY DEF TypeOK
      <4> QED  BY <4>1, <4>2
    <3>2. \A k \in Key : ingNotes[k] \in Seq(IngNote)
      BY DEF TypeOK
    <3> QED  BY <1>2, <3>1, <3>2 DEF ListIng
  <2>2. /\ ingCache' \in [Key -> Ingress \cup {None}]
        /\ ingWatch' \in [Key -> Seq(Ingress \cup {None})]
        /\ synced' \in SUBSET {"svc", "ing"}
        /\ relists' \in [{"svc", "ing"} -> Nat]
    BY <1>2 DEF ListIng, TypeOK, NoEvents
  <2>3. TypeOK'
    BY <1>2, <2>1, <2>2 DEF ListIng, TypeOK, api
  <2> QED  BY <1>2, <2>3 DEF ListIng, WorkersOK, MutualExclusion
<1> QED  BY <1>1, <1>2

\* A worker that is not idle holds a key, and holds it in `processing'.
LEMMA WorkerHolds ==
    ASSUME IInv, NEW w \in Worker, worker[w].pc # "idle"
    PROVE  worker[w].item \in Key /\ worker[w].item \in wq.processing
<1>1. worker[w] \in Seen
  BY DEF IInv, TypeOK
<1>2. worker[w].item \in Key
  BY <1>1 DEF IInv, WorkersOK, Seen
<1> QED  BY <1>2, ConstantsAssumption DEF IInv, MutualExclusion

\* A step from one pc to another keeps the key and does not start idling.
LEMMA StepIInv ==
    ASSUME IInv, NEW w \in Worker,
           NEW from \in {"svc", "ing", "create", "delete"},
           NEW to \in {"create", "delete", "done"}, Step(w, from, to),
           to = "create" => worker[w].svc # None
    PROVE  /\ worker' \in [Worker -> Seen]
           /\ \A v \in Worker : worker'[v].item = worker[v].item
           /\ WorkersOK'
<1>1. worker[w] \in Seen /\ worker \in [Worker -> Seen]
  BY DEF IInv, TypeOK
<1>2. [worker[w] EXCEPT !.pc = to] \in Seen
  BY <1>1 DEF Seen
<1>3. worker' = [worker EXCEPT ![w] = [worker[w] EXCEPT !.pc = to]]
  BY DEF Step
<1>4. \A v \in Worker : worker[v] \in Seen
  BY <1>1
<1>5. /\ \A v \in Worker \ {w} : worker'[v] = worker[v]
      /\ worker'[w].item = worker[w].item /\ worker'[w].svc = worker[w].svc
      /\ worker'[w].pc = to /\ worker[w].pc = from
  BY <1>1, <1>3 DEF Step, Seen
<1>6. WorkersOK'
  BY <1>5 DEF IInv, WorkersOK
<1> QED  BY <1>1, <1>2, <1>3, <1>5, <1>6

\* What workers do keeps the invariant.
LEMMA WorkerIInv ==
    ASSUME IInv, NEW w \in Worker, QueueConsumer(w) \/ CallFails(w)
    PROVE  IInv'
<1> USE DEF IInv
<1>0. WellFormed(wq) /\ worker[w] \in Seen /\ worker \in [Worker -> Seen]
  BY DEF TypeOK, MutualExclusion, WellFormed
<1>1. CASE Get(w)
  <2> DEFINE h == Head(wq.queue)
             seen == [pc |-> "svc", item |-> h, svc |-> None]
  <2>1. /\ WellFormed(wq') /\ h \in Key \ wq.processing
        /\ wq'.processing = wq.processing \cup {h}
    BY <1>0, <1>1, TakeWellFormed DEF Get
  <2>2. seen \in Seen /\ seen.item = h /\ seen.pc = "svc" /\ h # None
    BY <2>1, ConstantsAssumption DEF Seen
  <2>3. worker' = [worker EXCEPT ![w] = seen] /\ worker[w].pc = "idle"
    BY <1>1 DEF Get
  <2> HIDE DEF h, seen
  <2>4. /\ \A v \in Worker \ {w} : worker'[v] = worker[v]
        /\ worker'[w] = seen /\ worker' \in [Worker -> Seen]
        /\ worker[w].item = None
    BY <1>0, <2>2, <2>3 DEF WorkersOK
  <2>5. TypeOK'
    BY <1>1, <2>1, <2>4 DEF Get, TypeOK, api, informers, counters, WellFormed
  <2>6. WorkersOK'
    BY <2>2, <2>4 DEF WorkersOK
  <2>7. MutualExclusion'
    <3>1. wq.processing = {worker[v].item : v \in Worker} \ {None}
      BY DEF MutualExclusion
    <3>2. \A v \in Worker : worker[v].item # h
      BY <2>1, <2>2, <3>1
    <3>3. wq'.processing = {worker'[v].item : v \in Worker} \ {None}
      BY <2>1, <2>2, <2>4, <3>1
    <3>4. \A u, v \in Worker :
             worker'[u].item = worker'[v].item /\ worker'[u].item # None => u = v
      BY <2>2, <2>4, <3>2 DEF MutualExclusion
    <3> QED  BY <2>1, <3>3, <3>4 DEF MutualExclusion, WellFormed
  <2> QED  BY <2>5, <2>6, <2>7
<1>2. CASE ReadSvc(w)
  <2> DEFINE s == svcCache[worker[w].item]
             seen == [worker[w] EXCEPT !.pc = "ing", !.svc = s]
  <2>1. worker[w].pc = "svc" /\ worker[w].item \in Key
    BY <1>2, WorkerHolds DEF ReadSvc
  <2>2. s \in Service \cup {None}
    BY <2>1 DEF TypeOK
  <2>3. /\ seen \in Seen /\ seen.item = worker[w].item /\ seen.pc = "ing"
        /\ worker' = [worker EXCEPT ![w] = seen]
    BY <1>0, <1>2, <2>2 DEF ReadSvc, Seen
  <2> HIDE DEF s, seen
  <2>4. /\ \A v \in Worker \ {w} : worker'[v] = worker[v]
        /\ worker'[w] = seen /\ worker' \in [Worker -> Seen]
    BY <1>0, <2>3
  <2>5. TypeOK'
    BY <1>2, <2>4 DEF ReadSvc, TypeOK, api, informers, counters
  <2>6. WorkersOK'
    BY <2>1, <2>3, <2>4 DEF WorkersOK
  <2>7. MutualExclusion'
    BY <1>0, <1>2, <2>3, <2>4, SameItems DEF ReadSvc, WellFormed
  <2> QED  BY <2>5, <2>6, <2>7
<1>3. CASE ReadIng(w)
  <2> DEFINE to == Decision(worker[w].svc, ingCache[worker[w].item])
  <2>1. to \in {"create", "delete", "done"} /\ (to = "create" => worker[w].svc # None)
    BY DEF Decision
  <2>2. Step(w, "ing", to) /\ UNCHANGED <<api, informers, wq, up, counters>>
    BY <1>3 DEF ReadIng
  <2> HIDE DEF to
  <2>3. /\ worker' \in [Worker -> Seen] /\ WorkersOK'
        /\ \A v \in Worker : worker'[v].item = worker[v].item
    BY <2>1, <2>2, StepIInv
  <2>4. TypeOK'
    BY <2>2, <2>3 DEF TypeOK, api, informers, counters
  <2>5. MutualExclusion'
    BY <1>0, <2>2, <2>3, SameItems DEF WellFormed
  <2> QED  BY <2>3, <2>4, <2>5
<1>4. CASE CreateIng(w)
  <2>1. CASE Panic
    BY <2>1, GoDownIInv DEF Panic, TypeOK, counters
  <2>2. CASE ~Panic
    <3> DEFINE k == worker[w].item
               s == worker[w].svc
    <3>1. Step(w, "create", "done")
      BY <1>4, <2>2 DEF CreateIng
    <3>2. /\ worker' \in [Worker -> Seen] /\ WorkersOK'
          /\ \A v \in Worker : worker'[v].item = worker[v].item
      BY <3>1, StepIInv
    <3>3. k \in Key /\ s \in Service
      <4>1. worker[w].pc = "create"
        BY <3>1 DEF Step
      <4> QED  BY <1>0, <4>1, WorkerHolds DEF WorkersOK, Seen
    <3>4. NewIngress(s) \in Ingress
      BY <3>3, ConstantsAssumption DEF NewIngress, Ingress, Service
    <3>5. UNCHANGED <<svc, svcWatch, svcCache, ingCache, svcNotes, ingNotes,
                      synced, wq, up, counters>>
      BY <1>4, <2>2 DEF CreateIng, api, informers
    <3>6. \/ WriteIng(k, NewIngress(s))
          \/ UNCHANGED <<ing, ingWatch>>
      BY <1>4, <2>2 DEF CreateIng, api, informers
    <3>7. /\ ing' \in [Key -> Ingress \cup {None}]
          /\ ingWatch' \in [Key -> Seq(Ingress \cup {None})]
      BY <3>3, <3>4, <3>6, WriteIngType DEF TypeOK
    <3>8. TypeOK'
      BY <3>2, <3>5, <3>7 DEF TypeOK, counters
    <3>9. MutualExclusion'
      BY <1>0, <3>2, <3>5, SameItems DEF WellFormed
    <3> QED  BY <3>2, <3>8, <3>9
  <2> QED  BY <2>1, <2>2
<1>5. CASE DeleteIng(w)
  <2> DEFINE k == worker[w].item
  <2>1. Step(w, "delete", "done")
    BY <1>5 DEF DeleteIng
  <2>2. /\ worker' \in [Worker -> Seen] /\ WorkersOK'
        /\ \A v \in Worker : worker'[v].item = worker[v].item
    BY <2>1, StepIInv
  <2>3. k \in Key
    BY <2>1, WorkerHolds DEF Step
  <2>4. UNCHANGED <<svc, svcWatch, svcCache, ingCache, svcNotes, ingNotes,
                    synced, wq, up, counters>>
    BY <1>5 DEF DeleteIng, api, informers
  <2>5. WriteIng(k, None) \/ UNCHANGED <<ing, ingWatch>>
    BY <1>5 DEF DeleteIng, api, informers
  <2>6. /\ ing' \in [Key -> Ingress \cup {None}]
        /\ ingWatch' \in [Key -> Seq(Ingress \cup {None})]
    BY <2>3, <2>5, WriteIngType DEF TypeOK
  <2>7. TypeOK'
    BY <2>2, <2>4, <2>6 DEF TypeOK, counters
  <2>8. MutualExclusion'
    BY <1>0, <2>2, <2>4, SameItems DEF WellFormed
  <2> QED  BY <2>2, <2>7, <2>8
<1>6. CASE CallFails(w)
  <2>1. Step(w, "create", "done") \/ Step(w, "delete", "done")
    BY <1>6 DEF CallFails
  <2>2. /\ worker' \in [Worker -> Seen] /\ WorkersOK'
        /\ \A v \in Worker : worker'[v].item = worker[v].item
    BY <2>1, StepIInv
  <2>3. failures' \in 0..MaxFailures
    BY <1>6, ConstantsAssumption DEF CallFails, TypeOK
  <2>4. TypeOK'
    BY <1>6, <2>2, <2>3 DEF CallFails, TypeOK, api, informers
  <2>5. MutualExclusion'
    BY <1>0, <1>6, <2>2, SameItems DEF CallFails, WellFormed
  <2> QED  BY <2>2, <2>4, <2>5
<1>7. CASE Finish(w)
  <2> DEFINE k == worker[w].item
  <2>1. worker[w].pc = "done" /\ worker' = [worker EXCEPT ![w] = Idle]
    BY <1>7 DEF Finish
  <2>2. k \in Key /\ k \in wq.processing
    BY <2>1, WorkerHolds
  <2>3. WellFormed(wq') /\ wq'.processing = wq.processing \ {k}
    BY <1>0, <1>7, <2>2, DoneWellFormed DEF Finish
  <2>4. Idle \in Seen /\ Idle.pc = "idle" /\ Idle.item = None
    BY DEF Seen, Idle
  <2>5. /\ \A v \in Worker \ {w} : worker'[v] = worker[v]
        /\ worker'[w] = Idle /\ worker' \in [Worker -> Seen]
    BY <1>0, <2>1, <2>4
  <2>6. TypeOK'
    BY <1>7, <2>3, <2>5 DEF Finish, TypeOK, api, informers, counters, WellFormed
  <2>7. WorkersOK'
    BY <2>4, <2>5 DEF WorkersOK
  <2>8. MutualExclusion'
    <3>1. /\ wq.processing = {worker[v].item : v \in Worker} \ {None}
          /\ \A v \in Worker \ {w} : worker[v].item # k
      BY <2>2, ConstantsAssumption DEF MutualExclusion
    <3>2. wq'.processing = {worker'[v].item : v \in Worker} \ {None}
      BY <2>3, <2>4, <2>5, <3>1
    <3>3. \A u, v \in Worker :
             worker'[u].item = worker'[v].item /\ worker'[u].item # None => u = v
      BY <2>4, <2>5 DEF MutualExclusion
    <3> QED  BY <2>3, <3>2, <3>3 DEF MutualExclusion, WellFormed
  <2> QED  BY <2>6, <2>7, <2>8
<1> QED  BY <1>1, <1>2, <1>3, <1>4, <1>5, <1>6, <1>7 DEF QueueConsumer

\* Crashes, restarts and steps that change nothing.
LEMMA ProcessIInv ==
    ASSUME IInv, Crash \/ Restart \/ UNCHANGED vars
    PROVE  IInv'
<1> USE DEF IInv
<1>1. CASE Crash
  <2>1. crashes' \in 0..MaxCrashes
    BY <1>1, ConstantsAssumption DEF Crash, TypeOK
  <2> QED  BY <1>1, <2>1, GoDownIInv DEF Crash, TypeOK
<1>2. CASE Restart
  BY <1>2 DEF Restart, TypeOK, WorkersOK, MutualExclusion, api, informers, counters
<1>3. CASE UNCHANGED vars
  BY <1>3 DEF vars, TypeOK, WorkersOK, MutualExclusion, api, informers, counters
<1> QED  BY <1>1, <1>2, <1>3

\* IInv is inductive.
LEMMA NextIInv == IInv /\ [Next]_vars => IInv'
<1> SUFFICES ASSUME IInv, [Next]_vars PROVE IInv'
  OBVIOUS
<1>1. CASE \E k \in Key : User(k) \/ GarbageCollect(k) \/ Informer(k) \/ BackoffElapsed(k)
  BY <1>1, UserIInv, InformerIInv
<1>2. CASE \E w \in Worker : QueueConsumer(w) \/ CallFails(w)
  BY <1>2, WorkerIInv
<1>3. CASE ListSvc \/ ListIng
  BY <1>3, ListIInv
<1>4. CASE Crash \/ Restart \/ UNCHANGED vars
  BY <1>4, ProcessIInv
<1> QED  BY <1>1, <1>2, <1>3, <1>4 DEF Next

\* Whatever users, informers, workers and crashes do, the variables keep
\* their types: in particular a worker about to create an Ingress has a
\* Service to point its owner reference at (controller.go:178-189).
THEOREM TypeCorrect == Spec => []TypeOK
<1>1. IInv => TypeOK
  BY DEF IInv
<1> QED  BY <1>1, InitIInv, NextIInv, PTL DEF Spec

\* Five workers or five hundred: no two are ever inside queueConsumer with
\* the same key, every key held is in `processing', and the queue holds
\* exactly the dirty keys nobody holds, each once.
THEOREM WorkersExclude == Spec => []MutualExclusion
<1>1. IInv => MutualExclusion
  BY DEF IInv
<1> QED  BY <1>1, InitIInv, NextIInv, PTL DEF Spec
-----------------------------------------------------------------------------
(***************************************************************************)
(* A key the process is done with has its Ingress.                         *)
(*                                                                         *)
(* The argument: while a Service asks for an Ingress that is missing,      *)
(* something is on its way that will make a worker look at the key again.  *)
(* It rests on what the watches carry: successive versions of a Service,   *)
(* so that a change the cache has not seen is never mistaken for one it    *)
(* has, and an alternation of creations and deletions of an Ingress, so    *)
(* that a deletion that reaches the cache always finds an Ingress there    *)
(* and calls the handler.                                                  *)
(***************************************************************************)
Earlier(x, y) == x # None /\ y # None => x.rv < y.rv

Grows(c, q, s) ==
    /\ \A i \in 1..Len(q) : Earlier(c, q[i])
    /\ \A i, j \in 1..Len(q) : i < j => Earlier(q[i], q[j])
    /\ Leads(c, q, s)

Alternates(c, q, s) ==
    /\ q # <<>> => (c = None <=> q[1] # None)
    /\ \A i \in 1..Len(q) : i + 1 <= Len(q) => (q[i] = None <=> q[i + 1] # None)
    /\ Leads(c, q, s)

\* No version is newer than the last edit.
Old(obj, n) == obj # None => obj.rv <= n

OldThings(k, n) ==
    /\ Old(svc[k], n) /\ Old(svcCache[k], n)
    /\ \A i \in 1..Len(svcWatch[k]) : Old(svcWatch[k][i], n)

SvcOK ==
    \A k \in Key :
        /\ OldThings(k, edits)
        /\ "svc" \in synced => Grows(svcCache[k], svcWatch[k], svc[k])
        /\ "svc" \notin synced => svcCache[k] = None /\ svcWatch[k] = <<>>

IngOK ==
    \A k \in Key :
        /\ "ing" \in synced => Alternates(ingCache[k], ingWatch[k], ing[k])
        /\ "ing" \notin synced => ingWatch[k] = <<>>

Ready ==
    /\ ~wq.shut
    /\ \A w \in Worker : worker[w].pc # "idle" => synced = {"svc", "ing"}

\* What makes a worker look at k again: an event or a call of a handler that
\* will queue it, the queue itself, or a worker that has not decided yet or
\* has decided to create.
Noted(k) == \E i \in 1..Len(svcNotes[k]) : svcNotes[k][i].old # svcNotes[k][i].new

InHand(k) ==
    \E w \in Worker :
        /\ worker[w].item = k
        /\ \/ worker[w].pc \in {"svc", "create"}
           \/ worker[w].pc = "ing" /\ worker[w].svc = svc[k]

Asked(k) ==
    \/ svcWatch[k] # <<>> \/ ingWatch[k] # <<>> \/ ingNotes[k] # <<>>
    \/ Noted(k) \/ k \in Pending(wq) \/ InHand(k)

\* Until the first list of the Ingresses the process knows none of them.
Missing(k) ==
    "svc" \in synced /\ Wanted(k) /\ ("ing" \in synced => ing[k] = None)

MissingIsAsked == ~Spoiled => \A k \in Key : Missing(k) => Asked(k)

XInv == SvcOK /\ IngOK /\ Ready /\ MissingIsAsked

\* A write appends a newer version.
LEMMA GrowsAppend ==
    ASSUME NEW c \in Service \cup {None}, NEW q \in Seq(Service \cup {None}), NEW s,
           NEW o \in Service \cup {None}, NEW n \in Nat, Grows(c, q, s),
           Old(c, n), \A i \in 1..Len(q) : Old(q[i], n), o # None => o.rv = n + 1
    PROVE  Grows(c, Append(q, o), o)
<1>1. \A x \in Service \cup {None} : Old(x, n) => Earlier(x, o)
  BY ConstantsAssumption DEF Old, Earlier, Service
<1>2. /\ Len(Append(q, o)) = Len(q) + 1 /\ Len(q) \in Nat
      /\ \A i \in 1..Len(q) : Append(q, o)[i] = q[i] /\ q[i] \in Service \cup {None}
      /\ Append(q, o)[Len(q) + 1] = o
      /\ Append(q, o) # <<>>
  OBVIOUS
<1>3. \A i \in 1..Len(q) + 1 : Earlier(c, Append(q, o)[i])
  BY <1>1, <1>2 DEF Grows
<1>4. \A i, j \in 1..Len(q) + 1 : i < j => Earlier(Append(q, o)[i], Append(q, o)[j])
  BY <1>1, <1>2 DEF Grows
<1> QED  BY <1>2, <1>3, <1>4 DEF Grows, Leads

\* The cache takes over the first event.
LEMMA GrowsTail ==
    ASSUME NEW c, NEW q \in Seq(Service \cup {None}), NEW s, Grows(c, q, s), q # <<>>
    PROVE  /\ Grows(Head(q), Tail(q), s)
           /\ Tail(q) = <<>> /\ s # None => Head(q) = s /\ (c # None => c.rv < s.rv)
<1>1. /\ Head(q) = q[1] /\ Len(Tail(q)) = Len(q) - 1 /\ Len(q) \in Nat /\ Len(q) >= 1
      /\ \A i \in 1..Len(Tail(q)) : Tail(q)[i] = q[i + 1]
      /\ Tail(q) = <<>> <=> Len(q) = 1
      /\ Tail(q) # <<>> => Tail(q)[Len(Tail(q))] = q[Len(q)]
  BY TailFacts
<1>2. Leads(Head(q), Tail(q), s)
  BY <1>1 DEF Leads, Grows
<1>3. /\ \A i \in 1..Len(Tail(q)) : Earlier(Head(q), Tail(q)[i])
      /\ \A i, j \in 1..Len(Tail(q)) : i < j => Earlier(Tail(q)[i], Tail(q)[j])
  BY <1>1 DEF Grows
<1>4. Tail(q) = <<>> /\ s # None => Head(q) = s /\ (c # None => c.rv < s.rv)
  BY <1>1 DEF Grows, Leads, Earlier
<1> QED  BY <1>2, <1>3, <1>4 DEF Grows

\* While events are on their way the cache differs from the API server.
LEMMA GrowsDiffers ==
    ASSUME NEW c \in Service \cup {None}, NEW q \in Seq(Service \cup {None}),
           NEW s \in Service, Grows(c, q, s), q # <<>>
    PROVE  c # s
<1>1. Len(q) \in 1..Len(q) /\ q[Len(q)] = s
  BY DEF Grows, Leads
<1>2. Earlier(c, s)
  BY <1>1 DEF Grows
<1>3. s # None /\ s.rv \in Int
  BY ConstantsAssumption DEF Service
<1> QED  BY <1>2, <1>3 DEF Earlier

\* A creation follows a deletion and a deletion a creation.
LEMMA AlternatesAppend ==
    ASSUME NEW c, NEW q \in Seq(Ingress \cup {None}), NEW s, NEW o \in Ingress \cup {None},
           Alternates(c, q, s), o = None <=> s # None
    PROVE  Alternates(c, Append(q, o), o)
<1>1. /\ Len(Append(q, o)) = Len(q) + 1 /\ Len(q) \in Nat
      /\ \A i \in 1..Len(q) : Append(q, o)[i] = q[i]
      /\ Append(q, o)[Len(q) + 1] = o
      /\ Append(q, o) # <<>>
      /\ q = <<>> <=> Len(q) = 0
  OBVIOUS
<1>2. c = None <=> Append(q, o)[1] # None
  BY <1>1 DEF Alternates, Leads
<1>3. ASSUME NEW i \in 1..Len(q) + 1, i + 1 <= Len(q) + 1
      PROVE  Append(q, o)[i] = None <=> Append(q, o)[i + 1] # None
  <2>1. CASE i = Len(q)
    BY <1>1, <1>3, <2>1 DEF Alternates, Leads
  <2>2. CASE i # Len(q)
    BY <1>1, <1>3, <2>2 DEF Alternates
  <2> QED  BY <2>1, <2>2
<1> QED  BY <1>1, <1>2, <1>3 DEF Alternates, Leads

\* A deletion that reaches the cache finds an Ingress there.
LEMMA AlternatesTail ==
    ASSUME NEW c, NEW q \in Seq(Ingress \cup {None}), NEW s, Alternates(c, q, s), q # <<>>
    PROVE  /\ Alternates(Head(q), Tail(q), s)
           /\ Head(q) = None => c # None
           /\ Tail(q) = <<>> => Head(q) = s
<1>1. /\ Head(q) = q[1] /\ Len(Tail(q)) = Len(q) - 1 /\ Len(q) \in Nat /\ Len(q) >= 1
      /\ \A i \in 1..Len(Tail(q)) : Tail(q)[i] = q[i + 1]
      /\ Tail(q) = <<>> <=> Len(q) = 1
      /\ Tail(q) # <<>> => Tail(q)[Len(Tail(q))] = q[Len(q)]
  BY TailFacts
<1>2. Leads(Head(q), Tail(q), s)
  BY <1>1 DEF Leads, Alternates
<1>3. Tail(q) # <<>> => (Head(q) = None <=> Tail(q)[1] # None)
  BY <1>1 DEF Alternates
<1>4. \A i \in 1..Len(Tail(q)) :
         i + 1 <= Len(Tail(q)) => (Tail(q)[i] = None <=> Tail(q)[i + 1] # None)
  BY <1>1 DEF Alternates
<1> QED  BY <1>1, <1>2, <1>3, <1>4 DEF Alternates, Leads

\* A token that is kept keeps the key asked for.
LEMMA AskedKept ==
    ASSUME NEW k \in Key, Asked(k),
           svcWatch[k] # <<>> => svcWatch'[k] # <<>>,
           ingWatch[k] # <<>> => ingWatch'[k] # <<>>,
           ingNotes[k] # <<>> => ingNotes'[k] # <<>>,
           Noted(k) => Noted(k)', k \in Pending(wq) => k \in Pending(wq'),
           InHand(k) => InHand(k)'
    PROVE  Asked(k)'
  BY DEF Asked

\* The worker that takes a step lets go of nothing it did not hold.
LEMMA InHandKept ==
    ASSUME NEW k \in Key, NEW w \in Worker, \A v \in Worker \ {w} : worker'[v] = worker[v],
           svc'[k] = svc[k],
           \/ worker[w].item # k
           \/ worker[w].pc \notin {"svc", "create", "ing"}
           \/ worker[w].pc = "ing" /\ worker[w].svc # svc[k]
    PROVE  InHand(k) => InHand(k)'
  BY DEF InHand

\* Notes are only added.
LEMMA NotedKept ==
    ASSUME TypeOK, NEW k \in Key, NEW n \in SvcNote, svcNotes'[k] = Append(svcNotes[k], n),
           Noted(k) \/ n.old # n.new
    PROVE  Noted(k)'
<1>1. svcNotes[k] \in Seq(SvcNote)
  BY DEF TypeOK
<1>2. /\ Len(Append(svcNotes[k], n)) = Len(svcNotes[k]) + 1 /\ Len(svcNotes[k]) \in Nat
      /\ \A i \in 1..Len(svcNotes[k]) : Append(svcNotes[k], n)[i] = svcNotes[k][i]
      /\ Append(svcNotes[k], n)[Len(svcNotes[k]) + 1] = n
  BY <1>1
<1>3. CASE Noted(k)
  <2>1. PICK i \in 1..Len(svcNotes[k]) : svcNotes[k][i].old # svcNotes[k][i].new
    BY <1>3 DEF Noted
  <2>2. i \in 1..Len(svcNotes'[k]) /\ svcNotes'[k][i] = svcNotes[k][i]
    BY <1>2, <2>1
  <2> QED  BY <2>1, <2>2 DEF Noted
<1>4. CASE n.old # n.new
  <2>1. Len(svcNotes'[k]) \in 1..Len(svcNotes'[k]) /\ svcNotes'[k][Len(svcNotes'[k])] = n
    BY <1>2
  <2> QED  BY <1>4, <2>1 DEF Noted
<1> QED  BY <1>3, <1>4

\* Steps of queue and workers leave what the informers know alone.
LEMMA QueueAndWorkersOnly ==
    ASSUME XInv, UNCHANGED <<api, svcWatch, ingWatch, svcCache, ingCache, synced, edits>>,
           ~wq'.shut,
           \A w \in Worker : worker'[w].pc # "idle" =>
                                 worker[w].pc # "idle" \/ synced = {"svc", "ing"}
    PROVE  SvcOK' /\ IngOK' /\ Ready'
<1>1. SvcOK'
  BY DEF XInv, SvcOK, OldThings, api
<1>2. IngOK'
  BY DEF XInv, IngOK, api
<1>3. Ready'
  BY DEF XInv, Ready
<1> QED  BY <1>1, <1>2, <1>3

\* At first there is nothing to miss.
LEMMA InitXInv == Init => XInv
<1> SUFFICES ASSUME Init PROVE XInv
  OBVIOUS
<1>1. SvcOK
  BY DEF Init, SvcOK, OldThings, Old, NoObjects, NoEvents
<1>2. IngOK
  BY DEF Init, IngOK, NoEvents
<1>3. Ready
  BY DEF Init, Ready, NewQueue, Idle
<1>4. MissingIsAsked
  BY DEF Init, MissingIsAsked, Missing
<1> QED  BY <1>1, <1>2, <1>3, <1>4 DEF XInv

\* A process that went down has not listed the Services.
LEMMA GoDownXInv ==
    ASSUME XInv, GoDown, UNCHANGED <<api, edits>>
    PROVE  XInv'
<1>1. SvcOK'
  BY DEF XInv, GoDown, SvcOK, OldThings, Old, NoObjects, NoEvents, api
<1>2. IngOK'
  BY DEF GoDown, IngOK, NoEvents
<1>3. Ready'
  BY DEF GoDown, Ready, NewQueue, Idle
<1>4. MissingIsAsked'
  BY DEF GoDown, MissingIsAsked, Missing
<1> QED  BY <1>1, <1>2, <1>3, <1>4 DEF XInv

SvcEdit(k) == CreateSvc(k) \/ EditSvc(k) \/ DeleteSvc(k)

\* An edit of a Service is a write of a newer version.
LEMMA ServiceEdited ==
    ASSUME IInv, NEW k \in Key, SvcEdit(k)
    PROVE  /\ UserEdit /\ UNCHANGED <<ing, ingWatch>>
           /\ \E o \in Service \cup {None} : WriteSvc(k, o) /\ (o # None => o.rv = edits + 1)
<1>0. UserEdit /\ UNCHANGED <<ing, ingWatch>>
  <2>1. CreateSvc(k) => UserEdit /\ UNCHANGED <<ing, ingWatch>>
    BY DEF CreateSvc
  <2>2. EditSvc(k) => UserEdit /\ UNCHANGED <<ing, ingWatch>>
    BY DEF EditSvc
  <2>3. DeleteSvc(k) => UserEdit /\ UNCHANGED <<ing, ingWatch>>
    BY DEF DeleteSvc
  <2> QED  BY <2>1, <2>2, <2>3 DEF SvcEdit
<1>1. edits + 1 \in 1..MaxEdits
  BY <1>0, ConstantsAssumption DEF UserEdit, IInv, TypeOK
<1>2. CASE CreateSvc(k)
  <2>1. PICK a \in Annotations, p \in PortChoices :
           WriteSvc(k, [uid |-> edits + 1, rv |-> edits + 1, ann |-> a, ports |-> p])
    BY <1>2 DEF CreateSvc
  <2>2. [uid |-> edits + 1, rv |-> edits + 1, ann |-> a, ports |-> p] \in Service
    BY <1>1, ConstantsAssumption DEF Service
  <2> QED  BY <1>0, <2>1, <2>2
<1>3. CASE EditSvc(k)
  <2>1. PICK a \in Annotations, p \in PortChoices :
           WriteSvc(k, [svc[k] EXCEPT !.rv = edits + 1, !.ann = a, !.ports = p])
    BY <1>3, Zenon DEF EditSvc
  <2>2. svc[k] \in Service
    <3>1. svc[k] # None
      BY <1>3, Zenon DEF EditSvc
    <3> QED  BY <3>1 DEF IInv, TypeOK
  <2>3. [svc[k] EXCEPT !.rv = edits + 1, !.ann = a, !.ports = p] \in Service
    BY <1>1, <2>2, ConstantsAssumption DEF Service
  <2>4. [svc[k] EXCEPT !.rv = edits + 1, !.ann = a, !.ports = p].rv = edits + 1
    BY <2>2 DEF Service
  <2> QED  BY <1>0, <2>1, <2>3, <2>4
<1>4. CASE DeleteSvc(k)
  BY <1>0, <1>4 DEF DeleteSvc
<1> QED  BY <1>2, <1>3, <1>4 DEF SvcEdit

\* The change of a Service is on its way to the cache.
LEMMA ServiceEditXInv ==
    ASSUME IInv, XInv, NEW k \in Key, SvcEdit(k)
    PROVE  XInv'
<1>1. UserEdit /\ UNCHANGED <<ing, ingWatch>>
  BY ServiceEdited
<1>2. PICK o \in Service \cup {None} : WriteSvc(k, o) /\ (o # None => o.rv = edits + 1)
  BY ServiceEdited
<1>3. edits \in Nat /\ edits' = edits + 1
  BY <1>1, ConstantsAssumption DEF UserEdit, IInv, TypeOK
<1>4. /\ svc \in [Key -> Service \cup {None}] /\ svcCache \in [Key -> Service \cup {None}]
      /\ svcWatch \in [Key -> Seq(Service \cup {None})]
  BY DEF IInv, TypeOK
<1>5. \A x \in Service \cup {None} : Old(x, edits) => Old(x, edits')
  BY <1>3, ConstantsAssumption DEF Old, Service
<1>6. SvcOK'
  <2>1. ASSUME NEW j \in Key, j # k
        PROVE  /\ svc'[j] = svc[j] /\ svcWatch'[j] = svcWatch[j] /\ svcCache'[j] = svcCache[j]
               /\ OldThings(j, edits)'
    <3>1. svc'[j] = svc[j] /\ svcWatch'[j] = svcWatch[j] /\ svcCache'[j] = svcCache[j]
      BY <1>1, <1>2, <1>4, <2>1 DEF WriteSvc, UserEdit
    <3>2. \A i \in 1..Len(svcWatch[j]) : svcWatch[j][i] \in Service \cup {None}
      BY <1>4
    <3> QED  BY <1>4, <1>5, <3>1, <3>2 DEF OldThings, XInv, SvcOK
  <2>2. /\ svc'[k] = o /\ svcCache'[k] = svcCache[k] /\ Old(o, edits')
        /\ svcWatch'[k] = IF "svc" \in synced THEN Append(svcWatch[k], o) ELSE svcWatch[k]
    BY <1>1, <1>2, <1>3, <1>4 DEF WriteSvc, UserEdit, Old
  <2>3. OldThings(k, edits)'
    <3>1. /\ Len(Append(svcWatch[k], o)) = Len(svcWatch[k]) + 1 /\ Len(svcWatch[k]) \in Nat
          /\ \A i \in 1..Len(svcWatch[k]) :
                Append(svcWatch[k], o)[i] = svcWatch[k][i] /\ svcWatch[k][i] \in Service \cup {None}
          /\ Append(svcWatch[k], o)[Len(svcWatch[k]) + 1] = o
      BY <1>4
    <3> QED  BY <1>4, <1>5, <2>2, <3>1 DEF OldThings, XInv, SvcOK
  <2>4. synced' = synced
    BY <1>1 DEF UserEdit
  <2>5. "svc" \in synced => Grows(svcCache[k], svcWatch[k], svc[k])'
    <3>1. "svc" \in synced => Grows(svcCache[k], Append(svcWatch[k], o), o)
      BY <1>2, <1>3, <1>4, GrowsAppend DEF XInv, SvcOK, OldThings
    <3> QED  BY <2>2, <3>1
  <2>6. "svc" \notin synced => (svcCache[k] = None /\ svcWatch[k] = <<>>)'
    BY <2>2 DEF XInv, SvcOK
  <2>7. \A j \in Key : j # k =>
           /\ "svc" \in synced => Grows(svcCache[j], svcWatch[j], svc[j])'
           /\ "svc" \notin synced => (svcCache[j] = None /\ svcWatch[j] = <<>>)'
    BY <2>1 DEF XInv, SvcOK
  <2> QED  BY <2>1, <2>3, <2>4, <2>5, <2>6, <2>7 DEF SvcOK
<1>7. IngOK'
  BY <1>1 DEF UserEdit, XInv, IngOK
<1>8. Ready'
  BY <1>1 DEF UserEdit, XInv, Ready
<1>9. MissingIsAsked'
  <2> SUFFICES ASSUME ~Spoiled', NEW j \in Key, Missing(j)' PROVE Asked(j)'
    BY DEF MissingIsAsked
  <2>1. CASE j = k
    <3>1. "svc" \in synced
      BY <1>1 DEF UserEdit, Missing
    <3>2. svcWatch'[k] = Append(svcWatch[k], o)
      BY <1>2, <1>4, <3>1 DEF WriteSvc
    <3>3. svcWatch[k] \in Seq(Service \cup {None})
      BY <1>4
    <3>4. svcWatch'[k] # <<>>
      BY <3>2, <3>3
    <3> QED  BY <2>1, <3>4 DEF Asked
  <2>2. CASE j # k
    <3>1. svc'[j] = svc[j] /\ svcWatch'[j] = svcWatch[j]
      BY <1>2, <1>4, <2>2 DEF WriteSvc
    <3>2. Missing(j) /\ ~Spoiled
      BY <1>1, <3>1 DEF Missing, Wanted, UserEdit, Spoiled
    <3>3. Asked(j)
      BY <3>2 DEF XInv, MissingIsAsked
    <3> QED  BY <1>1, <3>1, <3>3 DEF Asked, Noted, InHand, UserEdit
  <2> QED  BY <2>1, <2>2
<1> QED  BY <1>6, <1>7, <1>8, <1>9 DEF XInv

\* An Ingress comes where there was none, or goes; whoever does it, the
\* change of a known Ingress is on its way to the cache.
LEMMA IngressWritten ==
    ASSUME IInv, XInv, NEW k \in Key, NEW o \in Ingress \cup {None}, WriteIng(k, o),
           o = None <=> ing[k] # None,
           UNCHANGED <<svc, svcWatch, svcCache, ingCache, svcNotes, ingNotes, synced, wq>>,
           edits' \in Nat, edits <= edits', Spoiled' = Spoiled,
           \A w \in Worker :
               \/ worker'[w] = worker[w]
               \/ worker[w].pc # "idle" /\ worker[w].item = k
    PROVE  XInv'
<1>1. /\ ing \in [Key -> Ingress \cup {None}] /\ ingWatch \in [Key -> Seq(Ingress \cup {None})]
      /\ svc \in [Key -> Service \cup {None}] /\ svcCache \in [Key -> Service \cup {None}]
      /\ svcWatch \in [Key -> Seq(Service \cup {None})]
  BY DEF IInv, TypeOK
<1>0. edits \in Nat
  BY ConstantsAssumption DEF IInv, TypeOK
<1>2. /\ ing'[k] = o
      /\ ingWatch'[k] = IF "ing" \in synced THEN Append(ingWatch[k], o) ELSE ingWatch[k]
      /\ \A j \in Key \ {k} : ing'[j] = ing[j] /\ ingWatch'[j] = ingWatch[j]
  BY <1>1 DEF WriteIng
<1>3. SvcOK'
  <2>1. \A x \in Service \cup {None} : Old(x, edits) => Old(x, edits')
    BY <1>0, ConstantsAssumption DEF Old, Service
  <2>2. ASSUME NEW j \in Key PROVE OldThings(j, edits)'
    <3>1. \A i \in 1..Len(svcWatch[j]) : svcWatch[j][i] \in Service \cup {None}
      BY <1>1
    <3> QED  BY <1>1, <2>1, <3>1 DEF OldThings, XInv, SvcOK
  <2> QED  BY <2>2 DEF XInv, SvcOK
<1>4. IngOK'
  <2>1. "ing" \in synced => Alternates(ingCache[k], Append(ingWatch[k], o), o)
    BY <1>1, AlternatesAppend DEF XInv, IngOK
  <2>2. "ing" \in synced => Alternates(ingCache[k], ingWatch[k], ing[k])'
    BY <1>2, <2>1
  <2>3. "ing" \notin synced => ingWatch'[k] = <<>>
    BY <1>2 DEF XInv, IngOK
  <2>4. \A j \in Key \ {k} :
          /\ "ing" \in synced => Alternates(ingCache[j], ingWatch[j], ing[j])'
          /\ "ing" \notin synced => ingWatch'[j] = <<>>
    BY <1>2 DEF XInv, IngOK
  <2> QED  BY <2>2, <2>3, <2>4 DEF IngOK
<1>5. Ready'
  BY DEF XInv, Ready
<1>6. MissingIsAsked'
  <2> SUFFICES ASSUME ~Spoiled', NEW j \in Key, Missing(j)' PROVE Asked(j)'
    BY DEF MissingIsAsked
  <2>1. CASE j = k /\ "ing" \in synced
    <3>1. ing'[k] = None
      BY <2>1 DEF Missing
    <3>2. ingWatch'[k] = Append(ingWatch[k], o) /\ ingWatch[k] \in Seq(Ingress \cup {None})
      BY <1>1, <1>2, <2>1
    <3>3. ingWatch'[k] # <<>>
      BY <3>2
    <3> QED  BY <2>1, <3>3 DEF Asked
  <2>2. CASE j # k \/ "ing" \notin synced
    <3>1. ingWatch'[j] = ingWatch[j] /\ ("ing" \in synced => ing'[j] = ing[j])
      BY <1>2, <2>2
    <3>2. Missing(j)
      BY <3>1 DEF Missing, Wanted
    <3>3. Asked(j)
      BY <3>2 DEF XInv, MissingIsAsked
    <3>4. InHand(j) => InHand(j)'
      <4>1. CASE "ing" \in synced
        BY <2>2, <4>1 DEF InHand
      <4>2. CASE "ing" \notin synced
        <5>1. \A w \in Worker : worker[w].pc = "idle"
          BY <4>2 DEF XInv, Ready
        <5> QED  BY <5>1 DEF InHand
      <4> QED  BY <4>1, <4>2
    <3>5. Noted(j) => Noted(j)'
      BY DEF Noted
    <3> QED  BY <3>1, <3>3, <3>4, <3>5, AskedKept
  <2> QED  BY <2>1, <2>2
<1> QED  BY <1>3, <1>4, <1>5, <1>6 DEF XInv

\* Ingresses others create and delete, and those the garbage collector takes.
LEMMA IngressEditXInv ==
    ASSUME IInv, XInv, NEW k \in Key,
           CreateForeignIng(k) \/ DeleteIngByUser(k) \/ GarbageCollect(k)
    PROVE  XInv'
<1>0. edits \in Nat
  BY ConstantsAssumption DEF IInv, TypeOK
<1>1. CASE CreateForeignIng(k)
  <2>1. PICK c \in ForeignControllers : WriteIng(k, [controller |-> c, owner |-> 0])
    BY <1>1 DEF CreateForeignIng
  <2> DEFINE o == [controller |-> c, owner |-> 0]
  <2>2. o \in Ingress /\ o # None
    BY ConstantsAssumption DEF Ingress
  <2>3. WriteIng(k, o)
    BY <2>1
  <2> HIDE DEF o
  <2>4. /\ UNCHANGED <<svc, svcWatch, svcCache, ingCache, svcNotes, ingNotes, synced, wq, worker>>
        /\ edits' = edits + 1 /\ Spoiled' = Spoiled /\ ing[k] = None
    BY <1>1 DEF CreateForeignIng, UserEdit, Spoiled
  <2> QED  BY <1>0, <2>2, <2>3, <2>4, IngressWritten
<1>2. CASE DeleteIngByUser(k)
  <2>1. /\ UNCHANGED <<svc, svcWatch, svcCache, ingCache, svcNotes, ingNotes, synced, wq, worker>>
        /\ edits' = edits + 1 /\ Spoiled' = Spoiled /\ ing[k] # None /\ WriteIng(k, None)
    BY <1>2 DEF DeleteIngByUser, UserEdit, Spoiled
  <2> QED  BY <1>0, <2>1, IngressWritten
<1>3. CASE GarbageCollect(k)
  <2>1. /\ UNCHANGED <<svc, svcWatch, svcCache, ingCache, svcNotes, ingNotes, synced, wq, worker>>
        /\ edits' = edits /\ Spoiled' = Spoiled /\ ing[k] # None /\ WriteIng(k, None)
    BY <1>3 DEF GarbageCollect, Spoiled, counters
  <2> QED  BY <1>0, <2>1, IngressWritten
<1> QED  BY <1>1, <1>2, <1>3

\* A list of the Services notes every difference from the cache.
LEMMA ListSvcXInv ==
    ASSUME IInv, XInv, ListSvc
    PROVE  XInv'
<1>1. /\ svc \in [Key -> Service \cup {None}] /\ svcCache \in [Key -> Service \cup {None}]
      /\ svcWatch \in [Key -> Seq(Service \cup {None})] /\ svcNotes \in [Key -> Seq(SvcNote)]
      /\ relists \in [{"svc", "ing"} -> Nat]
  BY DEF IInv, TypeOK
<1>2. /\ synced' = synced \cup {"svc"} /\ svcCache' = svc
      /\ \A k \in Key : svcWatch'[k] = <<>>
      /\ UNCHANGED <<svc, ing, ingWatch, ingCache, ingNotes, wq, worker, edits, failures>>
      /\ relists'["ing"] = relists["ing"]
      /\ \A k \in Key : svc[k] # None =>
            svcNotes'[k] = Append(svcNotes[k], [old |-> svcCache[k], new |-> svc[k]])
  BY <1>1 DEF ListSvc, NoEvents, api
<1>3. SvcOK'
  BY <1>2 DEF XInv, SvcOK, OldThings, Grows, Leads
<1>4. IngOK'
  BY <1>2 DEF XInv, IngOK
<1>5. Ready'
  BY <1>2 DEF XInv, Ready
<1>6. MissingIsAsked'
  <2> SUFFICES ASSUME ~Spoiled', NEW k \in Key, Missing(k)' PROVE Asked(k)'
    BY DEF MissingIsAsked
  <2>1. svc[k] \in Service /\ svc[k] # None
    BY <1>1, <1>2 DEF Missing, Wanted
  <2> DEFINE n == [old |-> svcCache[k], new |-> svc[k]]
  <2>2. n \in SvcNote /\ svcNotes'[k] = Append(svcNotes[k], n)
    BY <1>1, <1>2, <2>1 DEF SvcNote
  <2>3. n.old = svcCache[k] /\ n.new = svc[k]
    OBVIOUS
  <2> HIDE DEF n
  <2>4. CASE svcCache[k] # svc[k]
    <3>1. Noted(k)'
      BY <2>2, <2>3, <2>4, NotedKept DEF IInv
    <3> QED  BY <3>1 DEF Asked
  <2>5. CASE svcCache[k] = svc[k]
    <3>1. "svc" \in synced
      BY <2>1, <2>5 DEF XInv, SvcOK
    <3>2. svcWatch[k] = <<>>
      BY <1>1, <2>1, <2>5, <3>1, GrowsDiffers DEF XInv, SvcOK
    <3>3. Missing(k) /\ ~Spoiled
      BY <1>2, <3>1 DEF Missing, Wanted, Spoiled
    <3>4. Asked(k)
      BY <3>3 DEF XInv, MissingIsAsked
    <3>5. Noted(k) => Noted(k)'
      BY <2>2, NotedKept DEF IInv
    <3>6. InHand(k) => InHand(k)'
      BY <1>2 DEF InHand
    <3> QED  BY <1>2, <3>2, <3>4, <3>5, <3>6, AskedKept
  <2> QED  BY <2>4, <2>5
<1> QED  BY <1>3, <1>4, <1>5, <1>6 DEF XInv

\* The first list of the Ingresses makes none missing that was not; a later
\* one may hide that an Ingress went.
LEMMA ListIngXInv ==
    ASSUME IInv, XInv, ListIng
    PROVE  XInv'
<1>1. /\ ingNotes \in [Key -> Seq(IngNote)] /\ ingCache \in [Key -> Ingress \cup {None}]
      /\ relists \in [{"svc", "ing"} -> Nat]
  BY DEF IInv, TypeOK
<1>2. /\ synced' = synced \cup {"ing"} /\ ingCache' = ing
      /\ \A k \in Key : ingWatch'[k] = <<>>
      /\ UNCHANGED <<svc, ing, svcWatch, svcCache, svcNotes, wq, worker, edits, failures>>
      /\ relists'["ing"] = IF "ing" \in synced THEN relists["ing"] + 1 ELSE relists["ing"]
      /\ \A k \in Key : ingNotes'[k] =
            IF ing[k] = None /\ ingCache[k] # None
            THEN Append(ingNotes[k], [obj |-> ingCache[k], tombstone |-> TRUE]) ELSE ingNotes[k]
  BY <1>1 DEF ListIng, NoEvents, api
<1>3. SvcOK'
  BY <1>2 DEF XInv, SvcOK, OldThings
<1>4. IngOK'
  BY <1>2 DEF IngOK, Alternates, Leads
<1>5. Ready'
  BY <1>2 DEF XInv, Ready
<1>6. MissingIsAsked'
  <2> SUFFICES ASSUME ~Spoiled', NEW k \in Key, Missing(k)' PROVE Asked(k)'
    BY DEF MissingIsAsked
  <2>1. "ing" \notin synced
    BY <1>1, <1>2 DEF Spoiled
  <2>2. Missing(k) /\ ~Spoiled
    BY <1>2, <2>1 DEF Missing, Wanted, Spoiled
  <2>3. Asked(k) /\ ingWatch[k] = <<>>
    BY <2>1, <2>2 DEF XInv, MissingIsAsked, IngOK
  <2>4. ingNotes[k] # <<>> => ingNotes'[k] # <<>>
    <3>1. ingCache[k] # None => [obj |-> ingCache[k], tombstone |-> TRUE] \in IngNote
      BY <1>1 DEF IngNote
    <3>2. ingNotes[k] \in Seq(IngNote)
      BY <1>1
    <3>3. ingCache[k] # None =>
            Append(ingNotes[k], [obj |-> ingCache[k], tombstone |-> TRUE]) # <<>>
      BY <3>1, <3>2
    <3> QED  BY <1>2, <3>3
  <2>5. (Noted(k) => Noted(k)') /\ (InHand(k) => InHand(k)')
    BY <1>2 DEF Noted, InHand
  <2> QED  BY <1>2, <2>3, <2>4, <2>5, AskedKept
<1> QED  BY <1>3, <1>4, <1>5, <1>6 DEF XInv

\* A watch event of a Service: what is not on its way any more is noted.
LEMMA WatchSvcXInv ==
    ASSUME IInv, XInv, NEW k \in Key, WatchSvc(k)
    PROVE  XInv'
<1> DEFINE o == Head(svcWatch[k])
           n == [old |-> svcCache[k], new |-> o]
<1>1. /\ svc \in [Key -> Service \cup {None}] /\ svcCache \in [Key -> Service \cup {None}]
      /\ svcWatch \in [Key -> Seq(Service \cup {None})] /\ svcNotes \in [Key -> Seq(SvcNote)]
      /\ svcWatch[k] # <<>>
  BY DEF IInv, TypeOK, WatchSvc
<1>2. /\ svcCache' = [svcCache EXCEPT ![k] = o]
      /\ svcWatch' = [svcWatch EXCEPT ![k] = Tail(@)]
      /\ svcNotes' = IF o = None THEN svcNotes
                     ELSE [svcNotes EXCEPT ![k] = Append(@, n)]
      /\ UNCHANGED <<svc, ing, ingWatch, ingCache, ingNotes, synced, wq, worker, counters>>
  BY DEF WatchSvc, api
<1>3. /\ svcCache'[k] = o /\ svcWatch'[k] = Tail(svcWatch[k])
      /\ o # None => svcNotes'[k] = Append(svcNotes[k], n)
      /\ \A j \in Key \ {k} : /\ svcCache'[j] = svcCache[j] /\ svcWatch'[j] = svcWatch[j]
                             /\ svcNotes'[j] = svcNotes[j]
  BY <1>1, <1>2
<1>4. o \in Service \cup {None} /\ n.old = svcCache[k] /\ n.new = o
  BY <1>1
<1>5. o # None => n \in SvcNote
  BY <1>1, <1>4 DEF SvcNote
<1>6. "svc" \in synced
  BY <1>1 DEF XInv, SvcOK
<1>7. /\ Grows(o, Tail(svcWatch[k]), svc[k])
      /\ Tail(svcWatch[k]) = <<>> /\ svc[k] # None =>
           o = svc[k] /\ (svcCache[k] # None => svcCache[k].rv < svc[k].rv)
  BY <1>1, <1>6, GrowsTail DEF XInv, SvcOK
<1>8. OldThings(k, edits)'
  <2>1. /\ o = svcWatch[k][1] /\ 1 \in 1..Len(svcWatch[k])
        /\ \A i \in 1..Len(Tail(svcWatch[k])) :
              Tail(svcWatch[k])[i] = svcWatch[k][i + 1] /\ i + 1 \in 1..Len(svcWatch[k])
    BY <1>1, TailFacts
  <2>2. OldThings(k, edits) /\ edits' = edits /\ svc' = svc
    BY <1>2 DEF XInv, SvcOK, counters
  <2> HIDE DEF o
  <2> QED  BY <1>3, <2>1, <2>2 DEF OldThings
<1> HIDE DEF o, n
<1>9. SvcOK'
  <2>1. Grows(svcCache[k], svcWatch[k], svc[k])'
    BY <1>2, <1>3, <1>7
  <2>2. \A j \in Key \ {k} : OldThings(j, edits)' /\ Grows(svcCache[j], svcWatch[j], svc[j])'
    BY <1>2, <1>3, <1>6 DEF XInv, SvcOK, OldThings, counters
  <2> QED  BY <1>2, <1>6, <1>8, <2>1, <2>2 DEF SvcOK
<1>10. IngOK' /\ Ready'
  BY <1>2 DEF XInv, IngOK, Ready
<1>11. MissingIsAsked'
  <2> SUFFICES ASSUME ~Spoiled', NEW j \in Key, Missing(j)' PROVE Asked(j)'
    BY DEF MissingIsAsked
  <2>1. CASE j = k /\ Tail(svcWatch[k]) # <<>>
    BY <1>3, <2>1 DEF Asked
  <2>2. CASE j = k /\ Tail(svcWatch[k]) = <<>>
    <3>1. svc[k] \in Service /\ svc[k] # None
      BY <1>1, <1>2, <2>2 DEF Missing, Wanted
    <3>2. o = svc[k] /\ (svcCache[k] # None => svcCache[k].rv < svc[k].rv)
      BY <1>7, <2>2, <3>1
    <3>3. svc[k].rv \in Int
      BY <3>1 DEF Service
    <3>4. svcCache[k] # svc[k]
      BY <3>1, <3>2, <3>3
    <3>5. n.old # n.new
      BY <1>4, <3>2, <3>4
    <3>6. Noted(k)'
      BY <1>3, <1>5, <3>1, <3>2, <3>5, NotedKept DEF IInv
    <3> QED  BY <2>2, <3>6 DEF Asked
  <2>3. CASE j # k
    <3>1. Missing(j) /\ ~Spoiled
      BY <1>2 DEF Missing, Wanted, Spoiled, counters
    <3>2. Asked(j)
      BY <3>1 DEF XInv, MissingIsAsked
    <3>3. (Noted(j) => Noted(j)') /\ (InHand(j) => InHand(j)')
      BY <1>2, <1>3, <2>3 DEF Noted, InHand
    <3> QED  BY <1>2, <1>3, <2>3, <3>2, <3>3, AskedKept
  <2> QED  BY <2>1, <2>2, <2>3
<1> QED  BY <1>9, <1>10, <1>11 DEF XInv

\* A watch event of an Ingress: a deletion always calls the handler.
LEMMA WatchIngXInv ==
    ASSUME IInv, XInv, NEW k \in Key, WatchIng(k)
    PROVE  XInv'
<1> DEFINE o == Head(ingWatch[k])
           n == [obj |-> ingCache[k], tombstone |-> FALSE]
<1>1. /\ ingCache \in [Key -> Ingress \cup {None}]
      /\ ingWatch \in [Key -> Seq(Ingress \cup {None})] /\ ingNotes \in [Key -> Seq(IngNote)]
      /\ ingWatch[k] # <<>>
  BY DEF IInv, TypeOK, WatchIng
<1>2. /\ ingCache' = [ingCache EXCEPT ![k] = o]
      /\ ingWatch' = [ingWatch EXCEPT ![k] = Tail(@)]
      /\ ingNotes' = IF o # None \/ ingCache[k] = None THEN ingNotes
                     ELSE [ingNotes EXCEPT ![k] = Append(@, n)]
      /\ UNCHANGED <<svc, ing, svcWatch, svcCache, svcNotes, synced, wq, worker, counters>>
  BY DEF WatchIng, api
<1>3. /\ ingCache'[k] = o /\ ingWatch'[k] = Tail(ingWatch[k])
      /\ o = None /\ ingCache[k] # None => ingNotes'[k] = Append(ingNotes[k], n)
      /\ \A j \in Key \ {k} : /\ ingCache'[j] = ingCache[j] /\ ingWatch'[j] = ingWatch[j]
                             /\ ingNotes'[j] = ingNotes[j]
  BY <1>1, <1>2
<1>4. ingCache[k] # None => n \in IngNote
  BY <1>1 DEF IngNote
<1>5. "ing" \in synced
  BY <1>1 DEF XInv, IngOK
<1>6. /\ Alternates(o, Tail(ingWatch[k]), ing[k])
      /\ o = None => ingCache[k] # None
      /\ Tail(ingWatch[k]) = <<>> => o = ing[k]
  BY <1>1, <1>5, AlternatesTail DEF XInv, IngOK
<1> HIDE DEF o, n
<1>7. IngOK'
  <2>1. Alternates(ingCache[k], ingWatch[k], ing[k])'
    BY <1>2, <1>3, <1>6
  <2>2. \A j \in Key \ {k} : Alternates(ingCache[j], ingWatch[j], ing[j])'
    BY <1>2, <1>3, <1>5 DEF XInv, IngOK
  <2> QED  BY <1>2, <1>5, <2>1, <2>2 DEF IngOK
<1>8. SvcOK' /\ Ready'
  BY <1>2 DEF XInv, SvcOK, OldThings, Ready, counters
<1>9. MissingIsAsked'
  <2> SUFFICES ASSUME ~Spoiled', NEW j \in Key, Missing(j)' PROVE Asked(j)'
    BY DEF MissingIsAsked
  <2>1. CASE j = k /\ Tail(ingWatch[k]) # <<>>
    BY <1>3, <2>1 DEF Asked
  <2>2. CASE j = k /\ Tail(ingWatch[k]) = <<>>
    <3>1. ing[k] = None
      BY <1>2, <1>5, <2>2 DEF Missing
    <3>2. ingNotes'[k] = Append(ingNotes[k], n) /\ n \in IngNote
      BY <1>3, <1>4, <1>6, <2>2, <3>1
    <3>3. ingNotes[k] \in Seq(IngNote)
      BY <1>1
    <3>4. ingNotes'[k] # <<>>
      BY <3>2, <3>3
    <3> QED  BY <2>2, <3>4 DEF Asked
  <2>3. CASE j # k
    <3>1. Missing(j) /\ ~Spoiled
      BY <1>2 DEF Missing, Wanted, Spoiled, counters
    <3>2. Asked(j)
      BY <3>1 DEF XInv, MissingIsAsked
    <3>3. (Noted(j) => Noted(j)') /\ (InHand(j) => InHand(j)')
      BY <1>2 DEF Noted, InHand
    <3> QED  BY <1>2, <1>3, <2>3, <3>2, <3>3, AskedKept
  <2> QED  BY <2>1, <2>2, <2>3
<1> QED  BY <1>7, <1>8, <1>9 DEF XInv

\* HandlerError keeps what is pending, whichever way it decides.
LEMMA HandlerErrorPending ==
    ASSUME NEW q \in Queue, ~q.shut, NEW k \in Key, WellFormed(q)
    PROVE  /\ HandlerError(q, k) \in Queue /\ ~HandlerError(q, k).shut
           /\ Pending(q) \subseteq Pending(HandlerError(q, k))
<1>1. /\ AddRateLimited(q, k) \in Queue /\ ~AddRateLimited(q, k).shut
      /\ Pending(q) \subseteq Pending(AddRateLimited(q, k))
  BY AddRateLimitedWellFormed, AddRateLimitedPending DEF WellFormed
<1>2. /\ Forget(q, k) \in Queue /\ ~Forget(q, k).shut
      /\ Pending(q) \subseteq Pending(Forget(q, k))
  BY ForgetWellFormed, ForgetPending DEF WellFormed
<1> QED  BY <1>1, <1>2 DEF HandlerError

\* A handler that was called leaves its key pending if the call mattered,
\* or it panics; a back-off that elapsed leaves it dirty.
LEMMA HandlerXInv ==
    ASSUME IInv, XInv, NEW k \in Key, SvcHandler(k) \/ IngressDel(k) \/ BackoffElapsed(k)
    PROVE  XInv'
<1>1. /\ wq \in Queue /\ WellFormed(wq) /\ ~wq.shut
      /\ svcNotes \in [Key -> Seq(SvcNote)] /\ ingNotes \in [Key -> Seq(IngNote)]
  BY DEF IInv, TypeOK, MutualExclusion, WellFormed, XInv, Ready
<1>2. ASSUME Pending(wq) \subseteq Pending(wq'), ~wq'.shut,
             UNCHANGED <<api, svcWatch, ingWatch, svcCache, ingCache, synced, worker, counters>>,
             \A j \in Key : \/ k = j /\ k \in Pending(wq')
                            \/ ingNotes'[j] = ingNotes[j] /\ (Noted(j) => Noted(j)')
      PROVE  XInv'
  <2>1. SvcOK' /\ IngOK' /\ Ready'
    BY <1>2, QueueAndWorkersOnly DEF counters
  <2>2. ASSUME ~Spoiled', NEW j \in Key, Missing(j)' PROVE Asked(j)'
    <3>1. Missing(j) /\ ~Spoiled
      BY <1>2, <2>2 DEF Missing, Wanted, Spoiled, api, counters
    <3>2. Asked(j)
      BY <3>1 DEF XInv, MissingIsAsked
    <3>3. CASE j \in Pending(wq')
      BY <3>3 DEF Asked
    <3>4. CASE j \notin Pending(wq')
      <4>1. InHand(j) => InHand(j)'
        BY <1>2 DEF InHand, api
      <4> QED  BY <1>2, <3>2, <3>4, <4>1, AskedKept
    <3> QED  BY <3>3, <3>4
  <2> QED  BY <2>1, <2>2 DEF XInv, MissingIsAsked
<1>3. CASE SvcHandler(k)
  <2> DEFINE n == Head(svcNotes[k])
  <2>1. /\ svcNotes[k] # <<>> /\ svcNotes' = [svcNotes EXCEPT ![k] = Tail(@)]
        /\ wq' = IF n.old = n.new THEN wq ELSE Add(wq, k)
        /\ UNCHANGED <<api, svcWatch, ingWatch, svcCache, ingCache, ingNotes, synced,
                       worker, counters>>
    BY <1>3 DEF SvcHandler
  <2>2. n = svcNotes[k][1] /\ svcNotes'[k] = Tail(svcNotes[k])
    BY <1>1, <2>1
  <2> HIDE DEF n
  <2>3. /\ Pending(wq) \subseteq Pending(wq') /\ ~wq'.shut
        /\ n.old # n.new => k \in Pending(wq')
    BY <1>1, <2>1, AddPending
  <2>4. n.old = n.new /\ Noted(k) => Noted(k)'
    <3> SUFFICES ASSUME n.old = n.new, Noted(k) PROVE Noted(k)'
      OBVIOUS
    <3>1. PICK i \in 1..Len(svcNotes[k]) : svcNotes[k][i].old # svcNotes[k][i].new
      BY DEF Noted
    <3>2. i # 1
      BY <2>2, <3>1
    <3>3. i - 1 \in 1..Len(Tail(svcNotes[k])) /\ Tail(svcNotes[k])[i - 1] = svcNotes[k][i]
      <4>1. svcNotes[k] \in Seq(SvcNote)
        BY <1>1
      <4>2. Len(Tail(svcNotes[k])) = Len(svcNotes[k]) - 1 /\ Len(svcNotes[k]) \in Nat
        BY <2>1, <4>1, TailFacts
      <4>3. i - 1 \in 1..Len(Tail(svcNotes[k]))
        BY <3>1, <3>2, <4>2
      <4>4. Tail(svcNotes[k])[i - 1] = svcNotes[k][(i - 1) + 1]
        BY <2>1, <4>1, <4>3, TailFacts
      <4> QED  BY <4>3, <4>4
    <3> QED  BY <2>2, <3>1, <3>3 DEF Noted
  <2>5. ASSUME NEW j \in Key, j # k PROVE Noted(j) => Noted(j)'
    <3>1. svcNotes'[j] = svcNotes[j]
      BY <1>1, <2>1, <2>5
    <3> QED  BY <3>1 DEF Noted
  <2> QED  BY <1>2, <2>1, <2>3, <2>4, <2>5
<1>4. CASE IngressDel(k)
  <2>1. CASE Panic
    BY <2>1, GoDownXInv DEF Panic, counters
  <2>2. CASE ~Panic
    <3> DEFINE q == IF Head(ingNotes[k]).obj.controller # "Service"
                    THEN HandlerError(wq, k) ELSE wq
    <3>1. /\ wq' = Add(q, k)
          /\ ingNotes' = [ingNotes EXCEPT ![k] = Tail(@)]
          /\ UNCHANGED <<api, svcWatch, ingWatch, svcCache, ingCache, svcNotes,
                         synced, worker, counters>>
      BY <1>4, <2>2 DEF IngressDel
    <3>2. q \in Queue /\ ~q.shut /\ Pending(wq) \subseteq Pending(q)
      BY <1>1, HandlerErrorPending
    <3> HIDE DEF q
    <3>3. Pending(wq') = Pending(q) \cup {k} /\ ~wq'.shut
      BY <3>1, <3>2, AddPending
    <3>4. \A j \in Key : ingNotes'[j] = ingNotes[j] \/ j = k
      BY <1>1, <3>1
    <3>5. \A j \in Key : Noted(j) => Noted(j)'
      BY <3>1 DEF Noted
    <3> QED  BY <1>2, <3>1, <3>2, <3>3, <3>4, <3>5
  <2> QED  BY <2>1, <2>2
<1>5. CASE BackoffElapsed(k)
  <2>1. wq' = Elapse(wq, k) /\ UNCHANGED <<api, informers, worker, counters>>
    BY <1>5 DEF BackoffElapsed
  <2>2. Pending(wq') = Pending(wq) \cup {k} /\ ~wq'.shut
    BY <1>1, <2>1, ElapsePending
  <2>3. \A j \in Key : ingNotes'[j] = ingNotes[j] /\ (Noted(j) => Noted(j)')
    BY <2>1 DEF informers, Noted
  <2> QED  BY <1>2, <2>1, <2>2, <2>3 DEF informers
<1> QED  BY <1>3, <1>4, <1>5

\* A worker busy with a key the API server has an Ingress or a pending event
\* for may go on; all others keep what they hold.
LEMMA WorkerOnlyXInv ==
    ASSUME IInv, XInv, NEW w \in Worker, UNCHANGED <<api, informers>>,
           ~wq'.shut, edits' = edits, Spoiled' = Spoiled,
           \A v \in Worker \ {w} : worker'[v] = worker[v],
           worker'[w].pc # "idle" => worker[w].pc # "idle" \/ synced = {"svc", "ing"},
           \A j \in Key : worker[w].item = j /\ Missing(j) /\ Asked(j) => Asked(j)',
           \A j \in Key : j \in Pending(wq) => j \in Pending(wq') \/ j = worker'[w].item,
           worker'[w].pc \in {"svc", "create"} \/ Pending(wq) \subseteq Pending(wq')
    PROVE  XInv'
<1>1. SvcOK' /\ IngOK' /\ Ready'
  BY QueueAndWorkersOnly DEF informers
<1>2. ASSUME ~Spoiled', NEW j \in Key, Missing(j)' PROVE Asked(j)'
  <2>1. Missing(j) /\ ~Spoiled
    BY <1>2 DEF Missing, Wanted, api, informers
  <2>2. Asked(j)
    BY <2>1 DEF XInv, MissingIsAsked
  <2>3. CASE worker[w].item = j
    BY <2>1, <2>2, <2>3
  <2>4. CASE worker[w].item # j
    <3>1. (InHand(j) => InHand(j)') /\ (Noted(j) => Noted(j)')
      BY <2>4, InHandKept DEF Noted, api, informers
    <3>2. j \in Pending(wq) => j \in Pending(wq') \/ InHand(j)'
      BY DEF InHand
    <3>3. CASE InHand(j)'
      BY <3>3 DEF Asked
    <3>4. CASE ~InHand(j)'
      BY <2>2, <3>1, <3>2, <3>4, AskedKept DEF informers
    <3> QED  BY <3>3, <3>4
  <2> QED  BY <2>3, <2>4
<1> QED  BY <1>1, <1>2 DEF XInv, MissingIsAsked

\* A worker that lost no token for its key.
LEMMA NoTokenLost ==
    ASSUME NEW k \in Key, NEW w \in Worker, UNCHANGED <<api, informers>>,
           Pending(wq') = Pending(wq), \A v \in Worker \ {w} : worker'[v] = worker[v], Asked(k),
           \/ worker[w].pc \notin {"svc", "create", "ing"}
           \/ worker[w].pc = "ing" /\ worker[w].svc # svc[k]
    PROVE  Asked(k)'
<1>1. InHand(k) => InHand(k)'
  BY InHandKept DEF api
<1>2. Noted(k) => Noted(k)'
  BY DEF Noted, informers
<1> QED  BY <1>1, <1>2, AskedKept DEF informers

\* Get, the two reads, the two writes and Finish hand the key on until it is
\* found to have its Ingress or another event is on its way.
LEMMA WorkerXInv ==
    ASSUME IInv, XInv, NEW w \in Worker, QueueConsumer(w) \/ CallFails(w)
    PROVE  XInv'
<1>0. PICK k : k = worker[w].item
  OBVIOUS
<1>1. /\ wq \in Queue /\ WellFormed(wq) /\ ~wq.shut /\ edits \in Nat
      /\ worker \in [Worker -> Seen] /\ worker[w] \in Seen
      /\ svc \in [Key -> Service \cup {None}] /\ ing \in [Key -> Ingress \cup {None}]
      /\ svcCache \in [Key -> Service \cup {None}] /\ ingCache \in [Key -> Ingress \cup {None}]
  BY ConstantsAssumption DEF IInv, TypeOK, MutualExclusion, WellFormed, XInv, Ready
<1>2. worker[w].pc # "idle" => k \in Key /\ synced = {"svc", "ing"}
  BY <1>0, WorkerHolds DEF XInv, Ready
<1>3. ASSUME NEW to, NEW from, Step(w, from, to)
      PROVE  /\ worker[w].pc = from /\ worker'[w].pc = to /\ worker'[w].item = k
             /\ worker'[w].svc = worker[w].svc
             /\ \A v \in Worker \ {w} : worker'[v] = worker[v]
  <2>1. worker' = [worker EXCEPT ![w] = [worker[w] EXCEPT !.pc = to]] /\ worker[w].pc = from
    BY <1>3 DEF Step
  <2> QED  BY <1>0, <1>1, <2>1 DEF Seen
<1>4. CASE Get(w)
  <2>0. PICK h : h = Head(wq.queue)
    OBVIOUS
  <2> DEFINE seen == [pc |-> "svc", item |-> h, svc |-> None]
  <2>1. /\ worker' = [worker EXCEPT ![w] = seen] /\ wq' = Take(wq) /\ worker[w].pc = "idle"
        /\ synced = {"svc", "ing"} /\ UNCHANGED <<api, informers, counters>>
    BY <2>0, <1>4 DEF Get
  <2>2. h \in Key /\ h # None
    BY <1>1, <1>4, <2>0, TakeWellFormed, ConstantsAssumption DEF Get
  <2>3. seen.pc = "svc" /\ seen.item = h
    OBVIOUS
  <2> HIDE DEF seen
  <2>4. worker'[w] = seen /\ (\A v \in Worker \ {w} : worker'[v] = worker[v]) /\ k = None
    BY <1>0, <1>1, <2>1 DEF IInv, WorkersOK
  <2>5. ~wq'.shut /\ \A j \in Pending(wq) : j # h => j \in Pending(wq')
    BY <1>1, <2>0, <2>1, TakePending
  <2>6. \A j \in Key : j # k
    BY <2>4, ConstantsAssumption
  <2> QED  BY <1>0, <2>1, <2>3, <2>4, <2>5, <2>6, WorkerOnlyXInv DEF Spoiled, counters
<1>5. CASE ReadSvc(w)
  <2>1. /\ worker' = [worker EXCEPT ![w] = [worker[w] EXCEPT !.pc = "ing", !.svc = svcCache[k]]]
        /\ worker[w].pc = "svc" /\ UNCHANGED <<api, informers, wq, counters>>
    BY <1>0, <1>5 DEF ReadSvc
  <2>2. /\ worker'[w].pc = "ing" /\ worker'[w].item = k /\ worker'[w].svc = svcCache[k]
        /\ \A v \in Worker \ {w} : worker'[v] = worker[v]
    BY <1>0, <1>1, <2>1 DEF Seen
  <2>3. k \in Key /\ synced = {"svc", "ing"}
    BY <1>0, <1>2, <2>1
  <2>4. Asked(k)'
    <3>1. CASE svcWatch[k] # <<>>
      BY <1>0, <2>1, <3>1 DEF Asked, informers
    <3>2. CASE svcWatch[k] = <<>>
      <4>1. svcCache[k] = svc[k]
        BY <1>0, <2>3, <3>2 DEF XInv, SvcOK, Grows, Leads
      <4>2. worker'[w].svc = svc'[k]
        BY <1>0, <2>1, <2>2, <4>1 DEF api
      <4>3. InHand(k)'
        BY <1>0, <2>2, <4>2 DEF InHand
      <4> QED  BY <4>3 DEF Asked
    <3> QED  BY <3>1, <3>2
  <2> QED  BY <1>0, <1>1, <2>1, <2>2, <2>4, WorkerOnlyXInv DEF Spoiled, counters
<1>6. CASE ReadIng(w)
  <2> DEFINE to == Decision(worker[w].svc, ingCache[k])
  <2>1. Step(w, "ing", to) /\ UNCHANGED <<api, informers, wq, counters>>
    BY <1>0, <1>6 DEF ReadIng
  <2>2. /\ worker[w].pc = "ing" /\ worker'[w].pc = to /\ worker'[w].item = k
        /\ \A v \in Worker \ {w} : worker'[v] = worker[v]
    BY <1>0, <1>3, <2>1
  <2>3. k \in Key /\ synced = {"svc", "ing"}
    BY <1>0, <1>2, <2>2
  <2>4. ASSUME Missing(k), Asked(k) PROVE Asked(k)'
    <3>1. ing[k] = None /\ Wanted(k)
      BY <1>0, <2>3, <2>4 DEF Missing
    <3>2. CASE ingWatch[k] # <<>>
      BY <1>0, <2>1, <3>2 DEF Asked, informers
    <3>3. CASE worker[w].svc # svc[k]
      BY <1>0, <2>1, <2>2, <2>3, <2>4, <3>3, NoTokenLost
    <3>4. CASE ingWatch[k] = <<>> /\ worker[w].svc = svc[k]
      <4>1. ingCache[k] = None
        BY <1>0, <2>3, <3>1, <3>4 DEF XInv, IngOK, Alternates, Leads
      <4>2. to = "create"
        BY <3>1, <3>4, <4>1 DEF Decision, Wanted
      <4>3. InHand(k)'
        BY <1>0, <2>2, <4>2 DEF InHand
      <4> QED  BY <4>3 DEF Asked
    <3> QED  BY <3>2, <3>3, <3>4
  <2> HIDE DEF to
  <2> QED  BY <1>0, <1>1, <2>1, <2>2, <2>4, WorkerOnlyXInv DEF Spoiled, counters
<1>7. CASE CreateIng(w)
  <2>1. CASE Panic
    BY <1>0, <2>1, GoDownXInv DEF Panic, counters
  <2>2. CASE ~Panic
    <3> DEFINE o == NewIngress(worker[w].svc)
    <3>1. Step(w, "create", "done") /\ UNCHANGED counters
      BY <1>0, <1>7, <2>2 DEF CreateIng
    <3>2. /\ worker[w].pc = "create" /\ worker'[w].pc = "done" /\ worker'[w].item = k
          /\ \A v \in Worker \ {w} : worker'[v] = worker[v]
      BY <1>0, <1>3, <3>1
    <3>3. k \in Key /\ synced = {"svc", "ing"}
      BY <1>0, <1>2, <3>2
    <3>4. CASE ing[k] = None
      <4>1. /\ WriteIng(k, o)
            /\ UNCHANGED <<svc, svcWatch, svcCache, ingCache, svcNotes, ingNotes, synced, wq>>
        BY <1>0, <1>7, <2>2, <3>4 DEF CreateIng
      <4>2. o \in Ingress /\ o # None
        <5>1. worker[w].svc \in Service
          BY <1>0, <1>1, <3>2 DEF IInv, WorkersOK, Seen
        <5> QED  BY <5>1, ConstantsAssumption DEF NewIngress, Ingress, Service
      <4>3. Spoiled' = Spoiled /\ edits' = edits
        BY <3>1 DEF Spoiled, counters
      <4> HIDE DEF o
      <4> QED  BY <1>0, <1>1, <3>2, <3>3, <3>4, <4>1, <4>2, <4>3, IngressWritten
    <3>5. CASE ing[k] # None
      <4>1. UNCHANGED <<api, informers, wq>>
        BY <1>0, <1>7, <2>2, <3>5 DEF CreateIng
      <4>2. ~Missing(k)
        BY <3>3, <3>5 DEF Missing
      <4> QED  BY <1>0, <1>1, <3>1, <3>2, <4>1, <4>2, WorkerOnlyXInv DEF Spoiled, counters
    <3> QED  BY <3>4, <3>5
  <2> QED  BY <1>0, <2>1, <2>2
<1>8. CASE DeleteIng(w)
  <2>1. Step(w, "delete", "done") /\ UNCHANGED counters
    BY <1>0, <1>8 DEF DeleteIng
  <2>2. /\ worker[w].pc = "delete" /\ worker'[w].pc = "done" /\ worker'[w].item = k
        /\ \A v \in Worker \ {w} : worker'[v] = worker[v]
    BY <1>0, <1>3, <2>1
  <2>3. k \in Key /\ Spoiled' = Spoiled /\ edits' = edits
    BY <1>0, <1>2, <2>1, <2>2 DEF Spoiled, counters
  <2>4. CASE ing[k] # None
    <3>1. /\ WriteIng(k, None)
          /\ UNCHANGED <<svc, svcWatch, svcCache, ingCache, svcNotes, ingNotes, synced, wq>>
      BY <1>0, <1>8, <2>4 DEF DeleteIng
    <3> QED  BY <1>0, <1>1, <2>2, <2>3, <2>4, <3>1, IngressWritten
  <2>5. CASE ing[k] = None
    <3>1. UNCHANGED <<api, informers, wq>>
      BY <1>0, <1>8, <2>5 DEF DeleteIng
    <3>2. Asked(k) => Asked(k)'
      BY <1>0, <2>2, <2>3, <3>1, NoTokenLost
    <3> QED  BY <1>0, <1>1, <2>2, <2>3, <3>1, <3>2, WorkerOnlyXInv
  <2> QED  BY <1>0, <2>4, <2>5
<1>9. CASE CallFails(w)
  <2>1. /\ Step(w, "create", "done") \/ Step(w, "delete", "done")
        /\ failures' = failures + 1 /\ UNCHANGED <<api, informers, wq, edits>>
    BY <1>0, <1>9 DEF CallFails
  <2>2. /\ worker[w].pc # "idle"
        /\ \A v \in Worker \ {w} : worker'[v] = worker[v]
    BY <1>0, <1>3, <2>1
  <2>3. SvcOK' /\ IngOK' /\ Ready'
    BY <1>0, <1>1, <2>1, <2>2, QueueAndWorkersOnly DEF informers
  <2>4. Spoiled'
    BY <1>0, <2>1, ConstantsAssumption DEF Spoiled, IInv, TypeOK
  <2> QED  BY <1>0, <2>3, <2>4 DEF XInv, MissingIsAsked
<1>10. CASE Finish(w)
  <2>1. /\ worker[w].pc = "done" /\ worker' = [worker EXCEPT ![w] = Idle]
        /\ wq' = Done(wq, k) /\ UNCHANGED <<api, informers, counters>>
    BY <1>0, <1>10 DEF Finish
  <2>2. Idle.pc = "idle"
    BY DEF Idle
  <2>3. worker'[w].pc = "idle" /\ \A v \in Worker \ {w} : worker'[v] = worker[v]
    BY <1>0, <1>1, <2>1, <2>2
  <2>4. Pending(wq') = Pending(wq) /\ ~wq'.shut
    BY <1>0, <1>1, <2>1, DonePending
  <2>5. k \in Key /\ (Asked(k) => Asked(k)')
    BY <1>0, <1>2, <2>1, <2>3, <2>4, NoTokenLost
  <2> QED  BY <1>0, <2>1, <2>3, <2>4, <2>5, WorkerOnlyXInv DEF Spoiled, counters
<1> QED  BY <1>0, <1>4, <1>5, <1>6, <1>7, <1>8, <1>9, <1>10 DEF QueueConsumer

\* XInv is inductive, given IInv.
LEMMA NextXInv == IInv /\ XInv /\ [Next]_vars => XInv'
<1> SUFFICES ASSUME IInv, XInv, [Next]_vars PROVE XInv'
  OBVIOUS
<1>1. CASE \E k \in Key : User(k) \/ GarbageCollect(k) \/ Informer(k) \/ BackoffElapsed(k)
  BY <1>1, ServiceEditXInv, IngressEditXInv, WatchSvcXInv, WatchIngXInv, HandlerXInv
     DEF User, SvcEdit, Informer
<1>2. CASE \E w \in Worker : QueueConsumer(w) \/ CallFails(w)
  BY <1>2, WorkerXInv
<1>3. CASE ListSvc \/ ListIng
  BY <1>3, ListSvcXInv, ListIngXInv
<1>4. CASE Crash
  BY <1>4, GoDownXInv DEF Crash
<1>5. CASE Restart \/ UNCHANGED vars
  <2>1. UNCHANGED <<api, informers, wq, worker, counters>>
    BY <1>5 DEF Restart, vars
  <2>2. SvcOK' /\ IngOK' /\ Ready'
    BY <2>1, QueueAndWorkersOnly DEF informers, counters, XInv, Ready
  <2>3. MissingIsAsked'
    BY <2>1 DEF XInv, MissingIsAsked, Missing, Wanted, Asked, Noted, InHand, Spoiled,
                api, informers, counters
  <2> QED  BY <2>2, <2>3 DEF XInv
<1> QED  BY <1>1, <1>2, <1>3, <1>4, <1>5 DEF Next

\* Whatever the number of Services, workers, edits, crashes and broken
\* Service watches: a Service that asks for an Ingress (annotation "true" and
\* a port) has one as soon as the process owes its key nothing more, unless a
\* write failed or the Ingress watch broke (controller.go:152-198, 226-292).
THEOREM ServicesAreExposed == Spec => []QuiescentIsExposed
<1>1. IInv /\ XInv => QuiescentIsExposed
  <2> SUFFICES ASSUME IInv, XInv, ~Spoiled, NEW k \in Key, Quiescent(k), Wanted(k), ing[k] = None
               PROVE  FALSE
    BY DEF QuiescentIsExposed
  <2>1. Missing(k)
    BY DEF Missing, Quiescent
  <2>2. Asked(k)
    BY <2>1 DEF XInv, MissingIsAsked
  <2> QED  BY <2>2 DEF Asked, Quiescent, Noted, InHand, Held, Pending
<1>2. Init => IInv /\ XInv
  BY InitIInv, InitXInv
<1>3. IInv /\ XInv /\ [Next]_vars => IInv' /\ XInv'
  BY NextIInv, NextXInv
<1> QED  BY <1>1, <1>2, <1>3, PTL DEF Spec
-----------------------------------------------------------------------------
(***************************************************************************)
(* The work queue's promise.  A process that is not there yet has an empty *)
(* queue and idle workers, so that it starts with nothing due.             *)
(***************************************************************************)
QueueOK ==
    /\ ~wq.shut
    /\ ~up => wq = NewQueue /\ worker = [w \in Worker |-> Idle]

\* What went down has lost everything.
LEMMA WorkIsLost ==
    wq' = NewQueue /\ worker' = [w \in Worker |-> Idle]
    => /\ Pending(wq') = {} /\ ~wq'.shut
       /\ [w \in Worker |-> Hand(worker'[w])] = Work!AllFree
  BY DEF Pending, NewQueue, Hand, Idle, Work!AllFree, Work!Free

\* A step that leaves queue and workers alone is nothing to the promise.
LEMMA WorkUntouched ==
    ASSUME QueueOK, UNCHANGED <<wq, worker, up>>
    PROVE  QueueOK' /\ UNCHANGED Work!vars
  BY DEF QueueOK, Work!vars

\* The process ends with a panic or is killed.
LEMMA WorkGoesDown ==
    ASSUME up, GoDown
    PROVE  QueueOK' /\ Work!Next
<1>1. up' = FALSE /\ wq' = NewQueue /\ worker' = [w \in Worker |-> Idle]
  BY DEF GoDown
<1>2. Work!Close
  BY <1>1, WorkIsLost DEF Work!Close
<1> QED  BY <1>1, <1>2, WorkIsLost DEF QueueOK, Work!Next

\* A handler's request makes a key due, also when it counts the deletion of
\* an Ingress as a failure first.
LEMMA WorkAsked ==
    ASSUME IInv, QueueOK, NEW k \in Key, UNCHANGED <<worker, up>>, up,
           \/ wq' = Add(wq, k) \/ wq' = Add(HandlerError(wq, k), k)
           \/ wq' = Elapse(wq, k)
    PROVE  QueueOK' /\ Work!Next
<1>1. wq \in Queue /\ ~wq.shut /\ WellFormed(wq)
  BY DEF IInv, TypeOK, MutualExclusion, WellFormed, QueueOK
<1>2. Pending(wq') = Pending(wq) \cup {k} /\ ~wq'.shut
  <2>1. CASE wq' = Add(HandlerError(wq, k), k)
    <3> DEFINE q == HandlerError(wq, k)
    <3>1. q \in Queue /\ ~q.shut /\ Pending(wq) \subseteq Pending(q)
      BY <1>1, HandlerErrorPending
    <3>2. Pending(q) \subseteq Pending(wq) \cup {k}
      BY <1>1, AddRateLimitedPending, ForgetPending DEF HandlerError
    <3> HIDE DEF q
    <3>3. Pending(Add(q, k)) = Pending(q) \cup {k} /\ ~Add(q, k).shut
      BY <3>1, AddPending
    <3>4. wq' = Add(q, k)
      BY <2>1 DEF q
    <3> QED  BY <3>1, <3>2, <3>3, <3>4
  <2>2. CASE wq' = Add(wq, k) \/ wq' = Elapse(wq, k)
    BY <1>1, <2>2, AddPending, ElapsePending
  <2> QED  BY <2>1, <2>2
<1>3. Work!Ask
  BY <1>2 DEF Work!Ask
<1> QED  BY <1>2, <1>3 DEF QueueOK, Work!Next

\* Get is the only step that takes a key from the queue.
LEMMA WorkTakes ==
    ASSUME IInv, QueueOK, NEW w \in Worker, Get(w)
    PROVE  QueueOK' /\ Work!Next
<1> DEFINE h == Head(wq.queue)
           hand == [v \in Worker |-> Hand(worker[v])]
           hands == [v \in Worker |-> Hand(worker'[v])]
<1>1. /\ WellFormed(wq) /\ HasItem(wq) /\ worker \in [Worker -> Seen] /\ wq \in Queue
      /\ worker[w].pc = "idle" /\ wq' = Take(wq) /\ up /\ up' = up
  BY DEF Get, IInv, TypeOK, MutualExclusion, WellFormed
<1>2. /\ h \in Key \ wq.processing /\ h \in Pending(wq) /\ ~wq'.shut
      /\ Pending(wq') \in {Pending(wq), Pending(wq) \ {h}}
  BY <1>1, TakeWellFormed, TakesPending, TakePending DEF QueueOK
<1>3. /\ worker'[w].item = h /\ worker'[w].pc = "svc"
      /\ \A v \in Worker \ {w} : worker'[v] = worker[v]
  BY <1>1 DEF Get
<1>4. hand[w] = Work!Free
  BY <1>1 DEF IInv, WorkersOK, Hand, Work!Free
<1>5. \A v \in Worker : hand[v].key # h
  BY <1>2, ConstantsAssumption DEF IInv, MutualExclusion, Hand
<1>6. hands = [hand EXCEPT ![w].key = h]
  BY <1>3, <1>4 DEF Hand, Work!Free
<1> HIDE DEF h, hand, hands
<1>7. Work!Take(w)
  BY <1>1, <1>2, <1>4, <1>5, <1>6 DEF Work!Take, hand, hands
<1> QED  BY <1>1, <1>2, <1>7 DEF QueueOK, Work!Next

\* A worker whose key stays in its hands goes on or is done with it.
LEMMA WorkMoves ==
    ASSUME IInv, QueueOK, NEW w \in Worker, UNCHANGED <<wq, up>>, up,
           worker[w].pc \notin {"idle", "done"}, worker'[w].item = worker[w].item,
           \A v \in Worker \ {w} : worker'[v] = worker[v]
    PROVE  QueueOK' /\ [Work!Next]_Work!vars
<1> DEFINE hand == [v \in Worker |-> Hand(worker[v])]
           hands == [v \in Worker |-> Hand(worker'[v])]
<1>1. worker[w].item # None
  BY DEF IInv, WorkersOK
<1>2. /\ \A v \in Worker \ {w} : hands[v] = hand[v]
      /\ hand[w] = [key |-> worker[w].item, result |-> "none"]
      /\ hands[w] = [key |-> worker[w].item,
                     result |-> IF worker'[w].pc = "done" THEN "ok" ELSE "none"]
  BY DEF Hand
<1>3. CASE worker'[w].pc = "done"
  <2>1. hands[w] = [hand[w] EXCEPT !.result = "ok"]
    BY <1>2, <1>3
  <2>2. DOMAIN hand = Worker /\ hand = [v \in Worker |-> hand[v]]
        /\ hands = [v \in Worker |-> hands[v]]
    OBVIOUS
  <2>3. hand[w].key # None /\ hand[w].result = "none"
    BY <1>1, <1>2
  <2> HIDE DEF hand, hands
  <2>4. hands = [hand EXCEPT ![w].result = "ok"]
    BY <1>2, <2>1, <2>2
  <2>5. Work!Decide(w)
    BY <2>3, <2>4 DEF Work!Decide, hand, hands
  <2> QED  BY <2>5 DEF Work!Next, QueueOK
<1>4. CASE worker'[w].pc # "done"
  <2>1. hands = hand
    BY <1>2, <1>4
  <2> QED  BY <2>1 DEF Work!vars, QueueOK
<1> QED  BY <1>3, <1>4

\* A worker hands its key back; what was asked for meanwhile stays due.
LEMMA WorkFinishes ==
    ASSUME IInv, QueueOK, NEW w \in Worker, Finish(w)
    PROVE  QueueOK' /\ Work!Next
<1> DEFINE hand == [v \in Worker |-> Hand(worker[v])]
           hands == [v \in Worker |-> Hand(worker'[v])]
<1>1. /\ wq \in Queue /\ up /\ worker[w].pc = "done" /\ worker \in [Worker -> Seen]
      /\ wq' = Done(wq, worker[w].item) /\ up' = up /\ worker' = [worker EXCEPT ![w] = Idle]
  BY DEF Finish, IInv, TypeOK
<1>2. Pending(wq') = Pending(wq) /\ ~wq'.shut
  BY <1>1, DonePending DEF QueueOK
<1>3. hand[w].result = "ok" /\ hands = [hand EXCEPT ![w] = Work!Free]
  BY <1>1 DEF Hand, Idle, Work!Free
<1> HIDE DEF hand, hands
<1>4. Work!Finish(w)
  BY <1>1, <1>2, <1>3 DEF Work!Finish, hand, hands
<1> QED  BY <1>1, <1>2, <1>4 DEF QueueOK, Work!Next

\* Between Get and Finish a worker keeps its key, unless it panics.
LEMMA WorkerKeeps ==
    ASSUME IInv, NEW w \in Worker, QueueConsumer(w) \/ CallFails(w), ~Get(w), ~Finish(w), ~Panic
    PROVE  /\ up /\ UNCHANGED <<wq, up>> /\ worker[w].pc \notin {"idle", "done"}
           /\ worker'[w].item = worker[w].item
           /\ \A v \in Worker \ {w} : worker'[v] = worker[v]
<1>1. worker \in [Worker -> Seen]
  BY DEF IInv, TypeOK
<1>2. ASSUME NEW from \in {"ing", "create", "delete"}, NEW to, Step(w, from, to)
      PROVE  /\ up /\ worker[w].pc \notin {"idle", "done"}
             /\ worker'[w].item = worker[w].item
             /\ \A v \in Worker \ {w} : worker'[v] = worker[v]
  BY <1>1, <1>2 DEF Step, Seen
<1>3. CASE ReadSvc(w)
  BY <1>1, <1>3 DEF ReadSvc, Seen
<1>4. CASE ReadIng(w)
  BY <1>2, <1>4 DEF ReadIng
<1>5. CASE CreateIng(w)
  BY <1>2, <1>5 DEF CreateIng
<1>6. CASE DeleteIng(w)
  BY <1>2, <1>6 DEF DeleteIng
<1>7. CASE CallFails(w)
  BY <1>2, <1>7 DEF CallFails
<1> QED  BY <1>3, <1>4, <1>5, <1>6, <1>7 DEF QueueConsumer

\* Every step is one of the promise, or nothing to it.
LEMMA WorkStep ==
    ASSUME IInv, QueueOK, [Next]_vars
    PROVE  QueueOK' /\ [Work!Next]_Work!vars
<1>1. CASE \/ \E k \in Key : User(k) \/ GarbageCollect(k) \/ WatchSvc(k) \/ WatchIng(k)
           \/ ListSvc \/ ListIng \/ UNCHANGED vars
  <2>1. UNCHANGED <<wq, worker, up>>
    BY <1>1 DEF User, CreateSvc, EditSvc, DeleteSvc, CreateForeignIng, DeleteIngByUser,
                UserEdit, GarbageCollect, WatchSvc, WatchIng, ListSvc, ListIng, vars
  <2> QED  BY <2>1, WorkUntouched
<1>2. CASE \E k \in Key : SvcHandler(k) \/ IngressDel(k) \/ BackoffElapsed(k)
  <2>1. CASE Panic
    <3>1. up
      BY <1>2 DEF SvcHandler, IngressDel, BackoffElapsed
    <3> QED  BY <2>1, <3>1, WorkGoesDown DEF Panic
  <2>2. CASE ~Panic
    <3>1. /\ up /\ UNCHANGED <<worker, up>>
          /\ \/ wq' = wq
             \/ \E k \in Key : \/ wq' = Add(wq, k) \/ wq' = Add(HandlerError(wq, k), k)
                               \/ wq' = Elapse(wq, k)
      BY <1>2, <2>2 DEF SvcHandler, IngressDel, BackoffElapsed
    <3> QED  BY <3>1, WorkUntouched, WorkAsked
  <2> QED  BY <2>1, <2>2
<1>3. CASE \E w \in Worker : QueueConsumer(w) \/ CallFails(w)
  <2>1. PICK w \in Worker : QueueConsumer(w) \/ CallFails(w)
    BY <1>3
  <2>2. CASE Get(w) \/ Finish(w)
    BY <2>2, WorkTakes, WorkFinishes
  <2>3. CASE Panic /\ ~Get(w) /\ ~Finish(w)
    <3>1. up
      BY <2>1 DEF QueueConsumer, Get, ReadSvc, ReadIng, CreateIng, DeleteIng, Finish,
                  CallFails, Step
    <3> QED  BY <2>3, <3>1, WorkGoesDown DEF Panic
  <2>4. CASE ~Panic /\ ~Get(w) /\ ~Finish(w)
    BY <2>1, <2>4, WorkerKeeps, WorkMoves
  <2> QED  BY <2>2, <2>3, <2>4
<1>4. CASE Crash
  BY <1>4, WorkGoesDown DEF Crash
<1>5. CASE Restart
  <2>1. /\ up' = TRUE /\ ~up /\ wq' = NewQueue /\ worker' = [w \in Worker |-> Idle]
    BY <1>5 DEF Restart, QueueOK
  <2>2. Work!Open
    BY <2>1, WorkIsLost DEF Work!Open
  <2> QED  BY <2>1, <2>2, WorkIsLost DEF QueueOK, Work!Next
<1> QED  BY <1>1, <1>2, <1>3, <1>4, <1>5 DEF Next, Informer

\* At first nothing is due.
LEMMA InitWork == Init => QueueOK /\ Work!Init
<1> SUFFICES ASSUME Init PROVE QueueOK /\ Work!Init
  OBVIOUS
<1>1. Pending(wq) = {} /\ ~wq.shut
  BY DEF Init, Pending, NewQueue
<1>2. [w \in Worker |-> Hand(worker[w])] = Work!AllFree
  BY DEF Init, Hand, Idle, Work!AllFree, Work!Free
<1> QED  BY <1>1, <1>2 DEF Init, QueueOK, Work!Init

\* A key that is due is handed to one worker at a time, is due again when a
\* handler asked for it meanwhile, and is lost with the process only, be it a
\* panic or a kill that ends it (controller.go:46-121 and 135-204).
THEOREM ServicesAreWorkedOn == Spec => WorkIsExclusive
<1>1. Init => IInv /\ QueueOK /\ Work!Init
  BY InitIInv, InitWork
<1>2. IInv /\ QueueOK /\ [Next]_vars => IInv' /\ QueueOK' /\ [Work!Next]_Work!vars
  BY NextIInv, WorkStep
<1> QED  BY <1>1, <1>2, PTL DEF Spec, WorkIsExclusive, Work!Spec
=============================================================================
