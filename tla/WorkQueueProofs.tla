--------------------------- MODULE WorkQueueProofs ---------------------------
(***************************************************************************)
(* What the operations of the work queue preserve, for every set of keys.  *)
(* Each lemma says that an operation maps a well-formed queue (Queue and   *)
(* QueueInv) to a well-formed queue and how it changes `processing'.  The  *)
(* proofs about the controllers use these lemmas and never look inside a   *)
(* queue.                                                                  *)
(***************************************************************************)
EXTENDS WorkQueue, TLAPS

WellFormed(q) == q \in Queue /\ QueueInv(q)

\* The elements of a sequence after Append, and when it stays injective.
LEMMA AppendElements ==
    ASSUME NEW S, NEW s \in Seq(S), NEW e \in S
    PROVE  /\ Append(s, e) \in Seq(S)
           /\ Range(Append(s, e)) = Range(s) \cup {e}
           /\ IsInjective(s) /\ e \notin Range(s) => IsInjective(Append(s, e))
<1>1. /\ Append(s, e) \in Seq(S)
      /\ DOMAIN s = 1..Len(s) /\ Len(s) \in Nat
      /\ DOMAIN Append(s, e) = 1..Len(s) + 1
      /\ \A i \in 1..Len(s) : Append(s, e)[i] = s[i]
      /\ Append(s, e)[Len(s) + 1] = e
  OBVIOUS
<1>2. Range(Append(s, e)) = Range(s) \cup {e}
  <2>1. \A x \in Range(Append(s, e)) : x \in Range(s) \cup {e}
    BY <1>1 DEF Range
  <2>2. \A x \in Range(s) : x \in Range(Append(s, e))
    BY <1>1 DEF Range
  <2>3. e \in Range(Append(s, e))
    BY <1>1 DEF Range
  <2> QED  BY <2>1, <2>2, <2>3
<1>3. ASSUME IsInjective(s), e \notin Range(s)
      PROVE  IsInjective(Append(s, e))
  BY <1>1, <1>3 DEF Range, IsInjective
<1> QED  BY <1>1, <1>2, <1>3

\* The elements of an injective sequence after its head is taken.
LEMMA TailElements ==
    ASSUME NEW S, NEW s \in Seq(S), s # <<>>, IsInjective(s)
    PROVE  /\ Head(s) \in S /\ Head(s) \in Range(s)
           /\ Tail(s) \in Seq(S)
           /\ Range(Tail(s)) = Range(s) \ {Head(s)}
           /\ IsInjective(Tail(s))
<1>1. /\ DOMAIN s = 1..Len(s) /\ Len(s) \in Nat \ {0}
      /\ Tail(s) \in Seq(S)
      /\ DOMAIN Tail(s) = 1..Len(s) - 1
      /\ \A i \in 1..Len(s) - 1 : Tail(s)[i] = s[i + 1]
      /\ Head(s) = s[1] /\ s[1] \in S
  OBVIOUS
<1>2. Head(s) \in Range(s)
  BY <1>1 DEF Range
<1>3. Range(Tail(s)) = Range(s) \ {Head(s)}
  <2>1. \A x \in Range(Tail(s)) : x \in Range(s) \ {Head(s)}
    BY <1>1 DEF Range, IsInjective
  <2>2. ASSUME NEW x \in Range(s), x # Head(s)
        PROVE  x \in Range(Tail(s))
    <3>1. PICK i \in 1..Len(s) : x = s[i]
      BY <1>1 DEF Range
    <3>2. i - 1 \in 1..Len(s) - 1 /\ Tail(s)[i - 1] = x
      BY <1>1, <2>2, <3>1
    <3> QED  BY <1>1, <3>2 DEF Range
  <2> QED  BY <2>1, <2>2
<1>4. IsInjective(Tail(s))
  BY <1>1 DEF IsInjective
<1> QED  BY <1>1, <1>2, <1>3, <1>4

\* A new queue is well formed.
LEMMA NewQueueWellFormed ==
    WellFormed(NewQueue) /\ NewQueue.processing = {}
  BY RequeueCapAssumption DEF WellFormed, Queue, QueueInv, NewQueue, Range, IsInjective

\* Add queues a key only when it is neither queued nor processed.
LEMMA AddWellFormed ==
    ASSUME NEW q, WellFormed(q), NEW k \in Key
    PROVE  WellFormed(Add(q, k)) /\ Add(q, k).processing = q.processing
<1> USE DEF WellFormed
<1>1. CASE q.shut \/ k \in q.dirty
  BY <1>1 DEF Add
<1>2. CASE ~(q.shut \/ k \in q.dirty)
  <2> DEFINE p == Add(q, k)
  <2>1. p = [q EXCEPT !.dirty = @ \cup {k},
                      !.queue = IF k \in q.processing THEN @ ELSE Append(@, k)]
    BY <1>2 DEF Add
  <2>2. /\ p.dirty = q.dirty \cup {k} /\ p.processing = q.processing
        /\ p.queue = IF k \in q.processing THEN q.queue ELSE Append(q.queue, k)
    BY <2>1 DEF Queue
  <2>3. q.queue \in Seq(Key) /\ q.dirty \subseteq Key
    BY DEF Queue
  <2>4. Append(q.queue, k) \in Seq(Key)
    BY <2>3, AppendElements
  <2>5. p \in Queue
    <3>1. p.queue \in Seq(Key) /\ p.dirty \in SUBSET Key
      BY <2>2, <2>3, <2>4
    <3>2. p = [q EXCEPT !.dirty = p.dirty, !.queue = p.queue]
      BY <2>1, <2>2
    <3> HIDE DEF p
    <3> QED  BY <3>1, <3>2 DEF Queue
  <2>6. CASE k \in q.processing
    BY <2>2, <2>5, <2>6 DEF QueueInv
  <2>7. CASE k \notin q.processing
    <3>1. k \notin Range(q.queue)
      BY <1>2 DEF QueueInv
    <3>2. /\ Range(p.queue) = Range(q.queue) \cup {k}
          /\ IsInjective(p.queue)
      BY <2>2, <2>3, <2>7, <3>1, AppendElements DEF QueueInv
    <3> QED  BY <2>2, <2>5, <2>7, <3>2 DEF QueueInv
  <2> QED  BY <2>6, <2>7
<1> QED  BY <1>1, <1>2

\* Get hands out a key nobody holds.
LEMMA TakeWellFormed ==
    ASSUME NEW q, WellFormed(q), HasItem(q)
    PROVE  /\ WellFormed(Take(q))
           /\ Head(q.queue) \in Key \ q.processing
           /\ Take(q).processing = q.processing \cup {Head(q.queue)}
<1> USE DEF WellFormed
<1> DEFINE p == Take(q)
           h == Head(q.queue)
<1>1. q.queue \in Seq(Key) /\ q.queue # <<>> /\ IsInjective(q.queue)
  BY DEF Queue, QueueInv, HasItem
<1>2. /\ h \in Key /\ h \in Range(q.queue)
      /\ Tail(q.queue) \in Seq(Key)
      /\ Range(Tail(q.queue)) = Range(q.queue) \ {h}
      /\ IsInjective(Tail(q.queue))
  BY <1>1, TailElements
<1>3. /\ p.queue = Tail(q.queue) /\ p.dirty = q.dirty \ {h}
      /\ p.processing = q.processing \cup {h}
      /\ p \in Queue
  BY <1>2 DEF Queue, Take
<1>4. QueueInv(p)
  BY <1>2, <1>3 DEF QueueInv
<1> QED  BY <1>2, <1>3, <1>4 DEF QueueInv

\* Done queues the key when it became dirty while it was processed.
LEMMA DoneWellFormed ==
    ASSUME NEW q, WellFormed(q), NEW k \in q.processing
    PROVE  WellFormed(Done(q, k)) /\ Done(q, k).processing = q.processing \ {k}
<1> USE DEF WellFormed
<1> DEFINE p == Done(q, k)
<1>1. q.queue \in Seq(Key) /\ k \in Key /\ k \notin Range(q.queue)
  BY DEF Queue, QueueInv
<1>2. /\ Append(q.queue, k) \in Seq(Key)
      /\ Range(Append(q.queue, k)) = Range(q.queue) \cup {k}
      /\ IsInjective(Append(q.queue, k))
  BY <1>1, AppendElements DEF QueueInv
<1>3. /\ p.queue = IF k \in q.dirty THEN Append(q.queue, k) ELSE q.queue
      /\ p.dirty = q.dirty /\ p.processing = q.processing \ {k}
      /\ p \in Queue
  BY <1>1, <1>2 DEF Queue, Done
<1>4. QueueInv(p)
  BY <1>2, <1>3 DEF QueueInv
<1> QED  BY <1>3, <1>4

\* AddRateLimited touches the back-off of the key only.
LEMMA AddRateLimitedWellFormed ==
    ASSUME NEW q, WellFormed(q), NEW k \in Key
    PROVE  WellFormed(AddRateLimited(q, k)) /\ AddRateLimited(q, k).processing = q.processing
<1> DEFINE p == AddRateLimited(q, k)
           r == [q.requeues EXCEPT ![k] = IF q.requeues[k] < RequeueCap
                                     THEN q.requeues[k] + 1 ELSE q.requeues[k]]
<1>1. q \in Queue /\ RequeueCap \in Nat
  BY RequeueCapAssumption DEF WellFormed
<1>2. r \in [Key -> 0..RequeueCap]
  BY <1>1 DEF Queue
<1>3. /\ p.queue = q.queue /\ p.dirty = q.dirty /\ p.processing = q.processing
      /\ p = [q EXCEPT !.requeues = r, !.waiting = p.waiting]
      /\ p.waiting \in SUBSET Key
  BY <1>1 DEF Queue, AddRateLimited
<1>4. p \in Queue
  <2> HIDE DEF p, r
  <2> QED  BY <1>1, <1>2, <1>3 DEF Queue
<1> QED  BY <1>3, <1>4 DEF WellFormed, QueueInv

\* Forget only clears the count.
LEMMA ForgetWellFormed ==
    ASSUME NEW q, WellFormed(q), NEW k \in Key
    PROVE  WellFormed(Forget(q, k)) /\ Forget(q, k).processing = q.processing
<1> DEFINE p == Forget(q, k)
           r == [q.requeues EXCEPT ![k] = 0]
<1>1. q \in Queue /\ RequeueCap \in Nat
  BY RequeueCapAssumption DEF WellFormed
<1>2. r \in [Key -> 0..RequeueCap]
  BY <1>1 DEF Queue
<1>3. /\ p.queue = q.queue /\ p.dirty = q.dirty /\ p.processing = q.processing
      /\ p = [q EXCEPT !.requeues = r, !.waiting = p.waiting]
      /\ p.waiting \in SUBSET Key
  BY <1>1 DEF Queue, Forget
<1>4. p \in Queue
  <2> HIDE DEF p, r
  <2> QED  BY <1>1, <1>2, <1>3 DEF Queue
<1> QED  BY <1>3, <1>4 DEF WellFormed, QueueInv

\* A back-off that ends is an Add.
LEMMA ElapseWellFormed ==
    ASSUME NEW q, WellFormed(q), NEW k \in Key
    PROVE  WellFormed(Elapse(q, k)) /\ Elapse(q, k).processing = q.processing
<1> DEFINE p == [q EXCEPT !.waiting = @ \ {k}]
<1>1. /\ p.queue = q.queue /\ p.dirty = q.dirty /\ p.processing = q.processing
      /\ p \in Queue
  BY DEF WellFormed, Queue
<1>2. WellFormed(p)
  BY <1>1 DEF WellFormed, QueueInv
<1> QED  BY <1>1, <1>2, AddWellFormed DEF Elapse

\* ShutDown only stops the back-offs: FIFO, dirty and processing keys stay.
LEMMA ShutDownWellFormed ==
    ASSUME NEW q, WellFormed(q)
    PROVE  WellFormed(ShutDown(q)) /\ ShutDown(q).processing = q.processing
<1> DEFINE p == ShutDown(q)
<1>1. /\ p.queue = q.queue /\ p.dirty = q.dirty /\ p.processing = q.processing
      /\ p \in Queue
  BY DEF WellFormed, Queue, ShutDown
<1> QED  BY <1>1 DEF WellFormed, QueueInv
-----------------------------------------------------------------------------
(***************************************************************************)
(* What the operations do to what the queue still owes.                    *)
(***************************************************************************)
\* A key that was added is pending, whoever has it.
LEMMA AddPending ==
    ASSUME NEW q \in Queue, ~q.shut, NEW k \in Key
    PROVE  /\ Pending(Add(q, k)) = Pending(q) \cup {k}
           /\ ~Add(q, k).shut /\ Add(q, k).waiting = q.waiting
<1>1. CASE k \in q.dirty
  BY <1>1 DEF Add, Pending
<1>2. CASE k \notin q.dirty
  BY <1>2 DEF Add, Pending, Queue
<1> QED  BY <1>1, <1>2

\* Get hands out one pending key; the others stay.
LEMMA TakePending ==
    ASSUME NEW q \in Queue
    PROVE  /\ \A k \in Pending(q) : k # Head(q.queue) => k \in Pending(Take(q))
           /\ Take(q).shut = q.shut
  BY DEF Take, Pending, Queue

\* Done gives nothing up that was asked for meanwhile.
LEMMA DonePending ==
    ASSUME NEW q \in Queue, NEW k
    PROVE  Pending(Done(q, k)) = Pending(q) /\ Done(q, k).shut = q.shut
  BY DEF Done, Pending, Queue

\* A failure is pending until its back-off elapses, ...
LEMMA AddRateLimitedPending ==
    ASSUME NEW q \in Queue, ~q.shut, NEW k \in Key
    PROVE  Pending(AddRateLimited(q, k)) = Pending(q) \cup {k} /\ ~AddRateLimited(q, k).shut
<1> DEFINE p == AddRateLimited(q, k)
<1>1. p.dirty = q.dirty /\ p.waiting = q.waiting \cup {k} /\ p.shut = q.shut
  BY DEF AddRateLimited, Queue
<1> QED  BY <1>1 DEF Pending

\* ... and then it is dirty.
LEMMA ElapsePending ==
    ASSUME NEW q \in Queue, ~q.shut, NEW k \in Key
    PROVE  Pending(Elapse(q, k)) = Pending(q) \cup {k} /\ ~Elapse(q, k).shut
<1> DEFINE p == [q EXCEPT !.waiting = @ \ {k}]
<1>1. p \in Queue /\ ~p.shut /\ Pending(p) \cup {k} = Pending(q) \cup {k}
  BY DEF Queue, Pending
<1> HIDE DEF p
<1>2. Pending(Add(p, k)) = Pending(p) \cup {k} /\ ~Add(p, k).shut
  BY <1>1, AddPending
<1>3. Elapse(q, k) = Add(p, k)
  BY DEF Elapse, p
<1> QED  BY <1>1, <1>2, <1>3

\* Forget clears a count only.
LEMMA ForgetPending ==
    ASSUME NEW q \in Queue, NEW k
    PROVE  Pending(Forget(q, k)) = Pending(q) /\ Forget(q, k).shut = q.shut
  BY DEF Forget, Pending, Queue

\* A worker is handed a key that is owed.  It stays owed if it waits as well.
LEMMA TakesPending ==
    ASSUME NEW q, WellFormed(q), HasItem(q)
    PROVE  /\ Head(q.queue) \in Pending(q)
           /\ Pending(Take(q)) \in {Pending(q), Pending(q) \ {Head(q.queue)}}
<1>1. Head(q.queue) \in Range(q.queue)
  BY TailElements DEF WellFormed, Queue, QueueInv, HasItem
<1>2. Head(q.queue) \in q.dirty
  BY <1>1 DEF WellFormed, QueueInv
<1>3. Take(q).dirty = q.dirty \ {Head(q.queue)} /\ Take(q).waiting = q.waiting
  BY DEF Take, WellFormed, Queue
<1> QED  BY <1>2, <1>3 DEF Pending

\* ShutDown gives up what waits, and nothing is asked for after it.
LEMMA ShutDownPending ==
    ASSUME NEW q \in Queue
    PROVE  /\ ShutDown(q).shut /\ ShutDown(q).waiting = {}
           /\ Pending(ShutDown(q)) \subseteq Pending(q)
  BY DEF ShutDown, Pending, Queue

LEMMA ShutIgnores ==
    ASSUME NEW q \in Queue, q.shut, NEW k \in Key
    PROVE  /\ Add(q, k) = q
           /\ Pending(AddRateLimited(q, k)) = Pending(q)
           /\ AddRateLimited(q, k).waiting = q.waiting /\ AddRateLimited(q, k).shut
<1> DEFINE p == AddRateLimited(q, k)
<1>1. p.dirty = q.dirty /\ p.waiting = q.waiting /\ p.shut = q.shut
  BY DEF AddRateLimited, Queue
<1> QED  BY <1>1 DEF Pending, Add

\* Taking a key, handing it back and forgetting its failures leave alone what
\* waits and whether the queue is shut down.
LEMMA SameWaiting ==
    ASSUME NEW q \in Queue, NEW k
    PROVE  /\ Take(q).waiting = q.waiting /\ Take(q).shut = q.shut
           /\ Done(q, k).waiting = q.waiting /\ Done(q, k).shut = q.shut
           /\ Forget(q, k).waiting = q.waiting /\ Forget(q, k).shut = q.shut
  BY DEF Take, Done, Forget, Queue
-----------------------------------------------------------------------------
(***************************************************************************)
(* What the controllers say about the watches that feed their caches.      *)
(***************************************************************************)
\* The cache holds c, the events q are on their way, the API server holds s.
Leads(c, q, s) == IF q = <<>> THEN c = s ELSE q[Len(q)] = s

\* Only the empty sequence has no elements.
LEMMA EmptyHasNoElements == ASSUME NEW S, NEW q \in Seq(S) PROVE q = <<>> <=> Len(q) = 0
  OBVIOUS

\* What is left of a sequence without its head.
LEMMA TailFacts ==
    ASSUME NEW S, NEW q \in Seq(S), q # <<>>
    PROVE  /\ Head(q) = q[1] /\ Len(Tail(q)) = Len(q) - 1 /\ Len(q) \in Nat /\ Len(q) >= 1
           /\ \A i \in 1..Len(Tail(q)) : Tail(q)[i] = q[i + 1]
           /\ Tail(q) = <<>> <=> Len(q) = 1
           /\ Tail(q) # <<>> => Tail(q)[Len(Tail(q))] = q[Len(q)]
<1>1. /\ Head(q) = q[1] /\ Len(q) \in Nat /\ Len(q) >= 1 /\ Len(Tail(q)) = Len(q) - 1
      /\ Tail(q) \in Seq(S)
  OBVIOUS
<1>2. ASSUME NEW i \in 1..Len(q) - 1 PROVE Tail(q)[i] = q[i + 1]
  OBVIOUS
<1>3. Tail(q) = <<>> <=> Len(Tail(q)) = 0
  BY <1>1, EmptyHasNoElements
<1>4. Tail(q) # <<>> => Len(Tail(q)) \in 1..Len(q) - 1
  BY <1>1, <1>3
<1> QED  BY <1>1, <1>2, <1>3, <1>4

\* The first event enters the cache.
LEMMA LeadsTail ==
    ASSUME NEW S, NEW q \in Seq(S), q # <<>>, NEW c, NEW s, Leads(c, q, s)
    PROVE  Leads(Head(q), Tail(q), s)
  BY TailFacts DEF Leads

\* A write is the last event.
LEMMA LeadsAppend ==
    ASSUME NEW S, NEW q \in Seq(S), NEW c, NEW o \in S
    PROVE  Leads(c, Append(q, o), o) /\ Append(q, o) # <<>>
<1>1. Append(q, o) # <<>> /\ Append(q, o)[Len(Append(q, o))] = o
  OBVIOUS
<1> QED  BY <1>1 DEF Leads
=============================================================================
