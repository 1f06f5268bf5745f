------------------------------ MODULE WorkQueue ------------------------------
(***************************************************************************)
(* The rate-limiting work queue of k8s.io/client-go/util/workqueue, as the *)
(* controllers of this repository use it: they build one with              *)
(* NewNamedRateLimitingQueue and call Add, Get, Done, AddRateLimited,      *)
(* Forget, NumRequeues and ShutDown on it.  The library is not part of the *)
(* repository, so every operator here is external.                         *)
(*                                                                         *)
(* A queue is a record and an operation maps a queue to a queue: each of   *)
(* the library's methods takes the queue's lock once, so one application   *)
(* of an operator is one atomic step, and a handler that makes two calls   *)
(* composes two operators.                                                 *)
(***************************************************************************)
EXTENDS Naturals, Sequences, Functions

CONSTANTS
    Key,        \* "namespace/name" strings, the items of the queue
    RequeueCap  \* the failure count saturates here (bound of the model)

ASSUME RequeueCapAssumption == RequeueCap \in Nat

\* queue      keys in the order in which Get returns them
\* dirty      keys that need processing
\* processing keys some worker got and has not reported Done
\* waiting    keys AddRateLimited holds back until their back-off elapses
\* requeues   the rate limiter's count of failures per key
\* shut       ShutDown was called
Queue ==
    [queue : Seq(Key), dirty : SUBSET Key, processing : SUBSET Key,
     waiting : SUBSET Key, requeues : [Key -> 0..RequeueCap], shut : BOOLEAN]

NewQueue ==
    [queue |-> <<>>, dirty |-> {}, processing |-> {}, waiting |-> {},
     requeues |-> [k \in Key |-> 0], shut |-> FALSE]

\* A key that is already dirty is not queued again; one that is being
\* processed is only marked dirty, and Done puts it back.
Add(q, k) ==
    IF q.shut \/ k \in q.dirty
    THEN q
    ELSE [q EXCEPT !.dirty = @ \cup {k},
                   !.queue = IF k \in q.processing THEN @ ELSE Append(@, k)]

\* Get blocks while the queue is empty, unless it is shut down.
HasItem(q) == q.queue # <<>>
IsDrained(q) == q.shut /\ q.queue = <<>>

\* The queue after Get returned Head(q.queue).
Take(q) ==
    [q EXCEPT !.queue = Tail(@),
              !.dirty = @ \ {Head(q.queue)},
              !.processing = @ \cup {Head(q.queue)}]

Done(q, k) ==
    [q EXCEPT !.processing = @ \ {k},
              !.queue = IF k \in q.dirty THEN Append(@, k) ELSE @]

\* The failure is counted even when the queue is shut down and drops the key.
AddRateLimited(q, k) ==
    [q EXCEPT !.requeues[k] = IF @ < RequeueCap THEN @ + 1 ELSE @,
              !.waiting = IF q.shut THEN @ ELSE @ \cup {k}]

\* The back-off of a waiting key has elapsed.
Elapse(q, k) == Add([q EXCEPT !.waiting = @ \ {k}], k)

NumRequeues(q, k) == q.requeues[k]
Forget(q, k) == [q EXCEPT !.requeues[k] = 0]

\* The loop that releases waiting keys stops with the queue.
ShutDown(q) == [q EXCEPT !.shut = TRUE, !.waiting = {}]

\* What the queue still owes: keys somebody will be handed.
Pending(q) == q.dirty \cup q.waiting

(***************************************************************************)
(* What the library maintains, and what "never processing the same item    *)
(* simultaneously in two different workers" rests on: a key is in the      *)
(* FIFO exactly when it is dirty and no worker has it, and at most once.   *)
(***************************************************************************)
QueueInv(q) ==
    /\ Range(q.queue) = q.dirty \ q.processing
    /\ IsInjective(q.queue)
=============================================================================
