---------------------------- MODULE ExclusiveWork ----------------------------
(***************************************************************************)
(* What a work queue promises to the controllers built on it.  A key that  *)
(* is asked for is due until a worker takes it, and only workers take it,  *)
(* one at a time.  It is due again when it was asked for meanwhile or when *)
(* the work failed.  After a shutdown nothing becomes due any more, and    *)
(* with the process everything goes.                                       *)
(***************************************************************************)
CONSTANTS Key, Worker, None

VARIABLES
    open,  \* requests are accepted
    due,   \* the keys somebody has to look at
    hand   \* [Worker -> [key : Key \cup {None}, result : {"none", "ok", "fail"}]]

vars == <<open, due, hand>>

Free == [key |-> None, result |-> "none"]
AllFree == [w \in Worker |-> Free]

Init == open = TRUE /\ due = {} /\ hand = AllFree

Ask ==
    /\ open
    /\ \E k \in Key : due' = due \cup {k}
    /\ UNCHANGED <<open, hand>>

\* A key that also waits for its back-off stays due.
Take(w) ==
    /\ hand[w] = Free
    /\ \E k \in due :
          /\ \A v \in Worker : hand[v].key # k
          /\ hand' = [hand EXCEPT ![w].key = k]
          /\ due' \in {due, due \ {k}}
    /\ UNCHANGED open

Decide(w) ==
    /\ hand[w].key # None /\ hand[w].result = "none"
    /\ \E r \in {"ok", "fail"} : hand' = [hand EXCEPT ![w].result = r]
    /\ UNCHANGED <<open, due>>

\* Only a failure makes the key due again.
Finish(w) ==
    /\ hand[w].result # "none"
    /\ hand' = [hand EXCEPT ![w] = Free]
    /\ due' = IF open /\ hand[w].result = "fail" THEN due \cup {hand[w].key} ELSE due
    /\ UNCHANGED open

\* Keys that wait for their back-off are given up, and everything when the
\* process ends with the queue.
Close ==
    /\ open /\ ~open'
    /\ \/ due' \subseteq due /\ UNCHANGED hand
       \/ due' = {} /\ hand' = AllFree

Exit ==
    /\ ~open
    /\ due' = {} /\ hand' = AllFree
    /\ UNCHANGED open

\* A new process starts with nothing.
Open ==
    /\ ~open /\ open'
    /\ due' = {} /\ hand' = AllFree

Next ==
    \/ Ask \/ Close \/ Exit \/ Open
    \/ \E w \in Worker : Take(w) \/ Decide(w) \/ Finish(w)

Spec == Init /\ [][Next]_vars
=============================================================================
