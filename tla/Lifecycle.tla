------------------------------ MODULE Lifecycle ------------------------------
(***************************************************************************)
(* What a shared informer factory promises to those who start and stop it: *)
(* every task is launched at most once, nothing is launched once somebody  *)
(* asked to shut down, and the shutdown is over only when nothing runs.    *)
(***************************************************************************)
CONSTANT Task

VARIABLES
    task,   \* [Task -> {"new", "running", "ended"}]
    phase   \* "open", "closing" from the first request on, "closed" from the
            \* first answer on

vars == <<task, phase>>

Init == task = [t \in Task |-> "new"] /\ phase = "open"

Running == {t \in Task : task[t] = "running"}

Launch ==
    /\ phase = "open"
    /\ \E S \in SUBSET {t \in Task : task[t] = "new"} :
          task' = [t \in Task |-> IF t \in S THEN "running" ELSE task[t]]
    /\ UNCHANGED phase

End(t) ==
    /\ task[t] = "running"
    /\ task' = [task EXCEPT ![t] = "ended"]
    /\ UNCHANGED phase

Close ==
    /\ phase = "open"
    /\ phase' = "closing"
    /\ UNCHANGED task

Closed ==
    /\ phase = "closing" /\ Running = {}
    /\ phase' = "closed"
    /\ UNCHANGED task

Next == Launch \/ (\E t \in Task : End(t)) \/ Close \/ Closed

Spec == Init /\ [][Next]_vars
=============================================================================
