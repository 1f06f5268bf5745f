----------------------------- MODULE MCPrograms -----------------------------
(***************************************************************************)
(* A small instance of Programs for TLC.                                   *)
(***************************************************************************)
EXTENDS Programs

\* Configs with every setting of the rate limiter, and two that cannot work.
SomeConfigs ==
    LET Config == [host : {"good", "bad"}, transport : {"good", "bad"}, qps : {0, 1},
                   burst : {0, 1}, limiter : {None, "given"}, agent : {"unset"}, group : {None}]
    IN {c \in Config : c.host = "good" \/ c.transport = "good"} \cup {None}
=============================================================================
