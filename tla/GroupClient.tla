----------------------------- MODULE GroupClient -----------------------------
(***************************************************************************)
(* The generated client of one API group (typed/<group>/<version>/         *)
(* <group>_client.go): a REST client derived from a rest.Config.           *)
(***************************************************************************)
EXTENDS Integers

CONSTANTS Group, None

\* What matters of a rest.Config.  A Go program passes it by pointer and every
\* constructor works on a copy of its own.
Config == [host : {"good", "bad"}, transport : {"good", "bad"}, qps : Int, burst : Int,
           limiter : {None, "given", "clientset", "error"},
           agent : {"unset", "user", "default"}, group : {None, Group}]

RESTClient == [group : {Group}, agent : {"user", "default"}, http : {"shared"},
               limiter : {None, "given", "clientset", Group}]

\* client-go: parses the host, and makes a rate limiter of its own for a
\* config that has none, unless QPS is negative.
RESTClientForConfigAndClient(c, httpClient) ==
    IF c.group = None \/ c.host = "bad"
    THEN None
    ELSE [group |-> c.group, agent |-> c.agent, http |-> httpClient,
          limiter |-> IF c.limiter # None THEN c.limiter
                      ELSE IF c.qps < 0 THEN None ELSE c.group]

SetConfigDefaults(c) ==
    [c EXCEPT !.group = Group, !.agent = IF @ = "unset" THEN "default" ELSE @]

\* None stands for an error.
NewForConfigAndClient(c, httpClient) ==
    RESTClientForConfigAndClient(SetConfigDefaults(c), httpClient)
=============================================================================
