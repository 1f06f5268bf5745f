------------------------------ MODULE Clientset ------------------------------
(***************************************************************************)
(* The generated clientset (clientset/versioned/clientset.go): the client  *)
(* of the program's own group and a discovery client, both derived from    *)
(* one rest.Config (GroupClient!Config).  The empty set stands for an      *)
(* error.                                                                  *)
(***************************************************************************)
CONSTANTS Group, None,
          GroupNewForConfigAndClient(_, _)   \* the group client's constructor

LOCAL INSTANCE Integers

Discovery == INSTANCE GroupClient WITH Group <- "discovery"

\* Mutant: the burst is asked for although there is a rate limiter.
LimiterAlways(c) ==
    IF c.qps <= 0 THEN c.limiter ELSE IF c.burst <= 0 THEN "error" ELSE "clientset"

Limiter(c) ==
    IF c.limiter # None \/ c.qps <= 0 THEN c.limiter
    ELSE IF c.burst <= 0 THEN "error" ELSE "clientset"

\* Mutant: discovery is derived from the caller's config.
NewForConfigAndClientUnshared(c, httpClient) ==
    LET own == [c EXCEPT !.limiter = Limiter(c)]
        set == {GroupNewForConfigAndClient(own, httpClient),
                Discovery!NewForConfigAndClient(c, httpClient)}
    IN IF own.limiter = "error" \/ None \in set THEN {} ELSE set

NewForConfigAndClient(c, httpClient) ==
    LET own == [c EXCEPT !.limiter = Limiter(c)]
        set == {GroupNewForConfigAndClient(own, httpClient),
                Discovery!NewForConfigAndClient(own, httpClient)}
    IN IF own.limiter = "error" \/ None \in set THEN {} ELSE set

NewForConfig(c) ==
    LET own == [c EXCEPT !.agent = IF @ = "unset" THEN "default" ELSE @] IN
    IF c.transport = "bad" THEN {} ELSE NewForConfigAndClient(own, "shared")
=============================================================================
