------------------------------ MODULE Programs ------------------------------
(***************************************************************************)
(* The main functions that use informers, from start to exit: the sample   *)
(* controllers for Foo and App, the code-generator demo, the informer demo *)
(* and the Ingress controller.  Each registers informers with a factory of *)
(* its own (InformerFactory; the generated copies differ in the kinds they *)
(* know), builds its clientset from one rest.Config, and the sample        *)
(* controllers handle signals (pkg/signals).                               *)
(*                                                                         *)
(* client-go's factory in the two sample controllers, which is started     *)
(* with the same channel, is reduced to whether its caches have synced; in *)
(* the two programs that use no other it is the same InformerFactory.      *)
(***************************************************************************)
EXTENDS Naturals, Sequences, FiniteSets

CONSTANTS
    Program,     \* subset of "foo", "app", "generator", "demo", "ingress"
    Configs,     \* rest.Configs a program may find; None if it finds none
    MaxSignals,  \* bound on signals sent
    None

VARIABLES
    program,     \* which one runs
    main,        \* index of main's next step in its Script
    exit,        \* None, the exit code, or "killed"
    signals,     \* signals sent so far
    channel,     \* signals in the handler's channel
    handler,     \* where the signal handler's goroutine is
    config,      \* the rest.Config that was found
    clients,     \* the clientset's REST clients
    kubeSynced,  \* caches of client-go's factory in the sample controllers
    working,     \* the workers have been launched
    informers, started, wg, shuttingDown, informer, closed, call, stopped

factory == <<informers, started, wg, shuttingDown, informer, closed, call, stopped>>
process == <<program, exit, signals, channel, handler>>
built == <<config, clients>>
vars == <<program, main, exit, signals, channel, handler, config, clients,
          kubeSynced, working, factory>>

Chan == {"ctx", "never"}
Caller == {"main"}

\* One copy of the generated factory for each program.
FooFactory == INSTANCE InformerFactory WITH Type <- {"foos"}
AppFactory == INSTANCE InformerFactory WITH Type <- {"apps"}
CrdFactory == INSTANCE InformerFactory WITH Type <- {"crdfoos"}
KubeFactory == INSTANCE InformerFactory WITH Type <- {"pods", "services", "ingresses"}

\* One copy of the generated group client and clientset for each program.
FooGroup == INSTANCE GroupClient WITH Group <- "samplecontroller"
AppGroup == INSTANCE GroupClient WITH Group <- "appcontroller"
CrdGroup == INSTANCE GroupClient WITH Group <- "crd"
CoreGroup == INSTANCE GroupClient WITH Group <- "core"
FooClientset == INSTANCE Clientset WITH Group <- "samplecontroller",
    GroupNewForConfigAndClient <- FooGroup!NewForConfigAndClient
AppClientset == INSTANCE Clientset WITH Group <- "appcontroller",
    GroupNewForConfigAndClient <- AppGroup!NewForConfigAndClient
CrdClientset == INSTANCE Clientset WITH Group <- "crd",
    GroupNewForConfigAndClient <- CrdGroup!NewForConfigAndClient
KubeClientset == INSTANCE Clientset WITH Group <- "core",
    GroupNewForConfigAndClient <- CoreGroup!NewForConfigAndClient

\* None stands for nil and for errors, and is nothing else.
ASSUME ConstantsAssumption ==
    /\ Program \subseteq {"foo", "app", "generator", "demo", "ingress"}
    /\ Configs \subseteq {c \in CoreGroup!Config : c.limiter \in {None, "given"} /\ c.group = None}
                            \cup {None}
    /\ MaxSignals \in Nat
    /\ None \notin {"0", "1", "2", "killed", "given", "clientset", "error", "samplecontroller",
                    "appcontroller", "crd", "core", "discovery"}
    /\ None \notin FooGroup!RESTClient \cup AppGroup!RESTClient \cup CrdGroup!RESTClient
                     \cup CoreGroup!RESTClient \cup KubeClientset!Discovery!RESTClient
-----------------------------------------------------------------------------
\* Mutant: the factories are started before the controller asks for informers.
SampleScriptStartFirst == <<"handler", "clients", "start", "register", "sync", "work", "block">>

\* What main does, in order.
SampleScript == <<"handler", "clients", "register", "start", "sync", "work", "block">>
GeneratorScript == <<"clients", "list", "register">>
DemoScript == <<"clients", "register", "start", "wait", "synced", "block">>
IngressScript == <<"clients", "register", "start", "wait", "synced", "work", "block">>

Script ==
    CASE program \in {"foo", "app"} -> SampleScript
      [] program = "generator" -> GeneratorScript
      [] program = "demo" -> DemoScript
      [] program = "ingress" -> IngressScript

\* The channel the informers run on and main waits for in the end.
StopChan == IF program \in {"foo", "app"} THEN "ctx" ELSE "never"

Kinds ==
    CASE program = "foo" -> {"foos"}
      [] program = "app" -> {"apps"}
      [] program = "generator" -> {"crdfoos"}
      [] program = "demo" -> {"pods"}
      [] program = "ingress" -> {"services", "ingresses"}

Init ==
    /\ program \in Program
    /\ main = 1 /\ exit = None
    /\ signals = 0 /\ channel = 0 /\ handler = "none"
    /\ config = None /\ clients = {}
    /\ kubeSynced = FALSE /\ working = FALSE
    /\ \/ program = "foo" /\ FooFactory!Init
       \/ program = "app" /\ AppFactory!Init
       \/ program = "generator" /\ CrdFactory!Init
       \/ program \in {"demo", "ingress"} /\ KubeFactory!Init

At(step) == exit = None /\ main <= Len(Script) /\ Script[main] = step

Fail(code) ==
    /\ exit' = code
    /\ UNCHANGED <<main, program, signals, channel, handler>>

Proceed == main' = main + 1 /\ UNCHANGED process
-----------------------------------------------------------------------------
(***************************************************************************)
(* main.                                                                   *)
(***************************************************************************)
SetupSignalHandler ==
    /\ At("handler")
    /\ handler' = "launched"
    /\ main' = main + 1
    /\ UNCHANGED <<program, exit, signals, channel, built, kubeSynced, working, factory>>

\* The sample controllers build client-go's clientset from the same config
\* first; the last two programs use no other.
NewClients(c) ==
    CASE program = "foo" -> IF KubeClientset!NewForConfig(c) = {} THEN {}
                            ELSE FooClientset!NewForConfig(c)
      [] program = "app" -> IF KubeClientset!NewForConfig(c) = {} THEN {}
                            ELSE AppClientset!NewForConfig(c)
      [] program = "generator" -> CrdClientset!NewForConfig(c)
      [] program \in {"demo", "ingress"} -> KubeClientset!NewForConfig(c)

BuildClients ==
    /\ At("clients")
    /\ config' \in Configs
    /\ LET set == IF config' = None THEN {} ELSE NewClients(config') IN
         IF set = {}
         THEN /\ Fail(IF program = "demo" THEN "2" ELSE "1")
              /\ UNCHANGED clients
         ELSE /\ clients' = set
              /\ Proceed
    /\ UNCHANGED <<kubeSynced, working, factory>>

\* The generator demo lists Foos once.
List ==
    /\ At("list")
    /\ Proceed \/ Fail("1")
    /\ UNCHANGED <<built, kubeSynced, working, factory>>

\* Asking for a lister or an informer registers the informer.  The informers of
\* one program are registered one after the other and nobody sees the moment
\* in between.
Register ==
    /\ At("register")
    /\ \/ program = "foo" /\ FooFactory!InformerFor("main", "foos") /\ Proceed
       \/ program = "app" /\ AppFactory!InformerFor("main", "apps") /\ Proceed
       \/ program = "generator" /\ CrdFactory!InformerFor("main", "crdfoos") /\ Proceed
       \/ /\ program \in {"demo", "ingress"}
          /\ \E k \in Kinds \ informers :
                /\ KubeFactory!InformerFor("main", k)
                /\ IF informers' = Kinds THEN Proceed ELSE UNCHANGED <<main, process>>
    /\ UNCHANGED <<built, kubeSynced, working>>

Start ==
    /\ At("start")
    /\ \/ program = "foo" /\ FooFactory!Start("main", StopChan)
       \/ program = "app" /\ AppFactory!Start("main", StopChan)
       \/ program \in {"demo", "ingress"} /\ KubeFactory!Start("main", StopChan)
    /\ Proceed
    /\ UNCHANGED <<built, kubeSynced, working>>

HasSynced == kubeSynced /\ \A t \in Kinds : informer[t].synced

\* Mutant: the result of cache.WaitForCacheSync is not looked at.
SyncRegardless ==
    /\ At("sync")
    /\ HasSynced \/ "ctx" \in closed
    /\ Proceed
    /\ UNCHANGED <<built, kubeSynced, working, factory>>

\* Mutant: cache.WaitForCacheSync is given a channel nobody closes.
SyncUnstoppably ==
    /\ At("sync")
    /\ HasSynced
    /\ Proceed
    /\ UNCHANGED <<built, kubeSynced, working, factory>>

\* cache.WaitForCacheSync in Run.
Sync ==
    /\ At("sync")
    /\ \/ HasSynced /\ Proceed
       \/ "ctx" \in closed /\ Fail("1")
    /\ UNCHANGED <<built, kubeSynced, working, factory>>

\* The factory's WaitForCacheSync, whose answer the programs ignore.
FactorySync ==
    \/ /\ At("wait")
       /\ KubeFactory!WaitForCacheSync("main", StopChan)
       /\ Proceed
       /\ UNCHANGED <<built, kubeSynced, working>>
    \/ /\ At("synced")
       /\ \E t \in Kinds : KubeFactory!CacheSynced("main", t)
       /\ UNCHANGED <<main, process, built, kubeSynced, working>>
    \/ /\ At("synced")
       /\ KubeFactory!WaitForCacheSyncReturns("main")
       /\ Proceed
       /\ UNCHANGED <<built, kubeSynced, working>>

\* Workers are launched.
Work ==
    /\ At("work")
    /\ working' = TRUE
    /\ Proceed
    /\ UNCHANGED <<built, kubeSynced, factory>>

Block ==
    /\ At("block") /\ StopChan \in closed
    /\ Proceed
    /\ UNCHANGED <<built, kubeSynced, working, factory>>

Return ==
    /\ exit = None /\ main > Len(Script)
    /\ Fail("0")
    /\ UNCHANGED <<built, kubeSynced, working, factory>>

Main ==
    \/ SetupSignalHandler \/ BuildClients \/ List \/ Register \/ Start
    \/ Sync \/ FactorySync \/ Work \/ Block \/ Return
-----------------------------------------------------------------------------
(***************************************************************************)
(* Signals (pkg/signals/signal.go).                                        *)
(***************************************************************************)
\* Mutants: a channel without a buffer, and one with room for every signal.
Unbuffered == 0
Roomy == 3

Buffered == 2

\* os/signal drops a signal that the channel does not take at once; without a
\* handler it ends the process.
Signal ==
    /\ exit = None /\ signals < MaxSignals
    /\ signals' = signals + 1
    /\ IF handler = "none"
       THEN exit' = "killed" /\ UNCHANGED channel
       ELSE /\ channel' = IF channel < Buffered \/ (channel = 0 /\ handler \in {"first", "second"})
                          THEN channel + 1 ELSE channel
            /\ UNCHANGED exit
    /\ UNCHANGED <<program, main, handler, built, kubeSynced, working, factory>>

Goto(from, to) == exit = None /\ handler = from /\ handler' = to

\* The goroutine: wait for a signal, cancel the context, wait for another, exit.
HandleSignals ==
    /\ \/ Goto("launched", "first") /\ UNCHANGED <<channel, closed, exit>>
       \/ /\ Goto("first", "cancel") /\ channel > 0
          /\ channel' = channel - 1
          /\ UNCHANGED <<closed, exit>>
       \/ /\ Goto("cancel", "second")
          /\ closed' = closed \cup {"ctx"}
          /\ UNCHANGED <<channel, exit>>
       \/ /\ Goto("second", "done") /\ channel > 0
          /\ channel' = channel - 1
          /\ exit' = "1"
          /\ UNCHANGED closed
    /\ UNCHANGED <<program, main, signals, built, kubeSynced, working,
                   informers, started, wg, shuttingDown, informer, call, stopped>>
-----------------------------------------------------------------------------
\* The informers' goroutines.
Informers ==
    /\ exit = None
    /\ \/ program = "foo" /\ FooFactory!Informers
       \/ program = "app" /\ AppFactory!Informers
       \/ program \in {"demo", "ingress"} /\ KubeFactory!Informers
    /\ UNCHANGED <<process, main, built, kubeSynced, working>>

KubeInformers ==
    /\ exit = None /\ program \in {"foo", "app"}
    /\ main > 4 /\ "ctx" \notin closed
    /\ ~kubeSynced /\ kubeSynced' = TRUE
    /\ UNCHANGED <<process, main, built, working, factory>>

Next == Main \/ Signal \/ HandleSignals \/ Informers \/ KubeInformers

Spec == Init /\ [][Next]_vars

\* The operating system runs the goroutines and the API server answers; nobody
\* has to send a signal.
FairSpec ==
    Spec /\ WF_vars(Main) /\ WF_vars(HandleSignals)
         /\ WF_vars(Informers) /\ WF_vars(KubeInformers)
-----------------------------------------------------------------------------
(***************************************************************************)
(* Properties.                                                             *)
(***************************************************************************)
TypeOK ==
    /\ program \in Program /\ main \in 1 .. Len(Script) + 1
    /\ exit \in {None, "0", "1", "2", "killed"}
    /\ signals \in 0 .. MaxSignals /\ channel \in 0 .. 2
    /\ handler \in {"none", "launched", "first", "cancel", "second", "done"}
    /\ config \in Configs \cup {None}
    /\ kubeSynced \in BOOLEAN /\ working \in BOOLEAN
    /\ informers \subseteq Kinds

\* "Wait for the caches to be synced before starting workers" (controller.go:162):
\* workers are never launched over a cache that is not full, also when a
\* signal ends the wait.
WorkersSeeFullCaches ==
    working => /\ \A t \in Kinds : informer[t].synced
               /\ program \in {"foo", "app"} => kubeSynced

Smaller(m, n) == IF m < n THEN m ELSE n

\* Neither of the two signals that are asked for is lost, also when they are
\* sent before the handler's goroutine runs (signal.go:33-41).
NoSignalIsLost ==
    exit = None /\ handler # "none" =>
       Smaller(signals, 2) <= channel + (IF handler \in {"cancel", "second"} THEN 1 ELSE 0)

\* "A context is returned which is cancelled on one of these signals"
\* (signal.go:27-28), and every wait of main ends with it: a signal always
\* stops the process.
SignalStops == signals > 0 ~> exit # None

\* A controller that nothing stops comes to launch its workers: what it waits
\* for was registered and started before.
WorkersStart == program \in {"foo", "app", "ingress"} ~> working \/ exit # None

\* A config that can work is accepted, and "if config's RateLimiter is not set
\* and QPS and Burst are acceptable" (clientset.go:56-57) all clients of the
\* set share one rate limiter and one transport, and each has its own group.
ClientsFitConfig ==
    /\ config # None =>
         LET acceptable == /\ config.host = "good" /\ config.transport = "good"
                           /\ config.limiter # None \/ config.qps <= 0 \/ config.burst > 0
         IN acceptable <=> clients # {}
    /\ clients # {} =>
         /\ Cardinality({r.group : r \in clients}) = 2
         /\ Cardinality({r.http : r \in clients}) = 1
         /\ config.limiter # None \/ config.qps > 0 =>
              Cardinality({r.limiter : r \in clients}) = 1
=============================================================================
