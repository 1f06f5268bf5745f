---------------------------- MODULE ProgramsProofs ----------------------------
(***************************************************************************)
(* For every set of programs, every rest.Config and any number of signals: *)
(* workers find full caches, and neither of the two signals that are asked *)
(* for is lost.                                                            *)
(***************************************************************************)
EXTENDS Programs, FiniteSetTheorems, TLAPS

Sample == program \in {"foo", "app"}
Kube == program \in {"demo", "ingress"}

\* The kinds the program's factory knows.
Known ==
    CASE program = "foo" -> {"foos"}
      [] program = "app" -> {"apps"}
      [] program = "generator" -> {"crdfoos"}
      [] Kube -> {"pods", "services", "ingresses"}

Waiting == [op : {"none", "shutdown", "sync"}, chan : Chan \cup {None},
            pending : SUBSET Known, synced : SUBSET Known]

\* The factory's state, as far as main depends on it.
FactoryOK ==
    /\ informer \in [Known -> FooFactory!Goroutine]
    /\ call \in [Caller -> Waiting]
    /\ started \subseteq Known /\ closed \subseteq Chan

\* Without a signal handler, or before there is one, nobody closes a channel.
Unstopped == Kube \/ main = 1 => handler = "none" /\ closed = {}

Full == \A t \in Kinds : informer[t].synced

\* What main has behind it at each of its steps.
MainOK ==
    /\ Sample /\ main > 5 => HasSynced
    /\ Kube => /\ main > 2 => informers = Kinds
               /\ main > 3 => Kinds \subseteq started
               /\ main = 5 => /\ call["main"].chan = "never"
                              /\ \A t \in Kinds :
                                    informer[t].synced \/ t \in call["main"].pending
               /\ main > 5 => Full
    /\ working => (Sample \/ Kube) /\ main > 6

\* The handler's goroutine, and the signals it has not seen yet.
SignalsOK ==
    exit = None => /\ handler # "done"
                   /\ handler = "none" => signals = 0
                   /\ NoSignalIsLost

IInv == TypeOK /\ FactoryOK /\ Unstopped /\ MainOK /\ SignalsOK
-----------------------------------------------------------------------------
\* A process that has ended says how.
LEMMA NoneIsNoCode == None \notin {"0", "1", "2", "killed"}
  BY ConstantsAssumption

\* Where main is when it is at a step.
LEMMA Where ==
    ASSUME TypeOK
    PROVE  /\ program \in {"foo", "app", "generator", "demo", "ingress"}
           /\ \A step : At(step) => exit = None /\ main \in 1 .. Len(Script)
           /\ At("handler") => Sample /\ main = 1
           /\ At("clients") => main = IF Sample THEN 2 ELSE 1
           /\ At("list") => program = "generator" /\ main = 2
           /\ At("register") => main = IF Kube THEN 2 ELSE 3
           /\ At("start") => (Sample /\ main = 4) \/ (Kube /\ main = 3)
           /\ At("sync") => Sample /\ main = 5
           /\ At("wait") => Kube /\ main = 4
           /\ At("synced") => Kube /\ main = 5
           /\ At("work") => (Sample \/ Kube) /\ main = 6
           /\ At("block") => (Sample \/ Kube) /\ main > 5
<1>1. program \in {"foo", "app", "generator", "demo", "ingress"}
  BY ConstantsAssumption DEF TypeOK
<1>2. main \in 1 .. Len(Script) + 1 /\ Len(Script) \in {3, 6, 7}
  BY <1>1 DEF TypeOK, Script, SampleScript, GeneratorScript, DemoScript, IngressScript
<1>3. \A step : At(step) => exit = None /\ main \in 1 .. Len(Script)
  BY <1>2 DEF At
<1>4. CASE program \in {"foo", "app"}
  <2>1. Script = SampleScript /\ Len(SampleScript) = 7 /\ (Sample <=> program \in {"foo", "app"})
        /\ (Kube <=> program \in {"demo", "ingress"})
    BY <1>1, <1>4 DEF Script, SampleScript, Sample, Kube
  <2>2. ASSUME NEW step, At(step) PROVE main \in 1 .. 7 /\ SampleScript[main] = step
    BY <1>3, <2>1, <2>2 DEF At
  <2> QED  BY <1>1, <1>3, <1>4, <2>1, <2>2 DEF SampleScript
<1>5. CASE program = "generator"
  <2>1. Script = GeneratorScript /\ Len(GeneratorScript) = 3 /\ (Sample <=> program \in {"foo", "app"})
        /\ (Kube <=> program \in {"demo", "ingress"})
    BY <1>1, <1>5 DEF Script, GeneratorScript, Sample, Kube
  <2>2. ASSUME NEW step, At(step) PROVE main \in 1 .. 3 /\ GeneratorScript[main] = step
    BY <1>3, <2>1, <2>2 DEF At
  <2> QED  BY <1>1, <1>3, <1>5, <2>1, <2>2 DEF GeneratorScript
<1>6. CASE program = "demo"
  <2>1. Script = DemoScript /\ Len(DemoScript) = 6 /\ (Sample <=> program \in {"foo", "app"})
        /\ (Kube <=> program \in {"demo", "ingress"})
    BY <1>1, <1>6 DEF Script, DemoScript, Sample, Kube
  <2>2. ASSUME NEW step, At(step) PROVE main \in 1 .. 6 /\ DemoScript[main] = step
    BY <1>3, <2>1, <2>2 DEF At
  <2> QED  BY <1>1, <1>3, <1>6, <2>1, <2>2 DEF DemoScript
<1>7. CASE program = "ingress"
  <2>1. Script = IngressScript /\ Len(IngressScript) = 7 /\ (Sample <=> program \in {"foo", "app"})
        /\ (Kube <=> program \in {"demo", "ingress"})
    BY <1>1, <1>7 DEF Script, IngressScript, Sample, Kube
  <2>2. ASSUME NEW step, At(step) PROVE main \in 1 .. 7 /\ IngressScript[main] = step
    BY <1>3, <2>1, <2>2 DEF At
  <2> QED  BY <1>1, <1>3, <1>7, <2>1, <2>2 DEF IngressScript
<1> QED  BY <1>1, <1>4, <1>5, <1>6, <1>7

\* What depends on the program alone.
LEMMA SameProgram ==
    ASSUME program' = program
    PROVE  /\ Script' = Script /\ Kinds' = Kinds /\ Known' = Known
           /\ Sample' = Sample /\ Kube' = Kube /\ Waiting' = Waiting
  BY DEF Script, Kinds, Known, Sample, Kube, Waiting

\* The kinds a program uses are known to its factory.
LEMMA KnownKinds ==
    ASSUME program \in {"foo", "app", "generator", "demo", "ingress"}
    PROVE  /\ Kinds \subseteq Known /\ (Sample => ~Kube)
           /\ program = "foo" => Known = {"foos"} /\ Kinds = {"foos"}
           /\ program = "app" => Known = {"apps"} /\ Kinds = {"apps"}
           /\ program = "generator" => Known = {"crdfoos"} /\ Kinds = {"crdfoos"}
           /\ Kube => Known = {"pods", "services", "ingresses"}
  BY DEF Kinds, Known, Sample, Kube

\* At first main has nothing behind it.
LEMMA InitIInv == Init => IInv
<1> SUFFICES ASSUME Init PROVE IInv
  OBVIOUS
<1>1. program \in {"foo", "app", "generator", "demo", "ingress"}
  BY ConstantsAssumption DEF Init
<1>2. /\ informer = [t \in Known |-> [state |-> "new", chan |-> None, synced |-> FALSE, runs |-> 0]]
      /\ call = [c \in Caller |-> [op |-> "none", chan |-> None, pending |-> {}, synced |-> {}]]
      /\ informers = {} /\ started = {} /\ closed = {}
  BY <1>1, KnownKinds
     DEF Init, Kube, FooFactory!Init, AppFactory!Init, CrdFactory!Init, KubeFactory!Init,
         FooFactory!NotStarted, AppFactory!NotStarted, CrdFactory!NotStarted,
         KubeFactory!NotStarted, FooFactory!NoCall, AppFactory!NoCall, CrdFactory!NoCall,
         KubeFactory!NoCall
<1>3. Len(Script) \in {3, 6, 7}
  BY <1>1 DEF Script, SampleScript, GeneratorScript, DemoScript, IngressScript
<1>4. TypeOK
  <2>1. main \in 1 .. Len(Script) + 1 /\ signals \in 0 .. MaxSignals /\ channel \in 0 .. 2
    BY <1>3, ConstantsAssumption DEF Init
  <2> QED  BY <1>2, <2>1 DEF Init, TypeOK
<1>5. FactoryOK
  BY <1>2 DEF FactoryOK, FooFactory!Goroutine, Waiting
<1>6. Unstopped /\ MainOK /\ SignalsOK
  BY <1>2, NoneIsNoCode DEF Init, Unstopped, MainOK, SignalsOK, NoSignalIsLost, Smaller
<1> QED  BY <1>4, <1>5, <1>6 DEF IInv
-----------------------------------------------------------------------------
(***************************************************************************)
(* main.                                                                   *)
(***************************************************************************)
\* main goes on, or the process ends, and nothing else happens to signals.
LEMMA GoesOn ==
    ASSUME IInv, exit = None, config' \in Configs \cup {None},
           kubeSynced' = kubeSynced, working' \in BOOLEAN, informers' \subseteq Kinds,
           \/ Proceed /\ main \in 1 .. Len(Script)
           \/ UNCHANGED <<main, process>>
           \/ \E code \in {"0", "1", "2"} : Fail(code)
    PROVE  TypeOK' /\ SignalsOK' /\ program' = program /\ main' \in {main, main + 1}
<1>1. /\ program' = program /\ main' \in {main, main + 1}
      /\ UNCHANGED <<signals, channel, handler>>
      /\ exit' \in {exit, "0", "1", "2"} /\ main' \in 1 .. Len(Script) + 1
  <2>1. main \in 1 .. Len(Script) + 1 /\ Len(Script) \in {3, 6, 7}
    BY Where DEF IInv, TypeOK, Script, SampleScript, GeneratorScript, DemoScript, IngressScript
  <2> QED  BY <2>1 DEF Proceed, Fail, process
<1>2. Script' = Script /\ Kinds' = Kinds
  BY <1>1, SameProgram
<1>3. TypeOK'
  BY <1>1, <1>2 DEF IInv, TypeOK
<1>4. SignalsOK'
  BY <1>1, NoneIsNoCode DEF IInv, SignalsOK, NoSignalIsLost
<1> QED  BY <1>1, <1>3, <1>4

\* Steps of main that leave the factory alone.
LEMMA AloneIInv ==
    ASSUME IInv, UNCHANGED factory, kubeSynced' = kubeSynced,
           TypeOK', SignalsOK', program' = program, main' \in {main, main + 1},
           handler' = handler \/ (~Kube /\ main' # 1),
           main' # main /\ Sample /\ main = 5 => HasSynced,
           main' # main => ~(Kube /\ main \in {2, 3, 4, 5}),
           working' = working \/ ((Sample \/ Kube) /\ main = 6 /\ main' = 7)
    PROVE  IInv'
<1>1. Script' = Script /\ Kinds' = Kinds /\ Known' = Known /\ Sample' = Sample /\ Kube' = Kube
  BY SameProgram
<1>2. UNCHANGED <<informers, started, informer, closed, call>>
  BY DEF factory
<1>3. FactoryOK'
  BY <1>1, <1>2 DEF IInv, FactoryOK, Waiting
<1>4. main \in Nat \ {0}
  BY DEF IInv, TypeOK
<1>5. Unstopped'
  BY <1>1, <1>2, <1>4 DEF IInv, Unstopped
<1>6. MainOK'
  BY <1>1, <1>2, <1>4, KnownKinds, Where DEF IInv, MainOK, HasSynced, Full
<1> QED  BY <1>3, <1>5, <1>6 DEF IInv

\* The signal handler, the clients, the generator's list, the wait of the
\* sample controllers, the workers and the end.
LEMMA PlainIInv ==
    ASSUME IInv, SetupSignalHandler \/ BuildClients \/ List \/ Sync \/ Work \/ Block \/ Return
    PROVE  IInv'
<1>0. TypeOK /\ main \in 1 .. Len(Script) + 1 /\ informers \subseteq Kinds
      /\ config \in Configs \cup {None} /\ working \in BOOLEAN
  BY DEF IInv, TypeOK
<1>1. CASE SetupSignalHandler
  <2>1. /\ At("handler") /\ handler' = "launched" /\ main' = main + 1
        /\ UNCHANGED <<program, exit, signals, channel, built, kubeSynced, working, factory>>
    BY <1>1 DEF SetupSignalHandler
  <2>2. Sample /\ main = 1 /\ exit = None /\ main \in 1 .. Len(Script)
    BY <1>0, <2>1, Where
  <2>3. ~Kube
    BY <2>2 DEF Sample, Kube
  <2>4. Script' = Script /\ Kinds' = Kinds
    BY <2>1, SameProgram
  <2>5. main + 1 \in 1 .. Len(Script) + 1
    <3>1. Len(Script) \in {3, 6, 7}
      BY <1>0, Where DEF Script, SampleScript, GeneratorScript, DemoScript, IngressScript
    <3> QED  BY <2>2, <3>1
  <2>6. TypeOK'
    BY <1>0, <2>1, <2>4, <2>5 DEF TypeOK, built, factory
  <2>7. SignalsOK'
    <3>1. handler = "none" /\ signals = 0 /\ channel \in 0 .. 2
      BY <2>2 DEF IInv, TypeOK, Unstopped, SignalsOK
    <3> QED  BY <2>1, <3>1 DEF SignalsOK, NoSignalIsLost, Smaller
  <2> QED  BY <2>1, <2>2, <2>3, <2>6, <2>7, AloneIInv
<1>2. CASE BuildClients
  <2>1. /\ At("clients") /\ config' \in Configs /\ UNCHANGED <<kubeSynced, working, factory>>
        /\ Proceed \/ \E code \in {"0", "1", "2"} : Fail(code)
    BY <1>2 DEF BuildClients
  <2>2. exit = None /\ main \in 1 .. Len(Script) /\ main = IF Sample THEN 2 ELSE 1
    BY <1>0, <2>1, Where
  <2>3. Sample => ~Kube
    BY DEF Sample, Kube
  <2>4. handler' = handler /\ informers' = informers
    BY <2>1 DEF Proceed, Fail, process, factory
  <2> QED  BY <1>0, <2>1, <2>2, <2>3, <2>4, GoesOn, AloneIInv
<1>3. CASE List \/ Sync \/ Work \/ Block \/ Return
  <2>1. /\ UNCHANGED <<config, kubeSynced, factory>> /\ handler' = handler
        /\ working' = working \/ (working' = TRUE /\ At("work") /\ Proceed)
        /\ \/ /\ Proceed
              /\ \/ At("list") \/ At("work") \/ At("block")
                 \/ At("sync") /\ HasSynced
           \/ exit = None /\ \E code \in {"0", "1", "2"} : Fail(code)
    BY <1>3 DEF List, Sync, Work, Block, Return, At, Proceed, Fail, process, built
  <2>2. informers' = informers
    BY <2>1 DEF factory
  <2>3. CASE exit = None /\ \E code \in {"0", "1", "2"} : Fail(code)
    <3>1. main' = main
      BY <2>3 DEF Fail
    <3>2. working' = working
      BY <1>0, <2>1, <3>1 DEF Proceed
    <3> QED  BY <1>0, <2>1, <2>2, <2>3, <3>1, <3>2, GoesOn, AloneIInv
  <2>4. CASE /\ Proceed
             /\ \/ At("list") \/ At("work") \/ At("block")
                \/ At("sync") /\ HasSynced
    <3>1. main' = main + 1 /\ exit = None /\ main \in 1 .. Len(Script)
      BY <1>0, <2>4, Where DEF Proceed
    <3>2. ~Kube \/ main > 5
      <4>1. Sample => ~Kube
        BY DEF Sample, Kube
      <4>2. program = "generator" => ~Kube
        BY DEF Kube
      <4> QED  BY <1>0, <2>4, <4>1, <4>2, Where
    <3>3. /\ Sample /\ main = 5 => HasSynced
          /\ ~(Kube /\ main \in {2, 3, 4, 5})
          /\ working' = working \/ ((Sample \/ Kube) /\ main = 6 /\ main' = 7)
      <4>1. At("list") => ~Sample
        BY <1>0, Where DEF Sample
      <4> QED  BY <1>0, <2>1, <2>4, <3>1, <3>2, <4>1, Where
    <3> QED  BY <1>0, <2>1, <2>2, <2>4, <3>1, <3>3, GoesOn, AloneIInv
  <2> QED  BY <2>1, <2>3, <2>4
<1> QED  BY <1>1, <1>2, <1>3

\* Registering informers.
LEMMA RegisterIInv == ASSUME IInv, Register PROVE IInv'
<1>0. TypeOK /\ FactoryOK /\ Unstopped /\ MainOK
  BY DEF IInv
<1>1. /\ At("register") /\ UNCHANGED <<config, clients, kubeSynced, working>>
      /\ UNCHANGED <<started, informer, closed, call>>
      /\ \E k \in Kinds : informers' = informers \cup {k}
      /\ IF Kube /\ informers' # Kinds THEN UNCHANGED <<main, process>> ELSE Proceed
  <2>1. At("register") /\ UNCHANGED <<built, kubeSynced, working>>
    BY DEF Register
  <2>2. CASE program \in {"foo", "app", "generator"}
    BY <1>0, <2>1, <2>2, Where, KnownKinds
       DEF Register, Kube, built, FooFactory!InformerFor, AppFactory!InformerFor,
           CrdFactory!InformerFor
  <2>3. CASE Kube
    BY <1>0, <2>1, <2>3, Where DEF Register, Kube, built, KubeFactory!InformerFor
  <2> QED  BY <1>0, <2>2, <2>3, Where DEF Kube
<1>2. /\ exit = None /\ main \in 1 .. Len(Script) /\ main = IF Kube THEN 2 ELSE 3
      /\ config' \in Configs \cup {None} /\ working' \in BOOLEAN /\ informers' \subseteq Kinds
  BY <1>0, <1>1, Where DEF TypeOK
<1>3. TypeOK' /\ SignalsOK' /\ program' = program /\ main' \in {main, main + 1}
  BY <1>1, <1>2, GoesOn
<1>4. Script' = Script /\ Kinds' = Kinds /\ Known' = Known /\ Sample' = Sample /\ Kube' = Kube
  BY <1>3, SameProgram
<1>5. FactoryOK'
  BY <1>0, <1>1, <1>4 DEF FactoryOK, Waiting
<1>6. handler' = handler
  BY <1>1 DEF Proceed, process
<1>7. Unstopped'
  BY <1>0, <1>1, <1>2, <1>3, <1>4, <1>6 DEF Unstopped
<1>8. MainOK'
  <2>1. ~working
    BY <1>0, <1>2 DEF MainOK
  <2>2. Kube => (main' = 2 \/ (main' = 3 /\ informers' = Kinds))
    BY <1>1, <1>2 DEF Proceed
  <2>3. ~Kube => main' \in {3, 4}
    BY <1>2, <1>3
  <2>4. Sample => ~Kube
    BY DEF Sample, Kube
  <2> QED  BY <1>1, <1>4, <2>1, <2>2, <2>3, <2>4 DEF MainOK
<1> QED  BY <1>3, <1>5, <1>7, <1>8 DEF IInv

\* Informers S run.
Ran(S, ch) ==
    informer' = [t \in Known |->
        IF t \in S
        THEN [informer[t] EXCEPT !.state = "running", !.chan = ch, !.runs = @ + 1]
        ELSE informer[t]]

\* Starting them keeps the caches that are full.
LEMMA RunStep ==
    ASSUME informer \in [Known -> FooFactory!Goroutine], NEW S, NEW ch \in Chan, Ran(S, ch)
    PROVE  /\ informer' \in [Known -> FooFactory!Goroutine]
           /\ \A t \in Known : informer'[t].synced = informer[t].synced
<1>1. ASSUME NEW t \in Known
      PROVE  informer'[t] \in FooFactory!Goroutine /\ informer'[t].synced = informer[t].synced
  <2>1. informer[t] \in FooFactory!Goroutine
    OBVIOUS
  <2>2. CASE t \in S
    <3>1. informer'[t] = [informer[t] EXCEPT !.state = "running", !.chan = ch, !.runs = @ + 1]
      BY <2>2 DEF Ran
    <3>2. informer[t].runs + 1 \in Nat
      BY <2>1 DEF FooFactory!Goroutine
    <3>3. PICK n \in Nat : n = informer[t].runs + 1
      BY <3>2
    <3>4. informer'[t] = [informer[t] EXCEPT !.state = "running", !.chan = ch, !.runs = n]
      BY <3>1, <3>3
    <3> QED  BY <2>1, <3>4 DEF FooFactory!Goroutine
  <2>3. CASE t \notin S
    BY <2>1, <2>3 DEF Ran
  <2> QED  BY <2>2, <2>3
<1>2. informer' = [t \in Known |-> informer'[t]]
  BY DEF Ran
<1> QED  BY <1>1, <1>2

\* Starting what is registered.
LEMMA StartIInv == ASSUME IInv, Start PROVE IInv'
<1>0. TypeOK /\ FactoryOK /\ Unstopped /\ MainOK
  BY DEF IInv
<1>1. /\ At("start") /\ Proceed /\ UNCHANGED <<config, clients, kubeSynced, working>>
  BY DEF Start, built
<1>2. (Sample /\ main = 4) \/ (Kube /\ main = 3)
  BY <1>0, <1>1, Where
<1>3. /\ started' = started \cup (informers \ started)
      /\ UNCHANGED <<informers, closed, call>>
      /\ Ran(informers \ started, StopChan)
  <2>1. CASE program = "foo"
    BY <1>0, <2>1, KnownKinds, Where DEF Start, Ran, FooFactory!Start, FooFactory!Run
  <2>2. CASE program = "app"
    BY <1>0, <2>2, KnownKinds, Where DEF Start, Ran, AppFactory!Start, AppFactory!Run
  <2>3. CASE Kube
    BY <1>0, <2>3, KnownKinds, Where DEF Start, Ran, Kube, KubeFactory!Start, KubeFactory!Run
  <2> QED  BY <1>2, <2>1, <2>2, <2>3 DEF Sample
<1>4. /\ informer' \in [Known -> FooFactory!Goroutine]
      /\ \A t \in Known : informer'[t].synced = informer[t].synced
  <2>1. StopChan \in Chan
    BY DEF StopChan, Chan
  <2> QED  BY <1>0, <1>3, <2>1, RunStep DEF FactoryOK
<1>5. /\ exit = None /\ main \in 1 .. Len(Script)
      /\ config' \in Configs \cup {None} /\ working' \in BOOLEAN
      /\ informers' \subseteq Kinds /\ Kinds \subseteq Known
  BY <1>0, <1>1, <1>3, Where, KnownKinds DEF TypeOK
<1>6. TypeOK' /\ SignalsOK' /\ program' = program
  BY <1>1, <1>5, GoesOn
<1>7. Script' = Script /\ Kinds' = Kinds /\ Known' = Known /\ Sample' = Sample /\ Kube' = Kube
  BY <1>6, SameProgram
<1>8. FactoryOK'
  BY <1>0, <1>3, <1>4, <1>5, <1>7 DEF FactoryOK, Waiting
<1>9. handler' = handler /\ main' = main + 1
  BY <1>1 DEF Proceed, process
<1>10. Unstopped'
  BY <1>0, <1>2, <1>3, <1>7, <1>9 DEF Unstopped
<1>11. MainOK'
  <2>1. ~working
    BY <1>0, <1>2 DEF MainOK
  <2>2. Kube => informers = Kinds
    BY <1>0, <1>2 DEF MainOK, Sample, Kube
  <2>3. Sample => ~Kube
    BY DEF Sample, Kube
  <2> QED  BY <1>1, <1>2, <1>3, <1>7, <1>9, <2>1, <2>2, <2>3 DEF MainOK
<1> QED  BY <1>6, <1>8, <1>10, <1>11 DEF IInv

\* The factory's WaitForCacheSync: it waits for all kinds the program uses, and
\* nobody closes its channel.
LEMMA FactorySyncIInv == ASSUME IInv, FactorySync PROVE IInv'
<1>0. TypeOK /\ FactoryOK /\ Unstopped /\ MainOK
  BY DEF IInv
<1>1. /\ Kube /\ exit = None /\ main \in {4, 5} /\ main \in 1 .. Len(Script)
      /\ UNCHANGED <<config, clients, kubeSynced, working>>
      /\ UNCHANGED <<informers, started, informer, closed>>
      /\ StopChan = "never" /\ closed = {}
  <2>1. At("wait") \/ At("synced")
    BY DEF FactorySync
  <2>2. Kube /\ exit = None /\ main \in {4, 5} /\ main \in 1 .. Len(Script)
    BY <1>0, <2>1, Where
  <2>3. /\ UNCHANGED <<config, clients, kubeSynced, working>>
        /\ UNCHANGED <<informers, started, informer, closed>>
    BY DEF FactorySync, built, KubeFactory!WaitForCacheSync, KubeFactory!CacheSynced,
           KubeFactory!WaitForCacheSyncReturns
  <2> QED  BY <1>0, <2>2, <2>3 DEF Unstopped, StopChan, Kube
<1>2. Known = {"pods", "services", "ingresses"} /\ Kinds \subseteq Known /\ ~Sample
  BY <1>0, <1>1, Where, KnownKinds
<1>3. call["main"] \in Waiting /\ "main" \in Caller
  BY <1>0 DEF FactoryOK, Caller
<1>4. /\ \/ /\ Proceed /\ main = 4
            /\ call'["main"].chan = "never" /\ call'["main"].pending = informers \cap started
         \/ /\ UNCHANGED <<main, process>> /\ main = 5
            /\ call'["main"].chan = call["main"].chan
            /\ \E t \in Kinds : /\ informer[t].synced \/ call["main"].chan \in closed
                                /\ call'["main"].pending = call["main"].pending \ {t}
         \/ Proceed /\ main = 5 /\ call["main"].pending = {}
      /\ call' \in [Caller -> Waiting]
  <2>1. CASE At("wait") /\ KubeFactory!WaitForCacheSync("main", StopChan) /\ Proceed
    <3>1. call' = [call EXCEPT !["main"] = [op |-> "sync", chan |-> StopChan, synced |-> {},
                                            pending |-> informers \cap started]]
      BY <2>1 DEF KubeFactory!WaitForCacheSync
    <3>2. main = 4 /\ StopChan \in Chan
      BY <1>0, <1>1, <2>1, Where DEF Chan
    <3>3. informers \cap started \subseteq Known
      BY <1>0 DEF FactoryOK
    <3> QED  BY <1>0, <1>1, <1>3, <2>1, <3>1, <3>2, <3>3 DEF FactoryOK, Waiting
  <2>2. CASE /\ At("synced") /\ \E t \in Kinds : KubeFactory!CacheSynced("main", t)
             /\ UNCHANGED <<main, process>>
    <3>1. PICK t \in Kinds : KubeFactory!CacheSynced("main", t)
      BY <2>2
    <3>2. main = 5
      BY <1>0, <2>2, Where
    <3>3. CASE /\ informer[t].synced
               /\ call' = [call EXCEPT !["main"].pending = @ \ {t}, !["main"].synced = @ \cup {t}]
      BY <1>0, <1>2, <1>3, <2>2, <3>2, <3>3 DEF FactoryOK, Waiting
    <3>4. CASE /\ call["main"].chan \in closed
               /\ call' = [call EXCEPT !["main"].pending = @ \ {t}]
      BY <1>0, <1>2, <1>3, <2>2, <3>2, <3>4 DEF FactoryOK, Waiting
    <3> QED  BY <3>1, <3>3, <3>4 DEF KubeFactory!CacheSynced
  <2>3. CASE At("synced") /\ KubeFactory!WaitForCacheSyncReturns("main") /\ Proceed
    <3>1. main = 5 /\ call["main"].pending = {}
          /\ call' = [call EXCEPT !["main"] = KubeFactory!NoCall]
      BY <1>0, <2>3, Where DEF KubeFactory!WaitForCacheSyncReturns
    <3>2. KubeFactory!NoCall \in Waiting
      BY DEF KubeFactory!NoCall, Waiting
    <3> QED  BY <1>0, <2>3, <3>1, <3>2 DEF FactoryOK
  <2> QED  BY <2>1, <2>2, <2>3 DEF FactorySync
<1>5. config' \in Configs \cup {None} /\ working' \in BOOLEAN /\ informers' \subseteq Kinds
  BY <1>0, <1>1 DEF TypeOK
<1>6. TypeOK' /\ SignalsOK' /\ program' = program /\ main' \in {main, main + 1}
  <2>1. Proceed \/ UNCHANGED <<main, process>>
    BY <1>4
  <2> QED  BY <1>1, <1>5, <2>1, GoesOn
<1>7. Script' = Script /\ Kinds' = Kinds /\ Known' = Known /\ Sample' = Sample /\ Kube' = Kube
  BY <1>6, SameProgram
<1>8. FactoryOK'
  <2>1. call' \in [Caller -> Waiting'] /\ Known' = Known
    BY <1>4, <1>6, SameProgram
  <2> QED  BY <1>0, <1>1, <2>1 DEF FactoryOK
<1>9. handler' = handler
  BY <1>4 DEF Proceed, process
<1>10. Unstopped'
  BY <1>0, <1>1, <1>7, <1>9 DEF Unstopped
<1>11. MainOK'
  <2>1. informers = Kinds /\ Kinds \subseteq started /\ ~working
    BY <1>0, <1>1 DEF MainOK
  <2>2. CASE /\ Proceed /\ main = 4 /\ call'["main"].chan = "never"
             /\ call'["main"].pending = informers \cap started
    BY <1>1, <1>2, <1>7, <2>1, <2>2 DEF MainOK, Proceed
  <2>3. CASE /\ UNCHANGED <<main, process>> /\ main = 5
             /\ call'["main"].chan = call["main"].chan
             /\ \E t \in Kinds : /\ informer[t].synced \/ call["main"].chan \in closed
                                 /\ call'["main"].pending = call["main"].pending \ {t}
    BY <1>0, <1>1, <1>2, <1>7, <2>1, <2>3 DEF MainOK
  <2>4. CASE Proceed /\ main = 5 /\ call["main"].pending = {}
    BY <1>0, <1>1, <1>2, <1>7, <2>1, <2>4 DEF MainOK, Proceed, Full
  <2> QED  BY <1>4, <2>2, <2>3, <2>4
<1> QED  BY <1>6, <1>8, <1>10, <1>11 DEF IInv

\* main keeps the invariant.
LEMMA MainIInv == ASSUME IInv, Main PROVE IInv'
  BY PlainIInv, RegisterIInv, StartIInv, FactorySyncIInv DEF Main
-----------------------------------------------------------------------------
(***************************************************************************)
(* Signals, and the informers.                                             *)
(***************************************************************************)
\* While main stays where it is, caches only fill.
LEMMA MonotoneMain ==
    ASSUME IInv, UNCHANGED <<program, main, working, informers, started, call>>,
           kubeSynced => kubeSynced', \A t \in Known : informer[t].synced => informer'[t].synced
    PROVE  MainOK'
<1>1. Kinds' = Kinds /\ Sample' = Sample /\ Kube' = Kube /\ Kinds \subseteq Known
  BY SameProgram, KnownKinds, Where DEF IInv
<1>2. (HasSynced => HasSynced') /\ (Full => Full')
  BY <1>1 DEF HasSynced, Full
<1> QED  BY <1>1, <1>2 DEF IInv, MainOK

\* A signal is taken into the channel as long as fewer than two are there.
LEMMA SignalIInv == ASSUME IInv, Signal PROVE IInv'
<1>1. /\ exit = None /\ signals < MaxSignals /\ signals' = signals + 1
      /\ UNCHANGED <<program, main, handler, config, clients, kubeSynced, working>>
      /\ UNCHANGED <<informers, started, informer, closed, call>>
      /\ IF handler = "none" THEN exit' = "killed" /\ UNCHANGED channel
         ELSE /\ channel' \in {channel, channel + 1}
              /\ channel < 2 <=> channel' = channel + 1
              /\ UNCHANGED exit
  <2>1. channel \in 0 .. 2
    BY DEF IInv, TypeOK
  <2> QED  BY <2>1 DEF Signal, Buffered, built, factory
<1>2. Script' = Script /\ Kinds' = Kinds /\ Known' = Known /\ Sample' = Sample /\ Kube' = Kube
  BY <1>1, SameProgram
<1>3. signals \in 0 .. MaxSignals /\ channel \in 0 .. 2 /\ MaxSignals \in Nat
  BY ConstantsAssumption DEF IInv, TypeOK
<1>4. signals' \in 0 .. MaxSignals /\ channel' \in 0 .. 2
  BY <1>1, <1>3
<1>5. TypeOK'
  BY <1>1, <1>2, <1>4 DEF IInv, TypeOK
<1>6. FactoryOK' /\ Unstopped'
  BY <1>1, <1>2 DEF IInv, FactoryOK, Unstopped, Waiting
<1>7. MainOK'
  BY <1>1, MonotoneMain
<1>8. SignalsOK'
  <2>1. CASE handler = "none"
    BY <1>1, <2>1, NoneIsNoCode DEF SignalsOK
  <2>2. CASE handler # "none"
    BY <1>1, <1>3, <2>2 DEF IInv, SignalsOK, NoSignalIsLost, Smaller
  <2> QED  BY <2>1, <2>2
<1> QED  BY <1>5, <1>6, <1>7, <1>8 DEF IInv

\* The handler's goroutine takes signals one by one.
LEMMA HandleSignalsIInv == ASSUME IInv, HandleSignals PROVE IInv'
<1>1. /\ UNCHANGED <<program, main, signals, config, clients, kubeSynced, working>>
      /\ UNCHANGED <<informers, started, informer, call>>
      /\ exit = None
      /\ \/ /\ handler = "launched" /\ handler' = "first" /\ UNCHANGED <<channel, closed, exit>>
         \/ /\ handler = "first" /\ handler' = "cancel" /\ UNCHANGED <<closed, exit>>
            /\ channel > 0 /\ channel' = channel - 1
         \/ /\ handler = "cancel" /\ handler' = "second" /\ UNCHANGED <<channel, exit>>
            /\ closed' = closed \cup {"ctx"}
         \/ /\ handler = "second" /\ handler' = "done" /\ UNCHANGED closed
            /\ channel > 0 /\ channel' = channel - 1 /\ exit' = "1"
  BY DEF HandleSignals, Goto, built
<1>2. Script' = Script /\ Kinds' = Kinds /\ Known' = Known /\ Sample' = Sample /\ Kube' = Kube
  BY <1>1, SameProgram
<1>3. signals \in 0 .. MaxSignals /\ channel \in 0 .. 2 /\ MaxSignals \in Nat
  BY ConstantsAssumption DEF IInv, TypeOK
<1>4. channel' \in 0 .. 2 /\ exit' \in {None, "1"}
      /\ handler' \in {"first", "cancel", "second", "done"}
      /\ closed' \subseteq closed \cup {"ctx"}
  BY <1>1, <1>3
<1>5. TypeOK'
  BY <1>1, <1>2, <1>4 DEF IInv, TypeOK
<1>6. FactoryOK'
  BY <1>1, <1>2, <1>4 DEF IInv, FactoryOK, Waiting, Chan
<1>7. Unstopped'
  <2>1. ~Kube /\ main # 1
    BY <1>1 DEF IInv, Unstopped
  <2> QED  BY <1>1, <1>2, <2>1 DEF Unstopped
<1>8. MainOK'
  BY <1>1, MonotoneMain
<1>9. SignalsOK'
  BY <1>1, <1>3, NoneIsNoCode DEF IInv, SignalsOK, NoSignalIsLost, Smaller
<1> QED  BY <1>5, <1>6, <1>7, <1>8, <1>9 DEF IInv

\* An informer's cache fills, or an informer ends.
LEMMA InformersIInv == ASSUME IInv, Informers \/ KubeInformers PROVE IInv'
<1>1. /\ UNCHANGED <<program, main, exit, signals, channel, handler, config, clients, working>>
      /\ UNCHANGED <<informers, started, closed, call>>
      /\ kubeSynced => kubeSynced'
      /\ kubeSynced' \in BOOLEAN
      /\ informer' \in [Known -> FooFactory!Goroutine]
      /\ \A t \in Known : informer[t].synced => informer'[t].synced
  <2>0. kubeSynced \in BOOLEAN /\ informer \in [Known -> FooFactory!Goroutine]
    BY DEF IInv, TypeOK, FactoryOK
  <2>1. CASE KubeInformers
    BY <2>0, <2>1 DEF KubeInformers, process, built, factory
  <2>2. CASE Informers
    <3>1. /\ UNCHANGED <<program, main, exit, signals, channel, handler, config, clients, working>>
          /\ UNCHANGED <<informers, started, closed, call>> /\ kubeSynced' = kubeSynced
          /\ \E t \in Known : \/ informer' = [informer EXCEPT ![t].synced = TRUE]
                              \/ informer' = [informer EXCEPT ![t].state = "ended"]
      <4>1. CASE program = "foo" /\ FooFactory!Informers
        BY <2>2, <4>1, KnownKinds
           DEF Informers, process, built, FooFactory!Informers, FooFactory!Synced, FooFactory!Ended
      <4>2. CASE program = "app" /\ AppFactory!Informers
        BY <2>2, <4>2, KnownKinds
           DEF Informers, process, built, AppFactory!Informers, AppFactory!Synced, AppFactory!Ended
      <4>3. CASE Kube /\ KubeFactory!Informers
        BY <2>2, <4>3, KnownKinds
           DEF Informers, Kube, process, built, KubeFactory!Informers, KubeFactory!Synced,
               KubeFactory!Ended
      <4> QED  BY <2>2, <4>1, <4>2, <4>3 DEF Informers, Kube
    <3>2. PICK t \in Known : \/ informer' = [informer EXCEPT ![t].synced = TRUE]
                             \/ informer' = [informer EXCEPT ![t].state = "ended"]
      BY <3>1
    <3>3. informer[t] \in FooFactory!Goroutine
      BY <2>0
    <3>4. /\ [informer[t] EXCEPT !.synced = TRUE] \in FooFactory!Goroutine
          /\ [informer[t] EXCEPT !.state = "ended"] \in FooFactory!Goroutine
          /\ [informer[t] EXCEPT !.synced = TRUE].synced
          /\ [informer[t] EXCEPT !.state = "ended"].synced = informer[t].synced
      BY <3>3 DEF FooFactory!Goroutine
    <3>5. PICK g \in FooFactory!Goroutine :
             /\ informer' = [informer EXCEPT ![t] = g]
             /\ informer[t].synced => g.synced
      BY <3>2, <3>4
    <3> QED  BY <2>0, <3>1, <3>5
  <2> QED  BY <2>1, <2>2
<1>2. Script' = Script /\ Kinds' = Kinds /\ Known' = Known /\ Sample' = Sample /\ Kube' = Kube
  BY <1>1, SameProgram
<1>3. TypeOK'
  <2>1. kubeSynced' \in BOOLEAN
    BY <1>1
  <2>2. TypeOK
    BY DEF IInv
  <2> QED  BY <1>1, <1>2, <2>1, <2>2, Zenon DEF TypeOK
<1>4. FactoryOK' /\ Unstopped'
  BY <1>1, <1>2 DEF IInv, FactoryOK, Unstopped, Waiting
<1>5. MainOK'
  BY <1>1, MonotoneMain
<1>6. SignalsOK'
  BY <1>1 DEF IInv, SignalsOK, NoSignalIsLost
<1> QED  BY <1>3, <1>4, <1>5, <1>6 DEF IInv

\* IInv is inductive.
LEMMA NextIInv == IInv /\ [Next]_vars => IInv'
<1>1. IInv /\ UNCHANGED vars => IInv'
  <2> SUFFICES ASSUME IInv, UNCHANGED vars PROVE IInv'
    OBVIOUS
  <2>1. UNCHANGED <<program, main, exit, signals, channel, handler, config, clients, kubeSynced,
                    working, informers, started, informer, closed, call>>
    BY DEF vars, factory
  <2>2. Script' = Script /\ Kinds' = Kinds /\ Known' = Known /\ Sample' = Sample /\ Kube' = Kube
    BY <2>1, SameProgram
  <2>3. MainOK'
    BY <2>1, MonotoneMain
  <2> QED  BY <2>1, <2>2, <2>3
           DEF IInv, TypeOK, FactoryOK, Unstopped, SignalsOK, NoSignalIsLost, Waiting
<1> QED  BY <1>1, MainIInv, SignalIInv, HandleSignalsIInv, InformersIInv DEF Next

\* A program's main goes through its steps in order, whatever fails, and only
\* with the informers it asked for (app-contoller/main.go:40-81).
THEOREM TypeCorrect == Spec => []TypeOK
<1>1. IInv => TypeOK
  BY DEF IInv
<1> QED  BY <1>1, InitIInv, NextIInv, PTL DEF Spec

\* No main launches a worker before the caches of all the informers it uses
\* have been filled: the informers are registered before the factory is
\* started, so that its wait is for all of them, and a signal that ends the
\* wait ends the process (controller.go:162-167).
THEOREM FullCachesBeforeWorkers == Spec => []WorkersSeeFullCaches
<1>1. IInv => WorkersSeeFullCaches
  <2>1. IInv => main \in Nat
    BY DEF IInv, TypeOK
  <2> QED  BY <2>1 DEF IInv, MainOK, WorkersSeeFullCaches, HasSynced, Full, Sample, Kube
<1> QED  BY <1>1, InitIInv, NextIInv, PTL DEF Spec

\* The channel of two is large enough: of the first two signals that come
\* after SetupSignalHandler none is dropped, however late the handler's
\* goroutine gets to run (signal.go:29-44).
THEOREM BothSignalsArrive == Spec => []NoSignalIsLost
<1>1. IInv => NoSignalIsLost
  BY DEF IInv, SignalsOK, NoSignalIsLost
<1> QED  BY <1>1, InitIInv, NextIInv, PTL DEF Spec
-----------------------------------------------------------------------------
(***************************************************************************)
(* The clients of a config.  The generated copies are the same but for the *)
(* group, so each of them is shown to compute what Derived and ClientsOf   *)
(* say once for all.                                                       *)
(***************************************************************************)
GivenConfig == {c \in CoreGroup!Config : c.limiter \in {None, "given"} /\ c.group = None}

OwnConfig == {c \in CoreGroup!Config : c.group = None}

Agent(c) == IF c.agent = "unset" THEN "default" ELSE c.agent

Derived(own, g) ==
    IF own.host = "bad" THEN None
    ELSE [group |-> g, agent |-> Agent(own), http |-> "shared",
          limiter |-> IF own.limiter # None THEN own.limiter ELSE IF own.qps < 0 THEN None ELSE g]

\* Every group client.
LEMMA GroupClients ==
    ASSUME NEW own \in OwnConfig
    PROVE  /\ FooGroup!NewForConfigAndClient(own, "shared") = Derived(own, "samplecontroller")
           /\ AppGroup!NewForConfigAndClient(own, "shared") = Derived(own, "appcontroller")
           /\ CrdGroup!NewForConfigAndClient(own, "shared") = Derived(own, "crd")
           /\ CoreGroup!NewForConfigAndClient(own, "shared") = Derived(own, "core")
           /\ FooClientset!Discovery!NewForConfigAndClient(own, "shared") = Derived(own, "discovery")
           /\ AppClientset!Discovery!NewForConfigAndClient(own, "shared") = Derived(own, "discovery")
           /\ CrdClientset!Discovery!NewForConfigAndClient(own, "shared") = Derived(own, "discovery")
           /\ KubeClientset!Discovery!NewForConfigAndClient(own, "shared") = Derived(own, "discovery")
<1> USE ConstantsAssumption DEF OwnConfig, Derived, Agent, CoreGroup!Config
<1>1. FooGroup!NewForConfigAndClient(own, "shared") = Derived(own, "samplecontroller")
  BY DEF FooGroup!NewForConfigAndClient, FooGroup!SetConfigDefaults,
         FooGroup!RESTClientForConfigAndClient
<1>2. AppGroup!NewForConfigAndClient(own, "shared") = Derived(own, "appcontroller")
  BY DEF AppGroup!NewForConfigAndClient, AppGroup!SetConfigDefaults,
         AppGroup!RESTClientForConfigAndClient
<1>3. CrdGroup!NewForConfigAndClient(own, "shared") = Derived(own, "crd")
  BY DEF CrdGroup!NewForConfigAndClient, CrdGroup!SetConfigDefaults,
         CrdGroup!RESTClientForConfigAndClient
<1>4. CoreGroup!NewForConfigAndClient(own, "shared") = Derived(own, "core")
  BY DEF CoreGroup!NewForConfigAndClient, CoreGroup!SetConfigDefaults,
         CoreGroup!RESTClientForConfigAndClient
<1>5. FooClientset!Discovery!NewForConfigAndClient(own, "shared") = Derived(own, "discovery")
  BY DEF FooClientset!Discovery!NewForConfigAndClient, FooClientset!Discovery!SetConfigDefaults,
         FooClientset!Discovery!RESTClientForConfigAndClient
<1>6. AppClientset!Discovery!NewForConfigAndClient(own, "shared") = Derived(own, "discovery")
  BY DEF AppClientset!Discovery!NewForConfigAndClient, AppClientset!Discovery!SetConfigDefaults,
         AppClientset!Discovery!RESTClientForConfigAndClient
<1>7. CrdClientset!Discovery!NewForConfigAndClient(own, "shared") = Derived(own, "discovery")
  BY DEF CrdClientset!Discovery!NewForConfigAndClient, CrdClientset!Discovery!SetConfigDefaults,
         CrdClientset!Discovery!RESTClientForConfigAndClient
<1>8. KubeClientset!Discovery!NewForConfigAndClient(own, "shared") = Derived(own, "discovery")
  BY DEF KubeClientset!Discovery!NewForConfigAndClient, KubeClientset!Discovery!SetConfigDefaults,
         KubeClientset!Discovery!RESTClientForConfigAndClient
<1> QED  BY <1>1, <1>2, <1>3, <1>4, <1>5, <1>6, <1>7, <1>8

Acceptable(c) ==
    /\ c.host = "good" /\ c.transport = "good"
    /\ c.limiter # None \/ c.qps <= 0 \/ c.burst > 0

\* The config a clientset works with.
Own(c) ==
    [c EXCEPT !.agent = Agent(c),
              !.limiter = IF c.limiter # None \/ c.qps <= 0 THEN c.limiter ELSE "clientset"]

ClientsOf(c, g) ==
    IF Acceptable(c) THEN {Derived(Own(c), g), Derived(Own(c), "discovery")} ELSE {}

\* A client that was derived is no error.
LEMMA DerivedClients ==
    ASSUME NEW c \in GivenConfig, c.host = "good",
           NEW g \in {"samplecontroller", "appcontroller", "crd", "core", "discovery"}
    PROVE  /\ Own(c) \in OwnConfig /\ Derived(Own(c), g) # None
           /\ Derived(Own(c), g).group = g /\ Derived(Own(c), g).http = "shared"
           /\ c.limiter # None \/ c.qps > 0 =>
                 Derived(Own(c), g).limiter = IF c.limiter # None THEN c.limiter ELSE "clientset"
<1>1. /\ Own(c) \in OwnConfig /\ Own(c).host = "good" /\ Agent(Own(c)) \in {"user", "default"}
      /\ Own(c).limiter = IF c.limiter # None \/ c.qps <= 0 THEN c.limiter ELSE "clientset"
      /\ c.qps \in Int /\ c.limiter \in {None, "given"}
  BY DEF GivenConfig, OwnConfig, CoreGroup!Config, Own, Agent
<1>2. /\ Derived(Own(c), g).group = g /\ Derived(Own(c), g).http = "shared"
      /\ c.limiter # None \/ c.qps > 0 =>
            Derived(Own(c), g).limiter = IF c.limiter # None THEN c.limiter ELSE "clientset"
  BY <1>1, ConstantsAssumption DEF Derived
<1>3. Derived(Own(c), g) # None
  BY <1>1, ConstantsAssumption
     DEF Derived, FooGroup!RESTClient, AppGroup!RESTClient, CrdGroup!RESTClient,
         CoreGroup!RESTClient, KubeClientset!Discovery!RESTClient
<1> QED  BY <1>1, <1>2, <1>3

\* Every clientset.
LEMMA Clientsets ==
    ASSUME NEW c \in GivenConfig
    PROVE  /\ FooClientset!NewForConfig(c) = ClientsOf(c, "samplecontroller")
           /\ AppClientset!NewForConfig(c) = ClientsOf(c, "appcontroller")
           /\ CrdClientset!NewForConfig(c) = ClientsOf(c, "crd")
           /\ KubeClientset!NewForConfig(c) = ClientsOf(c, "core")
<1> DEFINE lim == IF c.limiter # None \/ c.qps <= 0 THEN c.limiter
                  ELSE IF c.burst <= 0 THEN "error" ELSE "clientset"
           own == [[c EXCEPT !.agent = Agent(c)] EXCEPT !.limiter = lim]
           Built(g) == IF c.transport = "bad" \/ lim = "error"
                          \/ None \in {Derived(own, g), Derived(own, "discovery")}
                       THEN {} ELSE {Derived(own, g), Derived(own, "discovery")}
<1>1. /\ own \in OwnConfig /\ own.host = c.host /\ c.qps \in Int /\ c.burst \in Int
      /\ c.limiter \in {None, "given"} /\ c.host \in {"good", "bad"}
      /\ c.transport \in {"good", "bad"}
      /\ [c EXCEPT !.agent = Agent(c)].limiter = c.limiter
      /\ [c EXCEPT !.agent = Agent(c)].qps = c.qps /\ [c EXCEPT !.agent = Agent(c)].burst = c.burst
      /\ own.limiter = lim
  BY DEF GivenConfig, OwnConfig, CoreGroup!Config, Agent
<1>2. lim # "error" => own = Own(c)
  BY DEF GivenConfig, CoreGroup!Config, Own, Agent
<1>3. ASSUME NEW g \in {"samplecontroller", "appcontroller", "crd", "core"}
      PROVE  Built(g) = ClientsOf(c, g)
  <2>1. CASE c.host = "bad"
    <3>1. Derived(own, g) = None
      BY <1>1, <2>1 DEF Derived
    <3> QED  BY <2>1, <3>1 DEF ClientsOf, Acceptable
  <2>2. CASE c.host # "bad" /\ lim = "error"
    BY <1>1, <2>2, ConstantsAssumption DEF ClientsOf, Acceptable
  <2>3. CASE c.host # "bad" /\ lim # "error"
    <3>1. Derived(Own(c), g) # None /\ Derived(Own(c), "discovery") # None
      BY <1>1, <2>3, DerivedClients
    <3>2. Acceptable(c) <=> c.transport # "bad"
      BY <1>1, <2>3 DEF Acceptable
    <3> QED  BY <1>2, <2>3, <3>1, <3>2 DEF ClientsOf
  <2> QED  BY <2>1, <2>2, <2>3
<1>4. FooClientset!NewForConfig(c) = Built("samplecontroller")
  BY <1>1, GroupClients, Zenon
     DEF FooClientset!NewForConfig, FooClientset!NewForConfigAndClient, FooClientset!Limiter, Agent
<1>5. AppClientset!NewForConfig(c) = Built("appcontroller")
  BY <1>1, GroupClients, Zenon
     DEF AppClientset!NewForConfig, AppClientset!NewForConfigAndClient, AppClientset!Limiter, Agent
<1>6. CrdClientset!NewForConfig(c) = Built("crd")
  BY <1>1, GroupClients, Zenon
     DEF CrdClientset!NewForConfig, CrdClientset!NewForConfigAndClient, CrdClientset!Limiter, Agent
<1>7. KubeClientset!NewForConfig(c) = Built("core")
  BY <1>1, GroupClients, Zenon
     DEF KubeClientset!NewForConfig, KubeClientset!NewForConfigAndClient, KubeClientset!Limiter, Agent
<1> HIDE DEF Built
<1> QED  BY <1>3, <1>4, <1>5, <1>6, <1>7

\* What main keeps of a config: two clients of one transport, and of one rate
\* limiter where one was given or asked for.
LEMMA NewClientsFit ==
    ASSUME TypeOK, NEW c \in GivenConfig
    PROVE  /\ Acceptable(c) <=> NewClients(c) # {}
           /\ NewClients(c) # {} =>
                /\ Cardinality({r.group : r \in NewClients(c)}) = 2
                /\ Cardinality({r.http : r \in NewClients(c)}) = 1
                /\ c.limiter # None \/ c.qps > 0 =>
                     Cardinality({r.limiter : r \in NewClients(c)}) = 1
<1>1. PICK g \in {"samplecontroller", "appcontroller", "crd", "core"} :
         NewClients(c) = ClientsOf(c, g)
  <2>1. program \in {"foo", "app", "generator", "demo", "ingress"}
    BY Where
  <2>2. ClientsOf(c, "core") = {} => ~Acceptable(c)
    BY DEF ClientsOf
  <2>3. ~Acceptable(c) => ClientsOf(c, "samplecontroller") = {} /\ ClientsOf(c, "appcontroller") = {}
    BY DEF ClientsOf
  <2> QED  BY <2>1, <2>2, <2>3, Clientsets DEF NewClients
<1>2. Acceptable(c) <=> NewClients(c) # {}
  BY <1>1 DEF ClientsOf
<1>3. ASSUME NewClients(c) # {}
      PROVE  /\ Cardinality({r.group : r \in NewClients(c)}) = 2
             /\ Cardinality({r.http : r \in NewClients(c)}) = 1
             /\ c.limiter # None \/ c.qps > 0 =>
                  Cardinality({r.limiter : r \in NewClients(c)}) = 1
  <2> DEFINE one == Derived(Own(c), g)
             two == Derived(Own(c), "discovery")
  <2>1. NewClients(c) = {one, two} /\ c.host = "good"
    BY <1>1, <1>2, <1>3 DEF ClientsOf, Acceptable
  <2>2. /\ one.group = g /\ two.group = "discovery" /\ one.http = "shared" /\ two.http = "shared"
        /\ c.limiter # None \/ c.qps > 0 => one.limiter = two.limiter
    BY <2>1, DerivedClients
  <2> HIDE DEF one, two
  <2>3. {r.group : r \in NewClients(c)} = {g, "discovery"} /\ g # "discovery"
    BY <2>1, <2>2
  <2>4. {r.http : r \in NewClients(c)} = {"shared"}
    BY <2>1, <2>2
  <2>5. c.limiter # None \/ c.qps > 0 => {r.limiter : r \in NewClients(c)} = {one.limiter}
    BY <2>1, <2>2
  <2>6. Cardinality({g, "discovery"}) = 2
    <3>1. IsFiniteSet({g}) /\ Cardinality({g}) = 1
      BY FS_Singleton
    <3>2. Cardinality({g} \cup {"discovery"}) = 2
      <4>1. "discovery" \notin {g}
        BY <2>3
      <4>2. Cardinality({g} \cup {"discovery"}) = Cardinality({g}) + 1
        BY <3>1, <4>1, FS_AddElement
      <4> QED  BY <3>1, <4>2
    <3>3. {g} \cup {"discovery"} = {g, "discovery"}
      OBVIOUS
    <3> QED  BY <3>2, <3>3
  <2>7. \A x : Cardinality({x}) = 1
    BY FS_Singleton
  <2> QED  BY <2>3, <2>4, <2>5, <2>6, <2>7
<1> QED  BY <1>2, <1>3

\* Until the clients are built there are none.
BuiltOK ==
    /\ exit = None /\ main <= (IF Sample THEN 2 ELSE 1) => config = None /\ clients = {}
    /\ ClientsFitConfig

\* Nothing but BuildClients touches them, and nothing goes back to it.
LEMMA BuiltStays ==
    ASSUME IInv, [Next]_vars, ~BuildClients, BuiltOK
    PROVE  BuiltOK'
<1>1. UNCHANGED <<program, config, clients>> /\ main' >= main /\ (exit' = None => exit = None)
  <2>1. main \in Nat
    BY DEF IInv, TypeOK
  <2>2. CASE Main
    <3>1. exit = None
      BY <2>2 DEF Main, SetupSignalHandler, BuildClients, List, Register, Start, Sync, FactorySync,
                  Work, Block, Return, At
    <3>2. /\ UNCHANGED <<program, config, clients>>
          /\ \/ main' = main + 1 \/ main' = main
      BY <2>2 DEF Main, SetupSignalHandler, List, Register, Start, Sync, FactorySync,
                  Work, Block, Return, Proceed, Fail, process, built
    <3> QED  BY <2>1, <3>1, <3>2
  <2>3. CASE Signal \/ HandleSignals \/ Informers \/ KubeInformers
    <3>1. /\ UNCHANGED <<program, config, clients, main>> /\ exit = None
      BY <2>3 DEF Signal, HandleSignals, Goto, Informers, KubeInformers, process, built
    <3> QED  BY <2>1, <3>1
  <2>4. CASE UNCHANGED vars
    BY <2>1, <2>4 DEF vars
  <2> QED  BY <2>2, <2>3, <2>4 DEF Next
<1>2. main \in Nat /\ main' \in Nat
  BY NextIInv DEF IInv, TypeOK
<1>3. Sample' = Sample
  BY <1>1, SameProgram
<1>4. main' <= (IF Sample THEN 2 ELSE 1) => main <= (IF Sample THEN 2 ELSE 1)
  BY <1>1, <1>2
<1>5. ClientsFitConfig'
  BY <1>1, Zenon DEF BuiltOK, ClientsFitConfig
<1> QED
  <2>1. ASSUME (exit = None)', main' <= (IF Sample THEN 2 ELSE 1)
        PROVE  config' = None /\ clients' = {}
    <3>1. config = None /\ clients = {}
      BY <1>1, <1>4, <2>1, Zenon DEF BuiltOK
    <3> QED  BY <1>1, <3>1
  <2> QED  BY <1>3, <1>5, <2>1, Zenon DEF BuiltOK

\* Building them.
LEMMA BuiltNow ==
    ASSUME IInv, BuildClients, BuiltOK
    PROVE  BuiltOK'
<1>1. TypeOK /\ exit = None /\ main = (IF Sample THEN 2 ELSE 1) /\ config' \in Configs
      /\ program' = program
  BY Where DEF IInv, BuildClients, Proceed, Fail, process
<1>2. clients = {}
  BY <1>1 DEF BuiltOK
<1> DEFINE set == IF config' = None THEN {} ELSE NewClients(config')
<1>3. /\ set = {} => (clients' = {} /\ main' = main /\ exit' \in {"1", "2"})
      /\ set # {} => (clients' = set /\ main' = main + 1)
  BY <1>2 DEF BuildClients, Proceed, Fail
<1>4. Sample' = Sample
  BY <1>1, SameProgram
<1>5. exit' = None => main' > (IF Sample THEN 2 ELSE 1)
  BY <1>1, <1>3, NoneIsNoCode
<1>6. ClientsFitConfig'
  <2>1. CASE config' = None
    BY <1>3, <2>1 DEF ClientsFitConfig
  <2>2. CASE config' # None
    <3>1. config' \in GivenConfig /\ clients' = NewClients(config')
      BY <1>1, <1>3, <2>2, ConstantsAssumption DEF GivenConfig
    <3> QED  BY <1>1, <2>2, <3>1, NewClientsFit DEF ClientsFitConfig, Acceptable
  <2> QED  BY <2>1, <2>2
<1>7. ASSUME (exit = None)'
      PROVE  ~ (main' <= (IF Sample THEN 2 ELSE 1))
  <2>1. main' > (IF Sample THEN 2 ELSE 1) /\ main \in Nat
    BY <1>1, <1>5, <1>7 DEF TypeOK
  <2>2. main' = main + 1
    BY <1>1, <1>3, <2>1
  <2> QED  BY <2>1, <2>2
<1> QED  BY <1>4, <1>6, <1>7, Zenon DEF BuiltOK

\* Every config that can work is accepted by every generated clientset, with
\* any QPS and burst, and what is built from it shares one transport, and one
\* rate limiter where there is one to share (clientset.go:55-101).
THEOREM ClientsOfOneConfig == Spec => []ClientsFitConfig
<1>1. Init => BuiltOK
  BY DEF Init, BuiltOK, ClientsFitConfig
<1>2. IInv /\ BuiltOK /\ [Next]_vars => BuiltOK'
  BY BuiltStays, BuiltNow
<1>3. BuiltOK => ClientsFitConfig
  BY DEF BuiltOK
<1> QED  BY <1>1, <1>2, <1>3, InitIInv, NextIInv, PTL DEF Spec
=============================================================================
