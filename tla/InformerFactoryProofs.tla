------------------------ MODULE InformerFactoryProofs ------------------------
(***************************************************************************)
(* For every set of kinds, callers and stop channels: no informer is run   *)
(* twice, the WaitGroup counts those that run, and the factory implements  *)
(* the abstract lifecycle.                                                 *)
(***************************************************************************)
EXTENDS InformerFactory, FiniteSetTheorems, TLAPS

\* What the lock keeps together: the started kinds are those whose goroutine
\* has left "new", each was run once, and whoever waits in Shutdown, or has
\* returned from it, has set shuttingDown before.
FactoryOK ==
    /\ \A t \in Type :
          /\ t \in started <=> informer[t].state # "new"
          /\ informer[t].runs = IF informer[t].state = "new" THEN 0 ELSE 1
    /\ wg = Cardinality(Running)
    /\ \A c \in Caller : call[c].op = "shutdown" => shuttingDown
    /\ stopped => shuttingDown /\ Running = {}

IInv == TypeOK /\ FactoryOK

\* There are finitely many running informers to count.
LEMMA FiniteRunning == IsFiniteSet(Running) /\ Cardinality(Running) \in Nat
<1>1. Running \subseteq Type
  BY DEF Running
<1> QED  BY <1>1, FactoryAssumption, FS_Subset, FS_CardinalityType

\* The invariant holds of a new factory.
LEMMA InitIInv == Init => IInv
<1> SUFFICES ASSUME Init PROVE IInv
  OBVIOUS
<1>1. NotStarted \in Goroutine /\ NotStarted.state = "new" /\ NotStarted.runs = 0
  BY DEF NotStarted, Goroutine
<1>2. NoCall \in Call /\ NoCall.op = "none"
  BY DEF NoCall, Call
<1>3. TypeOK
  BY <1>1, <1>2 DEF Init, TypeOK
<1>4. Running = {}
  BY <1>1 DEF Init, Running
<1>5. FactoryOK
  BY <1>1, <1>2, <1>4, FS_EmptySet DEF Init, FactoryOK
<1> QED  BY <1>3, <1>5 DEF IInv

\* What Start does to the informers it starts.
LEMMA StartStep ==
    ASSUME IInv, NEW c \in Caller, NEW ch \in Chan, Start(c, ch)
    PROVE  /\ IInv' /\ ~shuttingDown
           /\ \E S \in SUBSET {t \in Type : informer[t].state = "new"} :
                 \A t \in Type : informer'[t].state =
                                   IF t \in S THEN "running" ELSE informer[t].state
<1> DEFINE fresh == informers \ started
<1>1. fresh \subseteq Type /\ \A t \in fresh : informer[t].state = "new" /\ informer[t].runs = 0
  BY DEF IInv, TypeOK, FactoryOK
<1>2. /\ ~shuttingDown /\ started' = started \cup fresh /\ wg' = wg + Cardinality(fresh)
      /\ UNCHANGED <<informers, shuttingDown, closed, call, stopped>>
      /\ informer' = [t \in Type |->
                        IF t \in fresh
                        THEN [informer[t] EXCEPT !.state = "running", !.chan = ch, !.runs = @ + 1]
                        ELSE informer[t]]
  BY DEF Start, Run
<1> HIDE DEF fresh
<1>3. \A t \in Type : informer[t] \in Goroutine
  BY DEF IInv, TypeOK
<1>4. \A t \in fresh : /\ informer'[t] \in Goroutine
                       /\ informer'[t].state = "running" /\ informer'[t].runs = 1
  <2> SUFFICES ASSUME NEW t \in fresh
               PROVE  /\ informer'[t] \in Goroutine
                      /\ informer'[t].state = "running" /\ informer'[t].runs = 1
    OBVIOUS
  <2>1. informer[t] \in Goroutine /\ informer[t].runs = 0 /\ t \in Type
    BY <1>1, <1>3
  <2>2. informer'[t] = [informer[t] EXCEPT !.state = "running", !.chan = ch, !.runs = @ + 1]
    BY <1>2, <2>1
  <2>3. informer[t].runs + 1 = 1 /\ 1 \in Nat
    BY <2>1
  <2>4. informer'[t] = [informer[t] EXCEPT !.state = "running", !.chan = ch, !.runs = 1]
    BY <2>1, <2>2, <2>3
  <2> QED  BY <2>1, <2>3, <2>4 DEF Goroutine
<1>5. \A t \in Type \ fresh : informer'[t] = informer[t]
  BY <1>2
<1>6. Running' = Running \cup fresh /\ Running \cap fresh = {}
  BY <1>1, <1>4, <1>5 DEF Running
<1>7. Cardinality(Running') = Cardinality(Running) + Cardinality(fresh)
      /\ Cardinality(fresh) \in Nat
  <2>1. IsFiniteSet(fresh)
    BY <1>1, FactoryAssumption, FS_Subset
  <2>2. Cardinality(Running \cap fresh) = 0
    BY <1>6, FS_EmptySet
  <2>3. Cardinality(Running \cup fresh) =
           Cardinality(Running) + Cardinality(fresh) - Cardinality(Running \cap fresh)
    BY <2>1, FiniteRunning, FS_Union
  <2> QED  BY <1>6, <2>1, <2>2, <2>3, FiniteRunning, FS_CardinalityType
<1>8. TypeOK'
  <2>1. informer' \in [Type -> Goroutine]
    BY <1>2, <1>3, <1>4, <1>5
  <2>2. TypeOK
    BY DEF IInv
  <2>3. wg \in Nat
    BY <2>2 DEF TypeOK
  <2> DEFINE n == Cardinality(fresh)
  <2>7. wg' = wg + n /\ n \in Nat
    BY <1>2, <1>7, Zenon
  <2> HIDE DEF n
  <2>4. wg' \in Nat
    BY <2>7, <2>3
  <2>5. started' \subseteq Type
    BY <1>1, <1>2, <2>2 DEF TypeOK
  <2> QED  BY <1>2, <2>1, <2>2, <2>4, <2>5 DEF TypeOK
<1>9. FactoryOK'
  BY <1>1, <1>2, <1>4, <1>5, <1>7 DEF IInv, FactoryOK
<1>10. \A t \in Type : informer'[t].state = IF t \in fresh THEN "running" ELSE informer[t].state
  BY <1>4, <1>5
<1> QED  BY <1>1, <1>2, <1>8, <1>9, <1>10 DEF IInv

\* An informer that ends leaves the WaitGroup.
LEMMA EndedStep ==
    ASSUME IInv, NEW t \in Type, Ended(t)
    PROVE  /\ IInv' /\ informer[t].state = "running"
           /\ \A u \in Type : informer'[u].state = IF u = t THEN "ended" ELSE informer[u].state
<1>1. /\ informer[t].state = "running" /\ wg' = wg - 1
      /\ informer' = [informer EXCEPT ![t].state = "ended"]
      /\ UNCHANGED <<informers, started, shuttingDown, closed, call, stopped>>
  BY DEF Ended
<1>2. \A u \in Type : informer[u] \in Goroutine
  BY DEF IInv, TypeOK
<1>3. /\ informer'[t] \in Goroutine /\ informer'[t].state = "ended"
      /\ informer'[t].runs = informer[t].runs
      /\ \A u \in Type \ {t} : informer'[u] = informer[u]
      /\ informer' \in [Type -> Goroutine]
  BY <1>1, <1>2 DEF IInv, TypeOK, Goroutine
<1>4. Running' = Running \ {t} /\ t \in Running
  BY <1>1, <1>3 DEF Running
<1>5. Cardinality(Running') = Cardinality(Running) - 1
  BY <1>4, FiniteRunning, FS_RemoveElement
<1>6. IsFiniteSet(Running') /\ Cardinality(Running') \in Nat
  BY <1>4, FiniteRunning, FS_RemoveElement, FS_CardinalityType
<1>7. wg' = Cardinality(Running')
  BY <1>1, <1>5 DEF IInv, FactoryOK
<1>8. TypeOK'
  BY <1>1, <1>3, <1>6, <1>7 DEF IInv, TypeOK
<1>9. FactoryOK'
  BY <1>1, <1>3, <1>4, <1>7 DEF IInv, FactoryOK
<1> QED  BY <1>1, <1>3, <1>8, <1>9 DEF IInv

\* A step that leaves the goroutines' states and the WaitGroup alone.
LEMMA OtherStep ==
    ASSUME IInv, TypeOK', wg' = wg, started' = started,
           \A t \in Type : informer'[t].state = informer[t].state
                           /\ informer'[t].runs = informer[t].runs,
           shuttingDown => shuttingDown',
           \A c \in Caller : call'[c].op = "shutdown" => shuttingDown',
           stopped' => stopped \/ (wg = 0 /\ shuttingDown)
    PROVE  IInv'
<1>1. Running' = Running
  BY DEF Running
<1>2. wg = 0 => Running = {}
  BY FiniteRunning, FS_EmptySet DEF IInv, FactoryOK
<1> QED  BY <1>1, <1>2 DEF IInv, FactoryOK

\* What a call does that waits, or begins to wait.
LEMMA CallStep ==
    ASSUME IInv, NEW c \in Caller,
           \/ \E t \in Type : InformerFor(c, t) \/ CacheSynced(c, t)
           \/ \E ch \in Chan : WaitForCacheSync(c, ch)
           \/ Shutdown(c) \/ ShutdownReturns(c) \/ WaitForCacheSyncReturns(c)
    PROVE  /\ IInv' /\ informer' = informer /\ wg' = wg
           /\ \/ UNCHANGED <<shuttingDown, stopped>>
              \/ shuttingDown' = TRUE /\ UNCHANGED stopped
              \/ shuttingDown /\ shuttingDown' = shuttingDown /\ wg = 0 /\ stopped' = TRUE
<1>0. call[c] \in Call /\ call \in [Caller -> Call] /\ NoCall \in Call /\ NoCall.op = "none"
      /\ (call[c].op = "shutdown" => shuttingDown) /\ shuttingDown \in BOOLEAN
      /\ informers \subseteq Type /\ stopped \in BOOLEAN
      /\ (\A d \in Caller : call[d].op = "shutdown" => shuttingDown)
  BY DEF IInv, TypeOK, FactoryOK, NoCall, Call
<1>1. ASSUME NEW r \in Call, call' = [call EXCEPT ![c] = r],
             r.op = "shutdown" => shuttingDown',
             shuttingDown' \in BOOLEAN, shuttingDown => shuttingDown',
             stopped' \in BOOLEAN, stopped' => stopped \/ (wg = 0 /\ shuttingDown),
             UNCHANGED <<informers, started, wg, informer, closed>>
      PROVE  IInv'
  <2>1. TypeOK'
    BY <1>0, <1>1 DEF IInv, TypeOK
  <2>2. \A d \in Caller : call'[d].op = "shutdown" => shuttingDown'
    BY <1>0, <1>1
  <2> QED  BY <1>1, <2>1, <2>2, OtherStep
<1>2. ASSUME NEW t \in Type, InformerFor(c, t)
      PROVE  IInv' /\ UNCHANGED <<informer, wg, shuttingDown, stopped>>
  <2>1. TypeOK'
    BY <1>2 DEF InformerFor, IInv, TypeOK
  <2> QED  BY <1>0, <1>2, <2>1, OtherStep DEF InformerFor
<1>3. ASSUME NEW t \in Type, CacheSynced(c, t)
      PROVE  IInv' /\ UNCHANGED <<informer, wg, shuttingDown, stopped>>
  <2>1. /\ UNCHANGED <<informers, started, wg, shuttingDown, informer, closed, stopped>>
        /\ call[c].op = "sync"
    BY <1>3 DEF CacheSynced
  <2>2. CASE call' = [call EXCEPT ![c].pending = @ \ {t}, ![c].synced = @ \cup {t}]
    <3> DEFINE r == [call[c] EXCEPT !.pending = @ \ {t}, !.synced = @ \cup {t}]
    <3>1. call' = [call EXCEPT ![c] = r]
      BY <1>0, <2>2 DEF Call
    <3>2. r \in Call /\ r.op = "sync"
      BY <1>0, <2>1 DEF Call
    <3> HIDE DEF r
    <3> QED  BY <1>0, <1>1, <2>1, <3>1, <3>2
  <2>3. CASE call' = [call EXCEPT ![c].pending = @ \ {t}]
    <3> DEFINE r == [call[c] EXCEPT !.pending = @ \ {t}]
    <3>1. call' = [call EXCEPT ![c] = r]
      BY <1>0, <2>3
    <3>2. r \in Call /\ r.op = "sync"
      BY <1>0, <2>1 DEF Call
    <3> HIDE DEF r
    <3> QED  BY <1>0, <1>1, <2>1, <3>1, <3>2
  <2> QED  BY <1>3, <2>1, <2>2, <2>3 DEF CacheSynced
<1>4. ASSUME NEW ch \in Chan, WaitForCacheSync(c, ch)
      PROVE  IInv' /\ UNCHANGED <<informer, wg, shuttingDown, stopped>>
  <2> DEFINE r == [op |-> "sync", chan |-> ch, synced |-> {}, pending |-> informers \cap started]
  <2>1. r \in Call /\ r.op = "sync"
    BY <1>0 DEF Call
  <2>2. call' = [call EXCEPT ![c] = r]
        /\ UNCHANGED <<informers, started, wg, shuttingDown, informer, closed, stopped>>
    BY <1>4 DEF WaitForCacheSync
  <2> HIDE DEF r
  <2> QED  BY <1>0, <1>1, <2>1, <2>2
<1>5. CASE Shutdown(c)
  <2> DEFINE r == [call[c] EXCEPT !.op = "shutdown"]
  <2>1. r \in Call
    BY <1>0 DEF Call
  <2>2. call' = [call EXCEPT ![c] = r] /\ shuttingDown' = TRUE
        /\ UNCHANGED <<informers, started, wg, informer, closed, stopped>>
    BY <1>5 DEF Shutdown
  <2> HIDE DEF r
  <2> QED  BY <1>0, <1>1, <2>1, <2>2
<1>6. CASE ShutdownReturns(c)
  BY <1>0, <1>1, <1>6 DEF ShutdownReturns
<1>7. CASE WaitForCacheSyncReturns(c)
  BY <1>0, <1>1, <1>7 DEF WaitForCacheSyncReturns
<1>8. ShutdownReturns(c) => shuttingDown /\ shuttingDown' = shuttingDown /\ wg = 0 /\ stopped' = TRUE
                            /\ informer' = informer /\ wg' = wg
  BY <1>0 DEF ShutdownReturns
<1> QED  BY <1>2, <1>3, <1>4, <1>5, <1>6, <1>7, <1>8
         DEF Shutdown, WaitForCacheSyncReturns

\* A list that arrives, a channel that closes, or no step at all: the counts stay.
LEMMA OutsideStep ==
    ASSUME IInv, (\E t \in Type : Synced(t)) \/ (\E ch \in Chan : CloseChan(ch)) \/ UNCHANGED vars
    PROVE  /\ IInv' /\ wg' = wg /\ UNCHANGED <<shuttingDown, stopped>>
           /\ \A t \in Type : informer'[t].state = informer[t].state
<1>1. UNCHANGED <<started, wg, shuttingDown, call, stopped>>
  BY DEF Synced, CloseChan, vars
<1>2. TypeOK' /\ \A t \in Type : informer'[t].state = informer[t].state
                                 /\ informer'[t].runs = informer[t].runs
  <2>1. CASE \E t \in Type : Synced(t)
    <3>1. PICK t \in Type : Synced(t)
      BY <2>1
    <3>2. informer[t] \in Goroutine /\ informer' = [informer EXCEPT ![t].synced = TRUE]
          /\ closed' = closed /\ informers' = informers
      BY <3>1 DEF Synced, IInv, TypeOK
    <3>3. \A u \in Type : informer'[u] \in Goroutine /\ informer'[u].state = informer[u].state
                          /\ informer'[u].runs = informer[u].runs
      BY <3>2 DEF IInv, TypeOK, Goroutine
    <3>4. informer' \in [Type -> Goroutine]
      BY <3>2, <3>3 DEF IInv, TypeOK
    <3> QED  BY <1>1, <3>2, <3>3, <3>4 DEF IInv, TypeOK
  <2>2. CASE \E ch \in Chan : CloseChan(ch)
    BY <1>1, <2>2 DEF CloseChan, IInv, TypeOK
  <2>3. CASE UNCHANGED vars
    BY <2>3 DEF vars, IInv, TypeOK
  <2> QED  BY <2>1, <2>2, <2>3
<1>3. IInv'
  <2>1. \A c \in Caller : call'[c].op = "shutdown" => shuttingDown'
    BY <1>1 DEF IInv, FactoryOK
  <2> QED  BY <1>1, <1>2, <2>1, OtherStep
<1> QED  BY <1>1, <1>2, <1>3

\* Every step is one of the four kinds above.
LEMMA NextCases ==
    ASSUME [Next]_vars
    PROVE  \/ \E c \in Caller, ch \in Chan : Start(c, ch)
           \/ \E t \in Type : Ended(t)
           \/ \E c \in Caller :
                 \/ \E t \in Type : InformerFor(c, t) \/ CacheSynced(c, t)
                 \/ \E ch \in Chan : WaitForCacheSync(c, ch)
                 \/ Shutdown(c) \/ ShutdownReturns(c) \/ WaitForCacheSyncReturns(c)
           \/ (\E t \in Type : Synced(t)) \/ (\E ch \in Chan : CloseChan(ch)) \/ UNCHANGED vars
  BY DEF Next, Invoke, Return, Informers

\* IInv is inductive.
LEMMA NextIInv == IInv /\ [Next]_vars => IInv'
  BY NextCases, StartStep, EndedStep, CallStep, OutsideStep

\* The factory's variables keep their types: in particular the WaitGroup never
\* goes below zero, which would panic.
THEOREM TypeCorrect == Spec => []TypeOK
<1>1. IInv => TypeOK
  BY DEF IInv
<1> QED  BY <1>1, InitIInv, NextIInv, PTL DEF Spec

\* Start may be "called multiple times safely" (factory.go:47-48): no informer
\* is run twice and the WaitGroup counts those that run.
THEOREM InformersRunOnce == Spec => []RunOnce
<1>1. IInv => RunOnce
  BY DEF IInv, FactoryOK, RunOnce
<1> QED  BY <1>1, InitIInv, NextIInv, PTL DEF Spec
\* What WaitForCacheSync holds on to, the informers it waits for and those it
\* reports, only ever grows true: nothing takes a kind out of startedInformers
\* and no informer forgets that it has synced.
LEMMA ReportsStep == TypeOK /\ ReportsTruth /\ [Next]_vars => ReportsTruth'
<1> SUFFICES ASSUME TypeOK, ReportsTruth, [Next]_vars
             PROVE  ReportsTruth'
  OBVIOUS
<1>0. /\ \A t \in Type : informer[t] \in Goroutine
      /\ \A c \in Caller : call[c] \in Call
      /\ informer \in [Type -> Goroutine] /\ call \in [Caller -> Call]
  BY DEF TypeOK
<1>1. ASSUME started \subseteq started',
             \A t \in Type : informer[t].synced => informer'[t].synced,
             \A c \in Caller : /\ call'[c].pending \subseteq call[c].pending
                               /\ call'[c].synced \subseteq call[c].synced
      PROVE  ReportsTruth'
  <2> SUFFICES ASSUME NEW c \in Caller
               PROVE  /\ \A t \in call'[c].synced : informer'[t].synced
                      /\ call'[c].pending \subseteq started'
    BY DEF ReportsTruth
  <2>1. call[c].synced \subseteq Type
    BY <1>0 DEF Call
  <2>2. call[c].pending \subseteq started /\ \A t \in call[c].synced : informer[t].synced
    BY DEF ReportsTruth
  <2> QED  BY <1>1, <2>1, <2>2
<1>2. CASE \E c \in Caller, ch \in Chan : Start(c, ch)
  <2>1. PICK c \in Caller, ch \in Chan : Start(c, ch)
    BY <1>2
  <2>2. started \subseteq started' /\ call' = call
    BY <2>1 DEF Start
  <2>3. \A t \in Type : informer'[t].synced = informer[t].synced
    BY <1>0, <2>1 DEF Start, Run, Goroutine
  <2> QED  BY <1>1, <2>2, <2>3
<1>3. CASE (\E t \in Type : Ended(t) \/ Synced(t)) \/ UNCHANGED vars
            \/ (\E ch \in Chan : CloseChan(ch))
  <2>1. started' = started /\ call' = call
    BY <1>3 DEF Ended, Synced, CloseChan, vars
  <2>2. \A t \in Type : informer[t].synced => informer'[t].synced
    BY <1>0, <1>3 DEF Ended, Synced, CloseChan, vars, Goroutine
  <2> QED  BY <1>1, <2>1, <2>2
<1>4. CASE \E c \in Caller :
              \/ \E t \in Type : InformerFor(c, t)
              \/ Shutdown(c) \/ ShutdownReturns(c) \/ WaitForCacheSyncReturns(c)
  <2>1. PICK c \in Caller :
              \/ \E t \in Type : InformerFor(c, t)
              \/ Shutdown(c) \/ ShutdownReturns(c) \/ WaitForCacheSyncReturns(c)
    BY <1>4
  <2>2. started' = started /\ informer' = informer
    BY <2>1 DEF InformerFor, Shutdown, ShutdownReturns, WaitForCacheSyncReturns
  <2>3. \A d \in Caller : /\ call'[d].pending \subseteq call[d].pending
                          /\ call'[d].synced \subseteq call[d].synced
    BY <1>0, <2>1 DEF InformerFor, Shutdown, ShutdownReturns, WaitForCacheSyncReturns,
                      NoCall, Call
  <2> QED  BY <1>1, <2>2, <2>3
<1>5. ASSUME NEW c \in Caller, NEW ch \in Chan, WaitForCacheSync(c, ch)
      PROVE  ReportsTruth'
  <2> DEFINE r == [op |-> "sync", chan |-> ch, synced |-> {}, pending |-> informers \cap started]
  <2>1. call' = [call EXCEPT ![c] = r] /\ started' = started /\ informer' = informer
    BY <1>5 DEF WaitForCacheSync
  <2>2. r.pending \subseteq started /\ r.synced = {}
    OBVIOUS
  <2> HIDE DEF r
  <2> QED  BY <1>0, <2>1, <2>2 DEF ReportsTruth
<1>6. ASSUME NEW c \in Caller, NEW t \in Type, CacheSynced(c, t)
      PROVE  ReportsTruth'
  <2>1. started' = started /\ informer' = informer
    BY <1>6 DEF CacheSynced
  <2>2. call'[c].pending \subseteq call[c].pending
        /\ \A d \in Caller \ {c} : call'[d] = call[d]
    BY <1>0, <1>6 DEF CacheSynced, Call
  <2>3. \A u \in call'[c].synced : u \in call[c].synced \/ informer[u].synced
    BY <1>0, <1>6 DEF CacheSynced, Call
  <2> QED  BY <2>1, <2>2, <2>3 DEF ReportsTruth
<1> QED  BY <1>2, <1>3, <1>4, <1>5, <1>6, NextCases

\* WaitForCacheSync, which gives the lock back while it waits, never reports
\* an informer that has not synced and never waits for one nobody started.
THEOREM WaitReportsTruth == Spec => []ReportsTruth
<1>1. Init => ReportsTruth
  BY DEF Init, ReportsTruth, NoCall
<1>2. IInv => TypeOK
  BY DEF IInv
<1> QED  BY <1>1, <1>2, InitIInv, NextIInv, ReportsStep, PTL DEF Spec

\* wg.Add runs in Start only, which looks at shuttingDown under the same lock
\* as Shutdown sets it: the Wait of a Shutdown never races an Add.
THEOREM AddsBeforeWait == Spec => NoAddWhileWaiting
<1> DEFINE Step == wg' > wg => \A c \in Caller : call[c].op # "shutdown"
<1>1. IInv /\ [Next]_vars => Step
  <2> SUFFICES ASSUME IInv, [Next]_vars, wg' > wg
               PROVE  \A c \in Caller : call[c].op # "shutdown"
    OBVIOUS
  <2>0. wg \in Nat
    BY DEF IInv, TypeOK
  <2>1. CASE \E c \in Caller, ch \in Chan : Start(c, ch)
    BY <2>1, StartStep DEF IInv, FactoryOK
  <2>2. CASE \E t \in Type : Ended(t)
    BY <2>0, <2>2 DEF Ended
  <2>3. wg' # wg
    BY <2>0
  <2> QED  BY <2>1, <2>2, <2>3, NextCases, CallStep, OutsideStep
<1>2. NoAddWhileWaiting <=> [][Step]_vars
  BY DEF NoAddWhileWaiting
<1> HIDE DEF Step
<1> QED  BY <1>1, <1>2, InitIInv, NextIInv, PTL DEF Spec
-----------------------------------------------------------------------------
\* A new factory is Lifecycle's initial state.
LEMMA AbstractInit == Init => Abstract!Init
  BY DEF Init, NotStarted, Abstract!Init

\* Start launches, an informer that returns ends, Shutdown closes, and its
\* return marks the end; everything else is invisible.
LEMMA AbstractStep == IInv /\ [Next]_vars => [Abstract!Next]_(Abstract!vars)
<1> SUFFICES ASSUME IInv, [Next]_vars
             PROVE  Abstract!Next \/ UNCHANGED Abstract!vars
  OBVIOUS
<1> DEFINE task == [t \in Type |-> informer[t].state]
           phase == IF stopped THEN "closed" ELSE IF shuttingDown THEN "closing" ELSE "open"
<1>0. (stopped => shuttingDown) /\ shuttingDown \in BOOLEAN /\ stopped \in BOOLEAN
  BY DEF IInv, TypeOK, FactoryOK
<1>1. CASE \E c \in Caller, ch \in Chan : Start(c, ch)
  <2>1. PICK c \in Caller, ch \in Chan : Start(c, ch)
    BY <1>1
  <2>2. PICK S \in SUBSET {t \in Type : informer[t].state = "new"} :
            \A t \in Type : informer'[t].state = IF t \in S THEN "running" ELSE informer[t].state
    BY <2>1, StartStep
  <2>3. ~shuttingDown /\ UNCHANGED <<shuttingDown, stopped>>
    BY <2>1 DEF Start
  <2>4. Abstract!Launch
    <3>1. S \in SUBSET {t \in Type : task[t] = "new"}
      BY <2>2
    <3>2. task' = [t \in Type |-> IF t \in S THEN "running" ELSE task[t]]
      BY <2>2
    <3> QED  BY <1>0, <2>3, <3>1, <3>2 DEF Abstract!Launch
  <2> QED  BY <2>4 DEF Abstract!Next
<1>2. CASE \E t \in Type : Ended(t)
  <2>1. PICK t \in Type : Ended(t)
    BY <1>2
  <2>2. UNCHANGED <<shuttingDown, stopped>>
    BY <2>1 DEF Ended
  <2>3. task[t] = "running" /\ task' = [task EXCEPT ![t] = "ended"]
    BY <2>1, EndedStep
  <2>4. Abstract!End(t)
    BY <2>2, <2>3 DEF Abstract!End
  <2> QED  BY <2>4 DEF Abstract!Next
<1>3. CASE \E c \in Caller :
              \/ \E t \in Type : InformerFor(c, t) \/ CacheSynced(c, t)
              \/ \E ch \in Chan : WaitForCacheSync(c, ch)
              \/ Shutdown(c) \/ ShutdownReturns(c) \/ WaitForCacheSyncReturns(c)
  <2>1. /\ informer' = informer
        /\ \/ UNCHANGED <<shuttingDown, stopped>>
           \/ shuttingDown' = TRUE /\ UNCHANGED stopped
           \/ shuttingDown /\ shuttingDown' = shuttingDown /\ wg = 0 /\ stopped' = TRUE
    BY <1>3, CallStep
  <2>2. task' = task
    BY <2>1
  <2>3. CASE UNCHANGED <<shuttingDown, stopped>>
    BY <2>2, <2>3 DEF Abstract!vars
  <2>4. CASE shuttingDown' = TRUE /\ UNCHANGED stopped
    <3>1. CASE shuttingDown
      BY <1>0, <2>2, <2>4, <3>1 DEF Abstract!vars
    <3>2. CASE ~shuttingDown
      BY <1>0, <2>2, <2>4, <3>2 DEF Abstract!Next, Abstract!Close
    <3> QED  BY <3>1, <3>2
  <2>5. CASE shuttingDown /\ shuttingDown' = shuttingDown /\ wg = 0 /\ stopped' = TRUE
    <3>1. CASE stopped
      BY <1>0, <2>2, <2>5, <3>1 DEF Abstract!vars
    <3>2. CASE ~stopped
      <4>1. Running = {}
        BY <2>5, FiniteRunning, FS_EmptySet DEF IInv, FactoryOK
      <4>2. Abstract!Running = {}
        BY <4>1 DEF Running, Abstract!Running
      <4>3. Abstract!Closed
        BY <2>2, <2>5, <3>2, <4>2 DEF Abstract!Closed
      <4> QED  BY <4>3 DEF Abstract!Next
    <3> QED  BY <3>1, <3>2
  <2> QED  BY <2>1, <2>3, <2>4, <2>5
<1>4. CASE (\E t \in Type : Synced(t)) \/ (\E ch \in Chan : CloseChan(ch)) \/ UNCHANGED vars
  <2>1. task' = task /\ UNCHANGED <<shuttingDown, stopped>>
    BY <1>4, OutsideStep
  <2> QED  BY <2>1 DEF Abstract!vars
<1> QED  BY <1>1, <1>2, <1>3, <1>4, NextCases

\* Whatever goroutines call the factory, in whatever order and with whatever
\* channels, it behaves as the lifecycle: nothing is started twice or after
\* Shutdown was called, and no Shutdown returns while something runs.
THEOREM ImplementsLifecycle == Spec => Refines
<1>1. IInv /\ [Next]_vars => [Abstract!Next]_(Abstract!vars)
  BY AbstractStep
<1> QED  BY <1>1, AbstractInit, InitIInv, NextIInv, PTL DEF Spec, Refines, Abstract!Spec
=============================================================================
