--------------------------- MODULE InformerFactory ---------------------------
(***************************************************************************)
(* The generated sharedInformerFactory (informers/externalversions/        *)
(* factory.go), which is generated once for each program of the repository *)
(* and differs in the kinds it knows only.                                 *)
(*                                                                         *)
(* Any number of goroutines call it.  Its methods hold one lock while they *)
(* work on the factory's maps, so those parts are one step each; Shutdown  *)
(* and WaitForCacheSync then wait without the lock.  The informers run in  *)
(* goroutines of their own, counted by a sync.WaitGroup, until the channel *)
(* they were started with is closed.                                       *)
(***************************************************************************)
EXTENDS Naturals, FiniteSets

CONSTANTS
    Type,    \* the kinds the factory has informers for
    Caller,  \* goroutines that call the factory
    Chan,    \* stop channels
    None

ASSUME FactoryAssumption == IsFiniteSet(Type) /\ None \notin Chan

VARIABLES
    informers,     \* f.informers: kinds somebody asked InformerFor for
    started,       \* f.startedInformers
    wg,            \* f.wg
    shuttingDown,  \* f.shuttingDown
    informer,      \* [Type -> its goroutine]
    closed,        \* channels that are closed
    call,          \* [Caller -> the waiting part of the call it makes]
    stopped        \* history: some call of Shutdown has returned

vars == <<informers, started, wg, shuttingDown, informer, closed, call, stopped>>

\* runs counts the calls of informer.Run.
Goroutine == [state : {"new", "running", "ended"}, chan : Chan \cup {None},
              synced : BOOLEAN, runs : Nat]
Call == [op : {"none", "shutdown", "sync"}, chan : Chan \cup {None},
         pending : SUBSET Type, synced : SUBSET Type]

NotStarted == [state |-> "new", chan |-> None, synced |-> FALSE, runs |-> 0]
NoCall == [op |-> "none", chan |-> None, pending |-> {}, synced |-> {}]

TypeOK ==
    /\ informers \subseteq Type /\ started \subseteq Type
    /\ wg \in Nat /\ shuttingDown \in BOOLEAN /\ stopped \in BOOLEAN
    /\ informer \in [Type -> Goroutine]
    /\ closed \subseteq Chan
    /\ call \in [Caller -> Call]

Init ==
    /\ informers = {} /\ started = {}
    /\ wg = 0 /\ shuttingDown = FALSE /\ stopped = FALSE
    /\ informer = [t \in Type |-> NotStarted]
    /\ closed = {}
    /\ call = [c \in Caller |-> NoCall]

Running == {t \in Type : informer[t].state = "running"}
-----------------------------------------------------------------------------
(***************************************************************************)
(* The methods.                                                            *)
(***************************************************************************)
InformerFor(c, t) ==
    /\ call[c].op = "none"
    /\ informers' = informers \cup {t}
    /\ UNCHANGED <<started, wg, shuttingDown, informer, closed, call, stopped>>

Run(S, ch) ==
    informer' = [t \in Type |->
                   IF t \in S
                   THEN [informer[t] EXCEPT !.state = "running", !.chan = ch, !.runs = @ + 1]
                   ELSE informer[t]]

\* Mutant: an informer that was started is started again.
StartAgain(c, ch) ==
    /\ call[c].op = "none"
    /\ ~shuttingDown
    /\ started' = started \cup informers
    /\ wg' = wg + Cardinality(informers)
    /\ Run(informers, ch)
    /\ UNCHANGED <<informers, shuttingDown, closed, call, stopped>>

\* Mutant: shuttingDown is not looked at.
StartRegardless(c, ch) ==
    /\ call[c].op = "none"
    /\ LET fresh == informers \ started IN
         /\ started' = started \cup fresh
         /\ wg' = wg + Cardinality(fresh)
         /\ Run(fresh, ch)
    /\ UNCHANGED <<informers, shuttingDown, closed, call, stopped>>

Start(c, ch) ==
    /\ call[c].op = "none"
    /\ ~shuttingDown
    /\ LET fresh == informers \ started IN
         /\ started' = started \cup fresh
         /\ wg' = wg + Cardinality(fresh)
         /\ Run(fresh, ch)
    /\ UNCHANGED <<informers, shuttingDown, closed, call, stopped>>

Shutdown(c) ==
    /\ call[c].op = "none"
    /\ shuttingDown' = TRUE
    /\ call' = [call EXCEPT ![c].op = "shutdown"]
    /\ UNCHANGED <<informers, started, wg, informer, closed, stopped>>

\* f.wg.Wait() has returned.
ShutdownReturns(c) ==
    /\ call[c].op = "shutdown"
    /\ wg = 0
    /\ stopped' = TRUE
    /\ call' = [call EXCEPT ![c] = NoCall]
    /\ UNCHANGED <<informers, started, wg, shuttingDown, informer, closed>>

\* Mutant: informers that nobody started are waited for as well.
WaitForAll(c, ch) ==
    /\ call[c].op = "none"
    /\ call' = [call EXCEPT ![c] = [op |-> "sync", chan |-> ch, synced |-> {},
                                    pending |-> informers]]
    /\ UNCHANGED <<informers, started, wg, shuttingDown, informer, closed, stopped>>

\* The informers to wait for are those that are started now.
WaitForCacheSync(c, ch) ==
    /\ call[c].op = "none"
    /\ call' = [call EXCEPT ![c] = [op |-> "sync", chan |-> ch, synced |-> {},
                                    pending |-> informers \cap started]]
    /\ UNCHANGED <<informers, started, wg, shuttingDown, informer, closed, stopped>>

\* Mutant: the result says that the wait is over, not that the cache is synced.
CacheSyncedOrNot(c, t) ==
    /\ call[c].op = "sync" /\ t \in call[c].pending
    /\ informer[t].synced \/ call[c].chan \in closed
    /\ call' = [call EXCEPT ![c].pending = @ \ {t}, ![c].synced = @ \cup {t}]
    /\ UNCHANGED <<informers, started, wg, shuttingDown, informer, closed, stopped>>

\* cache.WaitForCacheSync returns for one of them: true when it has synced,
\* false when the channel is closed, and either when both are the case.
CacheSynced(c, t) ==
    /\ call[c].op = "sync" /\ t \in call[c].pending
    /\ \/ /\ informer[t].synced
          /\ call' = [call EXCEPT ![c].pending = @ \ {t}, ![c].synced = @ \cup {t}]
       \/ /\ call[c].chan \in closed
          /\ call' = [call EXCEPT ![c].pending = @ \ {t}]
    /\ UNCHANGED <<informers, started, wg, shuttingDown, informer, closed, stopped>>

WaitForCacheSyncReturns(c) ==
    /\ call[c].op = "sync" /\ call[c].pending = {}
    /\ call' = [call EXCEPT ![c] = NoCall]
    /\ UNCHANGED <<informers, started, wg, shuttingDown, informer, closed, stopped>>
-----------------------------------------------------------------------------
(***************************************************************************)
(* The informers' goroutines, and the channels.                            *)
(***************************************************************************)
\* Mutant: Done is called when the first list has arrived, and at the end.
SyncedAndDone(t) ==
    /\ informer[t].state = "running" /\ ~informer[t].synced
    /\ informer' = [informer EXCEPT ![t].synced = TRUE]
    /\ wg' = wg - 1
    /\ UNCHANGED <<informers, started, shuttingDown, closed, call, stopped>>

\* The first list has arrived and is in the cache.
Synced(t) ==
    /\ informer[t].state = "running" /\ ~informer[t].synced
    /\ informer' = [informer EXCEPT ![t].synced = TRUE]
    /\ UNCHANGED <<informers, started, wg, shuttingDown, closed, call, stopped>>

\* Mutant: Done is not deferred but called when the informer had synced.
EndedWithoutDone(t) ==
    /\ informer[t].state = "running" /\ informer[t].chan \in closed
    /\ informer' = [informer EXCEPT ![t].state = "ended"]
    /\ wg' = IF informer[t].synced THEN wg - 1 ELSE wg
    /\ UNCHANGED <<informers, started, shuttingDown, closed, call, stopped>>

\* Run returns, and the deferred Done follows.
Ended(t) ==
    /\ informer[t].state = "running" /\ informer[t].chan \in closed
    /\ informer' = [informer EXCEPT ![t].state = "ended"]
    /\ wg' = wg - 1
    /\ UNCHANGED <<informers, started, shuttingDown, closed, call, stopped>>

CloseChan(ch) ==
    /\ ch \notin closed
    /\ closed' = closed \cup {ch}
    /\ UNCHANGED <<informers, started, wg, shuttingDown, informer, call, stopped>>
-----------------------------------------------------------------------------
Invoke(c) ==
    \/ \E t \in Type : InformerFor(c, t)
    \/ \E ch \in Chan : Start(c, ch) \/ WaitForCacheSync(c, ch)
    \/ Shutdown(c)

Return(c) ==
    \/ ShutdownReturns(c)
    \/ \E t \in Type : CacheSynced(c, t)
    \/ WaitForCacheSyncReturns(c)

Informers == \E t \in Type : Synced(t) \/ Ended(t)

Next ==
    \/ \E c \in Caller : Invoke(c) \/ Return(c)
    \/ Informers
    \/ \E ch \in Chan : CloseChan(ch)

Spec == Init /\ [][Next]_vars

\* Goroutines run and lists arrive; nobody has to call anything, and nobody
\* has to close a channel.
Fairness ==
    /\ \A t \in Type : WF_vars(Synced(t)) /\ WF_vars(Ended(t))
    /\ \A c \in Caller : WF_vars(Return(c))

FairSpec == Spec /\ Fairness
-----------------------------------------------------------------------------
(***************************************************************************)
(* Properties.                                                             *)
(***************************************************************************)
\* "This allows Start() to be called multiple times safely" (factory.go:47-48)
\* by several goroutines, between registrations and with different channels:
\* no informer is run twice, and the WaitGroup counts those that run.
RunOnce ==
    /\ \A t \in Type : informer[t].runs <= 1
    /\ wg = Cardinality(Running)

\* wg.Add is never called while a Wait may be under way, which the WaitGroup
\* does not allow when its counter is zero.
NoAddWhileWaiting ==
    [][wg' > wg => \A c \in Caller : call[c].op # "shutdown"]_vars

\* What WaitForCacheSync reports as synced is synced, and what it waits for is
\* started.
ReportsTruth ==
    \A c \in Caller : /\ \A t \in call[c].synced : informer[t].synced
                      /\ call[c].pending \subseteq started

\* A Shutdown whose informers' channels are closed, "before Shutdown gets
\* called or while it is waiting" (factory.go:227-229), returns.
ShutdownEnds ==
    \A c \in Caller : call[c].op = "shutdown" /\ closed = Chan ~> call[c].op # "shutdown"

\* "WaitForCacheSync blocks until all started informers' caches were synced or
\* the stop channel gets closed" (factory.go:235-236), and not for informers
\* that are registered and never started.  It waits for ever only for one that
\* was started with another channel and stopped before it had synced.
WaitEnds ==
    \A c \in Caller :
       call[c].op = "sync" ~>
          \/ call[c].op # "sync"
          \/ /\ call[c].chan \notin closed
             /\ \E t \in call[c].pending : informer[t].state = "ended" /\ ~informer[t].synced

\* The factory implements the lifecycle: "no new informers can be started
\* anymore" once Shutdown was called, and "all such calls will block until all
\* goroutines have terminated" (factory.go:223-232).
Abstract == INSTANCE Lifecycle WITH
    Task <- Type,
    task <- [t \in Type |-> informer[t].state],
    phase <- IF stopped THEN "closed" ELSE IF shuttingDown THEN "closing" ELSE "open"
Refines == Abstract!Spec
=============================================================================
