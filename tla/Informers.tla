------------------------------ MODULE Informers ------------------------------
(***************************************************************************)
(* Informers, listers and deep copies at work, in the copies generated for *)
(* each resource: users change objects through the typed client, the       *)
(* informer follows, and a worker of the program reads the cache through   *)
(* the lister, edits a deep copy and sends it back, as updateFooStatus     *)
(* does (app-contoller/controller.go:329-342).                             *)
(***************************************************************************)
EXTENDS Resources, Sequences, FiniteSets

CONSTANT MaxBreaks    \* bound on watches that break

VARIABLES
    history, scope, phase, position, watch, indexer, breaks,
    copy   \* the worker's deep copy

SampleInformer == INSTANCE Informer WITH HasStatus <- TRUE
AppInformer == INSTANCE Informer WITH HasStatus <- FALSE
CrdInformer == INSTANCE Informer WITH HasStatus <- FALSE

ASSUME MaxBreaksAssumption == MaxBreaks \in Nat

SampleLister == INSTANCE Lister
AppLister == INSTANCE Lister
CrdLister == INSTANCE Lister

SampleCopy == INSTANCE DeepCopy
AppCopy == INSTANCE DeepCopy
CrdCopy == INSTANCE DeepCopy

reflector == <<phase, position, watch, indexer, breaks>>
vars == <<kind, history, scope, reflector, copy>>

Now == history[Len(history)]

\* NewSharedInformerFactoryWithOptions: all namespaces unless WithNamespace,
\* everything unless WithTweakListOptions.
Init ==
    /\ kind \in Kind
    /\ scope \in [ns : {SampleInformer!NamespaceAll, CHOOSE n \in Namespace : TRUE},
                  labels : {None, CHOOSE l \in Label : TRUE}]
    /\ history = <<[k \in Key |-> None]>>
    /\ SampleInformer!InitInformer
    /\ copy = SampleCopy!NoCopy
-----------------------------------------------------------------------------
\* An answer of the API server.
Answered(answer) ==
    /\ history' = IF answer.version > Len(history) THEN Append(history, answer.store) ELSE history
    /\ UNCHANGED <<kind, scope, reflector>>

Send(request) ==
    /\ Len(history) < MaxVersion
    /\ \/ kind = "sample"
          /\ Answered(SampleInformer!Answer(Now, Len(history), request))
       \/ kind = "app"
          /\ Answered(AppInformer!Answer(Now, Len(history), request))
       \/ kind = "crd"
          /\ Answered(CrdInformer!Answer(Now, Len(history), request))

User(ns, name) ==
    /\ IF Now[<<ns, name>>] = None
       THEN \E l \in Label :
              Send(SampleInformer!Create(ns, [ns |-> ns, name |-> name, rv |-> 0,
                                              label |-> l, status |-> 0]))
       ELSE \/ Send(SampleInformer!Delete(ns, name))
            \/ \E l \in Label \ {Now[<<ns, name>>].label} :
                  Send(SampleInformer!Patch(ns, name, [label |-> l, status |-> None], None))
    /\ UNCHANGED copy

\* The worker looks an object up and copies it.
GetAndCopy(ns, name) ==
    /\ copy.object = None
    /\ \/ kind = "sample"
          /\ copy' = SampleCopy!DeepCopied(SampleLister!Get(indexer, ns, name))
       \/ kind = "app"
          /\ copy' = AppCopy!DeepCopied(AppLister!Get(indexer, ns, name))
       \/ kind = "crd"
          /\ copy' = CrdCopy!DeepCopied(CrdLister!Get(indexer, ns, name))
    /\ UNCHANGED <<kind, history, scope, reflector>>

\* Writing through a pointer the copy shares writes the cached object, as long
\* as the cache has not replaced it.
Write(path, o) ==
    LET k == <<o.ns, o.name>> IN
    /\ copy' = [copy EXCEPT !.object = o]
    /\ indexer' = IF path \in copy.shared /\ indexer[k] = copy.object
                  THEN [indexer EXCEPT ![k] = o] ELSE indexer

Edit ==
    /\ copy.object # None
    /\ \/ \E path \in {"metadata", "spec"}, l \in Label \ {copy.object.label} :
             Write(path, [copy.object EXCEPT !.label = l])
       \/ /\ kind = "sample" /\ copy.object.status = 0
          /\ Write("status", [copy.object EXCEPT !.status = 1])
    /\ UNCHANGED <<kind, history, scope, phase, position, watch, breaks>>

\* ... and sends it; the answer is not kept.
SendCopy ==
    /\ copy.object # None
    /\ LET o == copy.object IN
         \/ Send(SampleInformer!Update(o.ns, o))
         \/ /\ kind = "sample"
            /\ Send(SampleInformer!UpdateStatus(o.ns, o))
    /\ copy' = SampleCopy!NoCopy

Reflect ==
    /\ \/ kind = "sample" /\ SampleInformer!Reflect
       \/ kind = "app" /\ AppInformer!Reflect
       \/ kind = "crd" /\ CrdInformer!Reflect
    /\ UNCHANGED <<kind, copy>>

WatchBreaks == SampleInformer!Break /\ UNCHANGED <<kind, copy>>

Next ==
    \/ \E ns \in Namespace, name \in Name : User(ns, name) \/ GetAndCopy(ns, name)
    \/ Edit \/ SendCopy \/ Reflect \/ WatchBreaks

Spec == Init /\ [][Next]_vars

\* The reflector lists again after every error, and the server sends what it has.
FairSpec == Spec /\ WF_vars(Reflect)
-----------------------------------------------------------------------------
(***************************************************************************)
(* Properties.                                                             *)
(***************************************************************************)
TypeOK ==
    /\ kind \in Kind /\ Len(history) \in 1 .. MaxVersion
    /\ phase \in {"list", "watch", "watching"} /\ position \in 0 .. Len(history)
    /\ breaks \in 0 .. MaxBreaks
    /\ phase = "watching" => watch.rv \in 1 .. position
    /\ copy.shared \subseteq {"metadata", "spec"}
    /\ \A k \in Key : indexer[k] = None \/ (indexer[k].ns = k[1] /\ indexer[k].name = k[2])

Visible(state) == SampleInformer!Selected(state, scope.ns, scope.labels)

\* The cache implements a mirror of the server's past, restricted to the
\* namespace and the filter of the factory ("Listers obtained via this
\* SharedInformerFactory will be subject to the same filters",
\* factory.go:89-90): list and watch select the same objects, and a worker
\* that edits its copy does not edit the cache ("Objects returned here must
\* be treated as read-only", lister foo.go:29).
View == INSTANCE Mirror WITH
    past <- [v \in 1 .. Len(history) |-> Visible(history[v])],
    view <- {indexer[k] : k \in Key} \ {None}
Mirrors == View!Spec

\* When nobody writes any more the cache comes to show what there is, after
\* any number of broken watches.
CatchesUp == <>[]({indexer[k] : k \in Key} \ {None} = Visible(Now))

\* The lister's three ways to an object agree: the list, the lists of the
\* namespaces, and Get.
ListersAgree ==
    \A l \in Label \cup {None} :
        LET all == AppLister!List(indexer, l) IN
        /\ all = UNION {AppLister!NamespaceList(indexer, ns, l) : ns \in Namespace}
        /\ \A ns \in Namespace :
              AppLister!NamespaceList(indexer, ns, l) = {o \in all : o.ns = ns}
        /\ \A k \in Key : LET o == AppLister!Get(indexer, k[1], k[2]) IN
              o \in all <=> AppLister!Matches(o, l)
=============================================================================
