------------------------------- MODULE Clients -------------------------------
(***************************************************************************)
(* Callers of the generated typed clients, and the same calls made to the  *)
(* generated fakes, as the unit tests of the sample controllers do.  The   *)
(* two stores go side by side, so that a test's view can be compared with  *)
(* the API server's.                                                       *)
(***************************************************************************)
EXTENDS Resources

VARIABLES
    server,   \* the API server's objects
    version,  \* its last resource version
    tracker,  \* the fake's objects
    answers,  \* of the last call: the client's and the fake's
    called,   \* the namespace of the last call
    tainted   \* a call asked for what the fake does not do

clientsVars == <<kind, server, version, tracker, answers, called, tainted>>

\* The generated copies.
SampleClient == INSTANCE TypedClient WITH HasStatus <- TRUE
AppClient == INSTANCE TypedClient WITH HasStatus <- FALSE
CrdClient == INSTANCE TypedClient WITH HasStatus <- FALSE
SampleFake == INSTANCE FakeClient WITH HasStatus <- TRUE
AppFake == INSTANCE FakeClient WITH HasStatus <- FALSE
CrdFake == INSTANCE FakeClient WITH HasStatus <- FALSE

Selector == Label \cup {None}

NoCall == [method |-> None, name |-> None, object |-> None, labels |-> None,
           patch |-> None, sub |-> None]

Call(method) == [NoCall EXCEPT !.method = method]

CallsByName == {[Call(m) EXCEPT !.name = n] : m \in {"Get", "Delete"}, n \in Name}

CallsBySelector ==
    {[Call(m) EXCEPT !.labels = l] : m \in {"List", "DeleteCollection"}, l \in Selector}

CallsWithObject ==
    {[Call(m) EXCEPT !.object = o] :
       m \in {"Create", "Update"} \cup (IF WithStatus THEN {"UpdateStatus"} ELSE {}),
       o \in Server!Object(0 .. version)}

PatchCall(n, p, s) == [Call("Patch") EXCEPT !.name = n, !.patch = p, !.sub = s]
PatchCalls ==
    {PatchCall(n, p, s) : n \in Name, p \in Server!PatchData, s \in {None, "status"}}

Calls == CallsByName \cup CallsBySelector \cup CallsWithObject \cup PatchCalls

\* NewSimpleClientset tracks the objects it is given, here those of the server.
ClientsInit ==
    /\ kind \in Kind
    /\ \E S \in SUBSET Key :
          /\ server = [k \in Key |-> IF k \in S
                         THEN [ns |-> k[1], name |-> k[2], rv |-> 1,
                               label |-> CHOOSE l \in Label : TRUE, status |-> 0]
                         ELSE None]
          /\ tracker = server
    /\ version = 1
    /\ answers = [real |-> None, fake |-> None]
    /\ called = None
    /\ tainted = FALSE

\* What a call may ask of the fake: it checks no version, knows no status
\* apart from the object, and deletes no collection.
Supported(ns, c) ==
    LET written == IF c.object # None THEN <<ns, c.object.name>> ELSE <<ns, c.name>> IN
    CASE c.method = "Create" -> c.object.rv = 0 /\ c.object.status = 0
      [] c.method \in {"Update", "UpdateStatus"} ->
           server[written] # None =>
              /\ c.object.rv = server[written].rv
              /\ WithStatus => IF c.method = "Update"
                               THEN c.object.status = server[written].status
                               ELSE c.object.label = server[written].label
      [] c.method = "Patch" -> IF c.sub = None THEN WithStatus => c.patch.status = None
                               ELSE WithStatus /\ c.patch.label = None
      [] c.method = "DeleteCollection" ->
           \A k \in Key : ~Server!Selects(ns, c.labels, server[k])
      [] OTHER -> TRUE

Outcome(real, fake, ns, supported) ==
    /\ server' = real.store /\ version' = real.version
    /\ tracker' = fake.store
    /\ answers' = [real |-> [code |-> real.code, items |-> real.items],
                   fake |-> [code |-> fake.code, items |-> fake.items]]
    /\ called' = ns
    /\ tainted' = (tainted \/ ~supported)
    /\ UNCHANGED kind

Do(ns, c) ==
    \/ /\ kind = "sample"
       /\ Outcome(SampleClient!Answer(server, version, SampleClient!FooInterface(ns, c)),
                  SampleFake!FooInterface(tracker, ns, c), ns, Supported(ns, c))
    \/ /\ kind = "app"
       /\ Outcome(AppClient!Answer(server, version, AppClient!FooInterface(ns, c)),
                  AppFake!FooInterface(tracker, ns, c), ns, Supported(ns, c))
    \/ /\ kind = "crd"
       /\ Outcome(CrdClient!Answer(server, version, CrdClient!FooInterface(ns, c)),
                  CrdFake!FooInterface(tracker, ns, c), ns, Supported(ns, c))

\* The two are compared until a call asks for what the fake does not do, and
\* MaxVersion bounds the writes.
ClientsNext == ~tainted /\ version < MaxVersion /\ \E ns \in Namespace, c \in Calls : Do(ns, c)

ClientsSpec == ClientsInit /\ [][ClientsNext]_clientsVars
-----------------------------------------------------------------------------
(***************************************************************************)
(* Properties.                                                             *)
(***************************************************************************)
\* Objects are where their namespace and name say.
StoresFit ==
    /\ kind \in Kind /\ version \in 1 .. MaxVersion
    /\ \A store \in {server, tracker} : \A k \in Key :
          store[k] = None \/ (store[k].ns = k[1] /\ store[k].name = k[2])

Plain(o) == IF o = None THEN None ELSE [o EXCEPT !.rv = 0]

\* A test with the fake sees what the API server would do, as long as it does
\* not rely on what the fake leaves out ("without applying any validations
\* and/or defaults", clientset_generated.go:33-34): answers and objects agree
\* but for the versions, after any sequence of calls.
FakeAgrees ==
    ~tainted =>
        /\ \A k \in Key : Plain(tracker[k]) = Plain(server[k])
        /\ called # None =>
             /\ answers.real.code = answers.fake.code
             /\ {Plain(o) : o \in answers.real.items} = {Plain(o) : o \in answers.fake.items}

\* A client of one namespace changes and returns nothing of another, on the
\* server and in the fake.
OnlyItsNamespace ==
    [][/\ \A k \in Key : k[1] # called' => server'[k] = server[k] /\ tracker'[k] = tracker[k]
       /\ \A o \in answers'.real.items \cup answers'.fake.items : o.ns = called']_clientsVars
=============================================================================
