--------------------------- MODULE ResourcesProofs ---------------------------
(***************************************************************************)
(* For any namespaces, names, labels and numbers of versions and broken    *)
(* watches.  Clients: the generated fakes answer as the API server does,   *)
(* and no client leaves its namespace.  Informers: the cache of a          *)
(* generated informer is a mirror of the server's past, and the ways to    *)
(* read it agree.                                                          *)
(***************************************************************************)
EXTENDS Clients, Informers, SequenceTheorems, TLAPS

\* Objects are where their namespace and name say.
Fits(k, o) == o.ns = k[1] /\ o.name = k[2]

\* What the clients of this kind keep.
Kept == Server!Object(Nat)
Stored == {s \in [Key -> Kept \cup {None}] : \A k \in Key : s[k] # None => Fits(k, s[k])}

\* The stores are alike but for the versions.
Alike(s, t) == \A k \in Key : Plain(s[k]) = Plain(t[k])

\* What is in an object that is kept.
LEMMA KeptObjects ==
    /\ None \notin Kept
    /\ \A o \in Kept : /\ o # None /\ o.ns \in Namespace /\ o.name \in Name /\ o.rv \in Nat
                       /\ o.label \in Label /\ o.status \in {0, 1}
                       /\ ~WithStatus => o.status = 0
  BY ConstantsAssumption DEF Kept, Server!Object, Server!Status

\* The generated copies send the same requests.
LEMMA SameRequests ==
    ASSUME NEW ns, NEW c
    PROVE  /\ AppClient!FooInterface(ns, c) = SampleClient!FooInterface(ns, c)
           /\ CrdClient!FooInterface(ns, c) = SampleClient!FooInterface(ns, c)
  BY Zenon
     DEF SampleClient!FooInterface, SampleClient!Get, SampleClient!List, SampleClient!Create,
         SampleClient!Update, SampleClient!UpdateStatus, SampleClient!Delete,
         SampleClient!DeleteCollection, SampleClient!Patch, SampleClient!Request,
         SampleClient!NoRequest,
         AppClient!FooInterface, AppClient!Get, AppClient!List, AppClient!Create,
         AppClient!Update, AppClient!UpdateStatus, AppClient!Delete,
         AppClient!DeleteCollection, AppClient!Patch, AppClient!Request,
         AppClient!NoRequest,
         CrdClient!FooInterface, CrdClient!Get, CrdClient!List, CrdClient!Create,
         CrdClient!Update, CrdClient!UpdateStatus, CrdClient!Delete,
         CrdClient!DeleteCollection, CrdClient!Patch, CrdClient!Request,
         CrdClient!NoRequest

\* And their fakes answer alike.
LEMMA SameFakes ==
    ASSUME NEW t, NEW ns, NEW c
    PROVE  /\ AppFake!FooInterface(t, ns, c) = SampleFake!FooInterface(t, ns, c)
           /\ CrdFake!FooInterface(t, ns, c) = SampleFake!FooInterface(t, ns, c)
  BY Zenon
     DEF SampleFake!FooInterface, SampleFake!Get, SampleFake!List, SampleFake!Create,
         SampleFake!Update, SampleFake!UpdateStatus, SampleFake!Delete,
         SampleFake!DeleteCollection, SampleFake!Patch, SampleFake!Stored, SampleFake!Rejected,
         SampleFake!Found, SampleFake!Patched, SampleFake!Selected, SampleFake!Selects,
         SampleFake!Key, SampleFake!NamespaceAll,
         AppFake!FooInterface, AppFake!Get, AppFake!List, AppFake!Create,
         AppFake!Update, AppFake!UpdateStatus, AppFake!Delete,
         AppFake!DeleteCollection, AppFake!Patch, AppFake!Stored, AppFake!Rejected,
         AppFake!Found, AppFake!Patched, AppFake!Selected, AppFake!Selects,
         AppFake!Key, AppFake!NamespaceAll,
         CrdFake!FooInterface, CrdFake!Get, CrdFake!List, CrdFake!Create,
         CrdFake!Update, CrdFake!UpdateStatus, CrdFake!Delete,
         CrdFake!DeleteCollection, CrdFake!Patch, CrdFake!Stored, CrdFake!Rejected,
         CrdFake!Found, CrdFake!Patched, CrdFake!Selected, CrdFake!Selects,
         CrdFake!Key, CrdFake!NamespaceAll

Verbs == {"GET", "LIST", "POST", "PUT", "PATCH", "DELETE"}

\* A server with the status subresource is Server when the kind has one.
LEMMA SampleServer ==
    ASSUME WithStatus, NEW s, NEW v, NEW r, r.verb \in Verbs
    PROVE  SampleClient!Answer(s, v, r) = Server!Answer(s, v, r)
<1> DEFINE k == <<r.ns, r.name>>
<1>1. \A l, o : SampleClient!Put(s, v, l, o) = Server!Put(s, v, l, o)
  BY Zenon DEF SampleClient!Put, SampleClient!Serve, Server!Put, Server!Serve
<1>2. \A old, body, sub : SampleClient!Merge(old, body, sub) = Server!Merge(old, body, sub)
  BY DEF SampleClient!Merge, Server!Merge
<1>3. SampleClient!Post(s, v, r) = Server!Post(s, v, r)
  BY <1>1, Zenon DEF SampleClient!Post, SampleClient!Refuse, Server!Post, Server!Refuse
<1>4. SampleClient!Replace(s, v, r) = Server!Replace(s, v, r)
  BY <1>1, <1>2, Zenon DEF SampleClient!Replace, SampleClient!Refuse, Server!Replace, Server!Refuse
<1>5. SampleClient!Modify(s, v, r) = Server!Modify(s, v, r)
  <2>1. SampleClient!Patched(s[k], r.body) = Server!Patched(s[k], r.body)
    BY Zenon DEF SampleClient!Patched, Server!Patched
  <2> QED  BY <1>1, <1>2, <2>1, Zenon
              DEF SampleClient!Modify, SampleClient!Refuse, Server!Modify, Server!Refuse
<1>6. \A S : SampleClient!Remove(s, v, S) = Server!Remove(s, v, S)
  BY Zenon DEF SampleClient!Remove, SampleClient!Serve, SampleClient!Key,
               Server!Remove, Server!Serve, Server!Key
<1>7. SampleClient!Selected(s, r.ns, r.labels) = Server!Selected(s, r.ns, r.labels)
  BY Zenon DEF SampleClient!Selected, SampleClient!Selects, SampleClient!Key, SampleClient!NamespaceAll,
               Server!Selected, Server!Selects, Server!Key, Server!NamespaceAll
<1>8. \A items, code : /\ SampleClient!Serve(s, v, items) = Server!Serve(s, v, items)
                       /\ SampleClient!Refuse(s, v, code) = Server!Refuse(s, v, code)
  BY Zenon DEF SampleClient!Serve, SampleClient!Refuse, Server!Serve, Server!Refuse
<1> QED
  <2>1. CASE r.verb = "GET"
    BY <1>8, <2>1 DEF SampleClient!Answer, Server!Answer
  <2>2. CASE r.verb = "LIST"
    BY <1>7, <1>8, <2>2 DEF SampleClient!Answer, Server!Answer
  <2>3. CASE r.verb = "POST"
    BY <1>3, <1>8, <2>3 DEF SampleClient!Answer, Server!Answer
  <2>4. CASE r.verb = "PUT"
    BY <1>4, <1>8, <2>4 DEF SampleClient!Answer, Server!Answer
  <2>5. CASE r.verb = "PATCH"
    BY <1>5, <1>8, <2>5 DEF SampleClient!Answer, Server!Answer
  <2>6. CASE r.verb = "DELETE"
    BY <1>6, <1>7, <1>8, <2>6 DEF SampleClient!Answer, Server!Answer
  <2> QED  BY <2>1, <2>2, <2>3, <2>4, <2>5, <2>6 DEF Verbs
\* And one without it when it has none.
LEMMA AppServer ==
    ASSUME ~WithStatus, NEW s, NEW v, NEW r, r.verb \in Verbs
    PROVE  AppClient!Answer(s, v, r) = Server!Answer(s, v, r)
<1> DEFINE k == <<r.ns, r.name>>
<1>1. \A l, o : AppClient!Put(s, v, l, o) = Server!Put(s, v, l, o)
  BY Zenon DEF AppClient!Put, AppClient!Serve, Server!Put, Server!Serve
<1>2. \A old, body, sub : AppClient!Merge(old, body, sub) = Server!Merge(old, body, sub)
  BY DEF AppClient!Merge, Server!Merge
<1>3. AppClient!Post(s, v, r) = Server!Post(s, v, r)
  BY <1>1, Zenon DEF AppClient!Post, AppClient!Refuse, Server!Post, Server!Refuse
<1>4. AppClient!Replace(s, v, r) = Server!Replace(s, v, r)
  BY <1>1, <1>2, Zenon DEF AppClient!Replace, AppClient!Refuse, Server!Replace, Server!Refuse
<1>5. AppClient!Modify(s, v, r) = Server!Modify(s, v, r)
  <2>1. AppClient!Patched(s[k], r.body) = Server!Patched(s[k], r.body)
    BY Zenon DEF AppClient!Patched, Server!Patched
  <2> QED  BY <1>1, <1>2, <2>1, Zenon
              DEF AppClient!Modify, AppClient!Refuse, Server!Modify, Server!Refuse
<1>6. \A S : AppClient!Remove(s, v, S) = Server!Remove(s, v, S)
  BY Zenon DEF AppClient!Remove, AppClient!Serve, AppClient!Key,
               Server!Remove, Server!Serve, Server!Key
<1>7. AppClient!Selected(s, r.ns, r.labels) = Server!Selected(s, r.ns, r.labels)
  BY Zenon DEF AppClient!Selected, AppClient!Selects, AppClient!Key, AppClient!NamespaceAll,
               Server!Selected, Server!Selects, Server!Key, Server!NamespaceAll
<1>8. \A items, code : /\ AppClient!Serve(s, v, items) = Server!Serve(s, v, items)
                       /\ AppClient!Refuse(s, v, code) = Server!Refuse(s, v, code)
  BY Zenon DEF AppClient!Serve, AppClient!Refuse, Server!Serve, Server!Refuse
<1> QED
  <2>1. CASE r.verb = "GET"
    BY <1>8, <2>1 DEF AppClient!Answer, Server!Answer
  <2>2. CASE r.verb = "LIST"
    BY <1>7, <1>8, <2>2 DEF AppClient!Answer, Server!Answer
  <2>3. CASE r.verb = "POST"
    BY <1>3, <1>8, <2>3 DEF AppClient!Answer, Server!Answer
  <2>4. CASE r.verb = "PUT"
    BY <1>4, <1>8, <2>4 DEF AppClient!Answer, Server!Answer
  <2>5. CASE r.verb = "PATCH"
    BY <1>5, <1>8, <2>5 DEF AppClient!Answer, Server!Answer
  <2>6. CASE r.verb = "DELETE"
    BY <1>6, <1>7, <1>8, <2>6 DEF AppClient!Answer, Server!Answer
  <2> QED  BY <2>1, <2>2, <2>3, <2>4, <2>5, <2>6 DEF Verbs

\* So is the third copy.
LEMMA CrdServer ==
    ASSUME NEW s, NEW v, NEW r
    PROVE  CrdClient!Answer(s, v, r) = AppClient!Answer(s, v, r)
  BY Zenon
     DEF CrdClient!Answer, CrdClient!Post, CrdClient!Replace, CrdClient!Modify,
         CrdClient!Remove, CrdClient!Refuse, CrdClient!Serve, CrdClient!Put,
         CrdClient!Merge, CrdClient!Patched, CrdClient!Selected, CrdClient!Selects,
         CrdClient!Key, CrdClient!NamespaceAll,
         AppClient!Answer, AppClient!Post, AppClient!Replace, AppClient!Modify,
         AppClient!Remove, AppClient!Refuse, AppClient!Serve, AppClient!Put,
         AppClient!Merge, AppClient!Patched, AppClient!Selected, AppClient!Selects,
         AppClient!Key, AppClient!NamespaceAll

\* A call and what it is answered, whatever the kind.
Asked(ns, c) == SampleClient!FooInterface(ns, c)
Real(ns, c) == Server!Answer(server, version, Asked(ns, c))
Fake(ns, c) == SampleFake!FooInterface(tracker, ns, c)

Methods == {"Get", "List", "Create", "Update", "UpdateStatus", "Delete", "DeleteCollection", "Patch"}

\* Every method sends one of the verbs.
LEMMA AskedVerbs ==
    ASSUME NEW ns, NEW c, c.method \in Methods
    PROVE  Asked(ns, c).verb \in Verbs
  BY DEF Asked, Methods, Verbs, SampleClient!FooInterface, SampleClient!Get, SampleClient!List,
         SampleClient!Create, SampleClient!Update, SampleClient!UpdateStatus, SampleClient!Delete,
         SampleClient!DeleteCollection, SampleClient!Patch, SampleClient!Request,
         SampleClient!NoRequest

\* A step is a call to the client and to the fake of some copy, and it is the
\* same for all.
LEMMA DoIs ==
    ASSUME NEW ns, NEW c, c.method \in Methods, Do(ns, c)
    PROVE  Outcome(Real(ns, c), Fake(ns, c), ns, Supported(ns, c))
<1>1. Asked(ns, c).verb \in Verbs
  BY AskedVerbs
<1>2. CASE kind = "sample"
  <2>1. SampleClient!Answer(server, version, Asked(ns, c)) = Real(ns, c)
    BY <1>1, <1>2, SampleServer DEF Real, WithStatus
  <2> QED  BY <1>2, <2>1 DEF Do, Asked, Fake
<1>3. CASE kind # "sample"
  <2>1. AppClient!Answer(server, version, Asked(ns, c)) = Real(ns, c)
    BY <1>1, <1>3, AppServer DEF Real, WithStatus
  <2>2. CrdClient!Answer(server, version, Asked(ns, c)) = Real(ns, c)
    BY <2>1, CrdServer
  <2> QED  BY <1>3, <2>1, <2>2, SameRequests, SameFakes DEF Do, Asked, Fake
<1> QED  BY <1>2, <1>3
-----------------------------------------------------------------------------
\* What Plain leaves of an object.
LEMMA PlainObjects ==
    /\ Plain(None) = None
    /\ \A o \in Kept : Plain(o) # None
    /\ \A o, p \in Kept : Plain(o) = Plain(p) <=>
          o.ns = p.ns /\ o.name = p.name /\ o.label = p.label /\ o.status = p.status
<1>1. \A o \in Kept : Plain(o) = [o EXCEPT !.rv = 0] /\ Plain(o) \in Kept
  BY KeptObjects DEF Plain, Kept, Server!Object
<1>2. \A o, p \in Kept : Plain(o) = Plain(p) <=>
          o.ns = p.ns /\ o.name = p.name /\ o.label = p.label /\ o.status = p.status
  BY <1>1 DEF Kept, Server!Object
<1> QED  BY <1>1, <1>2, KeptObjects DEF Plain

\* Alike stores have objects in the same places, alike but for the version.
LEMMA AlikeObjects ==
    ASSUME NEW s \in Stored, NEW t \in Stored, Alike(s, t), NEW k \in Key
    PROVE  /\ s[k] = None <=> t[k] = None
           /\ s[k] # None => /\ s[k] \in Kept /\ t[k] \in Kept /\ Fits(k, s[k]) /\ Fits(k, t[k])
                             /\ s[k].label = t[k].label /\ s[k].status = t[k].status
  BY PlainObjects DEF Alike, Stored

\* An answer keeps the store's objects in place, and changes and shows the
\* namespace's only.
Within(ns, s, answer) ==
    /\ answer.store \in Stored
    /\ \A k \in Key : k[1] # ns => answer.store[k] = s[k]
    /\ \A o \in answer.items : o \in Kept /\ o.ns = ns

\* The answers of client and fake agree.
Agree(real, fake) ==
    /\ Alike(fake.store, real.store)
    /\ real.code = fake.code
    /\ {Plain(o) : o \in real.items} = {Plain(o) : o \in fake.items}

\* Nothing is written and nothing is shown.
LEMMA Refused ==
    ASSUME NEW s \in Stored, NEW t \in Stored, NEW v, NEW ns, NEW code
    PROVE  /\ Within(ns, s, Server!Refuse(s, v, code)) /\ Server!Refuse(s, v, code).version = v
           /\ Within(ns, t, SampleFake!Rejected(t, code))
           /\ Alike(t, s) => Agree(Server!Refuse(s, v, code), SampleFake!Rejected(t, code))
  BY DEF Within, Agree, Server!Refuse, SampleFake!Rejected

\* An object is written.
LEMMA Written ==
    ASSUME NEW s \in Stored, NEW t \in Stored, NEW v \in Nat, NEW k \in Key,
           NEW o \in Kept, Fits(k, o), NEW p \in Kept, Fits(k, p)
    PROVE  LET real == Server!Put(s, v, k, o)
               fake == SampleFake!Stored(t, k, p) IN
           /\ Within(k[1], s, real) /\ real.version \in {v, v + 1}
           /\ Within(k[1], t, fake)
           /\ Alike(t, s) /\ Plain(o) = Plain(p) => Agree(real, fake)
<1> DEFINE real == Server!Put(s, v, k, o)
           fake == SampleFake!Stored(t, k, p)
<1> DEFINE Puts(q) == /\ real.store = [s EXCEPT ![k] = q] /\ real.items = {q} /\ real.code = "OK"
                      /\ Plain(q) = Plain(o) /\ Fits(k, q) /\ real.version \in {v, v + 1}
<1>1. \E q \in Kept : Puts(q)
  <2>1. CASE s[k] # None /\ [o EXCEPT !.rv = s[k].rv] = s[k]
    <3>1. real = Server!Serve(s, v, {s[k]})
      BY <2>1 DEF Server!Put
    <3>2. s[k] \in Kept /\ Fits(k, s[k]) /\ [s EXCEPT ![k] = s[k]] = s
      BY <2>1 DEF Stored
    <3>3. s[k].label = o.label /\ s[k].status = o.status /\ s[k].ns = o.ns /\ s[k].name = o.name
      BY <2>1, <3>2 DEF Kept, Server!Object
    <3>4. Plain(s[k]) = Plain(o)
      BY <3>2, <3>3, PlainObjects
    <3>5. Puts(s[k])
      BY <3>1, <3>2, <3>4 DEF Server!Serve
    <3> QED  BY <3>2, <3>5
  <2>2. CASE ~(s[k] # None /\ [o EXCEPT !.rv = s[k].rv] = s[k])
    <3> DEFINE q == [o EXCEPT !.rv = v + 1]
    <3>1. real = Server!Serve([s EXCEPT ![k] = q], v + 1, {q})
      BY <2>2 DEF Server!Put
    <3>2. q \in Kept /\ Fits(k, q) /\ q.ns = o.ns /\ q.name = o.name /\ q.label = o.label
          /\ q.status = o.status
      BY DEF Kept, Server!Object, Fits
    <3>3. Plain(q) = Plain(o)
      BY <3>2, PlainObjects
    <3>4. Puts(q)
      BY <3>1, <3>2, <3>3 DEF Server!Serve
    <3> HIDE DEF q
    <3> QED  BY <3>2, <3>4
  <2> QED  BY <2>1, <2>2
<1>2. PICK q \in Kept : Puts(q)
  BY <1>1
<1>3. fake.store = [t EXCEPT ![k] = p] /\ fake.items = {p} /\ fake.code = "OK"
  BY DEF SampleFake!Stored
<1> HIDE DEF real, fake
<1>4. Within(k[1], s, real) /\ Within(k[1], t, fake)
  BY <1>2, <1>3 DEF Within, Stored, Fits
<1>5. ASSUME Alike(t, s), Plain(o) = Plain(p) PROVE Agree(real, fake)
  <2>1. Alike(fake.store, real.store)
    BY <1>2, <1>3, <1>5 DEF Alike, Stored
  <2> QED  BY <1>2, <1>3, <1>5, <2>1 DEF Agree
<1> QED  BY <1>2, <1>4, <1>5 DEF real, fake
-----------------------------------------------------------------------------
\* What a call of each method carries.
LEMMA CallsCarry ==
    ASSUME NEW c \in Calls
    PROVE  /\ c.method \in Methods
           /\ c.method \in {"Get", "Delete"} => c.name \in Name /\ c.object = None
           /\ c.method \in {"List", "DeleteCollection"} => c.labels \in Selector /\ c.object = None
           /\ c.method \in {"Create", "Update", "UpdateStatus"} => c.object \in Kept
           /\ c.method = "UpdateStatus" => WithStatus
           /\ c.method = "Patch" => /\ c.name \in Name /\ c.patch \in Server!PatchData /\ c.object = None
                                    /\ c.sub \in {None, "status"}
<1>1. CASE \E m \in {"Get", "Delete"}, n \in Name : c = [Call(m) EXCEPT !.name = n]
  BY <1>1 DEF Call, NoCall, Methods
<1>2. CASE \E m \in {"List", "DeleteCollection"}, l \in Selector : c = [Call(m) EXCEPT !.labels = l]
  BY <1>2 DEF Call, NoCall, Methods
<1>3. CASE \E m \in {"Create", "Update"} \cup (IF WithStatus THEN {"UpdateStatus"} ELSE {}),
              o \in Server!Object(0 .. version) : c = [Call(m) EXCEPT !.object = o]
  <2>1. Server!Object(0 .. version) \subseteq Kept
    BY DEF Kept, Server!Object
  <2> QED  BY <1>3, <2>1 DEF Call, NoCall, Methods
<1>4. CASE \E n \in Name, p \in Server!PatchData, sub \in {None, "status"} :
              c = PatchCall(n, p, sub)
  BY <1>4 DEF PatchCall, Call, NoCall, Methods
<1>5. c \in CallsByName \/ c \in CallsBySelector \/ c \in CallsWithObject \/ c \in PatchCalls
  BY DEF Calls
<1>6. CASE c \in CallsByName
  BY <1>1, <1>6 DEF CallsByName
<1>7. CASE c \in CallsBySelector
  BY <1>2, <1>7 DEF CallsBySelector
<1>8. CASE c \in CallsWithObject
  BY <1>3, <1>8 DEF CallsWithObject
<1>9. CASE c \in PatchCalls
  BY <1>4, <1>9 DEF PatchCalls
<1> QED  BY <1>5, <1>6, <1>7, <1>8, <1>9

\* What the server makes of the requests, and the fake of the calls: an object
\* that is asked for.
LEMMA GetAnswers ==
    ASSUME NEW ns, NEW c, c.method = "Get"
    PROVE  LET k == <<ns, c.name>> IN
           /\ Real(ns, c) = IF server[k] = None THEN Server!Refuse(server, version, "NotFound")
                            ELSE Server!Serve(server, version, {server[k]})
           /\ Fake(ns, c) = IF tracker[k] = None THEN SampleFake!Rejected(tracker, "NotFound")
                            ELSE SampleFake!Found(tracker, {tracker[k]})
  BY ConstantsAssumption
     DEF Real, Fake, Asked, SampleClient!FooInterface, SampleClient!Get, SampleClient!Request,
         SampleClient!NoRequest, Server!Answer, SampleFake!FooInterface, SampleFake!Get

\* A list.
LEMMA ListAnswers ==
    ASSUME NEW ns, NEW c, c.method = "List"
    PROVE  /\ Real(ns, c) = Server!Serve(server, version, Server!Selected(server, ns, c.labels))
           /\ Fake(ns, c) = SampleFake!Found(tracker,
                {o \in SampleFake!Selected(tracker, ns, None) : c.labels = None \/ o.label = c.labels})
  BY ConstantsAssumption
     DEF Real, Fake, Asked, SampleClient!FooInterface, SampleClient!List, SampleClient!Request,
         SampleClient!NoRequest, Server!Answer, SampleFake!FooInterface, SampleFake!List

\* A new object.
LEMMA CreateAnswers ==
    ASSUME NEW ns, NEW c, c.method = "Create"
    PROVE  LET o == c.object
               k == <<ns, o.name>> IN
           /\ Real(ns, c) = IF o.ns # ns \/ o.rv # 0 THEN Server!Refuse(server, version, "BadRequest")
                            ELSE IF server[k] # None
                                 THEN Server!Refuse(server, version, "AlreadyExists")
                                 ELSE Server!Put(server, version, k, [o EXCEPT !.status = 0])
           /\ Fake(ns, c) = IF o.ns # ns THEN SampleFake!Rejected(tracker, "BadRequest")
                            ELSE IF tracker[k] # None THEN SampleFake!Rejected(tracker, "AlreadyExists")
                                 ELSE SampleFake!Stored(tracker, k, o)
  BY ConstantsAssumption
     DEF Real, Fake, Asked, SampleClient!FooInterface, SampleClient!Create, SampleClient!Request,
         SampleClient!NoRequest, Server!Answer, Server!Post, SampleFake!FooInterface, SampleFake!Create

\* Update and UpdateStatus, which differ in what the server takes from the object.
LEMMA UpdateAnswers ==
    ASSUME NEW ns, NEW c, c.method = "Update" \/ (c.method = "UpdateStatus" /\ WithStatus)
    PROVE  LET o == c.object
               k == <<ns, o.name>>
               sub == IF c.method = "Update" THEN None ELSE "status" IN
           /\ Real(ns, c) = IF o.ns # ns THEN Server!Refuse(server, version, "BadRequest")
                            ELSE IF server[k] = None THEN Server!Refuse(server, version, "NotFound")
                            ELSE IF o.rv # server[k].rv THEN Server!Refuse(server, version, "Conflict")
                            ELSE Server!Put(server, version, k, Server!Merge(server[k], o, sub))
           /\ Fake(ns, c) = IF o.ns # ns THEN SampleFake!Rejected(tracker, "BadRequest")
                            ELSE IF tracker[k] = None THEN SampleFake!Rejected(tracker, "NotFound")
                            ELSE SampleFake!Stored(tracker, k, o)
<1>1. CASE c.method = "Update"
  BY <1>1, ConstantsAssumption
     DEF Real, Fake, Asked, SampleClient!FooInterface, SampleClient!Update, SampleClient!Request,
         SampleClient!NoRequest, Server!Answer, Server!Replace, SampleFake!FooInterface,
         SampleFake!Update
<1>2. CASE c.method = "UpdateStatus" /\ WithStatus
  BY <1>2
     DEF Real, Fake, Asked, SampleClient!FooInterface, SampleClient!UpdateStatus, SampleClient!Request,
         SampleClient!NoRequest, Server!Answer, Server!Replace, SampleFake!FooInterface,
         SampleFake!Update, SampleFake!UpdateStatus
<1> QED  BY <1>1, <1>2

\* A deletion.
LEMMA DeleteAnswers ==
    ASSUME NEW ns, NEW c, c.method = "Delete", c.name # None
    PROVE  LET k == <<ns, c.name>> IN
           /\ Real(ns, c) = IF server[k] = None THEN Server!Refuse(server, version, "NotFound")
                            ELSE Server!Remove(server, version, {server[k]})
           /\ Fake(ns, c) = IF tracker[k] = None THEN SampleFake!Rejected(tracker, "NotFound")
                            ELSE SampleFake!Found([tracker EXCEPT ![k] = None], {})
  BY ConstantsAssumption
     DEF Real, Fake, Asked, SampleClient!FooInterface, SampleClient!Delete, SampleClient!Request,
         SampleClient!NoRequest, Server!Answer, SampleFake!FooInterface, SampleFake!Delete,
         SampleFake!Found

\* A deletion of many, which the fake ignores.
LEMMA DeleteCollectionAnswers ==
    ASSUME NEW ns, NEW c, c.method = "DeleteCollection"
    PROVE  /\ Real(ns, c) = Server!Remove(server, version, Server!Selected(server, ns, c.labels))
           /\ Fake(ns, c) = SampleFake!Found(tracker, {})
  BY ConstantsAssumption
     DEF Real, Fake, Asked, SampleClient!FooInterface, SampleClient!DeleteCollection,
         SampleClient!Request, SampleClient!NoRequest, Server!Answer, SampleFake!FooInterface,
         SampleFake!DeleteCollection

\* A patch.
LEMMA PatchAnswers ==
    ASSUME NEW ns, NEW c, c.method = "Patch"
    PROVE  LET k == <<ns, c.name>> IN
           /\ Real(ns, c) = IF (c.sub = "status" /\ ~WithStatus) \/ server[k] = None
                            THEN Server!Refuse(server, version, "NotFound")
                            ELSE Server!Put(server, version, k,
                                   Server!Merge(server[k], Server!Patched(server[k], c.patch), c.sub))
           /\ Fake(ns, c) = IF tracker[k] = None THEN SampleFake!Rejected(tracker, "NotFound")
                            ELSE SampleFake!Stored(tracker, k, SampleFake!Patched(tracker[k], c.patch))
  BY ConstantsAssumption
     DEF Real, Fake, Asked, SampleClient!FooInterface, SampleClient!Patch, SampleClient!Request,
         SampleClient!NoRequest, Server!Answer, Server!Modify, SampleFake!FooInterface, SampleFake!Patch
-----------------------------------------------------------------------------
\* What a merge makes of the stored object and the one that was sent.
LEMMA Merged ==
    ASSUME NEW k \in Key, NEW old \in Kept, Fits(k, old), NEW body \in Kept, Fits(k, body), NEW sub
    PROVE  LET o == Server!Merge(old, body, sub) IN
           /\ o \in Kept /\ Fits(k, o)
           /\ o.label = IF WithStatus /\ sub = "status" THEN old.label ELSE body.label
           /\ o.status = IF WithStatus /\ sub # "status" THEN old.status ELSE body.status
  BY DEF Kept, Server!Object, Server!Merge, Fits

\* What a patch does, to the server's object and to the fake's.
LEMMA PatchedObjects ==
    ASSUME NEW k \in Key, NEW old \in Kept, Fits(k, old), NEW patch \in Server!PatchData
    PROVE  /\ SampleFake!Patched(old, patch) = Server!Patched(old, patch)
           /\ LET o == Server!Patched(old, patch) IN
              /\ o \in Kept /\ Fits(k, o)
              /\ o.label = IF patch.label = None THEN old.label ELSE patch.label
              /\ o.status = IF patch.status = None THEN old.status ELSE patch.status
<1>1. SampleFake!Patched(old, patch) = Server!Patched(old, patch)
  BY Zenon DEF SampleFake!Patched, Server!Patched
<1> QED  BY <1>1 DEF Kept, Server!Object, Server!PatchData, Server!Patched, Fits

StoresOK == server \in Stored /\ tracker \in Stored /\ version \in Nat

\* What is claimed of a call, of each method in turn.
Sound(ns, c) ==
    /\ Within(ns, server, Real(ns, c)) /\ Real(ns, c).version \in {version, version + 1}
    /\ Within(ns, tracker, Fake(ns, c))
    /\ Alike(tracker, server) /\ Supported(ns, c) => Agree(Real(ns, c), Fake(ns, c))

\* Get: both find the object, or neither does.
LEMMA GetIsSound ==
    ASSUME StoresOK, NEW ns \in Namespace, NEW c \in Calls, c.method = "Get"
    PROVE  Sound(ns, c)
<1> DEFINE k == <<ns, c.name>>
<1>1. k \in Key
  BY CallsCarry DEF Key
<1>2. /\ Real(ns, c) = IF server[k] = None THEN Server!Refuse(server, version, "NotFound")
                       ELSE Server!Serve(server, version, {server[k]})
      /\ Fake(ns, c) = IF tracker[k] = None THEN SampleFake!Rejected(tracker, "NotFound")
                       ELSE SampleFake!Found(tracker, {tracker[k]})
  BY GetAnswers
<1>3. /\ server[k] # None => server[k] \in Kept /\ server[k].ns = ns
      /\ tracker[k] # None => tracker[k] \in Kept /\ tracker[k].ns = ns
  BY <1>1 DEF StoresOK, Stored, Fits
<1> HIDE DEF k
<1>4. /\ Within(ns, server, Real(ns, c)) /\ Real(ns, c).version \in {version, version + 1}
      /\ Within(ns, tracker, Fake(ns, c))
  <2>1. /\ Within(ns, server, Real(ns, c)) /\ Real(ns, c).version = version
    <3>1. CASE server[k] = None
      BY <1>2, <3>1, Refused DEF StoresOK
    <3>2. CASE server[k] # None
      BY <1>2, <1>3, <3>2 DEF StoresOK, Within, Server!Serve
    <3> QED  BY <3>1, <3>2
  <2>2. Within(ns, tracker, Fake(ns, c))
    <3>1. CASE tracker[k] = None
      BY <1>2, <3>1, Refused DEF StoresOK
    <3>2. CASE tracker[k] # None
      BY <1>2, <1>3, <3>2 DEF StoresOK, Within, SampleFake!Found
    <3> QED  BY <3>1, <3>2
  <2> QED  BY <2>1, <2>2
<1>5. ASSUME Alike(tracker, server) PROVE Agree(Real(ns, c), Fake(ns, c))
  <2>1. /\ tracker[k] = None <=> server[k] = None
        /\ {Plain(o) : o \in {tracker[k]}} = {Plain(o) : o \in {server[k]}}
    BY <1>1, <1>5, AlikeObjects DEF StoresOK, Alike
  <2>2. CASE server[k] = None
    BY <1>2, <1>5, <2>1, <2>2, Refused DEF StoresOK
  <2>3. CASE server[k] # None
    BY <1>2, <1>5, <2>1, <2>3 DEF Agree, Server!Serve, SampleFake!Found
  <2> QED  BY <2>2, <2>3
<1> QED  BY <1>4, <1>5 DEF Sound

\* Create: without a version and a status, both store the same.
LEMMA CreateIsSound ==
    ASSUME StoresOK, NEW ns \in Namespace, NEW c \in Calls, c.method = "Create"
    PROVE  Sound(ns, c)
<1> DEFINE o == c.object
           k == <<ns, o.name>>
           p == [o EXCEPT !.status = 0]
<1>1. o \in Kept /\ k \in Key /\ o.ns \in Namespace
  BY CallsCarry, KeptObjects DEF Key
<1>2. p \in Kept /\ p.ns = o.ns /\ p.name = o.name /\ p.label = o.label /\ p.status = 0
  BY <1>1 DEF Kept, Server!Object, Server!Status
<1>3. /\ Real(ns, c) = IF o.ns # ns \/ o.rv # 0 THEN Server!Refuse(server, version, "BadRequest")
                       ELSE IF server[k] # None THEN Server!Refuse(server, version, "AlreadyExists")
                       ELSE Server!Put(server, version, k, p)
      /\ Fake(ns, c) = IF o.ns # ns THEN SampleFake!Rejected(tracker, "BadRequest")
                       ELSE IF tracker[k] # None THEN SampleFake!Rejected(tracker, "AlreadyExists")
                       ELSE SampleFake!Stored(tracker, k, o)
  BY CreateAnswers
<1>4. k[1] = ns /\ (o.ns = ns => Fits(k, o) /\ Fits(k, p))
  BY <1>2 DEF Fits
<1> HIDE DEF o, k, p
<1>5. /\ Within(ns, server, Real(ns, c)) /\ Real(ns, c).version \in {version, version + 1}
      /\ Within(ns, tracker, Fake(ns, c))
  <2>1. CASE o.ns # ns
    BY <1>3, <2>1, Refused DEF StoresOK
  <2>2. CASE o.ns = ns
    <3>1. Within(ns, server, Real(ns, c)) /\ Real(ns, c).version \in {version, version + 1}
      <4>1. CASE o.rv # 0 \/ server[k] # None
        BY <1>3, <2>2, <4>1, Refused DEF StoresOK
      <4>2. CASE ~(o.rv # 0 \/ server[k] # None)
        BY <1>1, <1>2, <1>3, <1>4, <2>2, <4>2, Written DEF StoresOK
      <4> QED  BY <4>1, <4>2
    <3>2. Within(ns, tracker, Fake(ns, c))
      <4>1. CASE tracker[k] # None
        BY <1>3, <2>2, <4>1, Refused DEF StoresOK
      <4>2. CASE tracker[k] = None
        BY <1>1, <1>2, <1>3, <1>4, <2>2, <4>2, Written DEF StoresOK
      <4> QED  BY <4>1, <4>2
    <3> QED  BY <3>1, <3>2
  <2> QED  BY <2>1, <2>2
<1>6. ASSUME Alike(tracker, server), Supported(ns, c) PROVE Agree(Real(ns, c), Fake(ns, c))
  <2>1. o.rv = 0 /\ o.status = 0
    BY <1>6 DEF Supported, o
  <2>2. tracker[k] = None <=> server[k] = None
    BY <1>1, <1>6, AlikeObjects DEF StoresOK
  <2>3. Plain(p) = Plain(o)
    BY <1>1, <1>2, <2>1, PlainObjects
  <2>4. CASE o.ns # ns \/ server[k] # None
    BY <1>3, <1>6, <2>1, <2>2, <2>4, Refused DEF StoresOK
  <2>5. CASE ~(o.ns # ns \/ server[k] # None)
    BY <1>1, <1>2, <1>3, <1>4, <1>6, <2>1, <2>2, <2>3, <2>5, Written DEF StoresOK
  <2> QED  BY <2>4, <2>5
<1> QED  BY <1>5, <1>6 DEF Sound

\* Update, with the status as it is, and UpdateStatus, with the rest as it is:
\* the server's merge is the object that was sent.
LEMMA UpdateIsSound ==
    ASSUME StoresOK, NEW ns \in Namespace, NEW c \in Calls, c.method \in {"Update", "UpdateStatus"}
    PROVE  Sound(ns, c)
<1> DEFINE o == c.object
           k == <<ns, o.name>>
           sub == IF c.method = "Update" THEN None ELSE "status"
           p == Server!Merge(server[k], o, sub)
<1>1. o \in Kept /\ o # None /\ k \in Key /\ (c.method = "UpdateStatus" => WithStatus)
  BY CallsCarry, KeptObjects DEF Key
<1>2. /\ Real(ns, c) = IF o.ns # ns THEN Server!Refuse(server, version, "BadRequest")
                       ELSE IF server[k] = None THEN Server!Refuse(server, version, "NotFound")
                       ELSE IF o.rv # server[k].rv THEN Server!Refuse(server, version, "Conflict")
                       ELSE Server!Put(server, version, k, p)
      /\ Fake(ns, c) = IF o.ns # ns THEN SampleFake!Rejected(tracker, "BadRequest")
                       ELSE IF tracker[k] = None THEN SampleFake!Rejected(tracker, "NotFound")
                       ELSE SampleFake!Stored(tracker, k, o)
  BY <1>1, UpdateAnswers
<1>3. k[1] = ns /\ (o.ns = ns => Fits(k, o))
  BY DEF Fits
<1>4. Supported(ns, c) => (server[k] # None =>
         /\ o.rv = server[k].rv
         /\ WithStatus => IF c.method = "Update" THEN o.status = server[k].status
                          ELSE o.label = server[k].label)
  BY <1>1 DEF Supported
<1>5. None # "status" /\ (sub = "status" <=> c.method = "UpdateStatus")
  BY ConstantsAssumption
<1> HIDE DEF o, k, sub
<1>6. ASSUME o.ns = ns, server[k] # None
      PROVE  /\ p \in Kept /\ Fits(k, p) /\ server[k] \in Kept /\ Fits(k, server[k])
             /\ p.label = IF WithStatus /\ sub = "status" THEN server[k].label ELSE o.label
             /\ p.status = IF WithStatus /\ sub # "status" THEN server[k].status ELSE o.status
  <2>1. server[k] \in Kept /\ Fits(k, server[k])
    BY <1>1, <1>6 DEF StoresOK, Stored
  <2> QED  BY <1>1, <1>3, <1>6, <2>1, Merged
<1> HIDE DEF p
<1>7. /\ Within(ns, server, Real(ns, c)) /\ Real(ns, c).version \in {version, version + 1}
      /\ Within(ns, tracker, Fake(ns, c))
  <2>1. Within(ns, server, Real(ns, c)) /\ Real(ns, c).version \in {version, version + 1}
    <3>1. CASE o.ns # ns \/ server[k] = None \/ o.rv # server[k].rv
      BY <1>2, <3>1, Refused DEF StoresOK
    <3>2. CASE ~(o.ns # ns \/ server[k] = None \/ o.rv # server[k].rv)
      BY <1>1, <1>2, <1>3, <1>6, <3>2, Written DEF StoresOK
    <3> QED  BY <3>1, <3>2
  <2>2. Within(ns, tracker, Fake(ns, c))
    <3>1. CASE o.ns # ns \/ tracker[k] = None
      BY <1>2, <3>1, Refused DEF StoresOK
    <3>2. CASE ~(o.ns # ns \/ tracker[k] = None)
      BY <1>1, <1>2, <1>3, <3>2, Written DEF StoresOK
    <3> QED  BY <3>1, <3>2
  <2> QED  BY <2>1, <2>2
<1>8. ASSUME Alike(tracker, server), Supported(ns, c) PROVE Agree(Real(ns, c), Fake(ns, c))
  <2>1. tracker[k] = None <=> server[k] = None
    BY <1>1, <1>8, AlikeObjects DEF StoresOK
  <2>2. CASE o.ns = ns /\ server[k] # None
    <3>1. Plain(p) = Plain(o)
      <4>1. p.label = o.label /\ p.status = o.status
        BY <1>4, <1>5, <1>6, <1>8, <2>2
      <4>2. p.ns = o.ns /\ p.name = o.name
        BY <1>3, <1>6, <2>2 DEF Fits
      <4> QED  BY <1>1, <1>6, <2>2, <4>1, <4>2, PlainObjects
    <3>2. o.rv = server[k].rv
      BY <1>4, <1>8, <2>2
    <3> QED  BY <1>1, <1>2, <1>3, <1>6, <1>8, <2>1, <2>2, <3>1, <3>2, Written DEF StoresOK
  <2>3. CASE ~(o.ns = ns /\ server[k] # None)
    BY <1>2, <1>8, <2>1, <2>3, Refused DEF StoresOK
  <2> QED  BY <2>2, <2>3
<1> QED  BY <1>7, <1>8 DEF Sound

\* Patch: of the object or of the status, it changes the same in both.
LEMMA PatchIsSound ==
    ASSUME StoresOK, NEW ns \in Namespace, NEW c \in Calls, c.method = "Patch"
    PROVE  Sound(ns, c)
<1> DEFINE k == <<ns, c.name>>
           o == Server!Patched(server[k], c.patch)
           p == Server!Merge(server[k], o, c.sub)
           q == SampleFake!Patched(tracker[k], c.patch)
<1>1. k \in Key /\ k[1] = ns /\ c.patch \in Server!PatchData /\ c.object = None
      /\ c.sub \in {None, "status"} /\ None # "status"
  BY CallsCarry, ConstantsAssumption DEF Key
<1>2. /\ Real(ns, c) = IF (c.sub = "status" /\ ~WithStatus) \/ server[k] = None
                       THEN Server!Refuse(server, version, "NotFound")
                       ELSE Server!Put(server, version, k, p)
      /\ Fake(ns, c) = IF tracker[k] = None THEN SampleFake!Rejected(tracker, "NotFound")
                       ELSE SampleFake!Stored(tracker, k, q)
  BY PatchAnswers
<1>3. Supported(ns, c) => IF c.sub = None THEN WithStatus => c.patch.status = None
                          ELSE WithStatus /\ c.patch.label = None
  BY DEF Supported
<1> HIDE DEF k
<1>4. ASSUME server[k] # None
      PROVE  /\ server[k] \in Kept /\ o \in Kept /\ Fits(k, o) /\ p \in Kept /\ Fits(k, p)
             /\ o.label = IF c.patch.label = None THEN server[k].label ELSE c.patch.label
             /\ o.status = IF c.patch.status = None THEN server[k].status ELSE c.patch.status
             /\ p.label = IF WithStatus /\ c.sub = "status" THEN server[k].label ELSE o.label
             /\ p.status = IF WithStatus /\ c.sub # "status" THEN server[k].status ELSE o.status
  <2>1. server[k] \in Kept /\ Fits(k, server[k])
    BY <1>1, <1>4 DEF StoresOK, Stored
  <2>2. /\ o \in Kept /\ Fits(k, o)
        /\ o.label = IF c.patch.label = None THEN server[k].label ELSE c.patch.label
        /\ o.status = IF c.patch.status = None THEN server[k].status ELSE c.patch.status
    BY <1>1, <2>1, PatchedObjects
  <2> HIDE DEF o
  <2> QED  BY <1>1, <2>1, <2>2, Merged
<1>5. ASSUME tracker[k] # None
      PROVE  /\ q \in Kept /\ Fits(k, q)
             /\ q.label = IF c.patch.label = None THEN tracker[k].label ELSE c.patch.label
             /\ q.status = IF c.patch.status = None THEN tracker[k].status ELSE c.patch.status
  <2>1. tracker[k] \in Kept /\ Fits(k, tracker[k])
    BY <1>1, <1>5 DEF StoresOK, Stored
  <2> QED  BY <1>1, <2>1, PatchedObjects
<1> HIDE DEF o, p, q
<1>6. /\ Within(ns, server, Real(ns, c)) /\ Real(ns, c).version \in {version, version + 1}
  <2>1. CASE (c.sub = "status" /\ ~WithStatus) \/ server[k] = None
    BY <1>2, <2>1, Refused DEF StoresOK
  <2>2. CASE ~((c.sub = "status" /\ ~WithStatus) \/ server[k] = None)
    BY <1>1, <1>2, <1>4, <2>2, Written DEF StoresOK
  <2> QED  BY <2>1, <2>2
<1>7. Within(ns, tracker, Fake(ns, c))
  <2>1. CASE tracker[k] = None
    BY <1>2, <2>1, Refused DEF StoresOK
  <2>2. CASE tracker[k] # None
    BY <1>1, <1>2, <1>5, <2>2, Written DEF StoresOK
  <2> QED  BY <2>1, <2>2
<1>8. ASSUME Alike(tracker, server), Supported(ns, c) PROVE Agree(Real(ns, c), Fake(ns, c))
  <2>1. tracker[k] = None <=> server[k] = None
    BY <1>1, <1>8, AlikeObjects DEF StoresOK
  <2>2. CASE server[k] = None
    BY <1>2, <1>8, <2>1, <2>2, Refused DEF StoresOK
  <2>3. CASE server[k] # None
    <3>1. server[k].label = tracker[k].label /\ server[k].status = tracker[k].status
      BY <1>1, <1>8, <2>1, <2>3, AlikeObjects DEF StoresOK
    <3>2. p.label = q.label /\ p.status = q.status
      BY <1>1, <1>3, <1>4, <1>5, <1>8, <2>1, <2>3, <3>1
    <3>3. Plain(p) = Plain(q)
      BY <1>4, <1>5, <2>1, <2>3, <3>2, PlainObjects DEF Fits
    <3>4. ~(c.sub = "status" /\ ~WithStatus)
      BY <1>1, <1>3, <1>8
    <3> QED  BY <1>1, <1>2, <1>4, <1>5, <1>8, <2>1, <2>3, <3>3, <3>4, Written DEF StoresOK
  <2> QED  BY <2>2, <2>3
<1> QED  BY <1>6, <1>7, <1>8 DEF Sound

\* List: both filter by label, the server in one go and the fake afterwards.
LEMMA ListIsSound ==
    ASSUME StoresOK, NEW ns \in Namespace, NEW c \in Calls, c.method = "List"
    PROVE  Sound(ns, c)
<1> DEFINE l == c.labels
           S == Server!Selected(server, ns, l)
           T == {o \in SampleFake!Selected(tracker, ns, None) : l = None \/ o.label = l}
           Sees(o) == o # None /\ o.ns = ns /\ (l = None \/ o.label = l)
<1>1. Real(ns, c) = Server!Serve(server, version, S) /\ Fake(ns, c) = SampleFake!Found(tracker, T)
  BY ListAnswers
<1>2. ns # "all"
  BY ConstantsAssumption DEF Server!NamespaceAll
<1>3. /\ \A o : o \in S <=> \E k \in Key : o = server[k] /\ Sees(o)
      /\ \A o : o \in T <=> \E k \in Key : o = tracker[k] /\ Sees(o)
  <2>1. \A o : o \in S <=> \E k \in Key : o = server[k] /\ Sees(o)
    BY <1>2 DEF Server!Selected, Server!Selects, Server!NamespaceAll, Server!Key, Key
  <2>2. \A o : o \in T <=> \E k \in Key : o = tracker[k] /\ Sees(o)
    BY <1>2 DEF SampleFake!Selected, SampleFake!Selects, SampleFake!NamespaceAll, SampleFake!Key, Key
  <2> QED  BY <2>1, <2>2
<1> HIDE DEF S, T
<1>4. \A o \in S \cup T : o \in Kept /\ o.ns = ns
  BY <1>3 DEF StoresOK, Stored
<1>5. ASSUME Alike(tracker, server) PROVE {Plain(o) : o \in S} = {Plain(o) : o \in T}
  <2>1. \A k \in Key : Sees(server[k]) <=> Sees(tracker[k])
    <3> SUFFICES ASSUME NEW k \in Key PROVE Sees(server[k]) <=> Sees(tracker[k])
      OBVIOUS
    <3>1. /\ tracker[k] = None <=> server[k] = None
          /\ tracker[k] # None => /\ Fits(k, tracker[k]) /\ Fits(k, server[k])
                                  /\ tracker[k].label = server[k].label
      BY <1>5, AlikeObjects DEF StoresOK
    <3> QED  BY <3>1 DEF Fits
  <2>2. \A k \in Key : Plain(server[k]) = Plain(tracker[k])
    BY <1>5 DEF Alike
  <2> HIDE DEF Sees
  <2> QED  BY <1>3, <2>1, <2>2
<1>6. Within(ns, server, Real(ns, c)) /\ Real(ns, c).version = version /\ Within(ns, tracker, Fake(ns, c))
  BY <1>1, <1>4 DEF Within, StoresOK, Server!Serve, SampleFake!Found
<1>7. ASSUME Alike(tracker, server) PROVE Agree(Real(ns, c), Fake(ns, c))
  BY <1>1, <1>5, <1>7 DEF Agree, Server!Serve, SampleFake!Found
<1> QED  BY <1>6, <1>7 DEF Sound

\* What a removal leaves.
LEMMA Removed ==
    ASSUME NEW s \in Stored, NEW v \in Nat, NEW ns, NEW S, \A o \in S : o # None => o.ns = ns
    PROVE  LET real == Server!Remove(s, v, S) IN
           Within(ns, s, real) /\ real.version \in {v, v + 1}
<1>1. /\ Server!Remove(s, v, S).store = [k \in Key |-> IF s[k] \in S THEN None ELSE s[k]]
      /\ Server!Remove(s, v, S).version \in {v, v + 1} /\ Server!Remove(s, v, S).items = {}
  BY DEF Server!Remove, Server!Serve, Server!Key, Key
<1> QED  BY <1>1 DEF Within, Stored, Fits

\* Delete: the object that is removed is the one at that place and no other.
LEMMA DeleteIsSound ==
    ASSUME StoresOK, NEW ns \in Namespace, NEW c \in Calls, c.method = "Delete"
    PROVE  Sound(ns, c)
<1> DEFINE k == <<ns, c.name>>
           real == Server!Remove(server, version, {server[k]})
           fake == SampleFake!Found([tracker EXCEPT ![k] = None], {})
<1>1. k \in Key /\ k[1] = ns /\ c.name # None
  BY CallsCarry, ConstantsAssumption DEF Key
<1>2. /\ Real(ns, c) = IF server[k] = None THEN Server!Refuse(server, version, "NotFound") ELSE real
      /\ Fake(ns, c) = IF tracker[k] = None THEN SampleFake!Rejected(tracker, "NotFound") ELSE fake
  BY <1>1, DeleteAnswers
<1>3. server[k] # None => server[k].ns = ns
  BY <1>1 DEF StoresOK, Stored, Fits
<1> HIDE DEF k
<1>4. /\ Within(ns, server, real) /\ real.version \in {version, version + 1}
      /\ real.code = "OK" /\ real.items = {}
      /\ \A l \in Key : real.store[l] = IF server[l] \in {server[k]} THEN None ELSE server[l]
  <2>1. \A o \in {server[k]} : o # None => o.ns = ns
    BY <1>3
  <2>2. server \in Stored /\ version \in Nat
    BY DEF StoresOK
  <2>3. Within(ns, server, real)
    BY <2>1, <2>2, Removed
  <2>4. real.version \in {version, version + 1}
    BY <2>1, <2>2, Removed
  <2> QED  BY <2>3, <2>4 DEF Server!Remove, Server!Serve, Server!Key, Key
<1>5. /\ Within(ns, tracker, fake) /\ fake.code = "OK" /\ fake.items = {}
      /\ fake.store = [tracker EXCEPT ![k] = None]
  BY <1>1 DEF SampleFake!Found, Within, StoresOK, Stored
<1> HIDE DEF real, fake
<1>6. ASSUME server[k] # None, NEW l \in Key, server[l] = server[k] PROVE l = k
  BY <1>1, <1>6 DEF StoresOK, Stored, Fits, Key
<1>7. Within(ns, server, Real(ns, c)) /\ Real(ns, c).version \in {version, version + 1}
  BY <1>2, <1>4, Refused DEF StoresOK
<1>8. Within(ns, tracker, Fake(ns, c))
  BY <1>2, <1>5, Refused DEF StoresOK
<1>9. ASSUME Alike(tracker, server) PROVE Agree(Real(ns, c), Fake(ns, c))
  <2>1. tracker[k] = None <=> server[k] = None
    BY <1>1, <1>9, AlikeObjects DEF StoresOK
  <2>2. CASE server[k] = None
    BY <1>2, <1>9, <2>1, <2>2, Refused DEF StoresOK
  <2>3. CASE server[k] # None
    <3>1. \A l \in Key : /\ real.store[l] = IF l = k THEN None ELSE server[l]
                         /\ fake.store[l] = IF l = k THEN None ELSE tracker[l]
      BY <1>1, <1>4, <1>5, <1>6, <2>3 DEF StoresOK, Stored
    <3>2. Alike(fake.store, real.store)
      BY <1>9, <3>1 DEF Alike
    <3> QED  BY <1>2, <1>4, <1>5, <2>1, <2>3, <3>2 DEF Agree
  <2> QED  BY <2>2, <2>3
<1> QED  BY <1>7, <1>8, <1>9 DEF Sound

\* DeleteCollection: supported where there is nothing to delete.
LEMMA DeleteCollectionIsSound ==
    ASSUME StoresOK, NEW ns \in Namespace, NEW c \in Calls, c.method = "DeleteCollection"
    PROVE  Sound(ns, c)
<1> DEFINE S == Server!Selected(server, ns, c.labels)
           real == Server!Remove(server, version, S)
<1>1. Real(ns, c) = real /\ Fake(ns, c) = SampleFake!Found(tracker, {})
  BY DeleteCollectionAnswers
<1>2. ns # "all"
  BY ConstantsAssumption DEF Server!NamespaceAll
<1>3. /\ \A o \in S : o.ns = ns
      /\ (\A k \in Key : ~Server!Selects(ns, c.labels, server[k])) => S = {}
  BY <1>2 DEF Server!Selected, Server!Selects, Server!NamespaceAll, Server!Key, Key
<1>4. Supported(ns, c) => S = {}
  BY <1>3 DEF Supported
<1> HIDE DEF S
<1>5. /\ Within(ns, server, real) /\ real.version \in {version, version + 1}
      /\ real.code = "OK" /\ real.items = {}
      /\ \A k \in Key : real.store[k] = IF server[k] \in S THEN None ELSE server[k]
  <2>1. \A o \in S : o # None => o.ns = ns
    BY <1>3
  <2>2. server \in Stored /\ version \in Nat
    BY DEF StoresOK
  <2>3. Within(ns, server, real)
    BY <2>1, <2>2, Removed
  <2>4. real.version \in {version, version + 1}
    BY <2>1, <2>2, Removed
  <2> QED  BY <2>3, <2>4 DEF Server!Remove, Server!Serve, Server!Key, Key
<1> HIDE DEF real
<1>6. Within(ns, tracker, SampleFake!Found(tracker, {}))
  BY DEF SampleFake!Found, Within, StoresOK
<1>7. ASSUME Alike(tracker, server), Supported(ns, c) PROVE Agree(Real(ns, c), Fake(ns, c))
  <2>1. \A k \in Key : real.store[k] = server[k]
    BY <1>4, <1>5, <1>7
  <2>2. Alike(tracker, real.store)
    BY <1>7, <2>1 DEF Alike
  <2> QED  BY <1>1, <1>5, <2>2 DEF Agree, SampleFake!Found
<1> QED  BY <1>1, <1>5, <1>6, <1>7 DEF Sound

\* Every call, then.
LEMMA CallsAreSound ==
    ASSUME StoresOK, NEW ns \in Namespace, NEW c \in Calls
    PROVE  Sound(ns, c)
  BY CallsCarry, GetIsSound, ListIsSound, CreateIsSound, UpdateIsSound, DeleteIsSound,
     DeleteCollectionIsSound, PatchIsSound DEF Methods
-----------------------------------------------------------------------------
\* Both stores hold what clients of the kind may have written, and are alike
\* as long as no call asked for what the fake does not do.
ClientsIInv ==
    /\ kind \in Kind /\ version \in 1 .. MaxVersion
    /\ server \in Stored /\ tracker \in Stored
    /\ FakeAgrees

\* The first state: the fake is given the server's objects.
LEMMA InitClients == ClientsInit => ClientsIInv
<1> SUFFICES ASSUME ClientsInit PROVE ClientsIInv
  OBVIOUS
<1> DEFINE First(k) == [ns |-> k[1], name |-> k[2], rv |-> 1,
                        label |-> CHOOSE l \in Label : TRUE, status |-> 0]
<1>1. (CHOOSE l \in Label : TRUE) \in Label
  BY ConstantsAssumption
<1>2. \A k \in Key : First(k) \in Kept /\ Fits(k, First(k))
  BY <1>1 DEF Kept, Server!Object, Server!Status, Key, Fits
<1>3. PICK S \in SUBSET Key : server = [k \in Key |-> IF k \in S THEN First(k) ELSE None]
  BY DEF ClientsInit
<1> HIDE DEF First
<1>4. server \in Stored /\ tracker = server
  BY <1>2, <1>3 DEF Stored, ClientsInit
<1>5. version \in 1 .. MaxVersion /\ kind \in Kind
  BY ConstantsAssumption DEF ClientsInit
<1> QED  BY <1>4, <1>5 DEF ClientsIInv, FakeAgrees, ClientsInit

\* A step is a call, and a sound one.
LEMMA ClientsStep ==
    ASSUME ClientsIInv, ClientsNext
    PROVE  /\ ~tainted /\ version < MaxVersion /\ UNCHANGED kind
           /\ \E ns \in Namespace, c \in Calls :
                 Sound(ns, c) /\ Outcome(Real(ns, c), Fake(ns, c), ns, Supported(ns, c))
<1>1. ~tainted /\ version < MaxVersion
  BY DEF ClientsNext
<1>2. PICK ns \in Namespace, c \in Calls : Do(ns, c)
  BY DEF ClientsNext
<1>3. Outcome(Real(ns, c), Fake(ns, c), ns, Supported(ns, c))
  BY <1>2, CallsCarry, DoIs
<1>4. Sound(ns, c)
  BY CallsAreSound DEF ClientsIInv, StoresOK
<1>5. UNCHANGED kind
  BY <1>3 DEF Outcome
<1> QED  BY <1>1, <1>3, <1>4, <1>5

\* A sound call keeps all of it.
LEMMA NextClients == ClientsIInv /\ [ClientsNext]_clientsVars => ClientsIInv'
<1> SUFFICES ASSUME ClientsIInv, [ClientsNext]_clientsVars PROVE ClientsIInv'
  OBVIOUS
<1>1. UNCHANGED kind => Stored' = Stored
  BY DEF Stored, Kept, Server!Object, Server!Status, WithStatus
<1>2. CASE ClientsNext
  <2>1. ~tainted /\ version < MaxVersion /\ UNCHANGED kind
    BY <1>2, ClientsStep
  <2>2. PICK ns \in Namespace, c \in Calls :
               Sound(ns, c) /\ Outcome(Real(ns, c), Fake(ns, c), ns, Supported(ns, c))
    BY <1>2, ClientsStep
  <2> DEFINE real == Real(ns, c)
             fake == Fake(ns, c)
  <2>3. /\ server' = real.store /\ version' = real.version /\ tracker' = fake.store
        /\ answers' = [real |-> [code |-> real.code, items |-> real.items],
                       fake |-> [code |-> fake.code, items |-> fake.items]]
        /\ tainted' = (tainted \/ ~Supported(ns, c))
    BY <2>2 DEF Outcome
  <2>4. /\ Within(ns, server, real) /\ real.version \in {version, version + 1}
        /\ Within(ns, tracker, fake)
        /\ Alike(tracker, server) /\ Supported(ns, c) => Agree(real, fake)
    BY <2>2 DEF Sound
  <2> HIDE DEF real, fake
  <2>5. server' \in Stored' /\ tracker' \in Stored'
    BY <1>1, <2>1, <2>3, <2>4 DEF Within
  <2>6. version' \in 1 .. MaxVersion
    BY <2>1, <2>3, <2>4, ConstantsAssumption DEF ClientsIInv
  <2>7. FakeAgrees'
    <3> SUFFICES ASSUME ~tainted' PROVE FakeAgrees'
      BY DEF FakeAgrees
    <3>1. Alike(tracker, server) /\ Supported(ns, c)
      BY <2>1, <2>3 DEF ClientsIInv, FakeAgrees, Alike
    <3>2. Agree(real, fake)
      BY <2>4, <3>1
    <3> QED  BY <2>3, <3>2 DEF FakeAgrees, Agree, Alike
  <2> QED  BY <2>1, <2>5, <2>6, <2>7 DEF ClientsIInv
<1>3. CASE UNCHANGED clientsVars
  BY <1>1, <1>3 DEF clientsVars, ClientsIInv, FakeAgrees
<1> QED  BY <1>2, <1>3

\* Whatever the generated clients and fakes are asked, objects stay where their
\* namespace and name say, and versions in their bounds (typed/*/foo.go,
\* fake/fake_foo.go).
THEOREM StoresKeepPlaces == ClientsSpec => []StoresFit
<1>1. ClientsIInv => StoresFit
  BY ConstantsAssumption DEF ClientsIInv, StoresFit, Stored, Fits
<1> QED  BY <1>1, InitClients, NextClients, PTL DEF ClientsSpec

\* A test with the generated fake sees what the API server would answer, after
\* any sequence of calls that asks for nothing the fake leaves out
\* (clientset_generated.go:33-34).
THEOREM FakesTellTheTruth == ClientsSpec => []FakeAgrees
<1>1. ClientsIInv => FakeAgrees
  BY DEF ClientsIInv
<1> QED  BY <1>1, InitClients, NextClients, PTL DEF ClientsSpec

\* A client of one namespace neither changes nor returns anything of another,
\* on the server or in the fake, whatever it is called with.
THEOREM ClientsStayInside == ClientsSpec => OnlyItsNamespace
<1> DEFINE Inside ==
      /\ \A k \in Key : k[1] # called' => server'[k] = server[k] /\ tracker'[k] = tracker[k]
      /\ \A o \in answers'.real.items \cup answers'.fake.items : o.ns = called'
<1>1. ClientsIInv /\ [ClientsNext]_clientsVars => [Inside]_clientsVars
  <2> SUFFICES ASSUME ClientsIInv, ClientsNext PROVE Inside
    OBVIOUS
  <2>1. PICK ns \in Namespace, c \in Calls :
               Sound(ns, c) /\ Outcome(Real(ns, c), Fake(ns, c), ns, Supported(ns, c))
    BY ClientsStep
  <2>2. /\ called' = ns /\ server' = Real(ns, c).store /\ tracker' = Fake(ns, c).store
        /\ answers'.real.items = Real(ns, c).items /\ answers'.fake.items = Fake(ns, c).items
    BY <2>1 DEF Outcome
  <2> QED  BY <2>1, <2>2 DEF Sound, Within
<1> QED  BY <1>1, InitClients, NextClients, PTL DEF ClientsSpec, OnlyItsNamespace
-----------------------------------------------------------------------------
(***************************************************************************)
(* Informers.                                                              *)
(***************************************************************************)
Object == [ns : Namespace, name : Name, rv : Nat, label : Label, status : {0, 1}]

Store == {s \in [Key -> Object \cup {None}] : \A k \in Key : s[k] # None => Fits(k, s[k])}
NoObjects == [k \in Key |-> None]

Sees(o) == SampleInformer!Selects(scope.ns, scope.labels, o)

\* What an informer of this scope shows of a store.
Shown(s) == [k \in Key |-> IF Sees(s[k]) THEN s[k] ELSE None]

ServerOK ==
    /\ kind \in Kind
    /\ scope \in [ns : Namespace \cup {SampleInformer!NamespaceAll}, labels : Label \cup {None}]
    /\ history \in Seq(Store) /\ Len(history) \in 1 .. MaxVersion

ReflectorOK ==
    /\ phase \in {"list", "watch", "watching"}
    /\ position \in 0 .. Len(history) /\ (phase # "list" => position >= 1)
    /\ breaks \in 0 .. MaxBreaks
    /\ phase = "watching" => /\ watch.ns = scope.ns /\ watch.labels = scope.labels
                             /\ watch.rv \in 1 .. position

\* The cache is the moment the reflector is at.
CacheOK == indexer = IF position = 0 THEN NoObjects ELSE Shown(history[position])

\* The worker's copy shares nothing with it.
CopyOK == copy \in [object : Object \cup {None}, shared : {{}}]

IInv == ServerOK /\ ReflectorOK /\ CacheOK /\ CopyOK
-----------------------------------------------------------------------------
\* The requests of users and workers.
Writes(r) ==
    /\ r.sub \in {None, "status"}
    /\ \/ r.verb = "POST" /\ r.body \in Object /\ r.ns = r.body.ns
       \/ r.verb = "PUT" /\ r.body \in Object /\ r.ns = r.body.ns /\ r.name = r.body.name
       \/ /\ r.verb = "PATCH" /\ r.ns \in Namespace /\ r.name \in Name
          /\ r.body \in [label : Label \cup {None}, status : {0, 1, None}]
       \/ r.verb = "DELETE" /\ r.ns \in Namespace /\ r.name \in Name

\* An object that is put where it belongs.
LEMMA PutFits ==
    ASSUME NEW s \in Store, NEW k \in Key, NEW o \in Object \cup {None}, o # None => Fits(k, o)
    PROVE  [s EXCEPT ![k] = o] \in Store
  BY DEF Store

\* What a merge of the stored object and a request's body is.
LEMMA MergeFits ==
    ASSUME NEW old \in Object, NEW body \in Object, NEW sub, old.ns = body.ns, old.name = body.name
    PROVE  /\ SampleInformer!Merge(old, body, sub) \in Object
           /\ SampleInformer!Merge(old, body, sub).ns = old.ns
           /\ SampleInformer!Merge(old, body, sub).name = old.name
           /\ AppInformer!Merge(old, body, sub) = body
           /\ CrdInformer!Merge(old, body, sub) = body
  BY DEF Object, SampleInformer!Merge, AppInformer!Merge, CrdInformer!Merge

\* What a patched object is.
LEMMA PatchFits ==
    ASSUME NEW old \in Object, NEW patch \in [label : Label \cup {None}, status : {0, 1, None}]
    PROVE  /\ SampleInformer!Patched(old, patch) \in Object
           /\ SampleInformer!Patched(old, patch).ns = old.ns
           /\ SampleInformer!Patched(old, patch).name = old.name
           /\ AppInformer!Patched(old, patch) = SampleInformer!Patched(old, patch)
           /\ CrdInformer!Patched(old, patch) = SampleInformer!Patched(old, patch)
  BY ConstantsAssumption
     DEF Object, SampleInformer!Patched, AppInformer!Patched, CrdInformer!Patched

\* An API server with the status subresource keeps objects in their places.
LEMMA SampleServerFits ==
    ASSUME NEW s \in Store, NEW v \in Nat, NEW r, Writes(r)
    PROVE  SampleInformer!Answer(s, v, r).store \in Store
<1> DEFINE A == SampleInformer!Answer(s, v, r)
           k == <<r.ns, r.name>>
           Put(l, o) == SampleInformer!Put(s, v, l, o)
<1>1. ASSUME NEW l \in Key, NEW o \in Object, Fits(l, o)
      PROVE  Put(l, o).store \in Store
  <2>1. [o EXCEPT !.rv = v + 1] \in Object /\ Fits(l, [o EXCEPT !.rv = v + 1])
    BY <1>1 DEF Object, Fits
  <2>2. [s EXCEPT ![l] = [o EXCEPT !.rv = v + 1]] \in Store
    BY <1>1, <2>1, PutFits
  <2> QED  BY <2>2 DEF SampleInformer!Put, SampleInformer!Serve
<1>2. CASE r.verb = "POST"
  <2>1. r.body \in Object /\ r.ns = r.body.ns
    BY <1>2 DEF Writes
  <2>2. <<r.ns, r.body.name>> \in Key /\ [r.body EXCEPT !.status = 0] \in Object
        /\ Fits(<<r.ns, r.body.name>>, [r.body EXCEPT !.status = 0])
    BY <2>1 DEF Object, Key, Fits
  <2>3. \/ A.store = s
        \/ A = Put(<<r.ns, r.body.name>>, [r.body EXCEPT !.status = 0])
    BY <1>2 DEF SampleInformer!Answer, SampleInformer!Post, SampleInformer!Refuse
  <2> QED  BY <1>1, <2>2, <2>3
<1>3. CASE r.verb = "PUT"
  <2>1. r.body \in Object /\ r.ns = r.body.ns /\ r.name = r.body.name
    BY <1>3 DEF Writes
  <2>2. k \in Key
    BY <2>1 DEF Object, Key
  <2>3. CASE s[k] = None
    <3>1. A.store = s
      BY <1>3, <2>3 DEF SampleInformer!Answer, SampleInformer!Replace, SampleInformer!Refuse
    <3> QED  BY <3>1
  <2>4. CASE s[k] # None
    <3>1. s[k] \in Object /\ Fits(k, s[k])
      BY <2>2, <2>4 DEF Store
    <3>2. /\ SampleInformer!Merge(s[k], r.body, r.sub) \in Object
          /\ Fits(k, SampleInformer!Merge(s[k], r.body, r.sub))
      BY <2>1, <3>1, MergeFits DEF Fits
    <3>3. \/ A.store = s
          \/ A = Put(k, SampleInformer!Merge(s[k], r.body, r.sub))
      BY <1>3 DEF SampleInformer!Answer, SampleInformer!Replace, SampleInformer!Refuse
    <3> QED  BY <1>1, <2>2, <3>2, <3>3
  <2> QED  BY <2>3, <2>4
<1>4. CASE r.verb = "PATCH"
  <2>1. k \in Key
    BY <1>4 DEF Writes, Key
  <2>2. CASE s[k] = None
    <3>1. A.store = s
      BY <1>4, <2>2 DEF SampleInformer!Answer, SampleInformer!Modify, SampleInformer!Refuse
    <3> QED  BY <3>1
  <2>3. CASE s[k] # None
    <3> DEFINE patched == SampleInformer!Patched(s[k], r.body)
    <3>1. s[k] \in Object /\ Fits(k, s[k])
      BY <2>1, <2>3 DEF Store
    <3>2. patched \in Object /\ patched.ns = s[k].ns /\ patched.name = s[k].name
      BY <1>4, <3>1, PatchFits DEF Writes
    <3>3. /\ SampleInformer!Merge(s[k], patched, r.sub) \in Object
          /\ Fits(k, SampleInformer!Merge(s[k], patched, r.sub))
      BY <3>1, <3>2, MergeFits DEF Fits
    <3>4. \/ A.store = s
          \/ A = Put(k, SampleInformer!Merge(s[k], patched, r.sub))
      BY <1>4 DEF SampleInformer!Answer, SampleInformer!Modify, SampleInformer!Refuse
    <3> QED  BY <1>1, <2>1, <3>3, <3>4
  <2> QED  BY <2>2, <2>3
<1>5. CASE r.verb = "DELETE"
  <2>1. r.name # None
    BY <1>5, ConstantsAssumption DEF Writes
  <2>2. \/ A.store = s
        \/ \E S : A.store = [l \in Key |-> IF s[l] \in S THEN None ELSE s[l]]
    BY <1>5, <2>1 DEF SampleInformer!Answer, SampleInformer!Remove, SampleInformer!Refuse,
                      SampleInformer!Serve, SampleInformer!Key, Key
  <2> QED  BY <2>2 DEF Store
<1> QED  BY <1>2, <1>3, <1>4, <1>5 DEF Writes

\* The two copies without a status are the same.
LEMMA SameServer ==
    ASSUME NEW s, NEW v, NEW r
    PROVE  CrdInformer!Answer(s, v, r) = AppInformer!Answer(s, v, r)
  BY Zenon
     DEF CrdInformer!Answer, CrdInformer!Post, CrdInformer!Replace, CrdInformer!Modify,
         CrdInformer!Remove, CrdInformer!Refuse, CrdInformer!Serve, CrdInformer!Put,
         CrdInformer!Merge, CrdInformer!Patched, CrdInformer!Selected, CrdInformer!Selects,
         CrdInformer!Key, CrdInformer!NamespaceAll,
         AppInformer!Answer, AppInformer!Post, AppInformer!Replace, AppInformer!Modify,
         AppInformer!Remove, AppInformer!Refuse, AppInformer!Serve, AppInformer!Put,
         AppInformer!Merge, AppInformer!Patched, AppInformer!Selected, AppInformer!Selects,
         AppInformer!Key, AppInformer!NamespaceAll

\* So does one without the subresource.
LEMMA AppServerFits ==
    ASSUME NEW s \in Store, NEW v \in Nat, NEW r, Writes(r)
    PROVE  AppInformer!Answer(s, v, r).store \in Store
<1> DEFINE A == AppInformer!Answer(s, v, r)
           k == <<r.ns, r.name>>
           Put(l, o) == AppInformer!Put(s, v, l, o)
<1>1. ASSUME NEW l \in Key, NEW o \in Object, Fits(l, o)
      PROVE  Put(l, o).store \in Store
  <2>1. [o EXCEPT !.rv = v + 1] \in Object /\ Fits(l, [o EXCEPT !.rv = v + 1])
    BY <1>1 DEF Object, Fits
  <2>2. [s EXCEPT ![l] = [o EXCEPT !.rv = v + 1]] \in Store
    BY <1>1, <2>1, PutFits
  <2> QED  BY <2>2 DEF AppInformer!Put, AppInformer!Serve
<1>2. CASE r.verb = "POST"
  <2>1. r.body \in Object /\ r.ns = r.body.ns
    BY <1>2 DEF Writes
  <2>2. <<r.ns, r.body.name>> \in Key /\ [r.body EXCEPT !.status = 0] \in Object
        /\ Fits(<<r.ns, r.body.name>>, [r.body EXCEPT !.status = 0])
    BY <2>1 DEF Object, Key, Fits
  <2>3. \/ A.store = s
        \/ A = Put(<<r.ns, r.body.name>>, [r.body EXCEPT !.status = 0])
    BY <1>2 DEF AppInformer!Answer, AppInformer!Post, AppInformer!Refuse
  <2> QED  BY <1>1, <2>2, <2>3
<1>3. CASE r.verb = "PUT"
  <2>1. r.body \in Object /\ r.ns = r.body.ns /\ r.name = r.body.name
    BY <1>3 DEF Writes
  <2>2. k \in Key
    BY <2>1 DEF Object, Key
  <2>3. CASE s[k] = None
    <3>1. A.store = s
      BY <1>3, <2>3 DEF AppInformer!Answer, AppInformer!Replace, AppInformer!Refuse
    <3> QED  BY <3>1
  <2>4. CASE s[k] # None
    <3>1. s[k] \in Object /\ Fits(k, s[k])
      BY <2>2, <2>4 DEF Store
    <3>2. /\ AppInformer!Merge(s[k], r.body, r.sub) \in Object
          /\ Fits(k, AppInformer!Merge(s[k], r.body, r.sub))
      BY <2>1, <3>1, MergeFits DEF Fits
    <3>3. \/ A.store = s
          \/ A = Put(k, AppInformer!Merge(s[k], r.body, r.sub))
      BY <1>3 DEF AppInformer!Answer, AppInformer!Replace, AppInformer!Refuse
    <3> QED  BY <1>1, <2>2, <3>2, <3>3
  <2> QED  BY <2>3, <2>4
<1>4. CASE r.verb = "PATCH"
  <2>1. k \in Key
    BY <1>4 DEF Writes, Key
  <2>2. CASE s[k] = None
    <3>1. A.store = s
      BY <1>4, <2>2 DEF AppInformer!Answer, AppInformer!Modify, AppInformer!Refuse
    <3> QED  BY <3>1
  <2>3. CASE s[k] # None
    <3> DEFINE patched == AppInformer!Patched(s[k], r.body)
    <3>1. s[k] \in Object /\ Fits(k, s[k])
      BY <2>1, <2>3 DEF Store
    <3>2. patched \in Object /\ patched.ns = s[k].ns /\ patched.name = s[k].name
      BY <1>4, <3>1, PatchFits DEF Writes
    <3>3. /\ AppInformer!Merge(s[k], patched, r.sub) \in Object
          /\ Fits(k, AppInformer!Merge(s[k], patched, r.sub))
      BY <3>1, <3>2, MergeFits DEF Fits
    <3>4. \/ A.store = s
          \/ A = Put(k, AppInformer!Merge(s[k], patched, r.sub))
      BY <1>4 DEF AppInformer!Answer, AppInformer!Modify, AppInformer!Refuse
    <3> QED  BY <1>1, <2>1, <3>3, <3>4
  <2> QED  BY <2>2, <2>3
<1>5. CASE r.verb = "DELETE"
  <2>1. r.name # None
    BY <1>5, ConstantsAssumption DEF Writes
  <2>2. CASE r.sub = "status" \/ s[k] = None
    <3>1. A = AppInformer!Refuse(s, v, "NotFound")
      BY <1>5, <2>1, <2>2 DEF AppInformer!Answer
    <3> QED  BY <3>1 DEF AppInformer!Refuse
  <2>3. CASE r.sub # "status" /\ s[k] # None
    <3>1. A = AppInformer!Remove(s, v, {s[k]})
      BY <1>5, <2>1, <2>3 DEF AppInformer!Answer
    <3>2. A.store = [l \in Key |-> IF s[l] \in {s[k]} THEN None ELSE s[l]]
      BY <3>1 DEF AppInformer!Remove, AppInformer!Serve, AppInformer!Key, Key
    <3> QED  BY <3>2 DEF Store
  <2> QED  BY <2>2, <2>3
<1> QED  BY <1>2, <1>3, <1>4, <1>5 DEF Writes

\* A request changes the server's past by at most one version.
LEMMA Sent ==
    ASSUME ServerOK, NEW r, Writes(r), Send(r)
    PROVE  /\ UNCHANGED <<kind, scope, reflector>> /\ Len(history) < MaxVersion
           /\ history' = history \/ \E s \in Store : history' = Append(history, s)
<1>1. Now \in Store /\ Len(history) \in Nat
  BY ElementOfSeq, LenProperties DEF ServerOK, Now
<1>2. /\ SampleInformer!Answer(Now, Len(history), r).store \in Store
      /\ AppInformer!Answer(Now, Len(history), r).store \in Store
      /\ CrdInformer!Answer(Now, Len(history), r).store \in Store
  BY <1>1, SampleServerFits, AppServerFits, SameServer
<1> QED  BY <1>2 DEF Send, Answered

\* What users send, they may send.
LEMMA UserRequests ==
    ASSUME NEW ns \in Namespace, NEW name \in Name
    PROVE  /\ Writes(SampleInformer!Delete(ns, name))
           /\ \A l \in Label :
                 /\ Writes(SampleInformer!Create(ns, [ns |-> ns, name |-> name, rv |-> 0,
                                                     label |-> l, status |-> 0]))
                 /\ Writes(SampleInformer!Patch(ns, name, [label |-> l, status |-> None], None))
  BY DEF Writes, Object, SampleInformer!Create, SampleInformer!Delete, SampleInformer!Patch,
         SampleInformer!Request, SampleInformer!NoRequest

\* And what workers send.
LEMMA WorkerRequests ==
    ASSUME NEW o \in Object
    PROVE  Writes(SampleInformer!Update(o.ns, o)) /\ Writes(SampleInformer!UpdateStatus(o.ns, o))
  BY DEF Writes, Object, SampleInformer!Update, SampleInformer!UpdateStatus,
         SampleInformer!Request, SampleInformer!NoRequest

\* Where the worker's copy comes from it shares nothing.
LEMMA CopiesShareNothing ==
    ASSUME NEW o \in Object \cup {None}
    PROVE  /\ SampleCopy!DeepCopied(o) = [object |-> o, shared |-> {}]
           /\ AppCopy!DeepCopied(o) = [object |-> o, shared |-> {}]
           /\ CrdCopy!DeepCopied(o) = [object |-> o, shared |-> {}]
  BY DEF SampleCopy!DeepCopied, SampleCopy!NoCopy, SampleCopy!DeepCopyInto, SampleCopy!Assigned,
         SampleCopy!SpecDeepCopyInto, AppCopy!DeepCopied, AppCopy!NoCopy, AppCopy!DeepCopyInto,
         AppCopy!Assigned, AppCopy!SpecDeepCopyInto, CrdCopy!DeepCopied, CrdCopy!NoCopy,
         CrdCopy!DeepCopyInto, CrdCopy!Assigned, CrdCopy!SpecDeepCopyInto
-----------------------------------------------------------------------------
\* What a list answers, in each of the copies.
LEMMA Listed ==
    ASSUME NEW s, NEW v, None # "status"
    PROVE  /\ SampleInformer!Answer(s, v, SampleInformer!ListFunc).items = Visible(s)
           /\ AppInformer!Answer(s, v, AppInformer!ListFunc).items = Visible(s)
           /\ CrdInformer!Answer(s, v, CrdInformer!ListFunc).items = Visible(s)
<1>1. SampleInformer!Answer(s, v, SampleInformer!ListFunc).items = Visible(s)
  BY DEF SampleInformer!Answer, SampleInformer!ListFunc, SampleInformer!List, SampleInformer!Request,
         SampleInformer!NoRequest, SampleInformer!Serve, Visible
<1>2. AppInformer!Answer(s, v, AppInformer!ListFunc).items
        = AppInformer!Selected(s, scope.ns, scope.labels)
  BY DEF AppInformer!Answer, AppInformer!ListFunc, AppInformer!List, AppInformer!Request,
         AppInformer!NoRequest, AppInformer!Serve
<1>3. AppInformer!Selected(s, scope.ns, scope.labels) = Visible(s)
  BY DEF AppInformer!Selected, AppInformer!Selects, AppInformer!Key, AppInformer!NamespaceAll,
         Visible, SampleInformer!Selected, SampleInformer!Selects, SampleInformer!Key,
         SampleInformer!NamespaceAll
<1>4. CrdInformer!ListFunc = AppInformer!ListFunc
  BY DEF CrdInformer!ListFunc, CrdInformer!List, CrdInformer!Request, CrdInformer!NoRequest,
         AppInformer!ListFunc, AppInformer!List, AppInformer!Request, AppInformer!NoRequest
<1> QED  BY <1>1, <1>2, <1>3, <1>4, SameServer

\* An object that is listed is one the informer sees, where it is.
LEMMA Shows ==
    ASSUME NEW s \in Store
    PROVE  /\ [k \in Key |-> IF s[k] \in Visible(s) THEN s[k] ELSE None] = Shown(s)
           /\ {Shown(s)[k] : k \in Key} \ {None} = Visible(s)
           /\ Shown(s) \in Store
<1>1. Visible(s) = {s[k] : k \in {l \in Key : Sees(s[l])}}
  BY DEF Visible, SampleInformer!Selected, SampleInformer!Key, Key, Sees
<1>2. \A o : Sees(o) => o # None
  BY DEF Sees, SampleInformer!Selects
<1>3. \A k \in Key : s[k] \in Visible(s) <=> Sees(s[k])
  BY <1>1
<1>4. [k \in Key |-> IF s[k] \in Visible(s) THEN s[k] ELSE None] = Shown(s)
  BY <1>3 DEF Shown
<1>5. {Shown(s)[k] : k \in Key} \ {None} = Visible(s)
  BY <1>1, <1>2 DEF Shown
<1>6. Shown(s) \in Store
  BY DEF Shown, Store
<1> QED  BY <1>4, <1>5, <1>6
-----------------------------------------------------------------------------
\* The reflector's three steps, in every copy.
Relists ==
    /\ phase = "list" /\ phase' = "watch"
    /\ \E v \in 1 .. Len(history) :
          v >= position /\ position' = v /\ indexer' = Shown(history[v])
    /\ UNCHANGED <<breaks, watch>>

Opens ==
    /\ phase = "watch" /\ phase' = "watching"
    /\ watch'.ns = scope.ns /\ watch'.labels = scope.labels /\ watch'.rv = position
    /\ UNCHANGED <<position, indexer, breaks>>

Follows ==
    /\ phase = "watching" /\ position < Len(history) /\ position' = position + 1
    /\ indexer' = [k \in Key |-> LET old == history[position][k]
                                     new == history[position + 1][k]
                                 IN IF new = old THEN indexer[k]
                                    ELSE IF Sees(new) THEN new
                                    ELSE IF Sees(old) THEN None
                                    ELSE indexer[k]]
    /\ UNCHANGED <<phase, watch, breaks>>

\* A list.
LEMMA RelistStep ==
    ASSUME ServerOK, \/ SampleInformer!ListAll \/ AppInformer!ListAll \/ CrdInformer!ListAll
    PROVE  Relists /\ UNCHANGED <<history, scope>>
<1>1. None # "status"
  BY ConstantsAssumption
<1> DEFINE Copied(v) == [k \in Key |-> IF history[v][k] \in Visible(history[v])
                                       THEN history[v][k] ELSE None]
<1>2. /\ phase = "list" /\ phase' = "watch" /\ UNCHANGED <<history, scope, watch, breaks>>
      /\ \E v \in 1 .. Len(history) : v >= position /\ position' = v /\ indexer' = Copied(v)
  <2>1. CASE SampleInformer!ListAll
    BY <1>1, <2>1, Listed DEF SampleInformer!ListAll, SampleInformer!Key, Key
  <2>2. CASE AppInformer!ListAll
    BY <1>1, <2>2, Listed DEF AppInformer!ListAll, AppInformer!Key, Key
  <2>3. CASE CrdInformer!ListAll
    BY <1>1, <2>3, Listed DEF CrdInformer!ListAll, CrdInformer!Key, Key
  <2> QED  BY <2>1, <2>2, <2>3
<1>3. \A v \in 1 .. Len(history) : Copied(v) = Shown(history[v])
  BY ElementOfSeq, Shows DEF ServerOK
<1> HIDE DEF Copied
<1> QED  BY <1>2, <1>3 DEF Relists

\* A watch request.
LEMMA OpenStep ==
    ASSUME \/ SampleInformer!OpenWatch \/ AppInformer!OpenWatch \/ CrdInformer!OpenWatch
    PROVE  Opens /\ UNCHANGED <<history, scope>>
  BY DEF Opens, SampleInformer!OpenWatch, SampleInformer!WatchFunc, SampleInformer!Watch,
         SampleInformer!Request, SampleInformer!NoRequest, AppInformer!OpenWatch,
         AppInformer!WatchFunc, AppInformer!Watch, AppInformer!Request, AppInformer!NoRequest,
         CrdInformer!OpenWatch, CrdInformer!WatchFunc, CrdInformer!Watch, CrdInformer!Request,
         CrdInformer!NoRequest

\* An event.
LEMMA FollowStep ==
    ASSUME ReflectorOK, \/ SampleInformer!Event \/ AppInformer!Event \/ CrdInformer!Event
    PROVE  Follows /\ UNCHANGED <<history, scope>>
<1>1. phase = "watching" => watch.ns = scope.ns /\ watch.labels = scope.labels
  BY DEF ReflectorOK
<1>2. \A o : /\ AppInformer!Selects(scope.ns, scope.labels, o) <=> Sees(o)
             /\ CrdInformer!Selects(scope.ns, scope.labels, o) <=> Sees(o)
  BY DEF AppInformer!Selects, CrdInformer!Selects, SampleInformer!Selects, Sees,
         AppInformer!NamespaceAll, CrdInformer!NamespaceAll, SampleInformer!NamespaceAll
<1>3. CASE SampleInformer!Event
  BY <1>1, <1>3 DEF SampleInformer!Event, SampleInformer!Key, Key, Follows, Sees
<1>4. CASE AppInformer!Event
  BY <1>1, <1>2, <1>4 DEF AppInformer!Event, AppInformer!Key, Key, Follows
<1>5. CASE CrdInformer!Event
  BY <1>1, <1>2, <1>5 DEF CrdInformer!Event, CrdInformer!Key, Key, Follows
<1> QED  BY <1>3, <1>4, <1>5
-----------------------------------------------------------------------------
Grows ==
    \/ history' = history
    \/ Len(history) < MaxVersion /\ \E s \in Store : history' = Append(history, s)

Breaks ==
    /\ phase' = "list" /\ breaks' \in 0 .. MaxBreaks
    /\ UNCHANGED <<position, watch, indexer>>

\* Either the past grows or the reflector takes a step, and nothing else
\* touches the cache.
LEMMA Steps ==
    ASSUME IInv, [Next]_vars
    PROVE  /\ UNCHANGED <<kind, scope>> /\ CopyOK'
           /\ \/ Grows /\ UNCHANGED reflector
              \/ (Relists \/ Opens \/ Follows \/ Breaks) /\ UNCHANGED history
<1> USE DEF IInv
<1>1. ASSUME NEW ns \in Namespace, NEW name \in Name, User(ns, name)
      PROVE  UNCHANGED <<kind, scope, reflector>> /\ Grows /\ CopyOK'
  <2>1. UNCHANGED copy /\ \E r : Writes(r) /\ Send(r)
    BY <1>1, UserRequests DEF User
  <2> QED  BY <2>1, Sent DEF Grows, CopyOK
<1>2. ASSUME NEW ns \in Namespace, NEW name \in Name, GetAndCopy(ns, name)
      PROVE  UNCHANGED <<kind, history, scope, reflector>> /\ CopyOK'
  <2>1. indexer \in Store
    BY ElementOfSeq, Shows DEF CacheOK, ReflectorOK, ServerOK, NoObjects, Store
  <2>2. indexer[<<ns, name>>] \in Object \cup {None}
    BY <2>1 DEF Store, Key
  <2>3. copy' = [object |-> indexer[<<ns, name>>], shared |-> {}]
    BY <1>2, <2>2, CopiesShareNothing
       DEF GetAndCopy, SampleLister!Get, AppLister!Get, CrdLister!Get
  <2> QED  BY <1>2, <2>2, <2>3 DEF GetAndCopy, CopyOK
<1>3. ASSUME Edit
      PROVE  UNCHANGED <<kind, history, scope, reflector>> /\ CopyOK'
  <2>1. copy.object \in Object /\ copy.shared = {}
    BY <1>3 DEF Edit, CopyOK
  <2>2. \E path : \E o \in Object : Write(path, o)
    <3>1. CASE \E path \in {"metadata", "spec"}, l \in Label \ {copy.object.label} :
                  Write(path, [copy.object EXCEPT !.label = l])
      <4>1. \A l \in Label : [copy.object EXCEPT !.label = l] \in Object
        BY <2>1 DEF Object
      <4> QED  BY <3>1, <4>1, Zenon
    <3>2. CASE Write("status", [copy.object EXCEPT !.status = 1])
      <4>1. [copy.object EXCEPT !.status = 1] \in Object
        BY <2>1 DEF Object
      <4> QED  BY <3>2, <4>1, Zenon
    <3> QED  BY <1>3, <3>1, <3>2 DEF Edit
  <2>3. UNCHANGED <<kind, history, scope, phase, position, watch, breaks>>
    BY <1>3 DEF Edit
  <2> QED  BY <2>1, <2>2, <2>3 DEF Write, CopyOK, reflector
<1>4. ASSUME SendCopy
      PROVE  UNCHANGED <<kind, scope, reflector>> /\ Grows /\ CopyOK'
  <2>1. copy.object \in Object
    BY <1>4 DEF SendCopy, CopyOK
  <2>2. copy' = SampleCopy!NoCopy /\ \E r : Writes(r) /\ Send(r)
    <3>1. /\ Writes(SampleInformer!Update(copy.object.ns, copy.object))
          /\ Writes(SampleInformer!UpdateStatus(copy.object.ns, copy.object))
      BY <2>1, WorkerRequests
    <3> QED  BY <1>4, <3>1 DEF SendCopy
  <2>3. CopyOK'
    BY <2>2 DEF CopyOK, SampleCopy!NoCopy
  <2> QED  BY <2>2, <2>3, Sent DEF Grows
<1>5. ASSUME Reflect
      PROVE  UNCHANGED <<kind, history, scope, copy>> /\ (Relists \/ Opens \/ Follows)
  BY <1>5, RelistStep, OpenStep, FollowStep
     DEF Reflect, SampleInformer!Reflect, AppInformer!Reflect, CrdInformer!Reflect
<1>6. ASSUME WatchBreaks
      PROVE  UNCHANGED <<kind, history, scope, copy>> /\ Breaks
  BY <1>6, MaxBreaksAssumption DEF WatchBreaks, SampleInformer!Break, Breaks, ReflectorOK
<1> QED
  BY <1>1, <1>2, <1>3, <1>4, <1>5, <1>6 DEF Next, vars, Grows, CopyOK

\* The first state: an empty server, and nothing listed.
LEMMA InitIInv == Init => IInv
<1> SUFFICES ASSUME Init PROVE IInv
  OBVIOUS
<1>1. NoObjects \in Store
  BY DEF NoObjects, Store
<1>2. history = <<NoObjects>>
  BY DEF Init, NoObjects
<1>3. history \in Seq(Store) /\ Len(history) = 1
  BY <1>1, <1>2
<1>4. ServerOK
  BY <1>3, ConstantsAssumption DEF Init, ServerOK
<1>5. ReflectorOK /\ CacheOK
  BY <1>3, ConstantsAssumption, MaxBreaksAssumption
     DEF Init, SampleInformer!InitInformer, ReflectorOK, CacheOK, NoObjects, SampleInformer!Key, Key
<1>6. CopyOK
  BY DEF Init, SampleCopy!NoCopy, CopyOK
<1> QED  BY <1>4, <1>5, <1>6 DEF IInv

\* The past grows at its end.
LEMMA GrownPast ==
    ASSUME ServerOK, Grows, UNCHANGED <<kind, scope>>
    PROVE  /\ ServerOK' /\ Len(history') >= Len(history)
           /\ \A v \in 1 .. Len(history) : history'[v] = history[v]
<1>1. history \in Seq(Store) /\ Len(history) \in 1 .. MaxVersion /\ MaxVersion \in Nat
  BY ConstantsAssumption DEF ServerOK
<1>2. CASE history' = history
  BY <1>1, <1>2 DEF ServerOK
<1>3. ASSUME Len(history) < MaxVersion, NEW s \in Store, history' = Append(history, s)
      PROVE  /\ history' \in Seq(Store) /\ Len(history') = Len(history) + 1
             /\ \A v \in 1 .. Len(history) : history'[v] = history[v]
  BY <1>1, <1>3, AppendProperties
<1>4. CASE history' # history
  BY <1>1, <1>3, <1>4 DEF ServerOK, Grows
<1> QED  BY <1>2, <1>4

\* What the informer sees depends on the scope only.
LEMMA SameShown ==
    ASSUME UNCHANGED scope
    PROVE  /\ \A s : Shown(s)' = Shown(s)
           /\ \A s : Visible(s)' = Visible(s)
  BY DEF Shown, Sees, Visible

\* Every step keeps the cache at its moment: a list brings it to one, an event
\* to the next, and nothing else changes it.
LEMMA NextIInv == IInv /\ [Next]_vars => IInv'
<1> SUFFICES ASSUME IInv, [Next]_vars PROVE IInv'
  OBVIOUS
<1>1. CopyOK' /\ UNCHANGED <<kind, scope>>
  BY Steps
<1>2. CASE Grows /\ UNCHANGED reflector
  <2>1. /\ ServerOK' /\ Len(history') >= Len(history)
        /\ \A v \in 1 .. Len(history) : history'[v] = history[v]
    BY <1>1, <1>2, GrownPast DEF IInv
  <2>2. ReflectorOK'
    BY <1>1, <1>2, <2>1 DEF IInv, ReflectorOK, ServerOK, reflector
  <2>3. CacheOK'
    <3>1. position # 0 => history'[position] = history[position]
      BY <2>1 DEF IInv, ReflectorOK
    <3>2. UNCHANGED <<position, indexer>>
      BY <1>2 DEF reflector
    <3> QED  BY <1>1, <3>1, <3>2, SameShown DEF IInv, CacheOK, NoObjects
  <2> QED  BY <1>1, <2>1, <2>2, <2>3 DEF IInv
<1>3. CASE UNCHANGED history /\ Relists
  <2>1. ServerOK' /\ ReflectorOK'
    BY <1>1, <1>3 DEF IInv, ServerOK, ReflectorOK, Relists
  <2>2. CacheOK'
    BY <1>1, <1>3, SameShown DEF IInv, ServerOK, CacheOK, Relists
  <2> QED  BY <1>1, <2>1, <2>2 DEF IInv
<1>4. CASE UNCHANGED history /\ Opens
  <2>1. ServerOK' /\ ReflectorOK'
    BY <1>1, <1>4 DEF IInv, ServerOK, ReflectorOK, Opens
  <2>2. CacheOK'
    BY <1>1, <1>4, SameShown DEF IInv, CacheOK, Opens, NoObjects
  <2> QED  BY <1>1, <2>1, <2>2 DEF IInv
<1>5. CASE UNCHANGED history /\ Follows
  <2>1. ServerOK' /\ ReflectorOK'
    BY <1>1, <1>5 DEF IInv, ServerOK, ReflectorOK, Follows
  <2>2. position >= 1 /\ indexer = Shown(history[position])
    BY <1>5 DEF IInv, ReflectorOK, CacheOK, Follows
  <2>3. indexer' = Shown(history[position + 1])
    BY <1>5, <2>2 DEF Follows, Shown
  <2>4. CacheOK'
    BY <1>1, <1>5, <2>2, <2>3, SameShown DEF IInv, CacheOK, Follows, ReflectorOK
  <2> QED  BY <1>1, <2>1, <2>4 DEF IInv
<1>6. CASE UNCHANGED history /\ Breaks
  <2>1. ServerOK' /\ ReflectorOK'
    BY <1>1, <1>6 DEF IInv, ServerOK, ReflectorOK, Breaks
  <2>2. CacheOK'
    BY <1>1, <1>6, SameShown DEF IInv, CacheOK, Breaks, NoObjects
  <2> QED  BY <1>1, <2>1, <2>2 DEF IInv
<1> QED  BY Steps, <1>2, <1>3, <1>4, <1>5, <1>6

\* The factory's filters, the reflector and the copies keep their types, and
\* every cached object is where its namespace and name say
\* (informers/externalversions/*/foo.go, zz_generated.deepcopy.go).
THEOREM TypeCorrect == Spec => []TypeOK
<1>1. IInv => TypeOK
  <2> SUFFICES ASSUME IInv PROVE TypeOK
    OBVIOUS
  <2>1. indexer \in Store
    BY ElementOfSeq, Shows DEF IInv, CacheOK, ReflectorOK, ServerOK, NoObjects, Store
  <2>2. \A k \in Key : indexer[k] = None \/ (indexer[k].ns = k[1] /\ indexer[k].name = k[2])
    BY <2>1 DEF Store, Fits
  <2> QED  BY <2>2 DEF IInv, ServerOK, ReflectorOK, CopyOK, TypeOK
<1> QED  BY <1>1, InitIInv, NextIInv, PTL DEF Spec
-----------------------------------------------------------------------------
\* The three ways agree on whatever store the cache shows.
LEMMA ListersOfStore ==
    ASSUME NEW s \in Store, NEW l \in Label \cup {None}
    PROVE  /\ AppLister!List(s, l) = UNION {AppLister!NamespaceList(s, ns, l) : ns \in Namespace}
           /\ \A ns \in Namespace :
                 AppLister!NamespaceList(s, ns, l) = {o \in AppLister!List(s, l) : o.ns = ns}
           /\ \A k \in Key : AppLister!Get(s, k[1], k[2]) \in AppLister!List(s, l)
                               <=> AppLister!Matches(AppLister!Get(s, k[1], k[2]), l)
<1> DEFINE M(o) == AppLister!Matches(o, l)
<1>1. /\ AppLister!List(s, l) = {o \in {s[k] : k \in Key} : M(o)}
      /\ \A ns \in Namespace :
            AppLister!NamespaceList(s, ns, l) = {o \in {s[<<ns, n>>] : n \in Name} : M(o)}
      /\ \A k \in Key : AppLister!Get(s, k[1], k[2]) = s[k]
  BY DEF AppLister!List, AppLister!NamespaceList, AppLister!Get, Key
<1>2. \A k \in Key : M(s[k]) => s[k].ns = k[1] /\ s[k].name = k[2]
  BY DEF Store, Fits, AppLister!Matches
<1> HIDE DEF M
<1>3. \A k \in Key : k = <<k[1], k[2]>> /\ k[1] \in Namespace /\ k[2] \in Name
  BY DEF Key
<1>4. \A ns \in Namespace, n \in Name : <<ns, n>> \in Key /\ <<ns, n>>[1] = ns
  BY DEF Key
<1> DEFINE all == AppLister!List(s, l)
           of(ns) == AppLister!NamespaceList(s, ns, l)
<1>5. \A o : o \in all <=> \E k \in Key : o = s[k] /\ M(o)
  BY <1>1
<1>6. \A ns \in Namespace : \A o : o \in of(ns) <=> \E n \in Name : o = s[<<ns, n>>] /\ M(o)
  <2> SUFFICES ASSUME NEW ns \in Namespace, NEW o
               PROVE  o \in of(ns) <=> \E n \in Name : o = s[<<ns, n>>] /\ M(o)
    OBVIOUS
  <2> DEFINE at(n) == s[<<ns, n>>]
  <2>1. of(ns) = {p \in {at(n) : n \in Name} : M(p)}
    BY <1>1
  <2> HIDE DEF of, at
  <2>2. o \in of(ns) <=> \E n \in Name : o = at(n) /\ M(o)
    BY <2>1
  <2> QED  BY <2>2 DEF at
<1> HIDE DEF all, of
<1>7. \A o : o \in all <=> \E ns \in Namespace : o \in of(ns)
  <2> SUFFICES ASSUME NEW o PROVE o \in all <=> \E ns \in Namespace : o \in of(ns)
    OBVIOUS
  <2>1. ASSUME o \in all PROVE \E ns \in Namespace : o \in of(ns)
    <3>1. PICK k \in Key : o = s[k] /\ M(o)
      BY <1>5, <2>1
    <3>2. o \in of(k[1]) /\ k[1] \in Namespace
      BY <1>3, <1>6, <3>1
    <3> QED  BY <3>2
  <2>2. ASSUME NEW ns \in Namespace, o \in of(ns) PROVE o \in all
    <3>1. PICK n \in Name : o = s[<<ns, n>>] /\ M(o)
      BY <1>6, <2>2
    <3> QED  BY <1>4, <1>5, <3>1
  <2> QED  BY <2>1, <2>2
<1>8. \A ns \in Namespace : \A o : o \in of(ns) <=> o \in all /\ o.ns = ns
  <2> SUFFICES ASSUME NEW ns \in Namespace, NEW o
               PROVE  o \in of(ns) <=> o \in all /\ o.ns = ns
    OBVIOUS
  <2>1. ASSUME o \in of(ns) PROVE o \in all /\ o.ns = ns
    <3>1. PICK n \in Name : o = s[<<ns, n>>] /\ M(o)
      BY <1>6, <2>1
    <3> QED  BY <1>2, <1>4, <1>5, <3>1
  <2>2. ASSUME o \in all, o.ns = ns PROVE o \in of(ns)
    <3>1. PICK k \in Key : o = s[k] /\ M(o)
      BY <1>5, <2>2
    <3>2. k = <<ns, k[2]>> /\ k[2] \in Name
      BY <1>2, <1>3, <2>2, <3>1
    <3> QED  BY <1>6, <3>1, <3>2
  <2> QED  BY <2>1, <2>2
<1>9. AppLister!List(s, l) = UNION {AppLister!NamespaceList(s, ns, l) : ns \in Namespace}
  <2>1. all = UNION {of(ns) : ns \in Namespace}
    BY <1>7
  <2> QED  BY <2>1 DEF all, of
<1>10. \A ns \in Namespace :
         AppLister!NamespaceList(s, ns, l) = {o \in AppLister!List(s, l) : o.ns = ns}
  <2>1. \A ns \in Namespace : of(ns) = {o \in all : o.ns = ns}
    BY <1>8
  <2> QED  BY <2>1 DEF all, of
<1>11. \A k \in Key : AppLister!Get(s, k[1], k[2]) \in AppLister!List(s, l)
                       <=> AppLister!Matches(AppLister!Get(s, k[1], k[2]), l)
  BY <1>1 DEF M
<1> QED  BY <1>9, <1>10, <1>11

\* List, the lists of the namespaces and Get of a generated lister give one
\* picture of the cache, whatever it holds (listers/*/foo.go:45-101).
THEOREM ListersGiveOnePicture == Spec => []ListersAgree
<1>1. IInv => ListersAgree
  <2> SUFFICES ASSUME IInv PROVE ListersAgree
    OBVIOUS
  <2>1. indexer \in Store
    BY ElementOfSeq, Shows DEF IInv, CacheOK, ReflectorOK, ServerOK, NoObjects, Store
  <2> QED  BY <2>1, ListersOfStore DEF ListersAgree
<1> QED  BY <1>1, InitIInv, NextIInv, PTL DEF Spec
-----------------------------------------------------------------------------
Past == [v \in 1 .. Len(history) |-> Visible(history[v])]
Showing == {indexer[k] : k \in Key} \ {None}

PastOK ==
    /\ Past \in Seq(SUBSET Object) /\ Len(Past) = Len(history)
    /\ \A v \in 1 .. Len(history) : Past[v] = Visible(history[v])

\* The past that is visible is a sequence.
LEMMA PastIsSeq == ServerOK => PastOK
<1> SUFFICES ASSUME ServerOK PROVE PastOK
  OBVIOUS
<1>1. \A v \in 1 .. Len(history) : Visible(history[v]) \subseteq Object
  <2> SUFFICES ASSUME NEW v \in 1 .. Len(history) PROVE Visible(history[v]) \subseteq Object
    OBVIOUS
  <2>1. history[v] \in Store
    BY ElementOfSeq DEF ServerOK
  <2>2. \A k \in Key : history[v][k] \in Object \cup {None}
    BY <2>1 DEF Store
  <2> QED  BY <2>2 DEF Visible, SampleInformer!Selected, SampleInformer!Selects,
                       SampleInformer!Key, Key
<1>2. Len(history) \in Nat
  BY LenProperties DEF ServerOK
<1>3. Past \in [1 .. Len(history) -> SUBSET Object]
  BY <1>1 DEF Past
<1>4. \A n \in Nat : \A T : \A p \in [1 .. n -> T] : p \in Seq(T) /\ Len(p) = n
  <2> SUFFICES ASSUME NEW n \in Nat, NEW T, NEW p \in [1 .. n -> T]
               PROVE  p \in Seq(T) /\ Len(p) = n
    OBVIOUS
  <2>1. p \in Seq(T)
    BY SeqDef
  <2>2. DOMAIN p = 1 .. Len(p) /\ Len(p) \in Nat
    BY <2>1, LenProperties
  <2> QED  BY <2>1, <2>2
<1>5. Past \in Seq(SUBSET Object) /\ Len(Past) = Len(history)
  BY <1>2, <1>3, <1>4
<1> QED  BY <1>5 DEF Past, PastOK

ShowsMoment == Showing = IF position = 0 THEN {} ELSE Visible(history[position])

\* The cache shows the moment it is at.
LEMMA Showings == IInv => ShowsMoment
<1> SUFFICES ASSUME IInv PROVE ShowsMoment
  OBVIOUS
<1> USE DEF ShowsMoment
<1>1. CASE position = 0
  BY <1>1 DEF IInv, CacheOK, NoObjects, Showing
<1>2. CASE position # 0
  <2>1. history[position] \in Store
    BY <1>2, ElementOfSeq DEF IInv, ServerOK, ReflectorOK
  <2>2. indexer = Shown(history[position])
    BY <1>2 DEF IInv, CacheOK
  <2> QED  BY <1>2, <2>1, <2>2, Shows DEF Showing
<1> QED  BY <1>1, <1>2

\* A view of nothing at first.
LEMMA InitMirrors == Init => View!Init
<1> SUFFICES ASSUME Init PROVE View!Init
  OBVIOUS
<1>1. IInv
  BY InitIInv
<1>2. position = 0 /\ Showing = {}
  BY <1>1, Showings DEF Init, SampleInformer!InitInformer, ShowsMoment
<1>3. Len(Past) >= 1
  BY <1>1, PastIsSeq DEF IInv, ServerOK, PastOK
<1> QED  BY <1>2, <1>3 DEF View!Init, Past, Showing

\* Either the past grows or the cache moves on, if it changes at all.
LEMMA NextMirrors == IInv /\ [Next]_vars => [View!Next]_View!vars
<1> SUFFICES ASSUME IInv, [Next]_vars PROVE View!Happen \/ View!Advance \/ UNCHANGED View!vars
  BY DEF View!Next
<1>1. IInv'
  BY NextIInv
<1>2. /\ UNCHANGED <<kind, scope>> /\ ServerOK /\ ServerOK'
      /\ \/ Grows /\ UNCHANGED reflector
         \/ (Relists \/ Opens \/ Follows \/ Breaks) /\ UNCHANGED history
  BY <1>1, Steps DEF IInv
<1>3. PastOK /\ PastOK' /\ ShowsMoment'
  <2>1. ServerOK' => PastOK'
    BY PastIsSeq, PTL
  <2>2. IInv' => ShowsMoment'
    BY Showings, PTL
  <2> QED  BY <1>1, <1>2, <2>1, <2>2, PastIsSeq
<1>4. /\ \A v \in 1 .. Len(history') : Past'[v] = Visible(history'[v])
      /\ Len(Past') = Len(history') /\ Past' \in Seq(SUBSET Object)
  BY <1>2, <1>3, SameShown DEF PastOK
<1>5. CASE history' = history
  <2>1. Past' = Past
    BY <1>2, <1>5, SameShown DEF Past
  <2>2. CASE UNCHANGED <<position, indexer>>
    <3>1. Showing' = Showing
      BY <2>2 DEF Showing
    <3> QED  BY <2>1, <2>2, <3>1 DEF View!vars, Past, Showing
  <2>3. CASE Relists \/ Follows
    <3>1. position' \in position .. Len(history) /\ position' >= 1
      BY <1>2, <2>3 DEF IInv, ServerOK, ReflectorOK, Relists, Follows
    <3>2. Showing' = Visible(history[position'])
      BY <1>2, <1>3, <1>5, <3>1, SameShown DEF ShowsMoment
    <3> QED  BY <1>3, <2>1, <3>1, <3>2 DEF View!Advance, Past, Showing, PastOK
  <2> QED  BY <1>2, <2>2, <2>3 DEF reflector, Opens, Breaks
<1>6. ASSUME NEW s \in Store, history' = Append(history, s), UNCHANGED reflector
      PROVE  View!Happen
  <2>1. /\ Len(history') = Len(history) + 1 /\ Len(history) \in Nat
        /\ \A v \in 1 .. Len(history) : history'[v] = history[v]
    BY <1>2, <1>6, AppendProperties, LenProperties DEF ServerOK
  <2>2. Len(Past') = Len(Past) + 1
    BY <1>3, <1>4, <2>1 DEF PastOK
  <2>3. SubSeq(Past', 1, Len(Past)) = Past
    <3>1. \A v \in 1 .. Len(Past) : Past'[v] = Past[v] /\ Past'[v] \in SUBSET Object
      BY <1>3, <1>4, <2>1, ElementOfSeq DEF PastOK
    <3> DEFINE part == SubSeq(Past', 1, Len(Past))
    <3>2. /\ part \in Seq(SUBSET Object) /\ Len(part) = Len(Past)
          /\ \A v \in 1 .. Len(Past) : part[v] = Past'[v]
      <4>1. 1 \in Int /\ Len(Past) \in Nat
        BY <1>3, <2>1 DEF PastOK
      <4> QED  BY <3>1, <4>1, SubSeqProperties
    <3> HIDE DEF part
    <3>3. part = Past
      BY <1>3, <3>1, <3>2, SeqEqual DEF PastOK
    <3> QED  BY <3>3 DEF part
  <2>4. UNCHANGED <<position, Showing>>
    BY <1>6 DEF reflector, Showing
  <2> QED  BY <2>2, <2>3, <2>4 DEF View!Happen, Past, Showing
<1> QED  BY <1>2, <1>5, <1>6 DEF Grows

\* The generated informer implements Mirror: with any namespace and filter,
\* however often its watch breaks, and whatever workers do to their copies, the
\* cache is one moment of the server's past and never an earlier one than
\* before (informers/externalversions/*/foo.go:53-80).
THEOREM CacheIsMirror == Spec => Mirrors
<1> QED
  BY InitMirrors, NextMirrors, InitIInv, NextIInv, PTL DEF Spec, Mirrors, View!Spec
=============================================================================
