------------------------------ MODULE FakeClient ------------------------------
(***************************************************************************)
(* The generated fake of a typed client (fake/fake_foo.go) over client-go's*)
(* object tracker, which "processes creates, updates and deletions as-is"  *)
(* (clientset_generated.go:33-34): no versions, no subresources, and no    *)
(* reaction to DeleteCollection.                                           *)
(***************************************************************************)
EXTENDS ApiServer

\* The tracker (k8s.io/client-go/testing).
Stored(tracker, k, o) ==
    [store |-> [tracker EXCEPT ![k] = o], code |-> "OK", items |-> {o}]
Rejected(tracker, code) == [store |-> tracker, code |-> code, items |-> {}]
Found(tracker, items) == [store |-> tracker, code |-> "OK", items |-> items]

Get(tracker, ns, name) ==
    IF tracker[<<ns, name>>] = None THEN Rejected(tracker, "NotFound")
    ELSE Found(tracker, {tracker[<<ns, name>>]})

\* Mutant: the label selector is left to the tracker, which ignores it.
ListUnfiltered(tracker, ns, labels) == Found(tracker, Selected(tracker, ns, None))

\* The tracker lists by namespace, the fake applies the label selector.
List(tracker, ns, labels) ==
    LET listed == Selected(tracker, ns, None)
    IN Found(tracker, {o \in listed : labels = None \/ o.label = labels})

\* Mutant: the object's namespace is not compared with the client's.
CreateUnchecked(tracker, ns, o) ==
    IF tracker[<<ns, o.name>>] # None THEN Rejected(tracker, "AlreadyExists")
    ELSE Stored(tracker, <<ns, o.name>>, o)

Create(tracker, ns, o) ==
    IF o.ns # ns THEN Rejected(tracker, "BadRequest")
    ELSE IF tracker[<<ns, o.name>>] # None THEN Rejected(tracker, "AlreadyExists")
    ELSE Stored(tracker, <<ns, o.name>>, o)

\* Mutant: the object's own namespace counts, not the client's.
UpdateAnywhere(tracker, ns, o) ==
    IF tracker[<<o.ns, o.name>>] = None THEN Rejected(tracker, "NotFound")
    ELSE Stored(tracker, <<o.ns, o.name>>, o)

Update(tracker, ns, o) ==
    IF o.ns # ns THEN Rejected(tracker, "BadRequest")
    ELSE IF tracker[<<ns, o.name>>] = None THEN Rejected(tracker, "NotFound")
    ELSE Stored(tracker, <<ns, o.name>>, o)

\* The tracker does not know subresources: the whole object is stored.
UpdateStatus(tracker, ns, o) == Update(tracker, ns, o)

Delete(tracker, ns, name) ==
    IF tracker[<<ns, name>>] = None THEN Rejected(tracker, "NotFound")
    ELSE [store |-> [tracker EXCEPT ![<<ns, name>>] = None], code |-> "OK", items |-> {}]

DeleteCollection(tracker, ns, labels) == Found(tracker, {})

Patch(tracker, ns, name, patch) ==
    IF tracker[<<ns, name>>] = None THEN Rejected(tracker, "NotFound")
    ELSE Stored(tracker, <<ns, name>>, Patched(tracker[<<ns, name>>], patch))

\* A call of the interface.
FooInterface(tracker, ns, c) ==
    CASE c.method = "Get" -> Get(tracker, ns, c.name)
      [] c.method = "List" -> List(tracker, ns, c.labels)
      [] c.method = "Create" -> Create(tracker, ns, c.object)
      [] c.method = "Update" -> Update(tracker, ns, c.object)
      [] c.method = "UpdateStatus" -> UpdateStatus(tracker, ns, c.object)
      [] c.method = "Delete" -> Delete(tracker, ns, c.name)
      [] c.method = "DeleteCollection" -> DeleteCollection(tracker, ns, c.labels)
      [] c.method = "Patch" -> Patch(tracker, ns, c.name, c.patch)
=============================================================================
