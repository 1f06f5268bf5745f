----------------------------- MODULE TypedClient -----------------------------
(***************************************************************************)
(* The generated typed client of one resource (typed/<group>/<version>/    *)
(* foo.go): every method turns its arguments and the client's namespace    *)
(* into one request.                                                       *)
(***************************************************************************)
EXTENDS ApiServer

Request(verb, ns) == [NoRequest EXCEPT !.verb = verb, !.ns = ns]

Get(ns, name) == [Request("GET", ns) EXCEPT !.name = name]

List(ns, labels) == [Request("LIST", ns) EXCEPT !.labels = labels]

Watch(ns, labels, rv) == [Request("WATCH", ns) EXCEPT !.labels = labels, !.rv = rv]

Create(ns, o) == [Request("POST", ns) EXCEPT !.body = o]

\* The object's name and the client's namespace, not the object's.
Update(ns, o) == [Request("PUT", ns) EXCEPT !.name = o.name, !.body = o]

\* Mutant: the request goes to the object instead of its status.
UpdateStatusOfObject(ns, o) == [Request("PUT", ns) EXCEPT !.name = o.name, !.body = o]

\* Generated for types with a Status member only.
UpdateStatus(ns, o) ==
    [Request("PUT", ns) EXCEPT !.name = o.name, !.sub = "status", !.body = o]

Delete(ns, name) == [Request("DELETE", ns) EXCEPT !.name = name]

\* Mutant: the namespace is left out.
DeleteCollectionEverywhere(ns, labels) == [Request("DELETE", NamespaceAll) EXCEPT !.labels = labels]

DeleteCollection(ns, labels) == [Request("DELETE", ns) EXCEPT !.labels = labels]

Patch(ns, name, patch, sub) ==
    [Request("PATCH", ns) EXCEPT !.name = name, !.body = patch, !.sub = sub]

\* A call of the interface, which the fake implements as well.
FooInterface(ns, c) ==
    CASE c.method = "Get" -> Get(ns, c.name)
      [] c.method = "List" -> List(ns, c.labels)
      [] c.method = "Create" -> Create(ns, c.object)
      [] c.method = "Update" -> Update(ns, c.object)
      [] c.method = "UpdateStatus" -> UpdateStatus(ns, c.object)
      [] c.method = "Delete" -> Delete(ns, c.name)
      [] c.method = "DeleteCollection" -> DeleteCollection(ns, c.labels)
      [] c.method = "Patch" -> Patch(ns, c.name, c.patch, c.sub)
=============================================================================
