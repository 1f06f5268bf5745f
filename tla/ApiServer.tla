------------------------------ MODULE ApiServer ------------------------------
(***************************************************************************)
(* What kube-apiserver does with the requests of the generated clients,    *)
(* for one custom resource.  External: written from what the clients send  *)
(* and what their callers do with the answers.                             *)
(***************************************************************************)
EXTENDS Naturals

CONSTANTS
    Namespace, Name,
    Label,       \* what a selector can tell apart; stands for labels and spec
    HasStatus,   \* the resource has the status subresource
    None

Key == Namespace \X Name

Status == IF HasStatus THEN {0, 1} ELSE {0}

\* What a client sends or receives; rv is the resource version.
Object(Versions) ==
    [ns : Namespace, name : Name, rv : Versions, label : Label, status : Status]

\* A patch leaves out what it does not touch.
PatchData == [label : Label \cup {None}, status : Status \cup {None}]

Patched(o, patch) ==
    [o EXCEPT !.label = IF patch.label = None THEN @ ELSE patch.label,
              !.status = IF patch.status = None THEN @ ELSE patch.status]

\* Requests: fields a verb does not use are None.
NoRequest == [verb |-> None, ns |-> None, name |-> None, sub |-> None,
              body |-> None, labels |-> None, rv |-> 0]

\* metav1.NamespaceAll, which is no namespace's name.
NamespaceAll == "all"

Selects(ns, labels, o) ==
    /\ o # None
    /\ ns = NamespaceAll \/ o.ns = ns
    /\ labels = None \/ o.label = labels

Selected(store, ns, labels) == {store[k] : k \in {l \in Key : Selects(ns, labels, store[l])}}

Refuse(store, version, code) ==
    [store |-> store, version |-> version, code |-> code, items |-> {}]
Serve(store, version, items) ==
    [store |-> store, version |-> version, code |-> "OK", items |-> items]

\* A write that changes nothing leaves the version alone.
Put(store, version, k, o) ==
    IF store[k] # None /\ [o EXCEPT !.rv = store[k].rv] = store[k]
    THEN Serve(store, version, {store[k]})
    ELSE LET new == [o EXCEPT !.rv = version + 1] IN
         Serve([store EXCEPT ![k] = new], version + 1, {new})

Remove(store, version, S) ==
    Serve([k \in Key |-> IF store[k] \in S THEN None ELSE store[k]],
          IF S = {} THEN version ELSE version + 1, {})

\* What a write to the main resource, or to the status, takes from its body.
Merge(old, body, sub) ==
    IF ~HasStatus THEN body
    ELSE IF sub = "status" THEN [old EXCEPT !.status = body.status]
    ELSE [body EXCEPT !.status = old.status]

Post(store, version, r) ==
    LET k == <<r.ns, r.body.name>> IN
    IF r.body.ns # r.ns \/ r.body.rv # 0 THEN Refuse(store, version, "BadRequest")
    ELSE IF store[k] # None THEN Refuse(store, version, "AlreadyExists")
    ELSE Put(store, version, k, [r.body EXCEPT !.status = 0])

Replace(store, version, r) ==
    LET k == <<r.ns, r.name>> IN
    IF r.body.ns # r.ns THEN Refuse(store, version, "BadRequest")
    ELSE IF store[k] = None THEN Refuse(store, version, "NotFound")
    ELSE IF r.body.rv # store[k].rv THEN Refuse(store, version, "Conflict")
    ELSE Put(store, version, k, Merge(store[k], r.body, r.sub))

Modify(store, version, r) ==
    LET k == <<r.ns, r.name>> IN
    IF store[k] = None THEN Refuse(store, version, "NotFound")
    ELSE Put(store, version, k, Merge(store[k], Patched(store[k], r.body), r.sub))

Answer(store, version, r) ==
    LET named == <<r.ns, r.name>> IN
    IF r.sub = "status" /\ ~HasStatus THEN Refuse(store, version, "NotFound")
    ELSE CASE r.verb = "GET" ->
           IF store[named] = None THEN Refuse(store, version, "NotFound")
           ELSE Serve(store, version, {store[named]})
      [] r.verb = "LIST" -> Serve(store, version, Selected(store, r.ns, r.labels))
      [] r.verb = "POST" -> Post(store, version, r)
      [] r.verb = "PUT" -> Replace(store, version, r)
      [] r.verb = "PATCH" -> Modify(store, version, r)
      [] r.verb = "DELETE" /\ r.name # None ->
           IF store[named] = None THEN Refuse(store, version, "NotFound")
           ELSE Remove(store, version, {store[named]})
      [] r.verb = "DELETE" /\ r.name = None ->
           Remove(store, version, Selected(store, r.ns, r.labels))
=============================================================================
