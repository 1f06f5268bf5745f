------------------------------- MODULE Lister -------------------------------
(***************************************************************************)
(* The generated lister of one resource (listers/<group>/<version>/foo.go) *)
(* over an informer's indexer.                                             *)
(***************************************************************************)
CONSTANTS Namespace, Name, None

Matches(o, selector) == o # None /\ (selector = None \/ o.label = selector)

List(indexer, selector) ==
    {o \in {indexer[k] : k \in Namespace \X Name} : Matches(o, selector)}

\* Mutant: the namespace index is not used.
ListOfAllNamespaces(indexer, ns, selector) == List(indexer, selector)

\* Foos(ns).List
NamespaceList(indexer, ns, selector) ==
    {o \in {indexer[<<ns, n>>] : n \in Name} : Matches(o, selector)}

\* Foos(ns).Get: None for NotFound.
Get(indexer, ns, name) == indexer[<<ns, name>>]
=============================================================================
