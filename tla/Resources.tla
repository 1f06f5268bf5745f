------------------------------ MODULE Resources ------------------------------
(***************************************************************************)
(* The custom resources that client code was generated for: Foo of the     *)
(* sample API and of the code-generator demo, and App.  Only Foo of the    *)
(* sample API has a status.                                                *)
(***************************************************************************)
EXTENDS Naturals

CONSTANTS
    Kind,        \* subset of "sample", "app", "crd"
    Namespace, Name, Label, None,
    MaxVersion   \* bound on the API server's versions

VARIABLE kind    \* the resource in question

WithStatus == kind = "sample"
Server == INSTANCE ApiServer WITH HasStatus <- WithStatus

Key == Namespace \X Name

\* None is nil, and nothing else.
ASSUME ConstantsAssumption ==
    /\ Kind \subseteq {"sample", "app", "crd"}
    /\ Namespace # {} /\ Label # {}
    /\ Server!NamespaceAll \notin Namespace
    /\ None \notin Namespace \cup Name \cup Label \cup {Server!NamespaceAll, "status"}
    /\ None # 0 /\ None # 1
    /\ None \notin [ns : Namespace, name : Name, rv : Nat, label : Label, status : {0, 1}]
    /\ MaxVersion \in Nat \ {0}
=============================================================================
