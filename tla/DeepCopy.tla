------------------------------ MODULE DeepCopy ------------------------------
(***************************************************************************)
(* The generated deep copies (zz_generated.deepcopy.go): which of the      *)
(* pointers in an object its copy shares with it.  Labels are behind a     *)
(* pointer in the metadata and replicas behind one in the spec; the status *)
(* is a plain value.                                                       *)
(***************************************************************************)
CONSTANT None

\* *out = *in
Assigned == {"metadata", "spec"}

\* Mutant: the spec is assigned, and with it the pointer to the replicas.
SpecAssigned(shared) == shared

\* The spec's DeepCopyInto allocates new replicas.
SpecDeepCopyInto(shared) == shared \ {"spec"}

DeepCopyInto(shared) == SpecDeepCopyInto(shared \ {"metadata"})

NoCopy == [object |-> None, shared |-> {}]

DeepCopied(o) ==
    IF o = None THEN NoCopy ELSE [object |-> o, shared |-> DeepCopyInto(Assigned)]
=============================================================================
