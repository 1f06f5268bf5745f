--------------------------- MODULE MCFooController ---------------------------
(***************************************************************************)
(* Small instances of FooController for TLC.                               *)
(***************************************************************************)
EXTENDS FooController, TLC

\* Workers are told apart by nothing but their name.
Symmetry == Permutations(Worker)

\* Foos that name one Deployment, with two replicas or as many as there are.
TwoOrNil == [dep : {"x"}, replicas : {2, None}]

\* ... and one that names none.
TwoOrNilOrInvalid == TwoOrNil \cup {[dep |-> None, replicas |-> 2]}
=============================================================================
