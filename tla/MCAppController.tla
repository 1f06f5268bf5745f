--------------------------- MODULE MCAppController ---------------------------
(***************************************************************************)
(* Small instances of AppController for TLC.                               *)
(***************************************************************************)
EXTENDS AppController, TLC

\* Workers are told apart by nothing but their name.
Symmetry == Permutations(Worker)

\* Apps whose dependents all have one name, scaled between 1 and 2.
Scaled == [dep : {"x"}, svc : {"x"}, ing : {"x"}, replicas : {1, 2}]

\* ... and an invalid spec.
ScaledOrInvalid ==
    [dep : {"x"}, svc : {"x"}, ing : {"x"}, replicas : {0, 1, 2}]

\* Apps named like config/crds/crd-demo.yaml: Service and Ingress differ.
Demo == [dep : {"x"}, svc : {"x"}, ing : {"in"}, replicas : {1, 2}]
=============================================================================
