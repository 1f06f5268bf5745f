--------------------------- MODULE MCAppReconciler ---------------------------
(***************************************************************************)
(* Small instances of AppReconciler for TLC.                               *)
(***************************************************************************)
EXTENDS AppReconciler

\* Apps with and without a Service, and no Ingress: the code treats the two
\* alike, one after the other.
WithService == [size : {"small"}, svc : BOOLEAN, ing : {FALSE}]

\* Apps that are scaled and nothing else.
Scaled == [size : {"small", "big"}, svc : {FALSE}, ing : {FALSE}]

NoSpecs == {}
NoActs == {}

\* One kind of act for each kind of dependent, and two for Services.
SomeActs == {<<"delete", "dep">>, <<"edit", "svc">>, <<"foreign", "svc">>}
=============================================================================
