-------------------------- MODULE MCGatewaySystem --------------------------
(* Small instances of GatewaySystem for TLC.                               *)
EXTENDS GatewaySystem, TLC

MCServiceOf == [r \in Requests |-> CHOOSE s \in Services : TRUE]

\* Request ids are interchangeable: all requests are for the same service.
RequestSymmetry == Permutations(Requests)

=============================================================================
