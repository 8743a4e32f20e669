------------------------------ MODULE LeaseIds ------------------------------
(***************************************************************************)
(* What the Gateway and the Dispatcher have in common: the request ids,    *)
(* uuids minted by the Gateway, which are the names of the leases.         *)
(***************************************************************************)
EXTENDS FiniteSets

CONSTANT Requests

ASSUME RequestsAssumption == IsFiniteSet(Requests)

=============================================================================
