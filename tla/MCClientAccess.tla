--------------------------- MODULE MCClientAccess ---------------------------
(* Small instances of ClientAccess for TLC.                                *)
EXTENDS ClientAccess, TLC

\* Requests are interchangeable, and so are the two capabilities.
AccessSymmetry == Permutations(Requests) \cup Permutations(Capabilities)

=============================================================================
