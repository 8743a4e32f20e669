-------------------------- MODULE MCClientRegistry --------------------------
(* Small instances of ClientRegistry for TLC.                              *)
EXTENDS ClientRegistry, TLC

\* One client of the old registry, with a key it made itself.
MCLegacy ==
  [c \in Clients |->
     IF c = CHOOSE d \in Clients : TRUE
     THEN [key     |-> CHOOSE k \in Minted : TRUE,
           scopes  |-> {"gateway"}, enabled |-> TRUE, revoked |-> FALSE]
     ELSE NoRow]

\* Inodes and administrators are interchangeable.
FileSymmetry == Permutations(Inodes) \cup Permutations(Admins)

=============================================================================
