-------------------------- MODULE MCGPUDispatcher --------------------------
(* Small instances of GPUDispatcher for TLC.                               *)
EXTENDS GPUDispatcher, TLC

\* Request ids are interchangeable: they are only compared for equality.
RequestSymmetry == Permutations(Requests)

=============================================================================
