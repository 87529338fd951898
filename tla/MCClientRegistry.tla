-------------------------- MODULE MCClientRegistry --------------------------
(* The client arrays on small instances.                                   *)
EXTENDS ClientRegistry, TLC

CONSTANTS f1, f2

Symmetry == Permutations(Fds)
=============================================================================
