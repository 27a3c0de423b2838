-------------------------- MODULE MCGracefulDrain --------------------------
(* GracefulDrain on small instances. *)
EXTENDS GracefulDrain, TLC

Symmetry == Permutations(Conns)
=============================================================================
