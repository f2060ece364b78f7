------------------------------ MODULE MCJobApi ------------------------------
(* Model checking of JobApi on small instances. *)
EXTENDS JobApi, TLC

Symmetry == Permutations(Requests)
=============================================================================
