---------------------------- MODULE MCAssociation ----------------------------
(* AppAssociation on a small instance. *)
EXTENDS AppAssociation, TLC
Symmetry == Permutations(Controllers)
==============================================================================
