------------------------------ MODULE MCRBTree ------------------------------
(***************************************************************************)
(* RBTree.tla for TLC.                                                     *)
(***************************************************************************)
EXTENDS RBTree, TLC

\* No operation tells allocations apart, nor values.
Symmetry == Permutations(Nodes) \cup Permutations(Values)
=============================================================================
