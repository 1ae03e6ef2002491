------------------------------- MODULE MCKVec -------------------------------
(***************************************************************************)
(* KVec.tla for TLC.                                                       *)
(***************************************************************************)
EXTENDS KVec, TLC

\* No operation tells values apart.
Symmetry == Permutations(Elems)
=============================================================================
