------------------------------- MODULE MCList -------------------------------
(***************************************************************************)
(* List.tla for TLC, and its refinement of ListSpec.tla.                   *)
(***************************************************************************)
EXTENDS List, TLC

\* No operation tells items apart.
ItemSymmetry == Permutations(Items)
=============================================================================
