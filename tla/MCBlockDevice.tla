--------------------------- MODULE MCBlockDevice ---------------------------
(* Two disks on one tag set, two requests, three ARefs and two contexts: one *)
(* disk is deleted, or fails to be added, while the other one has requests   *)
(* in flight, and a clone of an ARef meets the next use of its request.      *)
EXTENDS BlockDevice, TLC

\* A name that fits, one whose last piece leaves no room for the terminator,
\* and one whose first piece is too long.
Names == {<<3, 2>>, <<6, 1>>, <<8, 0>>}

Symmetry == Permutations(Requests) \cup Permutations(Handles)
                \cup Permutations(Contexts) \cup Permutations(Disks)
=============================================================================
