---------------------------- MODULE MCMiscDevice ----------------------------
(* A value with a plain field, the registration, and a field that is an      *)
(* array of two, chained: each can fail after the device became reachable.   *)
EXTENDS MiscDevice, TLC

FieldLens == <<1, 1, 2>>
Declared == <<3, 1, 2>>

Symmetry == Permutations(Files) \cup Permutations(Fds) \cup Permutations(ARefs)
=============================================================================
