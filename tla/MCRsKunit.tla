------------------------------ MODULE MCRsKunit ------------------------------
(* rust_support with one test and two modules with three, each test with a *)
(* name of its own.                                                        *)
EXTENDS RsKunit, TLC

CONSTANTS self, a, b, t0, t1, t2, t3

MCCases == self :> <<t0>> @@ a :> <<t1, t2>> @@ b :> <<t3>>

\* Room for every test, and a registry that overflows under parallel runs.
MCConfigs == {[maxCases |-> 6, serial |-> TRUE], [maxCases |-> 3, serial |-> FALSE]}
=============================================================================
