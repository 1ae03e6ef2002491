----------------------------- MODULE MCWorkQueue -----------------------------
(* An item with two Work fields and a closure, on two queues whose pools     *)
(* have two workers and one.                                                 *)
EXTENDS WorkQueue

CONSTANTS w1, w2, w3

MCPoolOf == [w \in Workers |-> IF w = w3 THEN "unbound" ELSE "normal"]
=============================================================================
