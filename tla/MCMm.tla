-------------------------------- MODULE MCMm --------------------------------
(* Two threads, four addresses, of which 0 and 3 belong to other areas: a  *)
(* range that starts in the driver's area can wrap around into them.       *)
EXTENDS Mm

MCAreas == {<<1, 3>>, <<2, 3>>}
=============================================================================
