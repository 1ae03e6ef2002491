----------------------------- MODULE MCBuffers -----------------------------
(* Texts of up to two pieces, with and without NUL bytes, up to one that   *)
(* does not fit in an allocation; slices anywhere in five addresses.       *)
EXTENDS Buffers

MCTexts == {<<>>, <<<<1>>>>, <<<<1>>, <<1, 1>>>>, <<<<1>>, <<0>>>>,
            <<<<1, 1, 1, 1, 1>>, <<1, 1, 1, 1>>>>}
MCSlices == {<<>>, <<0>>, <<1>>, <<1, 0>>, <<0, 0>>, <<1, 1, 0>>}
=============================================================================
