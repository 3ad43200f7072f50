--------------------------- MODULE MCLinearMemory ---------------------------
(* Words of two binary cells, and a linear memory of a few cells, the last of *)
(* which the stack may take.                                                *)
EXTENDS LinearMemory

OneGlobal  == << <<1, 0>> >>
TwoGlobals == << <<1, 0>>, <<0, 1>> >>

NoWides  == {}
OneWide  == {<<1, 0, 1, 1>>}

InFlash    == << [start |-> 1, data |-> <<1, 0, 1>>] >>
FlashAndRam == << [start |-> 1, data |-> <<1, 0>>], [start |-> 4, data |-> <<0, 1>>] >>

NoSegments  == {<<>>}
TwoSegments == {FlashAndRam}
AnyLayout   == {<<>>, InFlash, FlashAndRam}
=============================================================================
