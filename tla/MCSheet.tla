------------------------------- MODULE MCSheet -------------------------------
(* An opaque and a partly transparent window on a row of pixels.           *)
EXTENDS Sheet
Windows == {[width |-> 1, opaque |-> {0}], [width |-> 2, opaque |-> {1}]}
Places == {-1, 0}
=============================================================================
