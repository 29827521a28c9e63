------------------------------ MODULE MCMemMan ------------------------------
(* Two areas of memory with a hole between them, as below and above the    *)
(* kernel, and a table so short that blocks get lost.                      *)
EXTENDS MemMan

TwoAreas == <<[addr |-> 1, size |-> 3], [addr |-> 5, size |-> 6]>>
=============================================================================
