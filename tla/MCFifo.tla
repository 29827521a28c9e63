------------------------------- MODULE MCFifo -------------------------------
(* The FIFO with three slots and two different data. *)
EXTENDS Fifo
=============================================================================
