----------------------------- MODULE MCFifoRace -----------------------------
(* A FIFO of three slots, task_a and the timer interrupt. *)
EXTENDS FifoRace
=============================================================================
