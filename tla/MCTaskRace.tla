----------------------------- MODULE MCTaskRace -----------------------------
(* task_a and two consoles, one of which may open the other. *)
EXTENDS TaskRace
=============================================================================
