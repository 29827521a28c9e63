------------------------------- MODULE MCTimer -------------------------------
(* Two users with two timers between them, the task timer and the sentinel. *)
(* Users, and timers of the pool, are interchangeable.                      *)
EXTENDS Timer, TLC

CONSTANTS t1, t2, u1, u2

Alike == Permutations({t1, t2}) \cup Permutations({u1, u2})
=============================================================================
