-------------------------- MODULE MCReadersWriters --------------------------
(* Two readers and two writers, to whose consoles a few data come while they *)
(* wait.  The processes of a kind are alike, and no liveness is checked.     *)
EXTENDS ReadersWriters, TLC

Alike == Permutations(Readers) \cup Permutations(Writers)
=============================================================================
