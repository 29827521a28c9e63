------------------------------- MODULE MCMTask -------------------------------
(* The scheduler, with the list of the top command, for task_a, the idle   *)
(* task and three consoles in four levels: the levels between the          *)
(* consoles' and the last one stay empty in the program, so fewer of them  *)
(* make no difference.  Memory is zeroed.                                  *)
EXTENDS TopList
=============================================================================
