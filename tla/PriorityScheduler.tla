-------------------------- MODULE PriorityScheduler --------------------------
(***************************************************************************)
(* What the scheduler promises, without its lists: every decision gives    *)
(* the CPU to a runnable task of the best (lowest) level, the CPU never    *)
(* executes a task that is not runnable, and a task is taken off the CPU   *)
(* only by such a decision.                                                *)
(***************************************************************************)
EXTENDS Integers

CONSTANTS
    Task,
    Levels

VARIABLES
    runnable,   \* the tasks that may execute
    prio,       \* the level of each task, lowest first
    cpu,        \* the task that executes
    due         \* a better task may have become runnable since the decision

vars == <<runnable, prio, cpu, due>>

\* The members of S that no member of S precedes.
Best(S, pr) == {t \in S : \A u \in S : pr[t] <= pr[u]}

Init ==
    /\ runnable \in SUBSET Task
    /\ prio \in [Task -> Levels]
    /\ cpu \in Best(runnable, prio)
    /\ due \in BOOLEAN

\* A task becomes, or already is, runnable in level l.
Ready(t, l) ==
    /\ runnable' = runnable \cup {t}
    /\ prio' = [prio EXCEPT ![t] = l]
    /\ due' = TRUE
    /\ UNCHANGED cpu

\* Another task than the executing one stops being runnable.
Suspend(t) ==
    /\ t # cpu
    /\ runnable' = runnable \ {t}
    /\ UNCHANGED <<prio, cpu, due>>

\* The executing task stops being runnable and a decision is taken.
Block ==
    /\ runnable' = runnable \ {cpu}
    /\ cpu' \in Best(runnable', prio)
    /\ due' = FALSE
    /\ UNCHANGED prio

\* The executing task stays runnable and a decision is taken.
Dispatch ==
    /\ cpu' \in Best(runnable, prio)
    /\ due' = FALSE
    /\ UNCHANGED <<runnable, prio>>

Next ==
    \/ \E t \in Task, l \in Levels : Ready(t, l)
    \/ \E t \in Task : Suspend(t)
    \/ Block
    \/ Dispatch

Spec == Init /\ [][Next]_vars

=============================================================================
