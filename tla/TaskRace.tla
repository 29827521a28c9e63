------------------------------ MODULE TaskRace ------------------------------
(***************************************************************************)
(* open_constask as it is: called with interrupts enabled, so that an      *)
(* interrupt handler that wakes another console may come between the       *)
(* statements of task_add.                                                 *)
(***************************************************************************)
EXTENDS MTask

CONSTANT Nobody     \* no task is being opened

VARIABLES
    opener,         \* the task that executes open_constask, or Nobody
    opened,         \* the task it opens
    pc,             \* its next statement
    slot            \* the value of running that task_add has loaded

raceVars == <<flags, level, lists, now_lv, lv_change, cpu, closing,
              opener, opened, pc, slot>>

RaceInit ==
    /\ Init
    /\ opener = Nobody
    /\ opened = Nobody
    /\ pc = "none"
    /\ slot = 0

\* The opener executes the statement called here, and then the one called next.
Goes(here, next) ==
    /\ cpu = opener
    /\ pc = here
    /\ pc' = next
    /\ UNCHANGED opened

\* task_alloc, and task_run as far as task_add's load of running.
Begin(t) ==
    /\ opener = Nobody
    /\ cpu \notin closing \cup {Idle}
    /\ Booted
    /\ t \in Consoles
    /\ flags[t] = 0
    /\ opener' = cpu
    /\ opened' = t
    /\ pc' = "slot"
    /\ slot' = lists[ConsoleLevel].running
    /\ level' = [level EXCEPT ![t] = ConsoleLevel]
    /\ UNCHANGED <<flags, lists, now_lv, lv_change, cpu, closing>>

\* tl->tasks[tl->running] = task
WriteSlot ==
    /\ Goes("slot", "running")
    /\ lists' = [lists EXCEPT ![ConsoleLevel].tasks =
                   [i \in DOMAIN @ \cup {slot} |->
                      IF i = slot THEN opened ELSE @[i]]]
    /\ UNCHANGED <<flags, level, now_lv, lv_change, cpu, closing,
                   opener, slot>>

\* tl->running++ stores what it has loaded; the rest of task_run.
WriteRunning ==
    /\ Goes("running", "none")
    /\ lists' = [lists EXCEPT ![ConsoleLevel].running = slot + 1]
    /\ flags' = [flags EXCEPT ![opened] = 2]
    /\ lv_change' = TRUE
    /\ opener' = Nobody
    /\ UNCHANGED <<level, now_lv, cpu, closing, slot>>

\* The interrupts, and what other tasks than the opener do.
Others ==
    /\ \/ Tick
       \/ \E t \in Task : t \notin {opener, opened} /\ Wake(t)
       \/ opener # cpu /\ (Boot \/ \E t \in Task : Sleep(t))
    /\ UNCHANGED <<opener, opened, pc, slot>>

RaceNext ==
    \/ \E t \in Consoles : Begin(t)
    \/ WriteSlot \/ WriteRunning
    \/ Others

RaceSpec == RaceInit /\ [][RaceNext]_raceVars

-----------------------------------------------------------------------------
(* task_add "enters the task into the task management structure"           *)
(* (mtask.c:19): when it is done every runnable task is in a list.         *)
NoneForgotten ==
    pc = "none" =>
        \A t \in Runnable : t \in Members(lists[level[t]])

=============================================================================
