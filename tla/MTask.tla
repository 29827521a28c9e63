-------------------------------- MODULE MTask --------------------------------
(***************************************************************************)
(* mtask.c: the multi-level round-robin scheduler, with the calls that     *)
(* fifo.c, timer.c, bootpack.c and console.c make to it.                   *)
(*                                                                         *)
(* Every operation is one step, as it is in an interrupt handler or in a   *)
(* cli/sti section.  Calls made with interrupts enabled are taken apart in *)
(* TaskRace.  Register contents and time slices are left out: a tick of    *)
(* the task timer may come at any moment.  runningNum and runningTasks,    *)
(* which no decision of the scheduler reads, are added by TopList.         *)
(***************************************************************************)
EXTENDS Integers, FiniteSets

CONSTANTS
    TaskA,          \* the task of HariMain
    Idle,           \* the task that halts the CPU
    Consoles,       \* the structures tasks0[2..] from which consoles are made
    LastLevel       \* MAX_TASKLEVELS - 1

Task == {TaskA, Idle} \cup Consoles
Levels == 0 .. LastLevel

BootLevel == 0
MainLevel == 1
ConsoleLevel == 2

ASSUME LevelAssumption == LastLevel \in Nat /\ LastLevel > ConsoleLevel
ASSUME TaskAssumption ==
    /\ TaskA # Idle
    /\ TaskA \notin Consoles
    /\ Idle \notin Consoles

VARIABLES
    flags,          \* task->flags: 0 free, 1 allocated or asleep, 2 runnable
    level,          \* task->level
    lists,          \* taskctl->level[]: tasks, running and now of each level
    now_lv,         \* taskctl->now_lv
    lv_change,      \* taskctl->lv_change
    cpu,            \* the task whose context the CPU executes (TR)
    closing         \* consoles that have asked task_a to close them

sched == <<flags, level, lists, now_lv, lv_change, cpu>>
vars == <<flags, level, lists, now_lv, lv_change, cpu, closing>>

-----------------------------------------------------------------------------
(* One level: tasks maps the slots written so far to tasks; only the first *)
(* running of them are in the list, the others are left over.              *)

Live(L) == 0 .. L.running - 1
Members(L) == {L.tasks[i] : i \in Live(L)}

\* task_add: the next slot, and with it the list, grows by t.
Added(L, t) ==
    [tasks   |-> [i \in DOMAIN L.tasks \cup {L.running} |->
                    IF i = L.running THEN t ELSE L.tasks[i]],
     running |-> L.running + 1,
     now     |-> L.now]

\* The loop of task_remove: t's slot, or running when t is not in the list.
SlotOf(L, t) ==
    IF t \in Members(L)
    THEN CHOOSE i \in Live(L) :
            L.tasks[i] = t /\ \A j \in 0 .. i - 1 : L.tasks[j] # t
    ELSE L.running

\* task_remove: close the gap and keep now on the task it designates.
Removed(L, t) ==
    LET k == SlotOf(L, t)
        n == IF k < L.now THEN L.now - 1 ELSE L.now
    IN  [tasks   |-> [i \in DOMAIN L.tasks |->
                        IF k <= i /\ i < L.running - 1
                        THEN L.tasks[i + 1] ELSE L.tasks[i]],
         running |-> L.running - 1,
         now     |-> IF n >= L.running - 1 THEN 0 ELSE n]

\* Mutant: task_switch stays on the same task.
AdvancedNot(L) == L

\* The first lines of task_switch: on to the next task of the level.
Advanced(L) ==
    [tasks   |-> L.tasks,
     running |-> L.running,
     now     |-> IF L.now + 1 = L.running THEN 0 ELSE L.now + 1]

\* task_switchsub: the first level that has a task in its list.
TopLevel(ls) ==
    CHOOSE l \in Levels :
        ls[l].running > 0 /\ \A k \in 0 .. l - 1 : ~(ls[k].running > 0)

\* task_now, for the lists ls and the current level l.
TaskAt(ls, l) == ls[l].tasks[ls[l].now]
TaskNow == TaskAt(lists, now_lv)

-----------------------------------------------------------------------------
(* Parts of actions: what the functions of mtask.c do to the state. *)

\* Mutant: a task that runs already is entered again.
TaskRunAgain(t, l) ==
    /\ lists' = [lists EXCEPT ![l] = Added(@, t)]
    /\ flags' = [flags EXCEPT ![t] = 2]
    /\ level' = [level EXCEPT ![t] = l]
    /\ lv_change' = TRUE
    /\ UNCHANGED <<now_lv, cpu>>

\* Mutant: lv_change is not set.
TaskRunUnmarked(t, l) ==
    /\ lists' = IF flags[t] # 2 THEN [lists EXCEPT ![l] = Added(@, t)]
                ELSE IF level[t] # l
                THEN [lists EXCEPT ![level[t]] = Removed(@, t),
                                   ![l] = Added(@, t)]
                ELSE lists
    /\ flags' = [flags EXCEPT ![t] = 2]
    /\ level' = [level EXCEPT ![t] = l]
    /\ UNCHANGED <<now_lv, lv_change, cpu>>

\* task_run(t, l, _), with l the level itself when the argument is negative.
TaskRun(t, l) ==
    LET moves == flags[t] = 2 /\ level[t] # l
        stays == flags[t] = 2 /\ level[t] = l
    IN  /\ lists' = IF stays THEN lists
                    ELSE IF moves
                    THEN [lists EXCEPT ![level[t]] = Removed(@, t),
                                       ![l] = Added(@, t)]
                    ELSE [lists EXCEPT ![l] = Added(@, t)]
        /\ flags' = [flags EXCEPT ![t] = 2]
        /\ level' = [level EXCEPT ![t] = l]
        /\ lv_change' = TRUE
        /\ UNCHANGED <<now_lv, cpu>>

\* fifo32_put to t's FIFO, as the scheduler sees it.
Wakened(t) ==
    IF flags[t] # 2 THEN TaskRun(t, level[t]) ELSE UNCHANGED sched

\* task_sleep(t) of a runnable task, up to the farjmp to the next task.
SleepLists(t) == [lists EXCEPT ![level[t]] = Removed(@, t)]
SwitchedAfterSleep(t) ==
    IF t = TaskNow
    THEN LET lv == TopLevel(SleepLists(t))
         IN  /\ now_lv' = lv
             /\ lv_change' = FALSE
             /\ cpu' = TaskAt(SleepLists(t), lv)
    ELSE UNCHANGED <<now_lv, lv_change, cpu>>

-----------------------------------------------------------------------------
(* The state that task_init leaves: task_a runs in level 0, the idle task  *)
(* is in the last level, and no console exists.                            *)

EmptyLevel == [tasks |-> <<>>, running |-> 0, now |-> 0]

Init ==
    /\ flags = [t \in Task |-> IF t \in Consoles THEN 0 ELSE 2]
    /\ level = [t \in Task |-> IF t = Idle THEN LastLevel ELSE BootLevel]
    /\ lists = [l \in Levels |->
                  IF l = BootLevel THEN Added(EmptyLevel, TaskA)
                  ELSE IF l = LastLevel THEN Added(EmptyLevel, Idle)
                  ELSE EmptyLevel]
    /\ now_lv = BootLevel
    /\ lv_change = TRUE
    /\ cpu = TaskA
    /\ closing = {}

\* HariMain has reached its main loop, in which it may sleep.
Booted == level[TaskA] # BootLevel

\* HariMain: task_run(task_a, 1, 2), the only change of level there is.
Boot ==
    /\ cpu = TaskA
    /\ ~Booted
    /\ TaskRun(TaskA, MainLevel)
    /\ UNCHANGED closing

\* Mutant: another level is sought only when this one has become empty.
TickInLevel ==
    LET ls == [lists EXCEPT ![now_lv] = Advanced(@)]
        lv == IF lv_change /\ ls[now_lv].running = 0 THEN TopLevel(ls) ELSE now_lv
    IN  /\ lists' = ls
        /\ now_lv' = lv
        /\ lv_change' = FALSE
        /\ cpu' = TaskAt(ls, lv)
        /\ UNCHANGED <<flags, level, closing>>

\* inthandler20 finds the task timer expired: task_switch.
Tick ==
    LET ls == [lists EXCEPT ![now_lv] = Advanced(@)]
        lv == IF lv_change THEN TopLevel(ls) ELSE now_lv
    IN  /\ lists' = ls
        /\ now_lv' = lv
        /\ lv_change' = FALSE
        /\ cpu' = TaskAt(ls, lv)
        /\ UNCHANGED <<flags, level, closing>>

\* The running task finds its FIFO empty, or waits for a semaphore.
Sleep(t) ==
    /\ cpu = t
    /\ t # Idle
    /\ Booted
    /\ flags[t] = 2
    /\ lists' = SleepLists(t)
    /\ SwitchedAfterSleep(t)
    /\ flags' = [flags EXCEPT ![t] = 1]
    /\ UNCHANGED <<level, closing>>

\* An interrupt handler or another task puts a datum into a sleeper's FIFO.
Wake(t) ==
    /\ flags[t] = 1
    /\ Wakened(t)
    /\ UNCHANGED closing

\* Shift+F1 and signal() call task_run whether or not the task sleeps.
Rerun(t) ==
    /\ cpu \notin {t, Idle}
    /\ Booted
    /\ t \in Consoles \ closing
    /\ flags[t] # 0
    /\ TaskRun(t, level[t])
    /\ UNCHANGED closing

\* open_constask, called by task_a or by the start command of a console.
Open(t) ==
    /\ cpu \notin closing \cup {Idle}
    /\ Booted
    /\ t \in Consoles
    /\ flags[t] = 0
    /\ lists' = [lists EXCEPT ![ConsoleLevel] = Added(@, t)]
    /\ flags' = [flags EXCEPT ![t] = 2]
    /\ level' = [level EXCEPT ![t] = ConsoleLevel]
    /\ lv_change' = TRUE
    /\ UNCHANGED <<now_lv, cpu, closing>>

\* cmd_exit: ask task_a to close this console, then sleep again and again.
Exit(t) ==
    /\ cpu = t
    /\ t \in Consoles \ closing
    /\ closing' = closing \cup {t}
    /\ Wakened(TaskA)

\* close_constask, called by task_a: the task is taken out of its list.
Close(t) ==
    /\ cpu = TaskA
    /\ t \in closing
    /\ closing' = closing \ {t}
    /\ lists' = IF flags[t] = 2 THEN SleepLists(t) ELSE lists
    /\ IF flags[t] = 2 THEN SwitchedAfterSleep(t)
                       ELSE UNCHANGED <<now_lv, lv_change, cpu>>
    /\ flags' = [flags EXCEPT ![t] = 0]
    /\ UNCHANGED level

Next ==
    \/ Boot
    \/ Tick
    \/ \E t \in Task :
          Sleep(t) \/ Wake(t) \/ Rerun(t) \/ Open(t) \/ Exit(t) \/ Close(t)

\* The task timer is re-armed by every task_switch, so ticks never end;
\* they are not synchronised with the tasks, so they do not always come when
\* task_a is running; and task_a sleeps when it has emptied its FIFO.
Spec ==
    /\ Init
    /\ [][Next]_vars
    /\ SF_vars(cpu \in Consoles /\ Tick)
    /\ WF_vars(Tick)
    /\ WF_vars(Sleep(TaskA))

-----------------------------------------------------------------------------
Runnable == {t \in Task : flags[t] = 2}

LevelType(L) ==
    /\ L.running \in Nat
    /\ L.now \in Nat
    /\ Live(L) \subseteq DOMAIN L.tasks
    /\ DOMAIN L.tasks \subseteq Nat
    /\ \A i \in DOMAIN L.tasks : L.tasks[i] \in Task

TypeOK ==
    /\ flags \in [Task -> 0 .. 2]
    /\ level \in [Task -> Levels]
    /\ DOMAIN lists = Levels
    /\ \A l \in Levels : LevelType(lists[l])
    /\ now_lv \in Levels
    /\ lv_change \in BOOLEAN
    /\ cpu \in Task
    /\ closing \subseteq Consoles

(* The lists hold exactly the runnable tasks, each once and in its own     *)
(* level.  task_add, task_remove and the flags tests of task_run,          *)
(* task_sleep and fifo32_put keep this together: a task entered twice      *)
(* would run after it was put to sleep or freed, one that is missing would *)
(* never run again.                                                        *)
NoDuplicate ==
    \A l \in Levels : \A i, j \in Live(lists[l]) :
        lists[l].tasks[i] = lists[l].tasks[j] => i = j
ListsAreExact ==
    /\ NoDuplicate
    /\ \A l \in Levels :
          Members(lists[l]) = {t \in Runnable : level[t] = l}

(* The scheduler's idea of the running task is the task that runs: the     *)
(* CPU never executes a task that sleeps or has been freed, and            *)
(* task_now() names the caller, on which task_sleep, cmd_exit, cmd_app and *)
(* the system calls all rely.                                              *)
RunningIsTaskNow == cpu = TaskNow /\ flags[cpu] = 2

(* Unless a level change is pending, no runnable task precedes the one     *)
(* that runs, although task_sleep decides at once and task_run only leaves *)
(* a mark for the next tick.                                               *)
NoneBetterUnlessDue ==
    ~lv_change => \A t \in Runnable : level[cpu] <= level[t]

(* Both: the CPU executes the task that the lists designate, and that one   *)
(* is as good as any unless the next tick is bound to look for a better one *)
RightTaskRuns == RunningIsTaskNow /\ NoneBetterUnlessDue

(* The lists implement the abstract scheduler. *)
Abstract == INSTANCE PriorityScheduler
                WITH runnable <- Runnable, prio <- level, due <- lv_change
IsPriorityScheduler == Abstract!Spec

(* A console that is runnable is given the CPU, whatever the other         *)
(* consoles do and however often task_a is woken in between, once consoles *)
(* stop being closed.  While they are closed and opened again without end  *)
(* this fails: task_remove moves now down past the tasks that wait, and    *)
(* task_add appends, so that now may never wrap round to slot 0.           *)
ConsoleServed ==
    <>[](closing = {}) =>
        \A t \in Consoles : flags[t] = 2 ~> (cpu = t \/ flags[t] # 2)

=============================================================================
