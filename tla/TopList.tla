------------------------------- MODULE TopList -------------------------------
(***************************************************************************)
(* runningNum and runningTasks, the list of running tasks that mtask.c,    *)
(* open_constask and close_constask keep beside the scheduler's own lists  *)
(* for the top command.  Every step is a step of MTask with its effect on  *)
(* the list.                                                               *)
(***************************************************************************)
EXTENDS MTask

CONSTANTS
    LeftOver,       \* what *taskctl's memory may hold where runningNum is
    MaxExcess       \* bound on excess: the code leaks without bound

ASSUME ListAssumption == LeftOver \subseteq Nat

VARIABLES
    runningNum,     \* taskctl->runningNum
    runningTasks,   \* the entries of taskctl->runningTasks that name a task
    excess          \* observer: what the memory held, and the calls of task_run
                    \* for a task that runs in its level already

list == <<runningNum, runningTasks, excess>>
allVars == <<flags, level, lists, now_lv, lv_change, cpu, closing,
             runningNum, runningTasks, excess>>

\* task_init sets runningNum to 1 before it allocates the structure, so the
\* counter starts from what the memory holds; task_a and the idle task
\* are then added to it.
ListInit ==
    /\ Init
    /\ \E g \in LeftOver :
          /\ runningNum = g + 2
          /\ runningTasks = g + 1 .. g + 3
          /\ excess = g

\* task_run(t, l, _): an entry of its own, another one in task_add, and the
\* decrement that was meant to make up for it, which a task that runs in the
\* level already does not reach.
ListRun(t, l) ==
    /\ runningNum' =
          IF flags[t] = 2 /\ level[t] # l THEN runningNum ELSE runningNum + 1
    /\ runningTasks' =
          runningTasks \cup {runningNum + 1, runningNum + IF flags[t] # 2 THEN 2 ELSE 1}
    /\ excess' = IF flags[t] = 2 /\ level[t] = l THEN excess + 1 ELSE excess

ListBoot == Boot /\ ListRun(TaskA, MainLevel)

ListTick == Tick /\ UNCHANGED list

\* task_remove counts down and leaves the entries as they are.
ListSleep(t) ==
    /\ Sleep(t)
    /\ runningNum' = runningNum - 1
    /\ UNCHANGED <<runningTasks, excess>>

ListWake(t) == Wake(t) /\ ListRun(t, level[t])

ListRerun(t) ==
    /\ flags[t] = 2 => excess < MaxExcess
    /\ Rerun(t)
    /\ ListRun(t, level[t])

\* open_constask notes the new task once more than task_run did.
ListOpen(t) ==
    /\ Open(t)
    /\ runningNum' = runningNum + 2
    /\ runningTasks' = runningTasks \cup {runningNum + 1, runningNum + 2}
    /\ UNCHANGED excess

ListExit(t) ==
    /\ Exit(t)
    /\ IF flags[TaskA] # 2 THEN ListRun(TaskA, level[TaskA])
                           ELSE UNCHANGED list

\* Mutant: close_constask clears the entry and goes on counting it.
ListCloseUncounted(t) ==
    /\ Close(t)
    /\ LET num == IF flags[t] = 2 THEN runningNum - 1 ELSE runningNum
       IN  /\ runningTasks' = runningTasks \ {num}
           /\ runningNum' = num
           /\ UNCHANGED excess

\* close_constask clears the last entry, whichever task it names.
ListClose(t) ==
    /\ Close(t)
    /\ LET num == IF flags[t] = 2 THEN runningNum - 1 ELSE runningNum
       IN  /\ runningTasks' = runningTasks \ {num}
           /\ runningNum' = num - 1
           /\ UNCHANGED excess

ListNext ==
    \/ ListBoot
    \/ ListTick
    \/ \E t \in Task :
          \/ ListSleep(t) \/ ListWake(t) \/ ListRerun(t)
          \/ ListOpen(t) \/ ListExit(t) \/ ListClose(t)

\* The fairness is that of MTask.
ListSpec ==
    /\ ListInit
    /\ [][ListNext]_allVars
    /\ SF_vars(cpu \in Consoles /\ Tick)
    /\ WF_vars(Tick)
    /\ WF_vars(Sleep(TaskA))

-----------------------------------------------------------------------------
\* The entries cmd_top prints.
Shown == 1 .. runningNum - 1

(* cmd_top dereferences every entry it prints, so each must name a task:   *)
(* the NULLs that close_constask writes lie beyond the count, and every    *)
(* later increment overwrites them.                                        *)
NoNullShown == Shown \subseteq runningTasks

(* The increments and decrements that mtask.c and bootpack.c spread over   *)
(* seven places leave the counter at the runnable tasks, plus one for each *)
(* console, which open_constask adds and close_constask takes, plus what   *)
(* is never taken: what the memory held, and one for each call of task_run *)
(* for a task that runs already.                                           *)
CountIsKnown ==
    runningNum = Cardinality(Runnable)
                 + Cardinality({c \in Consoles : flags[c] # 0}) + excess

(* The list of the top command counts every task, no more than those runs  *)
(* too many, and shows no NULL.                                            *)
TopIsSound == NoNullShown /\ CountIsKnown

=============================================================================
