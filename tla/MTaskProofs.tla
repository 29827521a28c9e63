----------------------------- MODULE MTaskProofs -----------------------------
(***************************************************************************)
(* What holds of the scheduler for every number of consoles and levels.    *)
(***************************************************************************)
EXTENDS TopList, FiniteSetTheorems, WellFoundedInduction, TLAPS

-----------------------------------------------------------------------------
(* The operations on one level. *)

\* A list in which no task appears twice.
Distinct(L) == \A i, j \in Live(L) : L.tasks[i] = L.tasks[j] => i = j

\* now designates a task of the list, when there is one.
NowInRange(L) == L.running > 0 => L.now < L.running

\* An empty level starts again at slot 0.
Restarts(L) == L.running = 0 => L.now = 0

Good(L) == LevelType(L) /\ Distinct(L) /\ NowInRange(L)

(* task_add enters a task that is not in the list and disturbs nothing.    *)
LEMMA AddedGood ==
  ASSUME NEW L, Good(L), Restarts(L), NEW t \in Task, t \notin Members(L)
  PROVE  /\ Good(Added(L, t))
         /\ Members(Added(L, t)) = Members(L) \cup {t}
         /\ Added(L, t).running = L.running + 1
         /\ Added(L, t).now = L.now
         /\ \A i \in Live(L) : Added(L, t).tasks[i] = L.tasks[i]
<1> DEFINE A == Added(L, t)
<1>1. /\ A.running = L.running + 1
      /\ A.now = L.now
      /\ A.tasks = [i \in DOMAIN L.tasks \cup {L.running} |->
                      IF i = L.running THEN t ELSE L.tasks[i]]
  BY DEF Added
<1>2. L.running \in Nat /\ Live(L) \subseteq DOMAIN L.tasks
      /\ L.running \notin Live(L) /\ L.now \in Nat
  BY SMT DEF Good, LevelType, Live
<1>3. Live(A) = Live(L) \cup {L.running}
  BY <1>1, <1>2, SMT DEF Live
<1>4. \A i \in Live(L) : A.tasks[i] = L.tasks[i]
  BY <1>1, <1>2
<1>5. A.tasks[L.running] = t /\ L.running \in DOMAIN A.tasks
  BY <1>1
<1> HIDE DEF A
<1>6. Members(A) = Members(L) \cup {t}
  BY <1>3, <1>4, <1>5 DEF Members
<1>7. Distinct(A)
  BY <1>3, <1>4, <1>5 DEF Distinct, Members, Good
<1>8. LevelType(A)
  <2>1. DOMAIN A.tasks = DOMAIN L.tasks \cup {L.running}
    BY <1>1
  <2>2. \A i \in DOMAIN A.tasks : A.tasks[i] \in Task
    BY <1>1, <2>1 DEF Good, LevelType
  <2>3. A.running \in Nat /\ A.now \in Nat
    BY <1>1, <1>2, SMT
  <2>4. QED
    BY <1>2, <1>3, <2>1, <2>2, <2>3 DEF Good, LevelType
<1>9. NowInRange(A)
  BY <1>1, <1>2, SMT DEF NowInRange, Restarts, Good
<1>10. QED
  BY <1>1, <1>4, <1>6, <1>7, <1>8, <1>9 DEF Good, A

(* The loop of task_remove finds the one slot of a task in the list.       *)
LEMMA SlotFound ==
  ASSUME NEW L, Good(L), NEW t \in Members(L)
  PROVE  SlotOf(L, t) \in Live(L) /\ L.tasks[SlotOf(L, t)] = t
<1>1. PICK k \in Live(L) : L.tasks[k] = t
  BY DEF Members
<1>2. \A j \in 0 .. k - 1 : j \in Live(L) /\ j # k
  BY <1>1, SMT DEF Live, Good, LevelType
<1>3. \A j \in 0 .. k - 1 : L.tasks[j] # t
  BY <1>1, <1>2 DEF Good, Distinct
<1>4. QED
  BY <1>1, <1>3 DEF SlotOf

(* task_remove takes out that task only.                                   *)
LEMMA RemovedGood ==
  ASSUME NEW L, Good(L), NEW t \in Members(L)
  PROVE  /\ Good(Removed(L, t))
         /\ Restarts(Removed(L, t))
         /\ Members(Removed(L, t)) = Members(L) \ {t}
         /\ Removed(L, t).running = L.running - 1
<1> DEFINE k == SlotOf(L, t)
           R == Removed(L, t)
           n == IF k < L.now THEN L.now - 1 ELSE L.now
<1>1. /\ R.running = L.running - 1
      /\ R.now = IF n >= L.running - 1 THEN 0 ELSE n
      /\ R.tasks = [i \in DOMAIN L.tasks |->
                      IF k <= i /\ i < L.running - 1
                      THEN L.tasks[i + 1] ELSE L.tasks[i]]
  BY DEF Removed
<1>2. k \in Live(L) /\ L.tasks[k] = t
  BY SlotFound
<1>3. L.running \in Nat /\ L.now \in Nat /\ Live(L) \subseteq DOMAIN L.tasks
      /\ DOMAIN L.tasks \subseteq Nat
  BY DEF Good, LevelType
<1> HIDE DEF k, R
<1>4. k \in Nat /\ k < L.running
  BY <1>2, <1>3, SMT DEF Live
<1>5. Live(R) = {i \in Live(L) : i # L.running - 1}
  BY <1>1, <1>3, <1>4, SMT DEF Live
<1>6. /\ \A i \in Live(R) : i < k => R.tasks[i] = L.tasks[i]
      /\ \A i \in Live(R) : k <= i => R.tasks[i] = L.tasks[i + 1]
  <2> SUFFICES ASSUME NEW i \in Live(R)
               PROVE  /\ i < k => R.tasks[i] = L.tasks[i]
                      /\ k <= i => R.tasks[i] = L.tasks[i + 1]
    OBVIOUS
  <2>1. i \in DOMAIN L.tasks /\ i \in Nat /\ i < L.running - 1
    BY <1>3, <1>5, SMT DEF Live
  <2>2. QED
    BY <1>1, <1>4, <2>1, SMT
<1>7. LevelType(R)
  <2>1. DOMAIN R.tasks = DOMAIN L.tasks
    BY <1>1
  <2>2. ASSUME NEW i \in DOMAIN L.tasks PROVE R.tasks[i] \in Task
    <3>1. CASE k <= i /\ i < L.running - 1
      <4>1. i + 1 \in Live(L)
        BY <1>3, <1>4, <3>1, <2>2, SMT DEF Live
      <4>2. QED
        BY <1>1, <1>3, <2>2, <3>1, <4>1 DEF Good, LevelType
    <3>2. CASE ~(k <= i /\ i < L.running - 1)
      BY <1>1, <2>2, <3>2 DEF Good, LevelType
    <3>3. QED
      BY <3>1, <3>2
  <2>3. R.running \in Nat /\ R.now \in Nat
    BY <1>1, <1>3, <1>4, SMT
  <2>4. QED
    BY <1>3, <1>5, <2>1, <2>2, <2>3 DEF LevelType
<1>8. NowInRange(R) /\ Restarts(R)
  BY <1>1, <1>3, <1>4, SMT DEF NowInRange, Restarts
\* Where a slot of the shortened list comes from.
<1> DEFINE From(i) == IF i < k THEN i ELSE i + 1
<1>9. \A i \in Live(R) : /\ From(i) \in Live(L) /\ From(i) # k
                         /\ R.tasks[i] = L.tasks[From(i)]
  <2> SUFFICES ASSUME NEW i \in Live(R)
               PROVE  /\ From(i) \in Live(L) /\ From(i) # k
                      /\ R.tasks[i] = L.tasks[From(i)]
    OBVIOUS
  <2>1. i \in Nat /\ i < L.running - 1
    BY <1>3, <1>5, SMT DEF Live
  <2>2. From(i) \in Live(L) /\ From(i) # k
    BY <1>3, <1>4, <2>1, SMT DEF Live
  <2>3. R.tasks[i] = L.tasks[From(i)]
    BY <1>4, <1>6, <2>1, SMT
  <2>4. QED
    BY <2>2, <2>3
<1>10. \A i, j \in Live(R) : From(i) = From(j) => i = j
  BY <1>3, <1>4, <1>5, SMT DEF Live
<1>11. \A j \in Live(L) : j # k => \E i \in Live(R) : From(i) = j
  <2> SUFFICES ASSUME NEW j \in Live(L), j # k
               PROVE  \E i \in Live(R) : From(i) = j
    OBVIOUS
  <2>1. j \in Nat /\ j < L.running
    BY <1>3, SMT DEF Live
  <2>2. CASE j < k
    <3>1. j \in Live(R) /\ From(j) = j
      BY <1>3, <1>4, <1>5, <2>1, <2>2, SMT DEF Live
    <3>2. QED
      BY <3>1
  <2>3. CASE j > k
    <3>1. j - 1 \in Live(R) /\ From(j - 1) = j
      BY <1>3, <1>4, <1>5, <2>1, <2>3, SMT DEF Live
    <3>2. QED
      BY <3>1
  <2>4. QED
    BY <1>4, <2>1, <2>2, <2>3, SMT
<1> HIDE DEF From
<1>12. Distinct(R)
  BY <1>9, <1>10 DEF Distinct, Good
<1>13. Members(R) = Members(L) \ {t}
  <2>1. ASSUME NEW u \in Members(R) PROVE u \in Members(L) \ {t}
    <3>1. PICK i \in Live(R) : R.tasks[i] = u
      BY <2>1 DEF Members
    <3>2. From(i) \in Live(L) /\ From(i) # k /\ L.tasks[From(i)] = u
      BY <1>9, <3>1
    <3>3. QED
      BY <1>2, <3>2 DEF Members, Good, Distinct
  <2>2. ASSUME NEW u \in Members(L) \ {t} PROVE u \in Members(R)
    <3>1. PICK j \in Live(L) : L.tasks[j] = u
      BY <2>2 DEF Members
    <3>2. j # k
      BY <1>2, <2>2, <3>1
    <3>3. PICK i \in Live(R) : From(i) = j
      BY <1>11, <3>1, <3>2
    <3>4. R.tasks[i] = u
      BY <1>9, <3>1, <3>3
    <3>5. QED
      BY <3>3, <3>4 DEF Members
  <2>3. QED
    BY <2>1, <2>2
<1>14. QED
  BY <1>1, <1>7, <1>8, <1>12, <1>13 DEF Good, R

(* task_switch moves now inside the list.                                  *)
LEMMA AdvancedGood ==
  ASSUME NEW L, Good(L)
  PROVE  /\ Good(Advanced(L))
         /\ Advanced(L).running = L.running
         /\ Advanced(L).tasks = L.tasks
         /\ Members(Advanced(L)) = Members(L)
         /\ L.running > 0 => Restarts(Advanced(L))
<1> DEFINE A == Advanced(L)
<1>1. /\ A.running = L.running
      /\ A.tasks = L.tasks
      /\ A.now = IF L.now + 1 = L.running THEN 0 ELSE L.now + 1
  BY DEF Advanced
<1>2. L.running \in Nat /\ L.now \in Nat
  BY DEF Good, LevelType
<1> HIDE DEF A
<1>3. Live(A) = Live(L) /\ Members(A) = Members(L)
  BY <1>1 DEF Live, Members
<1>4. A.now \in Nat /\ NowInRange(A) /\ (L.running > 0 => Restarts(A))
  BY <1>1, <1>2, SMT DEF Good, NowInRange, Restarts
<1>5. LevelType(A) /\ Distinct(A)
  BY <1>1, <1>3, <1>4 DEF Good, LevelType, Distinct
<1>6. QED
  BY <1>1, <1>3, <1>4, <1>5 DEF Good, A

\* The order of the levels, as a relation.
Below == {ss \in Nat \X Nat : ss[1] < ss[2]}

LEMMA BelowWellFounded == IsWellFoundedOn(Below, Nat)
  BY NatLessThanWellFounded DEF OpToRel, Below

(* task_switchsub finds the first level that is not empty.                 *)
LEMMA TopLevelFound ==
  ASSUME NEW ls, NEW m \in Levels, ls[m].running > 0
  PROVE  /\ TopLevel(ls) \in Levels
         /\ ls[TopLevel(ls)].running > 0
         /\ \A k \in 0 .. TopLevel(ls) - 1 : ~(ls[k].running > 0)
<1> DEFINE T == {l \in Levels : ls[l].running > 0}
<1>1. T \subseteq Nat /\ T # {}
  BY LevelAssumption, SMT DEF Levels
<1>2. PICK l \in T : \A y \in T : ~(<<y, l>> \in Below)
  <2> HIDE DEF T
  <2>1. QED
    BY <1>1, BelowWellFounded, WFMin
<1>3. \A y \in T : ~(y < l)
  BY <1>1, <1>2 DEF Below
<1>4. \A k \in 0 .. l - 1 : ~(ls[k].running > 0)
  BY <1>3, LevelAssumption, SMT DEF Levels
<1>5. QED
  BY <1>4 DEF TopLevel

-----------------------------------------------------------------------------
(* The inductive invariant. *)

\* The lists are well formed and hold exactly the runnable tasks.  Level 0
\* is not used again after the boot, and its now may be left at 1.
ListPart ==
    /\ DOMAIN lists = Levels
    /\ \A l \in Levels :
          /\ Good(lists[l])
          /\ l # BootLevel => Restarts(lists[l])
          /\ Members(lists[l]) = {t \in Runnable : level[t] = l}

\* Who may be where: the idle task never leaves the last level, task_a moves
\* once from level 0 to level 1, consoles live in level 2.
Roles ==
    /\ flags[Idle] = 2 /\ level[Idle] = LastLevel
    /\ flags[TaskA] # 0 /\ level[TaskA] \in {BootLevel, MainLevel}
    /\ \A c \in Consoles : flags[c] # 0 => level[c] = ConsoleLevel
    /\ ~Booted => /\ flags[TaskA] = 2
                  /\ cpu = TaskA
                  /\ now_lv = BootLevel
                  /\ \A c \in Consoles : flags[c] = 0

\* The decision in force: the running task is where the scheduler thinks it
\* is (task_a may still be found in the slot that Boot emptied, until the
\* next decision), and no better level has a task unless a change is due.
Decision ==
    /\ RunningIsTaskNow
    /\ \/ level[cpu] = now_lv
       \/ Booted /\ cpu = TaskA /\ now_lv = BootLevel /\ lv_change
    /\ ~lv_change =>
          /\ lists[now_lv].running > 0
          /\ \A k \in 0 .. now_lv - 1 : ~(lists[k].running > 0)

IInv == TypeOK /\ ListPart /\ Roles /\ Decision

LEMMA LevelFacts ==
  /\ {BootLevel, MainLevel, ConsoleLevel, LastLevel} \subseteq Levels
  /\ BootLevel # MainLevel /\ BootLevel # ConsoleLevel /\ BootLevel # LastLevel
  /\ MainLevel # ConsoleLevel /\ MainLevel # LastLevel
  /\ ConsoleLevel # LastLevel
  /\ Levels \subseteq Nat
  BY LevelAssumption, SMT DEF BootLevel, MainLevel, ConsoleLevel, Levels

LEMMA RoleFacts ==
  /\ TaskA \in Task /\ Idle \in Task /\ Consoles \subseteq Task
  /\ \A c \in Consoles : c # TaskA /\ c # Idle
  /\ TaskA # Idle
  BY TaskAssumption DEF Task

\* now of a level that is not empty designates a runnable task of the level.
LEMMA Picked ==
  ListPart => \A l \in Levels : lists[l].running > 0 =>
                  /\ lists[l].now \in Live(lists[l])
                  /\ TaskAt(lists, l) \in Task
                  /\ flags[TaskAt(lists, l)] = 2
                  /\ level[TaskAt(lists, l)] = l
<1> SUFFICES ASSUME ListPart, NEW l \in Levels, lists[l].running > 0
             PROVE  /\ lists[l].now \in Live(lists[l])
                    /\ TaskAt(lists, l) \in Task
                    /\ flags[TaskAt(lists, l)] = 2
                    /\ level[TaskAt(lists, l)] = l
  OBVIOUS
<1>1. lists[l].now \in Live(lists[l])
  BY SMT DEF ListPart, Good, NowInRange, LevelType, Live
<1>2. TaskAt(lists, l) \in Members(lists[l])
  BY <1>1 DEF Members, TaskAt
<1>3. TaskAt(lists, l) \in {t \in Runnable : level[t] = l}
  BY <1>2 DEF ListPart
<1>4. QED
  BY <1>1, <1>3 DEF Runnable

\* A level with a runnable task is not empty.
LEMMA NotEmpty ==
  ListPart => \A t \in Task : flags[t] = 2 /\ level[t] \in Levels
                                => lists[level[t]].running > 0
<1> SUFFICES ASSUME ListPart, NEW t \in Task, flags[t] = 2, level[t] \in Levels
             PROVE  lists[level[t]].running > 0
  OBVIOUS
<1>1. t \in Members(lists[level[t]])
  BY DEF ListPart, Runnable
<1>2. PICK i \in Live(lists[level[t]]) : TRUE
  BY <1>1 DEF Members
<1>3. lists[level[t]].running \in Nat
  BY DEF ListPart, Good, LevelType
<1>4. QED
  BY <1>2, <1>3, SMT DEF Live

-----------------------------------------------------------------------------
(* What entering and leaving a list does to the lists. *)

LEMMA EnterLists ==
  ASSUME TypeOK, ListPart, NEW t \in Task, flags[t] # 2,
         NEW l \in Levels, l # BootLevel,
         lists' = [lists EXCEPT ![l] = Added(@, t)],
         flags' = [flags EXCEPT ![t] = 2],
         level' = [level EXCEPT ![t] = l]
  PROVE  /\ ListPart'
         /\ \A k \in Levels : /\ lists'[k].now = lists[k].now
                              /\ \A i \in Live(lists[k]) :
                                    lists'[k].tasks[i] = lists[k].tasks[i]
<1>1. t \notin Members(lists[l])
  BY DEF ListPart, Runnable
<1>2. Good(lists[l]) /\ Restarts(lists[l])
  BY DEF ListPart
<1>3. /\ Good(Added(lists[l], t))
      /\ Members(Added(lists[l], t)) = Members(lists[l]) \cup {t}
      /\ Added(lists[l], t).running = lists[l].running + 1
      /\ Added(lists[l], t).now = lists[l].now
      /\ \A i \in Live(lists[l]) :
            Added(lists[l], t).tasks[i] = lists[l].tasks[i]
  BY <1>1, <1>2, AddedGood
<1>4. /\ DOMAIN lists' = Levels
      /\ lists'[l] = Added(lists[l], t)
      /\ \A k \in Levels : k # l => lists'[k] = lists[k]
  BY DEF ListPart
<1>5. Runnable' = Runnable \cup {t}
  BY DEF Runnable, TypeOK
<1>6. /\ level'[t] = l
      /\ \A u \in Task : u # t => level'[u] = level[u]
  BY DEF TypeOK
<1>7. ASSUME NEW k \in Levels
      PROVE  /\ Good(lists'[k])
             /\ k # BootLevel => Restarts(lists'[k])
             /\ Members(lists'[k]) = {u \in Runnable' : level'[u] = k}
  <2>1. CASE k = l
    <3>1. Restarts(Added(lists[l], t))
      BY <1>2, <1>3, SMT DEF Restarts, Good, LevelType
    <3>2. Members(lists[l]) = {u \in Runnable : level[u] = l}
      BY DEF ListPart
    <3>3. {u \in Runnable' : level'[u] = l}
             = {u \in Runnable : level[u] = l} \cup {t}
      BY <1>5, <1>6 DEF Runnable
    <3>4. QED
      BY <1>3, <1>4, <2>1, <3>1, <3>2, <3>3
  <2>2. CASE k # l
    <3>1. {u \in Runnable' : level'[u] = k} = {u \in Runnable : level[u] = k}
      BY <1>5, <1>6, <2>2 DEF Runnable
    <3>2. QED
      BY <1>4, <2>2, <3>1 DEF ListPart
  <2>3. QED
    BY <2>1, <2>2
<1>8. QED
  BY <1>3, <1>4, <1>7 DEF ListPart

LEMMA LeaveLists ==
  ASSUME TypeOK, ListPart, NEW t \in Task, flags[t] = 2,
         NEW f \in {0, 1},
         lists' = SleepLists(t),
         flags' = [flags EXCEPT ![t] = f],
         level' = level
  PROVE  /\ ListPart'
         /\ \A k \in Levels : k # level[t] => lists'[k] = lists[k]
<1> DEFINE l == level[t]
<1>1. l \in Levels /\ t \in Members(lists[l]) /\ Good(lists[l])
  BY DEF ListPart, Runnable, TypeOK
<1>2. /\ Good(Removed(lists[l], t))
      /\ Restarts(Removed(lists[l], t))
      /\ Members(Removed(lists[l], t)) = Members(lists[l]) \ {t}
  BY <1>1, RemovedGood
<1>3. /\ DOMAIN lists' = Levels
      /\ lists'[l] = Removed(lists[l], t)
      /\ \A k \in Levels : k # l => lists'[k] = lists[k]
  BY <1>1 DEF ListPart, SleepLists
<1>4. Runnable' = Runnable \ {t}
  BY DEF Runnable, TypeOK
<1>5. ASSUME NEW k \in Levels
      PROVE  /\ Good(lists'[k])
             /\ k # BootLevel => Restarts(lists'[k])
             /\ Members(lists'[k]) = {u \in Runnable' : level'[u] = k}
  <2>1. CASE k = l
    <3>1. Members(lists[l]) = {u \in Runnable : level[u] = l}
      BY <1>1 DEF ListPart
    <3>2. QED
      BY <1>2, <1>3, <1>4, <2>1, <3>1
  <2>2. CASE k # l
    BY <1>3, <1>4, <2>2 DEF ListPart
  <2>3. QED
    BY <2>1, <2>2
<1>6. QED
  BY <1>3, <1>5 DEF ListPart

-----------------------------------------------------------------------------
(* What a decision, a wake-up and the boot do to the invariant. *)

\* A decision taken with the idle task in its list is a good one.
LEMMA Switched ==
  /\ ListPart
  /\ flags[Idle] = 2 /\ level[Idle] = LastLevel
  /\ now_lv = TopLevel(lists)
  /\ cpu = TaskAt(lists, now_lv)
  => Decision /\ now_lv \in Levels /\ cpu \in Task
<1> SUFFICES ASSUME ListPart, flags[Idle] = 2, level[Idle] = LastLevel,
                    now_lv = TopLevel(lists), cpu = TaskAt(lists, now_lv)
             PROVE  Decision /\ now_lv \in Levels /\ cpu \in Task
  OBVIOUS
<1>1. lists[LastLevel].running > 0
  BY NotEmpty, RoleFacts, LevelFacts
<1>2. /\ now_lv \in Levels
      /\ lists[now_lv].running > 0
      /\ \A k \in 0 .. now_lv - 1 : ~(lists[k].running > 0)
  BY <1>1, LevelFacts, TopLevelFound
<1>3. cpu \in Task /\ flags[cpu] = 2 /\ level[cpu] = now_lv
  BY <1>2, Picked
<1>4. QED
  BY <1>2, <1>3 DEF Decision, RunningIsTaskNow, TaskNow

\* The types of the lists are part of ListPart.
LEMMA ListTypes ==
  ListPart => DOMAIN lists = Levels /\ \A l \in Levels : LevelType(lists[l])
  BY DEF ListPart, Good

\* The slot now designates is in the list, unless task_a has just left it.
LEMMA NowSlot ==
  IInv => \/ now_lv = BootLevel /\ cpu = TaskA /\ Booted
          \/ level[cpu] = now_lv /\ lists[now_lv].now \in Live(lists[now_lv])
  BY NotEmpty, Picked DEF IInv, TypeOK, Decision, RunningIsTaskNow

LEMMA EnterStep ==
  ASSUME IInv, Booted, NEW t \in Task, flags[t] # 2, NEW l \in Levels,
         (t = TaskA /\ l = MainLevel) \/ (t \in Consoles /\ l = ConsoleLevel),
         lists' = [lists EXCEPT ![l] = Added(@, t)],
         flags' = [flags EXCEPT ![t] = 2],
         level' = [level EXCEPT ![t] = l],
         lv_change' = TRUE,
         UNCHANGED <<now_lv, cpu>>,
         closing' \subseteq Consoles
  PROVE  IInv'
<1>1. TypeOK /\ ListPart /\ l # BootLevel
  BY LevelFacts DEF IInv
<1>2. /\ ListPart'
      /\ \A k \in Levels : /\ lists'[k].now = lists[k].now
                           /\ \A i \in Live(lists[k]) :
                                 lists'[k].tasks[i] = lists[k].tasks[i]
  BY <1>1, EnterLists
<1>3. /\ flags' \in [Task -> 0 .. 2]
      /\ flags'[t] = 2 /\ \A u \in Task \ {t} : flags'[u] = flags[u]
      /\ level' \in [Task -> Levels]
      /\ level'[t] = l /\ \A u \in Task \ {t} : level'[u] = level[u]
  BY <1>1 DEF TypeOK
<1>4. ListPart' => DOMAIN lists' = Levels
                   /\ \A k \in Levels : LevelType(lists'[k])
  BY DEF ListPart, Good
<1>5. TypeOK'
  BY <1>1, <1>2, <1>3, <1>4 DEF TypeOK
<1>6. Roles'
  BY <1>1, <1>3, RoleFacts, LevelFacts DEF IInv, Roles, Booted
<1>7. cpu \in Task /\ flags'[cpu] = 2
  BY <1>1, <1>3 DEF IInv, Decision, RunningIsTaskNow, TypeOK
<1>8. /\ cpu' = TaskNow'
      /\ level'[cpu] = now_lv \/ (now_lv = BootLevel /\ cpu = TaskA)
  <2>1. CASE level[cpu] = now_lv /\ lists[now_lv].now \in Live(lists[now_lv])
    <3>1. TaskNow' = TaskNow
      BY <1>1, <1>2, <2>1 DEF TaskNow, TaskAt, TypeOK
    <3>2. level'[cpu] = level[cpu]
      BY <1>1, <1>3, <1>7 DEF IInv, Decision, RunningIsTaskNow, TypeOK
    <3>3. QED
      BY <2>1, <3>1, <3>2 DEF IInv, Decision, RunningIsTaskNow
  <2>2. CASE now_lv = BootLevel /\ cpu = TaskA
    <3>1. lists'[BootLevel] = lists[BootLevel]
      BY <1>1, LevelFacts DEF ListPart
    <3>2. QED
      BY <1>1, <2>2, <3>1 DEF TaskNow, TaskAt, IInv, Decision, RunningIsTaskNow
  <2>3. QED
    BY <2>1, <2>2, NowSlot
<1>9. Booted'
  BY <1>3, RoleFacts, LevelFacts DEF Booted
<1>10. Decision'
  BY <1>7, <1>8, <1>9 DEF Decision, RunningIsTaskNow
<1>11. QED
  BY <1>2, <1>5, <1>6, <1>10 DEF IInv

-----------------------------------------------------------------------------
(* The invariant holds at first and is preserved by every action. *)

LEMMA EmptyGood ==
  Good(EmptyLevel) /\ Restarts(EmptyLevel) /\ Members(EmptyLevel) = {}
<1>1. Live(EmptyLevel) = {}
  BY SMT DEF Live, EmptyLevel
<1>2. DOMAIN EmptyLevel.tasks = {}
  BY SMT DEF EmptyLevel
<1>3. QED
  BY <1>1, <1>2, SMT
     DEF Good, Restarts, Members, LevelType, Distinct, NowInRange, EmptyLevel

LEMMA InitIInv == Init => IInv
<1> SUFFICES ASSUME Init PROVE IInv
  OBVIOUS
<1> USE RoleFacts, LevelFacts
<1>1. ASSUME NEW t \in Task
      PROVE  LET L == Added(EmptyLevel, t)
             IN  /\ Good(L) /\ Restarts(L) /\ Members(L) = {t}
                 /\ L.running = 1 /\ L.now = 0 /\ L.tasks[0] = t
  <2>1. Added(EmptyLevel, t).tasks[0] = t
    BY DEF Added, EmptyLevel
  <2>2. EmptyLevel.running = 0 /\ EmptyLevel.now = 0
    BY DEF EmptyLevel
  <2>3. /\ Good(Added(EmptyLevel, t))
        /\ Members(Added(EmptyLevel, t)) = Members(EmptyLevel) \cup {t}
        /\ Added(EmptyLevel, t).running = EmptyLevel.running + 1
        /\ Added(EmptyLevel, t).now = EmptyLevel.now
    BY EmptyGood, AddedGood
  <2>4. Added(EmptyLevel, t).running = 1
    BY <2>2, <2>3, SMT
  <2>5. QED
    BY <2>1, <2>2, <2>3, <2>4, EmptyGood DEF Restarts
<1>2. /\ DOMAIN lists = Levels
      /\ lists[BootLevel] = Added(EmptyLevel, TaskA)
      /\ lists[LastLevel] = Added(EmptyLevel, Idle)
      /\ \A l \in Levels : l \notin {BootLevel, LastLevel} =>
                              lists[l] = EmptyLevel
  BY DEF Init
<1>3. Runnable = {TaskA, Idle}
  BY DEF Init, Runnable, Task
<1>4. level[TaskA] = BootLevel /\ level[Idle] = LastLevel
  BY DEF Init
<1>5. ListPart
  <2>1. ASSUME NEW l \in Levels
        PROVE  /\ Good(lists[l])
               /\ l # BootLevel => Restarts(lists[l])
               /\ Members(lists[l]) = {t \in Runnable : level[t] = l}
    <3>1. CASE l = BootLevel
      BY <1>1, <1>2, <1>3, <1>4, <3>1
    <3>2. CASE l = LastLevel
      BY <1>1, <1>2, <1>3, <1>4, <3>2
    <3>3. CASE l \notin {BootLevel, LastLevel}
      BY <1>2, <1>3, <1>4, <3>3, EmptyGood
    <3>4. QED
      BY <3>1, <3>2, <3>3
  <2>2. QED
    BY <1>2, <2>1 DEF ListPart
<1>6. TypeOK
  <2>1. flags \in [Task -> 0 .. 2]
    BY SMT DEF Init
  <2>2. QED
    BY <1>5, <2>1, ListTypes DEF Init, TypeOK
<1>7. Roles
  BY SMT DEF Init, Roles, Booted
<1>8. Decision
  <2>1. TaskNow = TaskA
    BY <1>1, <1>2 DEF TaskNow, TaskAt, Init
  <2>2. QED
    BY <2>1 DEF Init, Decision, RunningIsTaskNow
<1>9. QED
  BY <1>5, <1>6, <1>7, <1>8 DEF IInv

LEMMA BootStep == ASSUME IInv, Boot PROVE IInv'
<1> USE RoleFacts, LevelFacts
<1>1. /\ TypeOK /\ ListPart
      /\ flags[TaskA] = 2 /\ level[TaskA] = BootLevel
      /\ cpu = TaskA /\ now_lv = BootLevel
  BY DEF IInv, Roles, Booted, Boot
<1>2. /\ lists' = [lists EXCEPT ![BootLevel] = Removed(@, TaskA),
                                ![MainLevel] = Added(@, TaskA)]
      /\ flags' = flags
      /\ level' = [level EXCEPT ![TaskA] = MainLevel]
      /\ lv_change' = TRUE
      /\ now_lv' = now_lv /\ cpu' = cpu /\ closing' = closing
  BY <1>1 DEF Boot, TaskRun, TypeOK
<1> DEFINE R == Removed(lists[BootLevel], TaskA)
           A == Added(lists[MainLevel], TaskA)
<1>3. /\ DOMAIN lists' = Levels
      /\ lists'[BootLevel] = R /\ lists'[MainLevel] = A
      /\ \A l \in Levels : l \notin {BootLevel, MainLevel} =>
                              lists'[l] = lists[l]
  <2>1. DOMAIN lists = Levels /\ BootLevel \in Levels /\ MainLevel \in Levels
        /\ BootLevel # MainLevel
    BY <1>1 DEF ListPart
  <2>2. HIDE DEF R, A
  <2>3. lists' = [lists EXCEPT ![BootLevel] = R, ![MainLevel] = A]
    BY <1>2 DEF R, A
  <2>4. QED
    BY <2>1, <2>3
<1>4. TaskA \in Members(lists[BootLevel]) /\ TaskA \notin Members(lists[MainLevel])
  <2>1. TaskA \in Runnable
    BY <1>1 DEF Runnable
  <2>2. \A l \in Levels : Members(lists[l]) = {t \in Runnable : level[t] = l}
    BY <1>1 DEF ListPart
  <2>3. QED
    BY <1>1, <2>1, <2>2
<1>5. Good(R) /\ Restarts(R) /\ Members(R) = Members(lists[BootLevel]) \ {TaskA}
  BY <1>1, <1>4, RemovedGood DEF ListPart
<1>6. Good(A) /\ Members(A) = Members(lists[MainLevel]) \cup {TaskA}
      /\ A.running = lists[MainLevel].running + 1
  BY <1>1, <1>4, AddedGood DEF ListPart
<1>7. Restarts(A)
  <2>1. lists[MainLevel].running \in Nat
    BY <1>1 DEF ListPart, Good, LevelType
  <2>2. A.running # 0
    BY <1>6, <2>1
  <2>3. QED
    BY <2>2 DEF Restarts
<1>8. /\ Runnable' = Runnable
      /\ level'[TaskA] = MainLevel
      /\ \A u \in Task \ {TaskA} : level'[u] = level[u]
      /\ level' \in [Task -> Levels]
  <2>1. level \in [Task -> Levels] /\ TaskA \in Task /\ MainLevel \in Levels
    BY <1>1 DEF TypeOK
  <2>2. Runnable' = Runnable
    BY <1>2 DEF Runnable
  <2>3. QED
    BY <1>2, <2>1, <2>2
<1> HIDE DEF R, A
<1>9. ListPart'
  <2>1. ASSUME NEW l \in Levels
        PROVE  /\ Good(lists'[l])
               /\ l # BootLevel => Restarts(lists'[l])
               /\ Members(lists'[l]) = {t \in Runnable' : level'[t] = l}
    <3>1. Members(lists[l]) = {t \in Runnable : level[t] = l}
      BY <1>1 DEF ListPart
    <3>2. CASE l = BootLevel
      BY <1>1, <1>3, <1>5, <1>8, <3>1, <3>2 DEF Runnable
    <3>3. CASE l = MainLevel
      <4>1. {t \in Runnable' : level'[t] = l}
              = {t \in Runnable : level[t] = l} \cup {TaskA}
        BY <1>1, <1>8, <3>3 DEF Runnable
      <4>2. QED
        BY <1>3, <1>6, <1>7, <3>1, <3>3, <4>1
    <3>4. CASE l \notin {BootLevel, MainLevel}
      <4>1. {t \in Runnable' : level'[t] = l} = {t \in Runnable : level[t] = l}
        BY <1>1, <1>8, <3>4 DEF Runnable
      <4>2. QED
        BY <1>1, <1>3, <3>4, <4>1 DEF ListPart
    <3>5. QED
      BY <3>2, <3>3, <3>4
  <2>2. QED
    BY <1>3, <2>1 DEF ListPart
<1>10. TypeOK'
  <2>1. ListPart' => \A l \in Levels : LevelType(lists'[l])
    BY DEF ListPart, Good
  <2>2. QED
    BY <1>1, <1>2, <1>3, <1>8, <1>9, <2>1 DEF TypeOK
<1>11. Roles'
  BY <1>1, <1>2, <1>8 DEF IInv, Roles, Booted
\* The slot that task_a leaves keeps it: nothing else has been in level 0.
<1>12. TaskNow' = TaskA
  <2> DEFINE L == lists[BootLevel]
  <2>1. L.now \in Live(L) /\ L.tasks[L.now] = TaskA
    <3>1. lists[BootLevel].running > 0
      BY <1>1, NotEmpty
    <3>2. QED
      BY <1>1, <3>1, Picked DEF IInv, Decision, RunningIsTaskNow, TaskNow, TaskAt
  <2>2. Members(L) = {TaskA} /\ Good(L)
    <3>1. \A u \in Task : flags[u] = 2 /\ level[u] = BootLevel => u = TaskA
      BY <1>1 DEF IInv, Roles, Booted, Task
    <3>2. {t \in Runnable : level[t] = BootLevel} = {TaskA}
      BY <1>1, <3>1 DEF Runnable
    <3>3. QED
      BY <1>1, <3>2 DEF ListPart
  <2>3. \A i \in Live(L) : L.tasks[i] = TaskA
    BY <2>2 DEF Members
  <2>4. \A i \in Live(L) : i = L.now
    BY <2>1, <2>2, <2>3 DEF Good, Distinct
  <2>5. L.running = 1 /\ L.now = 0 /\ 0 \in DOMAIN L.tasks
    BY <2>1, <2>2, <2>4, SMT DEF Live, Good, LevelType
  <2>6. SlotOf(L, TaskA) = 0
    BY <2>1, <2>2, <2>4, <2>5, SlotFound
  <2>7. R.now = 0 /\ R.tasks[0] = TaskA
    BY <2>1, <2>5, <2>6, SMT DEF R, Removed
  <2>8. QED
    BY <1>1, <1>2, <1>3, <2>7 DEF TaskNow, TaskAt
<1>13. Booted'
  BY <1>8 DEF Booted
<1>14. Decision'
  BY <1>1, <1>2, <1>12, <1>13 DEF Decision, RunningIsTaskNow
<1>15. QED
  BY <1>9, <1>10, <1>11, <1>14 DEF IInv

LEMMA TickStep == ASSUME IInv, Tick PROVE IInv'
<1> USE RoleFacts, LevelFacts
<1>1. /\ TypeOK /\ ListPart /\ now_lv \in Levels
      /\ lists' = [lists EXCEPT ![now_lv] = Advanced(@)]
      /\ UNCHANGED <<flags, level, closing>>
      /\ lv_change' = FALSE
      /\ now_lv' = IF lv_change THEN TopLevel(lists') ELSE now_lv
      /\ cpu' = TaskAt(lists', now_lv')
  BY DEF IInv, TypeOK, Tick
<1> DEFINE A == Advanced(lists[now_lv])
<1>2. /\ DOMAIN lists' = Levels /\ lists'[now_lv] = A
      /\ \A l \in Levels \ {now_lv} : lists'[l] = lists[l]
  BY <1>1 DEF ListPart
<1>3. /\ Good(A) /\ A.running = lists[now_lv].running
      /\ Members(A) = Members(lists[now_lv])
      /\ lists[now_lv].running > 0 => Restarts(A)
  BY <1>1, AdvancedGood DEF ListPart
<1> HIDE DEF A
<1>4. now_lv # BootLevel => lists[now_lv].running > 0
  BY <1>1, NotEmpty DEF IInv, Decision, RunningIsTaskNow, TypeOK
<1>5. ListPart'
  BY <1>1, <1>2, <1>3, <1>4 DEF ListPart, Runnable
<1>6. TypeOK' \/ ~(now_lv' \in Levels /\ cpu' \in Task)
  <2>1. ListPart' => \A l \in Levels : LevelType(lists'[l])
    BY DEF ListPart, Good
  <2>2. QED
    BY <1>1, <1>2, <1>5, <2>1 DEF TypeOK
<1>7. flags'[Idle] = 2 /\ level'[Idle] = LastLevel
  BY <1>1 DEF IInv, Roles
\* Without a pending change the level stays, and nothing precedes it.
<1>8. now_lv' = TopLevel(lists')
  <2>1. CASE lv_change
    BY <1>1, <2>1
  <2>2. CASE ~lv_change
    <3>1. /\ lists[now_lv].running > 0
          /\ \A k \in 0 .. now_lv - 1 : ~(lists[k].running > 0)
      BY <2>2 DEF IInv, Decision
    <3>2. \A k \in 0 .. now_lv - 1 : k \in Levels \ {now_lv}
      BY <1>1, LevelAssumption, SMT DEF Levels
    <3>3. /\ lists'[now_lv].running > 0
          /\ \A k \in 0 .. now_lv - 1 : ~(lists'[k].running > 0)
      BY <1>2, <1>3, <3>1, <3>2
    <3>4. \A l \in Levels : (/\ lists'[l].running > 0
                             /\ \A k \in 0 .. l - 1 : ~(lists'[k].running > 0))
                            => l = now_lv
      <4> SUFFICES ASSUME NEW l \in Levels, lists'[l].running > 0,
                          \A k \in 0 .. l - 1 : ~(lists'[k].running > 0),
                          l # now_lv
                   PROVE  FALSE
        OBVIOUS
      <4>1. l \in 0 .. now_lv - 1 \/ now_lv \in 0 .. l - 1
        BY <1>1, LevelAssumption, SMT DEF Levels
      <4>2. QED
        BY <3>3, <4>1
    <3>5. TopLevel(lists') = now_lv
      BY <1>1, <3>3, <3>4 DEF TopLevel
    <3>6. QED
      BY <1>1, <2>2, <3>5
  <2>3. QED
    BY <1>1, <2>1, <2>2 DEF TypeOK
<1>9. (/\ ListPart
       /\ flags[Idle] = 2 /\ level[Idle] = LastLevel
       /\ now_lv = TopLevel(lists)
       /\ cpu = TaskAt(lists, now_lv)
       => Decision /\ now_lv \in Levels /\ cpu \in Task)'
  BY Switched, PTL
<1>10. Decision' /\ now_lv' \in Levels /\ cpu' \in Task
  BY <1>1, <1>5, <1>7, <1>8, <1>9
\* Before the boot task_a is alone: the decision falls on it again.
<1>11. Roles'
  <2>1. CASE Booted
    BY <1>1, <2>1 DEF IInv, Roles, Booted
  <2>2. CASE ~Booted
    <3>1. /\ level[TaskA] = BootLevel /\ flags[TaskA] = 2 /\ cpu = TaskA
          /\ now_lv = BootLevel
          /\ \A c \in Consoles : flags[c] = 0
      BY <2>2 DEF IInv, Roles, Booted
    <3>2. lists'[BootLevel].running > 0
      BY <1>2, <1>3, <1>1, <3>1, NotEmpty
    <3>3. now_lv' = BootLevel
      <4>1. \A l \in Levels : l # BootLevel => BootLevel \in 0 .. l - 1
        BY LevelAssumption, SMT DEF Levels, BootLevel
      <4>2. \A k \in 0 .. BootLevel - 1 : FALSE
        BY SMT DEF BootLevel
      <4>3. QED
        BY <1>8, <3>2, <4>1, <4>2 DEF TopLevel
    <3>4. level[cpu'] = BootLevel
      BY <1>1, <1>10, <3>3, <3>1 DEF Decision
    <3>5. cpu' = TaskA
      BY <1>1, <1>10, <3>1, <3>4 DEF Decision, RunningIsTaskNow, IInv, Roles, Task
    <3>6. QED
      BY <1>1, <2>2, <3>1, <3>3, <3>5 DEF IInv, Roles, Booted
  <2>3. QED
    BY <2>1, <2>2
<1>12. QED
  BY <1>5, <1>6, <1>10, <1>11 DEF IInv

LEMMA SleepStep == ASSUME IInv, NEW t \in Task, Sleep(t) PROVE IInv'
<1> USE RoleFacts, LevelFacts
<1>1. /\ TypeOK /\ ListPart
      /\ cpu = t /\ t = TaskNow /\ t # Idle /\ Booted /\ flags[t] = 2
      /\ lists' = SleepLists(t)
      /\ flags' = [flags EXCEPT ![t] = 1]
      /\ UNCHANGED <<level, closing>>
      /\ now_lv' = TopLevel(lists')
      /\ lv_change' = FALSE
      /\ cpu' = TaskAt(lists', now_lv')
  BY DEF IInv, Decision, RunningIsTaskNow, Sleep, SwitchedAfterSleep
<1>2. ListPart'
  BY <1>1, LeaveLists
<1>3. /\ flags' \in [Task -> 0 .. 2]
      /\ flags'[t] = 1 /\ \A u \in Task \ {t} : flags'[u] = flags[u]
  <2>1. 1 \in 0 .. 2
    BY SMT
  <2>2. QED
    BY <1>1, <2>1 DEF TypeOK
<1>4. Roles'
  BY <1>1, <1>3 DEF IInv, Roles, Booted
<1>5. (/\ ListPart
       /\ flags[Idle] = 2 /\ level[Idle] = LastLevel
       /\ now_lv = TopLevel(lists)
       /\ cpu = TaskAt(lists, now_lv)
       => Decision /\ now_lv \in Levels /\ cpu \in Task)'
  BY Switched, PTL
<1>6. flags'[Idle] = 2 /\ level'[Idle] = LastLevel
  BY <1>4 DEF Roles
<1>7. Decision' /\ now_lv' \in Levels /\ cpu' \in Task
  BY <1>1, <1>2, <1>5, <1>6
<1>8. TypeOK'
  <2>1. ListPart' => DOMAIN lists' = Levels
                     /\ \A l \in Levels : LevelType(lists'[l])
    BY DEF ListPart, Good
  <2>2. QED
    BY <1>1, <1>2, <1>3, <1>7, <2>1 DEF TypeOK
<1>9. QED
  BY <1>2, <1>4, <1>7, <1>8 DEF IInv

\* task_run in the task's own level: it enters its list, or stays in it.
LEMMA RunStep ==
  ASSUME IInv, Booted, NEW t \in Task \ {Idle}, flags[t] # 0,
         TaskRun(t, level[t]), closing' \subseteq Consoles
  PROVE  IInv'
<1> USE RoleFacts, LevelFacts
<1>1. /\ TypeOK /\ level[t] \in Levels
      /\ \/ t = TaskA /\ level[t] = MainLevel
         \/ t \in Consoles /\ level[t] = ConsoleLevel
  BY DEF IInv, TypeOK, Roles, Booted, Task
<1>2. CASE flags[t] = 2
  <2>1. /\ lists' = lists /\ flags' = flags /\ level' = level
        /\ lv_change' = TRUE /\ now_lv' = now_lv /\ cpu' = cpu
    BY <1>1, <1>2 DEF TaskRun, TypeOK
  <2>2. TypeOK' /\ ListPart' /\ Roles'
    BY <2>1 DEF IInv, TypeOK, ListPart, Runnable, Roles, Booted
  <2>3. Decision'
    BY <2>1 DEF IInv, Decision, RunningIsTaskNow, TaskNow, TaskAt, Booted
  <2>4. QED
    BY <2>2, <2>3 DEF IInv
<1>3. CASE flags[t] # 2
  <2>1. /\ lists' = [lists EXCEPT ![level[t]] = Added(@, t)]
        /\ flags' = [flags EXCEPT ![t] = 2]
        /\ level' = [level EXCEPT ![t] = level[t]]
        /\ lv_change' = TRUE
        /\ UNCHANGED <<now_lv, cpu>>
    BY <1>3 DEF TaskRun
  <2>2. (t = TaskA /\ level[t] = MainLevel)
        \/ (t \in Consoles /\ level[t] = ConsoleLevel)
    BY <1>1
  <2>3. QED
    BY <1>1, <1>3, <2>1, <2>2, EnterStep
<1>4. QED
  BY <1>2, <1>3

\* fifo32_put: the reader is run if it sleeps, and left alone if it runs.
LEMMA WakenedStep ==
  ASSUME IInv, Booted, NEW t \in Task \ {Idle}, flags[t] # 0,
         Wakened(t), closing' \subseteq Consoles
  PROVE  IInv'
<1>1. CASE flags[t] # 2
  BY <1>1, RunStep DEF Wakened
<1>2. CASE flags[t] = 2
  <2>1. UNCHANGED sched
    BY <1>2 DEF Wakened
  <2>2. TypeOK' /\ ListPart' /\ Roles'
    BY <2>1 DEF sched, IInv, TypeOK, ListPart, Runnable, Roles, Booted
  <2>3. Decision'
    BY <2>1 DEF sched, IInv, Decision, RunningIsTaskNow, TaskNow, TaskAt, Booted
  <2>4. QED
    BY <2>2, <2>3 DEF IInv
<1>3. QED
  BY <1>1, <1>2

LEMMA CloseStep == ASSUME IInv, NEW t \in Task, Close(t) PROVE IInv'
<1> USE RoleFacts, LevelFacts
<1>1. /\ TypeOK /\ ListPart /\ cpu = TaskA /\ cpu = TaskNow
      /\ t \in Consoles /\ t # TaskNow
      /\ lists' = (IF flags[t] = 2 THEN SleepLists(t) ELSE lists)
      /\ flags' = [flags EXCEPT ![t] = 0]
      /\ closing' \subseteq Consoles
      /\ UNCHANGED <<now_lv, lv_change, cpu, level>>
  BY DEF IInv, TypeOK, Decision, RunningIsTaskNow, Close, SwitchedAfterSleep
<1>2. /\ flags' \in [Task -> 0 .. 2]
      /\ flags'[t] = 0 /\ \A u \in Task \ {t} : flags'[u] = flags[u]
  <2>1. 0 \in 0 .. 2
    BY SMT
  <2>2. QED
    BY <1>1, <2>1 DEF TypeOK
<1>3. ListPart' /\ \A k \in Levels : k # ConsoleLevel => lists'[k] = lists[k]
  <2>1. CASE flags[t] = 2
    <3>1. level[t] = ConsoleLevel
      BY <1>1, <2>1 DEF IInv, Roles
    <3>2. 0 \in {0, 1}
      OBVIOUS
    <3>3. QED
      BY <1>1, <2>1, <3>1, <3>2, LeaveLists
  <2>2. CASE flags[t] # 2
    <3>1. Runnable' = Runnable
      BY <1>1, <1>2, <2>2 DEF Runnable
    <3>2. QED
      BY <1>1, <2>2, <3>1 DEF ListPart
  <2>3. QED
    BY <2>1, <2>2
<1>4. Roles'
  BY <1>1, <1>2 DEF IInv, Roles, Booted
<1>5. TypeOK'
  <2>1. ListPart' => DOMAIN lists' = Levels
                     /\ \A l \in Levels : LevelType(lists'[l])
    BY DEF ListPart, Good
  <2>2. QED
    BY <1>1, <1>2, <1>3, <2>1 DEF TypeOK
\* task_a runs in level 0 or 1, so the consoles' list is not consulted.
<1>6. now_lv \in {BootLevel, MainLevel}
  BY <1>1 DEF IInv, Decision, Roles
<1>7. \A k \in 0 .. now_lv - 1 : k \in Levels /\ k # ConsoleLevel
  BY <1>6, LevelAssumption, SMT DEF Levels, BootLevel, MainLevel, ConsoleLevel
<1>8. Decision'
  <2>1. TaskNow' = TaskNow
    BY <1>1, <1>3, <1>6 DEF TaskNow, TaskAt
  <2>2. QED
    BY <1>1, <1>2, <1>3, <1>6, <1>7, <2>1
       DEF IInv, Decision, RunningIsTaskNow, Booted
<1>9. QED
  BY <1>3, <1>4, <1>5, <1>8 DEF IInv

LEMMA StepIInv == IInv /\ [Next]_vars => IInv'
<1> SUFFICES ASSUME IInv, [Next]_vars PROVE IInv'
  OBVIOUS
<1> USE RoleFacts, LevelFacts
<1>1. closing \subseteq Consoles /\ TypeOK
  BY DEF IInv, TypeOK
<1>2. CASE Boot
  BY <1>2, BootStep
<1>3. CASE Tick
  BY <1>3, TickStep
<1>4. ASSUME NEW t \in Task, Sleep(t) PROVE IInv'
  BY <1>4, SleepStep
<1>5. ASSUME NEW t \in Task, Wake(t) PROVE IInv'
  <2>1. t # Idle /\ flags[t] # 0 /\ closing' \subseteq Consoles
        /\ Wakened(t)
    BY <1>1, <1>5 DEF IInv, Roles, Wake
  <2>2. Booted
    BY <1>5 DEF IInv, Roles, Wake, Task
  <2>3. QED
    BY <2>1, <2>2, WakenedStep
<1>6. ASSUME NEW t \in Task, Rerun(t) PROVE IInv'
  BY <1>1, <1>6, RunStep DEF Rerun
<1>7. ASSUME NEW t \in Task, Open(t) PROVE IInv'
  <2>1. /\ Booted /\ t \in Consoles /\ flags[t] # 2
        /\ lists' = [lists EXCEPT ![ConsoleLevel] = Added(@, t)]
        /\ flags' = [flags EXCEPT ![t] = 2]
        /\ level' = [level EXCEPT ![t] = ConsoleLevel]
        /\ lv_change' = TRUE
        /\ UNCHANGED <<now_lv, cpu>>
        /\ closing' \subseteq Consoles
    BY <1>1, <1>7 DEF Open
  <2>2. (t = TaskA /\ ConsoleLevel = MainLevel)
        \/ (t \in Consoles /\ ConsoleLevel = ConsoleLevel)
    BY <2>1
  <2>3. QED
    BY <2>1, <2>2, EnterStep
<1>8. ASSUME NEW t \in Task, Exit(t) PROVE IInv'
  <2>1. Booted
    BY <1>8 DEF IInv, Roles, Exit
  <2>2. flags[TaskA] # 0
    BY DEF IInv, Roles
  <2>3. closing' \subseteq Consoles
    BY <1>1, <1>8 DEF Exit
  <2>4. Wakened(TaskA)
    BY <1>8 DEF Exit
  <2>5. QED
    BY <2>1, <2>2, <2>3, <2>4, WakenedStep
<1>9. ASSUME NEW t \in Task, Close(t) PROVE IInv'
  BY <1>9, CloseStep
<1>10. CASE UNCHANGED vars
  <2>1. TypeOK' /\ ListPart' /\ Roles'
    BY <1>10 DEF vars, IInv, TypeOK, ListPart, Runnable, Roles, Booted
  <2>2. Decision'
    BY <1>10 DEF vars, IInv, Decision, RunningIsTaskNow, TaskNow, TaskAt, Booted
  <2>3. QED
    BY <2>1, <2>2 DEF IInv
<1>11. QED
  BY <1>2, <1>3, <1>4, <1>5, <1>6, <1>7, <1>8, <1>9, <1>10 DEF Next

\* Between two changes no runnable task precedes the running one.
LEMMA NoneBetter == IInv => NoneBetterUnlessDue
<1> SUFFICES ASSUME IInv, ~lv_change, NEW t \in Runnable
             PROVE  level[cpu] <= level[t]
  BY DEF NoneBetterUnlessDue
<1>1. /\ TypeOK /\ ListPart /\ level[cpu] = now_lv
      /\ \A k \in 0 .. now_lv - 1 : ~(lists[k].running > 0)
  BY DEF IInv, Decision
<1>2. level[t] \in Levels /\ now_lv \in Levels /\ lists[level[t]].running > 0
  BY <1>1, NotEmpty DEF Runnable, TypeOK
<1>3. level[t] \notin 0 .. now_lv - 1
  BY <1>1, <1>2
<1>4. QED
  BY <1>1, <1>2, <1>3, LevelAssumption, SMT DEF Levels

(* For every set of consoles and every number of levels: the lists of      *)
(* mtask.c hold exactly the runnable tasks, the CPU executes the task that *)
(* task_now names, which is runnable, and no runnable task precedes it     *)
(* unless a change of level is pending.                                    *)
THEOREM Invariance ==
  Spec => [](TypeOK /\ ListsAreExact /\ RunningIsTaskNow /\ NoneBetterUnlessDue)
<1>1. IInv => TypeOK /\ ListsAreExact /\ RunningIsTaskNow /\ NoneBetterUnlessDue
  BY NoneBetter
     DEF IInv, ListPart, Good, Distinct, ListsAreExact, NoDuplicate, Decision
<1>2. QED
  BY <1>1, InitIInv, StepIInv, PTL DEF Spec

(* The CPU executes the task that now_lv and now designate, and none better *)
(* is overlooked by more than a tick.                                      *)
THEOREM RightTask == Spec => []RightTaskRuns
<1>1. TypeOK /\ ListsAreExact /\ RunningIsTaskNow /\ NoneBetterUnlessDue => RightTaskRuns
  BY DEF RightTaskRuns
<1>2. QED
  BY <1>1, Invariance, PTL

-----------------------------------------------------------------------------
(* The lists implement the abstract scheduler. *)

LEMMA InitAbstract == Init => Abstract!Init
<1> SUFFICES ASSUME Init PROVE Abstract!Init
  OBVIOUS
<1> USE RoleFacts, LevelFacts
<1>1. Runnable = {TaskA, Idle} /\ level[TaskA] = BootLevel
      /\ level[Idle] = LastLevel
  BY DEF Init, Runnable, Task
<1>2. BootLevel <= BootLevel /\ BootLevel <= LastLevel
  BY LevelAssumption, SMT DEF BootLevel, ConsoleLevel
<1>3. \A u \in Runnable : level[TaskA] <= level[u]
  BY <1>1, <1>2
<1>4. cpu \in {t \in Runnable : \A u \in Runnable : level[t] <= level[u]}
  BY <1>1, <1>3 DEF Init
<1>5. Runnable \in SUBSET Task /\ level \in [Task -> Levels]
      /\ lv_change \in BOOLEAN
  BY DEF Init, Runnable
<1>6. QED
  BY <1>4, <1>5 DEF Abstract!Init, Abstract!Best

LEMMA StepAbstract ==
  IInv /\ IInv' /\ [Next]_vars => [Abstract!Next]_(Abstract!vars)
<1> SUFFICES ASSUME IInv, IInv', [Next]_vars
             PROVE  Abstract!Next \/ UNCHANGED Abstract!vars
  OBVIOUS
<1> USE RoleFacts, LevelFacts
<1>1. TypeOK /\ TypeOK' /\ cpu \in Runnable /\ cpu' \in Runnable'
  BY DEF IInv, TypeOK, Decision, RunningIsTaskNow, Runnable
\* A decision picks one of the best.
<1>2. ~lv_change' =>
        cpu' \in {t \in Runnable' : \A u \in Runnable' : level'[t] <= level'[u]}
  <2>1. (IInv => NoneBetterUnlessDue)'
    BY NoneBetter, PTL
  <2>2. QED
    BY <1>1, <2>1 DEF NoneBetterUnlessDue
\* task_run makes its task ready.
<1>3. ASSUME NEW t \in Task, NEW l \in Levels,
             flags' = [flags EXCEPT ![t] = 2],
             level' = [level EXCEPT ![t] = l],
             lv_change' = TRUE, cpu' = cpu
      PROVE  Abstract!Next
  <2>1. Runnable' = Runnable \cup {t}
    BY <1>1, <1>3 DEF Runnable, TypeOK
  <2>2. Abstract!Ready(t, l)
    BY <1>3, <2>1 DEF Abstract!Ready
  <2>3. QED
    BY <2>2 DEF Abstract!Next
<1>4. ASSUME NEW t \in Task, NEW l \in Levels, TaskRun(t, l)
      PROVE  Abstract!Next
  BY <1>3, <1>4 DEF TaskRun
<1>5. ASSUME NEW t \in Task, Wakened(t)
      PROVE  Abstract!Next \/ UNCHANGED Abstract!vars
  <2>1. CASE flags[t] # 2
    BY <1>1, <1>4, <1>5, <2>1 DEF Wakened, TypeOK
  <2>2. CASE flags[t] = 2
    BY <1>5, <2>2 DEF Wakened, sched, Runnable, Abstract!vars
  <2>3. QED
    BY <2>1, <2>2
<1>6. CASE Boot
  BY <1>4, <1>6 DEF Boot
<1>7. CASE Tick
  <2>1. /\ flags' = flags /\ level' = level /\ lv_change' = FALSE
    BY <1>7 DEF Tick
  <2>2. Runnable' = Runnable
    BY <2>1 DEF Runnable
  <2>3. Abstract!Dispatch
    BY <1>2, <2>1, <2>2 DEF Abstract!Dispatch, Abstract!Best
  <2>4. QED
    BY <2>3 DEF Abstract!Next
<1>8. ASSUME NEW t \in Task, Sleep(t) PROVE Abstract!Next
  <2>1. /\ t = cpu /\ flags' = [flags EXCEPT ![t] = 1] /\ level' = level
        /\ lv_change' = FALSE
    BY <1>8 DEF Sleep, SwitchedAfterSleep, IInv, Decision, RunningIsTaskNow
  <2>2. Runnable' = Runnable \ {cpu}
    BY <1>1, <2>1 DEF Runnable, TypeOK
  <2>3. Abstract!Block
    BY <1>2, <2>1, <2>2 DEF Abstract!Block, Abstract!Best
  <2>4. QED
    BY <2>3 DEF Abstract!Next
<1>9. ASSUME NEW t \in Task, Wake(t)
      PROVE  Abstract!Next \/ UNCHANGED Abstract!vars
  BY <1>5, <1>9 DEF Wake
<1>10. ASSUME NEW t \in Task, Rerun(t) PROVE Abstract!Next
  BY <1>1, <1>4, <1>10 DEF Rerun, TypeOK
<1>11. ASSUME NEW t \in Task, Open(t) PROVE Abstract!Next
  BY <1>3, <1>11 DEF Open
<1>12. ASSUME NEW t \in Task, Exit(t)
       PROVE  Abstract!Next \/ UNCHANGED Abstract!vars
  BY <1>5, <1>12 DEF Exit
<1>13. ASSUME NEW t \in Task, Close(t)
       PROVE  Abstract!Next \/ UNCHANGED Abstract!vars
  <2>1. /\ t # cpu /\ flags' = [flags EXCEPT ![t] = 0] /\ level' = level
        /\ cpu' = cpu /\ lv_change' = lv_change
    BY <1>1, <1>13 DEF Close, SwitchedAfterSleep, IInv, Decision,
                       RunningIsTaskNow, TypeOK
  <2>2. Runnable' = Runnable \ {t}
    BY <1>1, <2>1 DEF Runnable, TypeOK
  <2>3. Abstract!Suspend(t)
    BY <2>1, <2>2 DEF Abstract!Suspend
  <2>4. QED
    BY <2>3 DEF Abstract!Next
<1>14. CASE UNCHANGED vars
  BY <1>14 DEF vars, Runnable, Abstract!vars
<1>15. QED
  BY <1>6, <1>7, <1>8, <1>9, <1>10, <1>11, <1>12, <1>13, <1>14 DEF Next

(* Every behaviour of the lists is one of the abstract scheduler: each     *)
(* decision, whichever function of mtask.c takes it, gives the CPU to a    *)
(* runnable task of the best level.                                        *)
THEOREM Refinement == Spec => IsPriorityScheduler
<1>1. Spec => []IInv
  BY InitIInv, StepIInv, PTL DEF Spec
<1>2. QED
  BY <1>1, InitAbstract, StepAbstract, PTL
     DEF Spec, IsPriorityScheduler, Abstract!Spec
-----------------------------------------------------------------------------
(* The list of the top command. *)

\* Every step on the list is a step of the scheduler.
LEMMA ListStep == [ListNext]_allVars => [Next]_vars
<1>1. ASSUME NEW t \in Task,
             ListSleep(t) \/ ListWake(t) \/ ListRerun(t)
             \/ ListOpen(t) \/ ListExit(t) \/ ListClose(t)
      PROVE  Next
  <2>1. Sleep(t) \/ Wake(t) \/ Rerun(t) \/ Open(t) \/ Exit(t) \/ Close(t)
    BY <1>1 DEF ListSleep, ListWake, ListRerun, ListOpen, ListExit, ListClose
  <2>2. QED
    BY <2>1 DEF Next
<1>2. ListBoot \/ ListTick => Next
  BY DEF ListBoot, ListTick, Next
<1>3. UNCHANGED allVars => UNCHANGED vars
  BY DEF allVars, vars
<1>4. QED
  BY <1>1, <1>2, <1>3 DEF ListNext

(* The list of the top command changes nothing about scheduling: what is   *)
(* proved of mtask.c without runningNum and runningTasks holds with them.  *)
THEOREM ListObserves == ListSpec => Spec
<1>1. ListInit => Init
  BY DEF ListInit
<1>2. QED
  BY <1>1, ListStep, PTL DEF ListSpec, Spec

Known == {c \in Consoles : flags[c] # 0}

\* A console that is being closed has not been freed yet.
CountPart ==
    /\ closing \subseteq Known
    /\ IsFiniteSet(Runnable) /\ IsFiniteSet(Known)
    /\ runningNum \in Int /\ excess \in Int
    /\ runningNum = Cardinality(Runnable) + Cardinality(Known) + excess

\* Not only the entries that are shown name a task, but the next one too.
EntriesPart == 1 .. runningNum \subseteq runningTasks

LEMMA InitCount == ListInit => CountPart
<1> SUFFICES ASSUME ListInit PROVE CountPart
  OBVIOUS
<1> USE RoleFacts
<1>1. Init /\ excess \in LeftOver /\ runningNum = excess + 2
  BY DEF ListInit
<1>2. runningNum \in Int /\ excess \in Int /\ runningNum = 2 + 0 + excess
  BY <1>1, ListAssumption
<1>3. Runnable = {TaskA} \cup {Idle} /\ Known = {} /\ closing = {}
  BY <1>1 DEF Init, Runnable, Known, Task
<1>4. IsFiniteSet({TaskA}) /\ Cardinality({TaskA}) = 1 /\ Idle \notin {TaskA}
  BY FS_Singleton
<1>5. IsFiniteSet(Runnable) /\ Cardinality(Runnable) = 2
  <2>1. /\ IsFiniteSet({TaskA} \cup {Idle})
        /\ Cardinality({TaskA} \cup {Idle})
              = IF Idle \in {TaskA} THEN Cardinality({TaskA}) ELSE Cardinality({TaskA}) + 1
    BY <1>4, FS_AddElement
  <2>2. QED
    BY <2>1, <1>3, <1>4
<1>6. IsFiniteSet(Known) /\ Cardinality(Known) = 0
  BY <1>3, FS_EmptySet
<1>7. QED
  BY <1>2, <1>3, <1>5, <1>6 DEF CountPart

\* One task becomes runnable, or stops being so, or neither.
LEMMA OneMore ==
  ASSUME NEW S, NEW x, IsFiniteSet(S)
  PROVE  /\ IsFiniteSet(S \cup {x}) /\ Cardinality(S) \in Nat
         /\ Cardinality(S \cup {x}) \in Nat
         /\ x \notin S => Cardinality(S \cup {x}) = Cardinality(S) + 1
         /\ x \in S => Cardinality(S \cup {x}) = Cardinality(S)
<1>1. IsFiniteSet(S \cup {x}) /\ Cardinality(S) \in Nat /\ Cardinality(S \cup {x}) \in Nat
  BY FS_AddElement, FS_CardinalityType
<1>2. Cardinality(S \cup {x}) = IF x \in S THEN Cardinality(S) ELSE Cardinality(S) + 1
  BY FS_AddElement
<1>3. QED
  BY <1>1, <1>2

LEMMA OneLess ==
  ASSUME NEW S, NEW x \in S, IsFiniteSet(S)
  PROVE  /\ IsFiniteSet(S \ {x}) /\ Cardinality(S) \in Nat
         /\ Cardinality(S \ {x}) \in Nat
         /\ Cardinality(S \ {x}) = Cardinality(S) - 1
<1>1. IsFiniteSet(S \ {x}) /\ Cardinality(S) \in Nat /\ Cardinality(S \ {x}) \in Nat
  BY FS_RemoveElement, FS_CardinalityType
<1>2. Cardinality(S \ {x}) = IF x \in S THEN Cardinality(S) - 1 ELSE Cardinality(S)
  BY FS_RemoveElement
<1>3. QED
  BY <1>1, <1>2

\* task_run of a task that is not free.
LEMMA RunCount ==
  ASSUME TypeOK, CountPart, NEW t \in Task, flags[t] # 0, NEW l \in Levels,
         TaskRun(t, l), ListRun(t, l), closing' \subseteq Known
  PROVE  CountPart'
<1>1. flags' = [flags EXCEPT ![t] = 2] /\ flags \in [Task -> 0 .. 2] /\ Consoles \subseteq Task
  BY RoleFacts DEF TaskRun, TypeOK
<1>2. Runnable' = Runnable \cup {t} /\ Known' = Known
  BY <1>1 DEF Runnable, Known
<1>3. /\ IsFiniteSet(Runnable \cup {t}) /\ Cardinality(Runnable) \in Nat
      /\ Cardinality(Runnable \cup {t}) \in Nat
      /\ t \notin Runnable => Cardinality(Runnable \cup {t}) = Cardinality(Runnable) + 1
      /\ t \in Runnable => Cardinality(Runnable \cup {t}) = Cardinality(Runnable)
  BY OneMore DEF CountPart
<1>4. Cardinality(Known) \in Nat
  BY FS_CardinalityType DEF CountPart
<1>5. /\ runningNum \in Int
      /\ runningNum' = IF flags[t] = 2 /\ level[t] # l THEN runningNum ELSE runningNum + 1
      /\ excess \in Int
      /\ excess' = IF flags[t] = 2 /\ level[t] = l THEN excess + 1 ELSE excess
  BY DEF ListRun, CountPart
<1>6. flags[t] = 2 <=> t \in Runnable
  BY DEF Runnable
<1>7. runningNum = Cardinality(Runnable) + Cardinality(Known) + excess
  BY DEF CountPart
<1>8. /\ runningNum' \in Int /\ excess' \in Int
      /\ runningNum' = Cardinality(Runnable \cup {t}) + Cardinality(Known) + excess'
  <2>1. CASE flags[t] # 2
    BY <1>3, <1>4, <1>5, <1>6, <1>7, <2>1
  <2>2. CASE flags[t] = 2 /\ level[t] = l
    BY <1>3, <1>4, <1>5, <1>6, <1>7, <2>2
  <2>3. CASE flags[t] = 2 /\ level[t] # l
    BY <1>3, <1>4, <1>5, <1>6, <1>7, <2>3
  <2>4. QED
    BY <2>1, <2>2, <2>3
<1>9. QED
  BY <1>2, <1>3, <1>8 DEF CountPart

LEMMA StepCount == IInv /\ CountPart /\ [ListNext]_allVars => CountPart'
<1> SUFFICES ASSUME IInv, CountPart, [ListNext]_allVars PROVE CountPart'
  OBVIOUS
<1> USE RoleFacts, LevelFacts
<1>1. /\ TypeOK /\ flags \in [Task -> 0 .. 2] /\ level \in [Task -> Levels]
      /\ flags[TaskA] # 0 /\ flags[cpu] = 2 /\ cpu \in Task
  BY DEF IInv, TypeOK, Roles, Decision, RunningIsTaskNow
<1>2. /\ closing \subseteq Known /\ IsFiniteSet(Runnable) /\ IsFiniteSet(Known)
      /\ runningNum \in Int /\ excess \in Int
      /\ runningNum = Cardinality(Runnable) + Cardinality(Known) + excess
      /\ Cardinality(Runnable) \in Nat /\ Cardinality(Known) \in Nat
  BY FS_CardinalityType DEF CountPart
<1>3. CASE ListBoot
  <2>1. TaskRun(TaskA, MainLevel) /\ ListRun(TaskA, MainLevel) /\ closing' = closing
    BY <1>3 DEF ListBoot, Boot
  <2>2. QED
    BY <1>1, <1>2, <2>1, RunCount
<1>4. CASE flags' = flags /\ closing' = closing /\ runningNum' = runningNum /\ excess' = excess
  <2>1. Runnable' = Runnable /\ Known' = Known
    BY <1>4 DEF Runnable, Known
  <2>2. QED
    BY <1>2, <1>4, <2>1 DEF CountPart
<1>5. CASE ListTick
  BY <1>4, <1>5 DEF ListTick, Tick, list
<1>6. ASSUME NEW t \in Task, ListSleep(t) PROVE CountPart'
  <2>1. /\ flags[t] = 2 /\ flags' = [flags EXCEPT ![t] = 1] /\ closing' = closing
        /\ runningNum' = runningNum - 1 /\ excess' = excess
    BY <1>6 DEF ListSleep, Sleep
  <2>2. Runnable' = Runnable \ {t} /\ t \in Runnable /\ Known' = Known
    BY <1>1, <2>1 DEF Runnable, Known
  <2>3. IsFiniteSet(Runnable \ {t}) /\ Cardinality(Runnable \ {t}) = Cardinality(Runnable) - 1
    BY <1>2, <2>2, OneLess
  <2>4. /\ runningNum' \in Int /\ excess' \in Int
        /\ runningNum' = Cardinality(Runnable \ {t}) + Cardinality(Known) + excess'
    BY <1>2, <2>1, <2>3
  <2>5. QED
    BY <1>2, <2>1, <2>2, <2>3, <2>4 DEF CountPart
<1>7. ASSUME NEW t \in Task, ListWake(t) PROVE CountPart'
  <2>1. flags[t] = 1 /\ TaskRun(t, level[t]) /\ ListRun(t, level[t]) /\ closing' = closing
    BY <1>7 DEF ListWake, Wake, Wakened
  <2>2. level[t] \in Levels /\ flags[t] # 0 /\ closing' \subseteq Known
    BY <1>1, <1>2, <2>1
  <2>3. QED
    BY <1>1, <2>1, <2>2, RunCount
<1>8. ASSUME NEW t \in Task, ListRerun(t) PROVE CountPart'
  <2>1. flags[t] # 0 /\ TaskRun(t, level[t]) /\ ListRun(t, level[t]) /\ closing' = closing
    BY <1>8 DEF ListRerun, Rerun
  <2>2. QED
    BY <1>1, <1>2, <2>1, RunCount
<1>9. ASSUME NEW t \in Task, ListOpen(t) PROVE CountPart'
  <2>1. /\ t \in Consoles /\ flags[t] = 0 /\ flags' = [flags EXCEPT ![t] = 2]
        /\ closing' = closing /\ runningNum' = runningNum + 2 /\ excess' = excess
    BY <1>9 DEF ListOpen, Open
  <2>2. /\ Runnable' = Runnable \cup {t} /\ Known' = Known \cup {t}
        /\ t \notin Runnable /\ t \notin Known
    BY <1>1, <2>1 DEF Runnable, Known
  <2>3. /\ IsFiniteSet(Runnable \cup {t}) /\ Cardinality(Runnable \cup {t}) \in Nat
        /\ Cardinality(Runnable \cup {t}) = Cardinality(Runnable) + 1
    BY <1>2, <2>2, OneMore
  <2>4. /\ IsFiniteSet(Known \cup {t}) /\ Cardinality(Known \cup {t}) \in Nat
        /\ Cardinality(Known \cup {t}) = Cardinality(Known) + 1
    BY <1>2, <2>2, OneMore
  <2>5. /\ runningNum' \in Int /\ excess' \in Int
        /\ runningNum' = Cardinality(Runnable \cup {t}) + Cardinality(Known \cup {t}) + excess'
    BY <1>2, <2>1, <2>3, <2>4
  <2>6. QED
    BY <1>2, <2>1, <2>2, <2>3, <2>4, <2>5 DEF CountPart
<1>10. ASSUME NEW t \in Task, ListExit(t) PROVE CountPart'
  <2>1. /\ t = cpu /\ t \in Consoles /\ closing' = closing \cup {t} /\ Wakened(TaskA)
        /\ IF flags[TaskA] # 2 THEN ListRun(TaskA, level[TaskA]) ELSE UNCHANGED list
    BY <1>10 DEF ListExit, Exit
  <2>2. closing' \subseteq Known
    BY <1>1, <1>2, <2>1 DEF Known
  <2>3. CASE flags[TaskA] # 2
    <3>1. TaskRun(TaskA, level[TaskA]) /\ ListRun(TaskA, level[TaskA]) /\ level[TaskA] \in Levels
      BY <1>1, <2>1, <2>3 DEF Wakened
    <3>2. QED
      BY <1>1, <2>2, <3>1, RunCount
  <2>4. CASE flags[TaskA] = 2
    <3>1. flags' = flags /\ runningNum' = runningNum /\ excess' = excess
      BY <2>1, <2>4 DEF Wakened, sched, list
    <3>2. Runnable' = Runnable /\ Known' = Known
      BY <3>1 DEF Runnable, Known
    <3>3. QED
      BY <1>2, <2>2, <3>1, <3>2 DEF CountPart
  <2>5. QED
    BY <2>3, <2>4
<1>11. ASSUME NEW t \in Task, ListClose(t) PROVE CountPart'
  <2>1. /\ t \in closing /\ closing' = closing \ {t} /\ flags' = [flags EXCEPT ![t] = 0]
        /\ runningNum' = (IF flags[t] = 2 THEN runningNum - 1 ELSE runningNum) - 1
        /\ excess' = excess
    BY <1>11 DEF ListClose, Close
  <2>2. t \in Known /\ t \in Consoles
    BY <1>2, <2>1 DEF Known
  <2>3. Runnable' = Runnable \ {t} /\ Known' = Known \ {t}
    BY <1>1, <2>1 DEF Runnable, Known
  <2>4. IsFiniteSet(Known \ {t}) /\ Cardinality(Known \ {t}) = Cardinality(Known) - 1
    BY <1>2, <2>2, OneLess
  <2>5. closing' \subseteq Known \ {t}
    BY <1>2, <2>1
  <2>6. CASE flags[t] = 2
    <3>1. t \in Runnable
      BY <2>6 DEF Runnable
    <3>2. IsFiniteSet(Runnable \ {t}) /\ Cardinality(Runnable \ {t}) = Cardinality(Runnable) - 1
      BY <1>2, <3>1, OneLess
    <3>3. /\ runningNum' \in Int /\ excess' \in Int
          /\ runningNum' = Cardinality(Runnable \ {t}) + Cardinality(Known \ {t}) + excess'
      BY <1>2, <2>1, <2>4, <2>6, <3>2
    <3>4. QED
      BY <2>3, <2>4, <2>5, <3>2, <3>3 DEF CountPart
  <2>7. CASE flags[t] # 2
    <3>1. Runnable \ {t} = Runnable
      BY <2>7 DEF Runnable
    <3>2. /\ runningNum' \in Int /\ excess' \in Int
          /\ runningNum' = Cardinality(Runnable) + Cardinality(Known \ {t}) + excess'
      BY <1>2, <2>1, <2>4, <2>7
    <3>3. QED
      BY <1>2, <2>3, <2>4, <2>5, <3>1, <3>2 DEF CountPart
  <2>8. QED
    BY <2>6, <2>7
<1>12. CASE UNCHANGED allVars
  BY <1>4, <1>12 DEF allVars
<1>13. QED
  BY <1>3, <1>5, <1>6, <1>7, <1>8, <1>9, <1>10, <1>11, <1>12 DEF ListNext

\* An entry is written before the counter passes it.
LEMMA StepEntries ==
  runningNum \in Int /\ EntriesPart /\ [ListNext]_allVars => EntriesPart'
<1> SUFFICES ASSUME runningNum \in Int, EntriesPart, [ListNext]_allVars PROVE EntriesPart'
  OBVIOUS
<1>1. ASSUME NEW n \in Int, n <= runningNum + 1, runningNum' = n,
             runningTasks \cup {runningNum + 1} \subseteq runningTasks'
      PROVE  EntriesPart'
  BY <1>1, SMT DEF EntriesPart
<1>2. ASSUME NEW n \in Int, n <= runningNum, runningNum' = n, runningTasks \subseteq runningTasks'
      PROVE  EntriesPart'
  BY <1>2, SMT DEF EntriesPart
<1>3. ASSUME NEW t, NEW l, ListRun(t, l) PROVE EntriesPart'
  <2>1. /\ runningNum' = runningNum \/ runningNum' = runningNum + 1
        /\ runningTasks \cup {runningNum + 1} \subseteq runningTasks'
    BY <1>3 DEF ListRun
  <2>2. QED
    BY <2>1, <1>1
<1>4. ListBoot => EntriesPart'
  BY <1>3 DEF ListBoot
<1>5. ListTick \/ UNCHANGED allVars => EntriesPart'
  <2>1. ListTick \/ UNCHANGED allVars => runningNum' = runningNum /\ runningTasks' = runningTasks
    BY DEF ListTick, list, allVars
  <2>2. QED
    BY <2>1, <1>2
<1>6. ASSUME NEW t \in Task, ListWake(t) \/ ListRerun(t) PROVE EntriesPart'
  BY <1>3, <1>6 DEF ListWake, ListRerun
<1>7. ASSUME NEW t \in Task, ListSleep(t) PROVE EntriesPart'
  <2>1. runningNum' = runningNum - 1 /\ runningTasks' = runningTasks
    BY <1>7 DEF ListSleep
  <2>2. QED
    BY <2>1, <1>2
<1>8. ASSUME NEW t \in Task, ListOpen(t) PROVE EntriesPart'
  <2>1. /\ runningNum' = runningNum + 2
        /\ runningTasks' = runningTasks \cup {runningNum + 1, runningNum + 2}
    BY <1>8 DEF ListOpen
  <2>2. ASSUME NEW k \in 1 .. runningNum + 2
        PROVE  k \in 1 .. runningNum \/ k = runningNum + 1 \/ k = runningNum + 2
    OBVIOUS
  <2>3. QED
    BY <2>1, <2>2 DEF EntriesPart
<1>9. ASSUME NEW t \in Task, ListExit(t) PROVE EntriesPart'
  <2>1. CASE flags[TaskA] # 2
    BY <1>3, <1>9, <2>1 DEF ListExit
  <2>2. CASE flags[TaskA] = 2
    <3>1. runningNum' = runningNum /\ runningTasks' = runningTasks
      BY <1>9, <2>2 DEF ListExit, list
    <3>2. QED
      BY <3>1, <1>2
  <2>3. QED
    BY <2>1, <2>2
<1>10. ASSUME NEW t \in Task, ListClose(t) PROVE EntriesPart'
  <2>1. DEFINE num == IF flags[t] = 2 THEN runningNum - 1 ELSE runningNum
  <2>2. runningTasks' = runningTasks \ {num} /\ runningNum' = num - 1
    BY <1>10 DEF ListClose
  <2>3. num \in Int /\ num <= runningNum
    OBVIOUS
  <2>4. HIDE DEF num
  <2>5. ASSUME NEW k \in 1 .. num - 1 PROVE k \in 1 .. runningNum /\ k # num
    BY <2>3, <2>5
  <2>6. QED
    BY <2>2, <2>5 DEF EntriesPart
<1>11. QED
  BY <1>4, <1>5, <1>6, <1>7, <1>8, <1>9, <1>10 DEF ListNext

(* Whatever the memory held: runningNum exceeds the tasks that run and the *)
(* consoles that exist by what the memory held and by one for each call of *)
(* task_run for a task that ran already, and by nothing else.              *)
THEOREM TopCountsTasks == ListSpec => []CountIsKnown
<1>1. CountPart => CountIsKnown
  BY DEF CountPart, CountIsKnown, Known
<1>2. ListInit => IInv
  BY InitIInv DEF ListInit
<1>3. IInv /\ [ListNext]_allVars => IInv'
  BY StepIInv, ListStep
<1>4. QED
  BY <1>1, <1>2, <1>3, InitCount, StepCount, PTL DEF ListSpec

(* cmd_top shows no NULL, if the memory held 0 where runningNum is; the    *)
(* code does not see to that, and with anything else the first entries are *)
(* shown without ever being written.                                       *)
THEOREM TopAlwaysSound == ASSUME LeftOver = {0} PROVE ListSpec => []TopIsSound
<1>1. ListInit => EntriesPart
  <2>1. SUFFICES ASSUME ListInit PROVE EntriesPart
    OBVIOUS
  <2>2. runningNum = 2 /\ runningTasks = 1 .. 3
    BY <2>1 DEF ListInit
  <2>3. QED
    BY <2>2 DEF EntriesPart
<1>2. CountPart /\ EntriesPart => TopIsSound
  <2>1. SUFFICES ASSUME CountPart, EntriesPart PROVE TopIsSound
    OBVIOUS
  <2>2. CountIsKnown
    BY <2>1 DEF CountPart, CountIsKnown, Known
  <2>3. runningNum \in Int
    BY <2>1 DEF CountPart
  <2>4. NoNullShown
    BY <2>1, <2>3 DEF EntriesPart, NoNullShown, Shown
  <2>5. QED
    BY <2>2, <2>4 DEF TopIsSound
<1>3. ListInit => IInv
  BY InitIInv DEF ListInit
<1>4. IInv /\ [ListNext]_allVars => IInv'
  BY StepIInv, ListStep
<1>5. CountPart => runningNum \in Int
  BY DEF CountPart
<1>6. QED
  BY <1>1, <1>2, <1>3, <1>4, <1>5, InitCount, StepCount, StepEntries, PTL DEF ListSpec

=============================================================================
