-------------------------------- MODULE Timer --------------------------------
(***************************************************************************)
(* timer.c: timers kept in a list sorted by the tick at which they go off, *)
(* with a sentinel at its end, and the timer interrupt that serves it.     *)
(*                                                                         *)
(* timer_settime is two steps, because it writes timeout and flags before  *)
(* it turns interrupts off.  The other operations are one step each.       *)
(*                                                                         *)
(* timer_settime and timer_free do not ask whether the timer is in the     *)
(* list already.  Inserting one that is links it to itself or to one       *)
(* before it: the list has no end and the next loop that looks for it      *)
(* never leaves.  bootpack does it with timer4 (lines 774 and 775) when a  *)
(* second wrong PIN comes within 60 ticks.  misused and endless observe    *)
(* it, and endless is where the model stops.                               *)
(***************************************************************************)
EXTENDS Integers, FiniteSets, FiniteSetsExt

CONSTANTS
    Pool,           \* timers0[] but for the next two
    TaskTimer,      \* task_timer, which ends time slices
    Sentinel,       \* the timer that init_pit puts at the end of the list
    Nil,            \* 0, the sentinel's next
    User,           \* the tasks that use timers, each with one FIFO
    Delays,         \* what timer_settime is called with
    Slices,         \* the priorities of tasks: time slices in ticks
    Word,           \* 2^32: counts and timeouts are unsigned int
    MaxCount        \* bound: the count at which the model stops ticking

Timer == Pool \cup {TaskTimer, Sentinel}

ASSUME TimerAssumption ==
    /\ IsFiniteSet(Pool)
    /\ TaskTimer # Sentinel
    /\ {TaskTimer, Sentinel} \cap Pool = {}
    /\ Nil \notin Timer \cup User
ASSUME CountAssumption ==
    /\ Word \in Nat /\ MaxCount \in Nat
    /\ Delays \subseteq Nat /\ Slices \subseteq Nat \ {0}
    \* The model stops ticking before counts and time slices wrap round.
    /\ MaxCount < Word - 1 /\ \A s \in Slices : s + MaxCount < Word

VARIABLES
    count,          \* timerctl.count
    list,           \* timerctl.t0 and next, and the next of every timer
    flags,          \* timer->flags: 0 free, 1 ALLOC, 2 USING
    flags2,         \* timer->flags2: 1 for a timer of an application
    timeout,        \* timer->timeout
    fifo,           \* timer->fifo, named by its owner
    arming,         \* the timer each user is about to insert, or Nil
    misused,        \* observer: a timer has been set or freed in use
    endless         \* observer: a timer has been inserted that was in the list

vars == <<count, list, flags, flags2, timeout, fifo, arming, misused, endless>>

\* The sentinel's timeout, 0xffffffff.
Never == Word - 1

-----------------------------------------------------------------------------
(* The list. *)

\* The timers met from t0 on, by the number of steps; Nil after the last.
Chain(l) ==
    LET at[n \in 0 .. Cardinality(Timer)] ==
            IF n = 0 THEN l.t0
            ELSE IF at[n - 1] = Nil THEN Nil ELSE l.link[at[n - 1]]
    IN  at

\* The timers in the list.
Listed == {Chain(list)[n] : n \in DOMAIN Chain(list)} \ {Nil}

\* How many steps a loop takes to the first of the timers at which it stops.
StepsTo(at, stops) ==
    CHOOSE n \in DOMAIN at : at[n] \in stops /\ \A m \in 0 .. n - 1 : at[m] \notin stops

\* timer_settime from line 89 on: t goes before the first that is not earlier.
Inserted(l, tm, t) ==
    IF tm[t] <= tm[l.t0]
    THEN [t0 |-> t, next |-> tm[t], link |-> [l.link EXCEPT ![t] = l.t0]]
    ELSE LET at == Chain(l)
             n == StepsTo(at, {x \in Timer : tm[t] <= tm[x]})
         IN  [l EXCEPT !.link = [@ EXCEPT ![at[n - 1]] = t, ![t] = at[n]]]

\* Mutant: next is not updated with t0.
TakenOutLate(l, tm, t) ==
    IF t = l.t0
    THEN [l EXCEPT !.t0 = l.link[t]]
    ELSE LET s == CHOOSE s \in Timer : l.link[s] = t
         IN  [l EXCEPT !.link[s] = l.link[t]]

\* timer_cancel, lines 154 to 167: unlink t.
TakenOut(l, tm, t) ==
    IF t = l.t0
    THEN [l EXCEPT !.t0 = l.link[t], !.next = tm[l.link[t]]]
    ELSE LET at == Chain(l)
             n == StepsTo(at, {x \in Timer : l.link[x] = t})
         IN  [l EXCEPT !.link[at[n]] = l.link[t]]

-----------------------------------------------------------------------------
(* init_pit leaves the sentinel alone in the list; task_init arms the task *)
(* timer, at a count that is still 0.                                      *)

Init ==
    /\ count = 0
    /\ flags = [t \in Timer |-> IF t \in Pool THEN 0 ELSE 2]
    /\ flags2 = [t \in Timer |-> 0]
    /\ \E s \in Slices :
          /\ timeout = [t \in Timer |-> IF t = Sentinel THEN Never
                                        ELSE IF t = TaskTimer THEN s ELSE 0]
          /\ list = [t0 |-> TaskTimer, next |-> s,
                     link |-> [t \in Timer |-> IF t = TaskTimer THEN Sentinel
                                               ELSE Nil]]
    /\ fifo = [t \in Timer |-> Nil]
    /\ arming = [u \in User |-> Nil]
    /\ misused = FALSE /\ endless = FALSE

Idle(u) == arming[u] = Nil

\* The timers that u has allocated.
Of(u) == {t \in Pool : flags[t] # 0 /\ fifo[t] = u}

\* timer_alloc and timer_init; the system call also sets flags2.
Alloc(u, t, app) ==
    /\ Idle(u)
    /\ flags[t] = 0
    /\ flags' = [flags EXCEPT ![t] = 1]
    /\ flags2' = [flags2 EXCEPT ![t] = app]
    /\ fifo' = [fifo EXCEPT ![t] = u]
    /\ UNCHANGED <<count, list, timeout, arming, misused, endless>>

\* timer_settime up to io_cli; a sum of 2^32 or more wraps round.
Arm(u, t, d) ==
    /\ Idle(u)
    /\ t \in Of(u)
    /\ timeout' = [timeout EXCEPT ![t] = (d + count) % Word]
    /\ flags' = [flags EXCEPT ![t] = 2]
    /\ arming' = [arming EXCEPT ![u] = t]
    /\ misused' = (misused \/ flags[t] = 2)
    /\ UNCHANGED <<count, list, flags2, fifo, endless>>

\* timer_settime with interrupts off.
Insert(u) ==
    /\ ~Idle(u)
    /\ list' = Inserted(list, timeout, arming[u])
    /\ arming' = [arming EXCEPT ![u] = Nil]
    /\ endless' = (arming[u] \in Listed)
    /\ UNCHANGED <<count, flags, flags2, timeout, fifo, misused>>

\* timer_cancel of an armed timer; it does nothing to another one.
Cancel(u, t) ==
    /\ Idle(u)
    /\ t \in Of(u)
    /\ flags[t] = 2
    /\ list' = TakenOut(list, timeout, t)
    /\ flags' = [flags EXCEPT ![t] = 1]
    /\ UNCHANGED <<count, flags2, timeout, fifo, arming, misused, endless>>

\* The system call timer_free; a timer that is armed stays in the list.
Free(u, t) ==
    /\ Idle(u)
    /\ t \in Of(u)
    /\ flags' = [flags EXCEPT ![t] = 0]
    /\ misused' = (misused \/ flags[t] = 2)
    /\ UNCHANGED <<count, list, flags2, timeout, fifo, arming, endless>>

\* timer_cancelall, when the application of u ends.
CancelAll(u) ==
    LET mine == {t \in Of(u) : flags2[t] # 0}
    IN  /\ Idle(u)
        /\ mine # {}
        /\ list' = FoldSet(LAMBDA t, l : TakenOut(l, timeout, t), list,
                           {t \in mine : flags[t] = 2})
        /\ flags' = [t \in Timer |-> IF t \in mine THEN 0 ELSE flags[t]]
        /\ UNCHANGED <<count, flags2, timeout, fifo, arming, misused, endless>>

\* The timer interrupt with nothing due.
TickQuiet ==
    /\ count < MaxCount
    /\ count' = (count + 1) % Word
    /\ list.next > count'
    /\ UNCHANGED <<list, flags, flags2, timeout, fifo, arming, misused, endless>>

\* Mutant: one timer is served at each interrupt.
DueFirst(c) == IF timeout[list.t0] > c THEN {} ELSE {list.t0}

\* The timers inthandler20 takes from the front of the list at count c.
Due(c) ==
    LET at == Chain(list)
        n  == StepsTo(at, {x \in Timer : timeout[x] > c})
    IN  {at[m] : m \in 0 .. n - 1}

\* timerctl.t0 and next after the loop.
Served(c) ==
    LET at == Chain(list)
        n  == StepsTo(at, Timer \ Due(c))
    IN  [list EXCEPT !.t0 = at[n], !.next = timeout[at[n]]]

\* The timer interrupt: each timer that is due sends its datum; when the task
\* timer is among them, task_switch arms it again.
TickDue ==
    /\ count < MaxCount
    /\ count' = (count + 1) % Word
    /\ list.next <= count'
    /\ IF TaskTimer \in Due(count')
       THEN \E s \in Slices :
              LET tm == [timeout EXCEPT ![TaskTimer] = (s + count') % Word]
              IN  /\ timeout' = tm
                  /\ list' = Inserted(Served(count'), tm, TaskTimer)
       ELSE /\ list' = Served(count')
            /\ UNCHANGED timeout
    /\ flags' = [t \in Timer |-> IF t = TaskTimer THEN 2
                                 ELSE IF t \in Due(count') THEN 1 ELSE flags[t]]
    /\ UNCHANGED <<flags2, fifo, arming, misused, endless>>

Tick == TickQuiet \/ TickDue

Next ==
    /\ ~endless
    /\ \/ Tick
       \/ \E u \in User :
             \/ Insert(u)
             \/ CancelAll(u)
             \/ \E t \in Pool :
                   \/ Cancel(u, t)
                   \/ Free(u, t)
                   \/ \E app \in {0, 1} : Alloc(u, t, app)
                   \/ \E d \in Delays : Arm(u, t, d)

Spec == Init /\ [][Next]_vars

-----------------------------------------------------------------------------
BeingArmed == {arming[u] : u \in User} \ {Nil}

TypeOK ==
    /\ count \in 0 .. MaxCount
    /\ list \in [t0 : Timer, next : 0 .. Word - 1, link : [Timer -> Timer \cup {Nil}]]
    /\ flags \in [Timer -> 0 .. 2]
    /\ flags2 \in [Timer -> 0 .. 1]
    /\ timeout \in [Timer -> 0 .. Word - 1]
    /\ fifo \in [Timer -> User \cup {Nil}]
    /\ arming \in [User -> Pool \cup {Nil}]
    /\ misused \in BOOLEAN /\ endless \in BOOLEAN

(* The list that every operation walks ends with the sentinel, unless one  *)
(* has inserted a timer that was in it.  As long as no timer is set or     *)
(* freed while it is in use, the list ascends and holds exactly the timers *)
(* in use, but for those whose timer_settime has been interrupted between  *)
(* lines 86 and 88; next is the timeout of its first timer, by which the   *)
(* interrupt decides whether to look at all.                               *)
ListIsExact ==
    LET at == Chain(list)
    IN  /\ TypeOK
        /\ endless <=> Sentinel \notin Listed
        /\ endless => misused
        /\ ~misused =>
              /\ \A n \in 0 .. Cardinality(Timer) - 1 :
                    at[n] # Nil /\ at[n + 1] # Nil => timeout[at[n]] <= timeout[at[n + 1]]
              /\ \E n \in 0 .. Cardinality(Timer) - 1 : at[n] = Sentinel /\ at[n + 1] = Nil
              /\ Listed = {t \in Timer : flags[t] = 2} \ BeingArmed
              /\ list.next = timeout[list.t0]

(* The list implements the service: every tick serves exactly the timers   *)
(* that are due, none early and none a tick late, as long as no timer is   *)
(* set or freed while it is pending.                                       *)
Service == INSTANCE TimerService
              WITH Periodic <- {TaskTimer}, now <- count, void <- misused,
                   due <- [t \in Listed \ {Sentinel} |-> timeout[t]]
IsTimerService == Service!Spec

=============================================================================
