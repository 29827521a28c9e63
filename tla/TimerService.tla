----------------------------- MODULE TimerService -----------------------------
(***************************************************************************)
(* What timer.c promises, without its linked list: at every tick exactly   *)
(* the timers whose time has come go off, and a timer that was cancelled   *)
(* does not.  A periodic timer is set again by the tick that it went off.  *)
(* Nothing is promised to clients one of whom sets a pending timer again,  *)
(* or gives it up, without cancelling it.                                  *)
(***************************************************************************)
EXTENDS Naturals

CONSTANTS
    Timer,
    Periodic        \* the timers that a tick sets again

VARIABLES
    now,            \* ticks since the start
    due,            \* when each pending timer goes off
    void            \* a pending timer has been set again or given up

vars == <<now, due, void>>

Pending == DOMAIN due

Init ==
    /\ now = 0
    /\ \E S \in SUBSET Timer : due \in [S -> Nat]
    /\ void = FALSE

\* A timer is set to go off at some time, which may have come already.
Set(t) ==
    /\ t \notin Pending
    /\ due' \in [Pending \cup {t} -> Nat]
    /\ \A u \in Pending : due'[u] = due[u]
    /\ UNCHANGED <<now, void>>

\* The timers of S are cancelled.
Cancel(S) ==
    /\ due' = [u \in Pending \ S |-> due[u]]
    /\ UNCHANGED <<now, void>>

\* The timers that do not go off wait on, those that do are gone or set again.
Tick ==
    LET waiting == {t \in Pending : due[t] > now + 1}
        renewed == (Pending \ waiting) \cap Periodic
    IN  /\ now' = now + 1
        /\ due' \in [waiting \cup renewed -> Nat]
        /\ \A t \in waiting : due'[t] = due[t]
        /\ \A t \in renewed : due'[t] > now + 1
        /\ UNCHANGED void

\* A client breaks the rule.
Misuse(t) ==
    /\ t \in Pending
    /\ void' = TRUE
    /\ UNCHANGED now

\* What comes then, but that the clock does not go back or jump.
Anything ==
    /\ now' \in {now, now + 1}
    /\ UNCHANGED void

Next ==
    IF void THEN Anything
    ELSE \/ \E t \in Timer : Set(t) \/ Misuse(t)
         \/ \E S \in SUBSET Timer : Cancel(S)
         \/ Tick

Spec == Init /\ [][Next]_vars

=============================================================================
