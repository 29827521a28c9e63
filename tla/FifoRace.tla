------------------------------ MODULE FifoRace ------------------------------
(***************************************************************************)
(* fifo32_put as task_a calls it for the keyboard (bootpack.c:949 to 999)  *)
(* and for the cursor (bootpack.c:1310 and 1322): with interrupts enabled, *)
(* on the FIFO to which the timer interrupt sends the cursor timer's datum *)
(* of the same console.                                                    *)
(***************************************************************************)
EXTENDS Fifo

VARIABLES
    pc,             \* the next statement of task_a's fifo32_put, or "idle"
    arg,            \* its data
    reg             \* the value of p that p++ has loaded

raceVars == <<buf, p, q, free, overrun, owner, last, pc, arg, reg>>

RaceInit ==
    /\ FifoInit
    /\ pc = "idle"
    /\ arg = NoDatum
    /\ reg = 0

Goes(here, next) == pc = here /\ pc' = next

\* Line 26.
Call(d) ==
    /\ Goes("idle", IF free = 0 THEN "idle" ELSE "store")
    /\ arg' = d
    /\ overrun' = (overrun \/ free = 0)
    /\ UNCHANGED <<buf, p, q, free, owner, last, reg>>

\* Line 30.
Store ==
    /\ Goes("store", "load")
    /\ buf' = [buf EXCEPT ![p] = arg]
    /\ UNCHANGED <<p, q, free, overrun, owner, last, arg, reg>>

\* Lines 31 to 34: p is loaded ...
Load ==
    /\ Goes("load", "advance")
    /\ reg' = p
    /\ UNCHANGED <<ring, owner, last, arg>>

\* ... and stored.
Advance ==
    /\ Goes("advance", "count")
    /\ p' = Succ(reg)
    /\ UNCHANGED <<buf, q, free, overrun, owner, last, arg, reg>>

\* Lines 35 to 40.
Count ==
    /\ Goes("count", "idle")
    /\ free' = free - 1
    /\ owner' = Woken(owner)
    /\ UNCHANGED <<buf, p, q, overrun, last, arg, reg>>

\* The timer interrupt puts its own datum between any two of these.
Interrupt ==
    /\ PutFull \/ \E d \in Data : Put(d)
    /\ UNCHANGED <<pc, arg, reg>>

\* The console, of a lower level than task_a, runs when task_a sleeps.
Console ==
    /\ pc = "idle"
    /\ Get \/ Sleep
    /\ UNCHANGED <<pc, arg, reg>>

RaceNext ==
    \/ \E d \in Data : Call(d)
    \/ Store \/ Load \/ Advance \/ Count
    \/ Interrupt
    \/ Console

RaceSpec == RaceInit /\ [][RaceNext]_raceVars

-----------------------------------------------------------------------------
(* Between calls the cursors agree with the count, so that a put "adds the *)
(* datum at the end of the queue" (fifo.c:23) and the next get reads the   *)
(* oldest one.                                                             *)
QuietCursorsAgree == pc = "idle" /\ free \in 0 .. Size => CursorsAgree

=============================================================================
