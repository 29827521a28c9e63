---------------------------- MODULE BoundedQueue ----------------------------
(***************************************************************************)
(* What a FIFO32 promises to the task that owns it: a bounded first-in     *)
(* first-out queue of data.  Data offered while the queue is full are      *)
(* refused, and the refusal is remembered in overrun; nothing else is ever *)
(* lost, duplicated or reordered.  The owner blocks only while there is    *)
(* nothing to read.                                                        *)
(***************************************************************************)
EXTENDS Integers, Sequences

CONSTANTS
    Data,       \* the values that can be queued
    Capacity,   \* how many of them the queue holds
    NoDatum     \* the answer of a read that finds nothing

VARIABLES
    queue,      \* the data waiting to be read, oldest first
    overrun,    \* TRUE once a datum has been refused
    last,       \* the outcome of the owner's last read
    blocked     \* the owner waits for a datum

vars == <<queue, overrun, last, blocked>>

Init ==
    /\ queue = <<>>
    /\ overrun = FALSE
    /\ last = NoDatum
    /\ blocked = FALSE

\* A datum is accepted; an owner that waited is released.
Offer(d) ==
    /\ Len(queue) < Capacity
    /\ queue' = Append(queue, d)
    /\ blocked' = FALSE
    /\ UNCHANGED <<overrun, last>>

\* The queue is full: the datum is refused and the refusal recorded.
Refuse ==
    /\ Len(queue) = Capacity
    /\ overrun' = TRUE
    /\ UNCHANGED <<queue, last, blocked>>

\* The owner takes the oldest datum, or learns that there is none.
Take ==
    /\ ~blocked
    /\ IF queue = <<>>
       THEN last' = NoDatum /\ UNCHANGED queue
       ELSE last' = Head(queue) /\ queue' = Tail(queue)
    /\ UNCHANGED <<overrun, blocked>>

\* The owner may wait only while the queue is empty.
Block ==
    /\ queue = <<>>
    /\ blocked' = TRUE
    /\ UNCHANGED <<queue, overrun, last>>

\* The owner may be released for a reason that is not a datum.
Release ==
    /\ blocked' = FALSE
    /\ UNCHANGED <<queue, overrun, last>>

Next ==
    \/ \E d \in Data : Offer(d)
    \/ Refuse
    \/ Take
    \/ Block
    \/ Release

Spec == Init /\ [][Next]_vars
=============================================================================
