-------------------------------- MODULE Fifo --------------------------------
(***************************************************************************)
(* fifo.c: the ring buffer FIFO32 through which interrupt handlers and     *)
(* tasks send data to one task, its owner.                                 *)
(*                                                                         *)
(* A put and a get are single steps here: this is the FIFO as interrupt    *)
(* handlers and the cli/sti sections of the tasks use it.  Calls made with *)
(* interrupts enabled are the subject of FifoRace.                         *)
(***************************************************************************)
EXTENDS Integers, Sequences

CONSTANTS
    Size,       \* fifo->size
    Data,       \* the data that are sent
    NoDatum     \* -1, the answer of fifo32_get on an empty FIFO

ASSUME SizeAssumption == Size \in Nat \ {0}
ASSUME NoDatumAssumption == NoDatum \notin Data

VARIABLES
    buf,        \* fifo->buf: what the slots hold
    p,          \* fifo->p: the slot the next put writes
    q,          \* fifo->q: the slot the next get reads
    free,       \* fifo->free: the number of unused slots
    overrun,    \* fifo->flags: FLAGS_OVERRUN has been set
    owner,      \* fifo->task: "none", or whether that task's flags are 2
    last        \* what the owner's last fifo32_get returned

ring == <<buf, p, q, free, overrun>>
fifoVars == <<buf, p, q, free, overrun, owner, last>>

Slots == 0 .. Size - 1

\* The slot after slot i; the code increments and then wraps at size.
Succ(i) == IF i + 1 = Size THEN 0 ELSE i + 1

\* fifo32_status: how many data are waiting.
Status == Size - free

FifoTypeOK ==
    /\ buf \in [Slots -> Data]
    /\ p \in Slots
    /\ q \in Slots
    /\ free \in 0 .. Size
    /\ overrun \in BOOLEAN
    /\ owner \in {"none", "asleep", "runnable"}
    /\ last \in Data \cup {NoDatum}

\* fifo32_init; the buffer comes from memman_alloc_4k and holds anything.
FifoInit ==
    /\ buf \in [Slots -> Data]
    /\ p = 0
    /\ q = 0
    /\ free = Size
    /\ overrun = FALSE
    /\ owner \in {"none", "runnable"}
    /\ last = NoDatum

\* Mutant: a put does not run the sleeping owner.
WokenNot(o) == o

\* What task_run leaves of the owner: a FIFO without a task wakes nobody.
Woken(o) == IF o = "none" THEN "none" ELSE "runnable"

\* Mutant: a put on a full FIFO overwrites the oldest datum.
PutFullOverwrites ==
    /\ free = 0
    /\ overrun' = TRUE
    /\ \E d \in Data : buf' = [buf EXCEPT ![p] = d]
    /\ p' = Succ(p)
    /\ UNCHANGED <<q, free, owner, last>>

\* fifo32_put on a full FIFO: the datum is dropped and the flag set.
PutFull ==
    /\ free = 0
    /\ overrun' = TRUE
    /\ UNCHANGED <<buf, p, q, free, owner, last>>

\* fifo32_put: store the datum and make the owner runnable.
Put(d) ==
    /\ free # 0
    /\ buf' = [buf EXCEPT ![p] = d]
    /\ p' = Succ(p)
    /\ free' = free - 1
    /\ owner' = Woken(owner)
    /\ UNCHANGED <<q, overrun, last>>

\* Mutant: the cursor is advanced before the slot is read.
GetSkips ==
    /\ owner # "asleep"
    /\ free # Size
    /\ last' = buf[Succ(q)]
    /\ q' = Succ(q)
    /\ free' = free + 1
    /\ UNCHANGED <<buf, p, overrun, owner>>

\* Mutant: the last datum is taken for an empty FIFO.
GetLeavesOne ==
    /\ owner # "asleep"
    /\ IF free >= Size - 1
       THEN /\ last' = NoDatum
            /\ UNCHANGED <<q, free>>
       ELSE /\ last' = buf[q]
            /\ q' = Succ(q)
            /\ free' = free + 1
    /\ UNCHANGED <<buf, p, overrun, owner>>

\* fifo32_get, called by the owner while it runs.
Get ==
    /\ owner # "asleep"
    /\ IF free = Size
       THEN /\ last' = NoDatum
            /\ UNCHANGED <<q, free>>
       ELSE /\ last' = buf[q]
            /\ q' = Succ(q)
            /\ free' = free + 1
    /\ UNCHANGED <<buf, p, overrun, owner>>

\* The owner's loop: with interrupts off it finds the FIFO empty and sleeps.
Sleep ==
    /\ owner = "runnable"
    /\ Status = 0
    /\ owner' = "asleep"
    /\ UNCHANGED <<ring, last>>

\* task_run on the owner for another reason: Shift+F1, or signal().
Wake ==
    /\ owner = "asleep"
    /\ owner' = "runnable"
    /\ UNCHANGED <<ring, last>>

FifoNext ==
    \/ \E d \in Data : Put(d)
    \/ PutFull
    \/ Get
    \/ Sleep
    \/ Wake

\* The owner's loop goes on reading for as long as it is runnable.
FifoSpec == FifoInit /\ [][FifoNext]_fifoVars /\ WF_fifoVars(Get)

-----------------------------------------------------------------------------
\* Slot number i of the ring, for i below twice the size.
Wrap(i) == IF i < Size THEN i ELSE i - Size

\* The data between q and p, oldest first.
Contents == [i \in 1 .. Status |-> buf[Wrap(q + i - 1)]]

(* The two cursors and the counter agree: the code derives fullness and    *)
(* emptiness from free alone (lines 26 and 49), never from p and q, so a   *)
(* put or get that moved one without the other would serve stale slots.    *)
CursorsAgree == p = Wrap(q + Status)

(* The ring is well formed, with its cursors and its count in agreement,    *)
(* through every order of puts and gets.                                   *)
RingIsExact == FifoTypeOK /\ CursorsAgree

(* No lost wake-up: a task that sleeps on its FIFO has nothing to read.    *)
(* It needs the cli around the emptiness test and task_sleep, and the      *)
(* task_run of every put that finds the owner asleep (lines 36 to 40).     *)
NoLostWakeup == owner = "asleep" => Status = 0

(* A datum that is waiting is eventually read by a running owner, whatever *)
(* else is put in the meantime.                                            *)
DatumServed ==
    \A d \in Data :
        (\E i \in 1 .. Status : Contents[i] = d) ~> (last = d)

(* The ring is a bounded queue: see BoundedQueue.                          *)
Queue == INSTANCE BoundedQueue
            WITH Capacity <- Size, queue <- Contents,
                 blocked <- owner = "asleep"
IsBoundedQueue == Queue!Spec
=============================================================================
