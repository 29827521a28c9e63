---------------------------- MODULE ReadersWriters ----------------------------
(***************************************************************************)
(* console.c: the semaphores mutex and wrt with wait and signal, and the   *)
(* readers and writers that use them, each in the task of its own console. *)
(*                                                                         *)
(* wait and signal are single steps, because they turn interrupts off; the *)
(* statements between them are steps of their own, because a tick may give *)
(* the CPU to another console after each of them.                          *)
(*                                                                         *)
(* wait sleeps once and does not look at the semaphore again: whatever     *)
(* runs the task ends the wait.  fifo32_put runs the task of a console for *)
(* every datum (the first tick of its cursor's timer, keys, a request to   *)
(* close), so that a datum lets a waiting process pass without a signal,   *)
(* and leaves it on the list.                                              *)
(***************************************************************************)
EXTENDS Integers, Sequences, FiniteSets

CONSTANTS
    Readers,        \* the consoles that execute cmd_reader
    Writers,        \* the consoles that execute cmd_writer
    Nil,            \* a NULL pointer to a process
    END,            \* the number of rounds of each process
    MaxData         \* bound: data that arrive for consoles that wait

Process == Readers \cup Writers
Semaphore == {"mutex", "wrt"}

ASSUME ProcessAssumption ==
    /\ IsFiniteSet(Process)
    /\ Readers \cap Writers = {}
    /\ Nil \notin Process
ASSUME EndAssumption == END \in Nat \ {0}
ASSUME DataAssumption == MaxData \in Nat

VARIABLES
    value,          \* s->value of each semaphore
    first, last,    \* s->list_first and s->list_last
    next,           \* this_process.next of each process
    readcount,      \* the readers between their two uses of mutex
    share,          \* share_bupt
    pc,             \* the next statement of each process
    awake,          \* whether the flags of its task are 2
    seen,           \* what share++ of a writer has loaded
    rounds,         \* if_end of each process
    fault,          \* "none", "null": signal takes a process off an empty list,
                    \* "gone": off, or behind, one whose command has returned
    data,           \* the data that have ended a wait
    queue,          \* observer: who waited and has not been taken off, in order
    increments,     \* observer: the times share++ was executed
    disturbed,      \* observer: a wait ended although the semaphore was held,
                    \* and not by its signal
    relinked        \* observer: a process waited while it was still on a list

links == <<first, last, next, queue, relinked>>
memory == <<readcount, share, seen, rounds, increments>>
vars == <<value, links, memory, pc, awake, fault, data, disturbed>>

\* The global variables as the program is loaded, for nothing calls init_S, and
\* the start of every process.
Init ==
    /\ value = [s \in Semaphore |-> 0]
    /\ first = [s \in Semaphore |-> Nil]
    /\ last = [s \in Semaphore |-> Nil]
    /\ next = [p \in Process |-> Nil]
    /\ readcount = 0
    /\ share = 0
    /\ pc = [p \in Process |-> IF p \in Readers THEN "enter" ELSE "claim"]
    /\ awake = [p \in Process |-> TRUE]
    /\ seen = [p \in Process |-> 0]
    /\ rounds = [p \in Process |-> 0]
    /\ fault = "none"
    /\ data = 0
    /\ queue = [s \in Semaphore |-> <<>>]
    /\ increments = 0
    /\ disturbed = FALSE
    /\ relinked = FALSE

\* Process p executes the statement called here, and then the one called there.
Goes(p, here, there) ==
    /\ fault = "none"
    /\ awake[p]
    /\ pc[p] = here
    /\ pc' = [pc EXCEPT ![p] = there]

-----------------------------------------------------------------------------
(* Who has got a semaphore and not given it back. *)

\* The statements behind the waits for a semaphore.
Behind(s) == IF s = "mutex" THEN {"count", "uncount"} ELSE {"admit", "load"}
SleepsOn(p, s) == ~ awake[p] /\ pc[p] \in Behind(s)

HasMutex(r) ==
    \/ pc[r] \in {"count", "uncount"} /\ awake[r]
    \/ pc[r] \in {"first", "admit", "last", "end"}

HasWrt(w) ==
    \/ pc[w] = "load" /\ awake[w]
    \/ pc[w] \in {"store", "release"}

\* The readers have wrt together.
SharesWrt(r) ==
    \/ pc[r] = "admit" /\ awake[r]
    \/ pc[r] \in {"read", "leave", "uncount", "last"}
ReadersHaveWrt == \E r \in Readers : SharesWrt(r)

Held(s) ==
    IF s = "mutex"
    THEN \E r \in Readers : HasMutex(r)
    ELSE ReadersHaveWrt \/ \E w \in Writers : HasWrt(w)

\* The task of p is run although p waits for a semaphore that another one has.
Disturbs(p, s) == SleepsOn(p, s) /\ Held(s)

-----------------------------------------------------------------------------
(* wait and signal. *)

Queued(p) == \E s \in Semaphore : \E i \in 1 .. Len(queue[s]) : queue[s][i] = p

\* The process that must wait goes to the end of the list and sleeps.
Wait(s, p) ==
    /\ value' = [value EXCEPT ![s] = @ - 1]
    /\ IF value[s] > 0
       THEN UNCHANGED <<links, awake, fault>>
       ELSE /\ last' = [last EXCEPT ![s] = p]
            /\ IF last[s] = Nil
               THEN /\ first' = [first EXCEPT ![s] = p]
                    /\ next' = [next EXCEPT ![p] = Nil]
                    /\ UNCHANGED fault
               ELSE /\ next' = [next EXCEPT ![last[s]] = p, ![p] = Nil]
                    /\ fault' = IF pc[last[s]] = "done" THEN "gone" ELSE fault
                    /\ UNCHANGED first
            /\ awake' = [awake EXCEPT ![p] = FALSE]
            /\ queue' = [queue EXCEPT ![s] = Append(@, p)]
            /\ relinked' = (relinked \/ Queued(p))
    /\ UNCHANGED <<data, disturbed>>

\* The first process is taken off the list.
Unlink(s) ==
    /\ IF first[s] = last[s]
       THEN /\ first' = [first EXCEPT ![s] = Nil]
            /\ last' = [last EXCEPT ![s] = Nil]
       ELSE /\ first' = [first EXCEPT ![s] = IF @ = Nil THEN Nil ELSE next[@]]
            /\ UNCHANGED last
    /\ queue' = [queue EXCEPT ![s] = IF @ = <<>> THEN @ ELSE Tail(@)]
    /\ UNCHANGED <<next, relinked>>

\* Its task is run, whatever it sleeps for.
Run(p, s) ==
    /\ fault' = IF p = Nil THEN "null"
                ELSE IF pc[p] = "done" THEN "gone" ELSE fault
    /\ awake' = [q \in Process |-> awake[q] \/ q = p]
    /\ disturbed' = (disturbed \/ /\ p # Nil
                                  /\ \E u \in Semaphore \ {s} : Disturbs(p, u))

\* Mutant: signal takes off the list only the process that is alone on it.
SignalKeeps(s) ==
    /\ value' = [value EXCEPT ![s] = @ + 1]
    /\ IF value[s] >= 0
       THEN UNCHANGED <<links, awake, fault, disturbed>>
       ELSE /\ Run(first[s], s)
            /\ IF first[s] = last[s] THEN Unlink(s) ELSE UNCHANGED links
    /\ UNCHANGED data

Signal(s) ==
    /\ value' = [value EXCEPT ![s] = @ + 1]
    /\ IF value[s] >= 0
       THEN UNCHANGED <<links, awake, fault, disturbed>>
       ELSE Unlink(s) /\ Run(first[s], s)
    /\ UNCHANGED data

\* Neither semaphore is used.
Plain == UNCHANGED <<value, links, awake, fault, data, disturbed>>

\* fifo32_put: a datum for a console that waits runs its task.
Datum(p) ==
    /\ fault = "none"
    /\ ~ awake[p]
    /\ data < MaxData
    /\ data' = data + 1
    /\ awake' = [awake EXCEPT ![p] = TRUE]
    /\ disturbed' = (disturbed \/ \E s \in Semaphore : Disturbs(p, s))
    /\ UNCHANGED <<value, links, memory, pc, fault>>

-----------------------------------------------------------------------------
(* cmd_reader, statement by statement. *)

Enter(r) ==
    /\ Goes(r, "enter", "count")
    /\ Wait("mutex", r)
    /\ UNCHANGED memory

Count(r) ==
    /\ Goes(r, "count", "first")
    /\ readcount' = readcount + 1
    /\ Plain /\ UNCHANGED <<share, seen, rounds, increments>>

First(r) ==
    /\ Goes(r, "first", "admit")
    /\ IF readcount = 1 THEN Wait("wrt", r) ELSE Plain
    /\ UNCHANGED memory

Admit(r) ==
    /\ Goes(r, "admit", "read")
    /\ Signal("mutex")
    /\ UNCHANGED memory

\* The share is printed.
Read(r) ==
    /\ Goes(r, "read", "leave")
    /\ Plain /\ UNCHANGED memory

Leave(r) ==
    /\ Goes(r, "leave", "uncount")
    /\ Wait("mutex", r)
    /\ UNCHANGED memory

Uncount(r) ==
    /\ Goes(r, "uncount", "last")
    /\ readcount' = readcount - 1
    /\ Plain /\ UNCHANGED <<share, seen, rounds, increments>>

\* Mutant: the second reader to leave lets the writers in.
LastOfTwo(r) ==
    /\ Goes(r, "last", "end")
    /\ IF readcount = 1 THEN Signal("wrt") ELSE Plain
    /\ UNCHANGED memory

Last(r) ==
    /\ Goes(r, "last", "end")
    /\ IF readcount = 0 THEN Signal("wrt") ELSE Plain
    /\ UNCHANGED memory

\* The end of a round: p begins another one at the statement given, or returns.
Round(p, here, begin) ==
    /\ Goes(p, here, IF rounds[p] + 1 = END THEN "done" ELSE begin)
    /\ rounds' = [rounds EXCEPT ![p] = @ + 1]
    /\ UNCHANGED <<readcount, share, seen, increments>>

End(r) == Round(r, "end", "enter") /\ Signal("mutex")

-----------------------------------------------------------------------------
(* cmd_writer; share_bupt++ loads and stores. *)

\* Mutant: the writer does not wait.
ClaimAtOnce(w) == Goes(w, "claim", "load") /\ Plain /\ UNCHANGED memory

Claim(w) ==
    /\ Goes(w, "claim", "load")
    /\ Wait("wrt", w)
    /\ UNCHANGED memory

Load(w) ==
    /\ Goes(w, "load", "store")
    /\ seen' = [seen EXCEPT ![w] = share]
    /\ Plain /\ UNCHANGED <<readcount, share, rounds, increments>>

Store(w) ==
    /\ Goes(w, "store", "release")
    /\ share' = seen[w] + 1
    /\ increments' = increments + 1
    /\ Plain /\ UNCHANGED <<readcount, seen, rounds>>

Release(w) == Round(w, "release", "claim") /\ Signal("wrt")

-----------------------------------------------------------------------------
Reader(r) ==
    \/ Enter(r) \/ Count(r) \/ First(r) \/ Admit(r) \/ Read(r)
    \/ Leave(r) \/ Uncount(r) \/ Last(r) \/ End(r)
Writer(w) == Claim(w) \/ Load(w) \/ Store(w) \/ Release(w)

Next ==
    \/ \E r \in Readers : Reader(r)
    \/ \E w \in Writers : Writer(w)
    \/ \E p \in Process : Datum(p)

\* No fairness: what is said of the semaphores is what never happens.
Spec == Init /\ [][Next]_vars

-----------------------------------------------------------------------------
TypeOK ==
    /\ value \in [Semaphore -> Int]
    /\ first \in [Semaphore -> Process \cup {Nil}]
    /\ last \in [Semaphore -> Process \cup {Nil}]
    /\ next \in [Process -> Process \cup {Nil}]
    /\ readcount \in Int
    /\ share \in Nat
    /\ pc \in [Process -> {"enter", "count", "first", "admit", "read", "leave",
                           "uncount", "last", "end", "claim", "load", "store",
                           "release", "done"}]
    /\ awake \in [Process -> BOOLEAN]
    /\ seen \in [Process -> Nat]
    /\ rounds \in [Process -> 0 .. END]
    /\ fault \in {"none", "null", "gone"}
    /\ data \in 0 .. MaxData
    /\ queue \in [Semaphore -> Seq(Process)]
    /\ increments \in Nat
    /\ disturbed \in BOOLEAN
    /\ relinked \in BOOLEAN

\* The processes at the given statements, having passed the wait before it.
At(labels) == {p \in Process : pc[p] \in labels /\ awake[p]}

(* As long as nothing but its signal has ended a wait for a semaphore that *)
(* was held: while a writer is between its wait and its signal, no other   *)
(* writer and no reader accesses the share.                                *)
Exclusion ==
    ~ disturbed =>
        \A w \in At({"load", "store", "release"}) :
            At({"load", "store", "release", "read"}) = {w}

\* The pointers of a semaphore's list lead from the first to the last of q.
Spells(s, q) ==
    /\ q = <<>> => first[s] = Nil /\ last[s] = Nil
    /\ q # <<>> => /\ first[s] = q[1]
                   /\ last[s] = q[Len(q)]
                   /\ next[q[Len(q)]] = Nil
    /\ \A i \in 1 .. Len(q) - 1 : next[q[i]] = q[i + 1]

(* As long as no process has waited while it was on a list, although those *)
(* that a datum has let pass stay on it: the pointers lead through the     *)
(* processes in the order of their waits, there are as many as the value   *)
(* says, everyone that sleeps is among them, and signal always finds one.  *)
ListsAreQueues ==
    /\ TypeOK
    /\ ~ relinked =>
          /\ fault # "null"
          /\ \A s \in Semaphore :
                /\ Spells(s, queue[s])
                /\ Len(queue[s]) = IF value[s] < 0 THEN - value[s] ELSE 0
                /\ \A p \in Process : SleepsOn(p, s) =>
                      \E i \in 1 .. Len(queue[s]) : queue[s][i] = p

(* As long as nothing but its signal has ended a wait for a semaphore that *)
(* was held, no increment of the share is lost.                            *)
NoIncrementLost == ~ disturbed => share = increments

=============================================================================
