--------------------------- MODULE ProducerConsumer ---------------------------
(***************************************************************************)
(* console.c: a producer and a consumer, each in the task of its own       *)
(* console, that share a buffer under Peterson's algorithm.  entrance and  *)
(* exiting offer the same algorithm to applications.                       *)
(*                                                                         *)
(* A step is one access to a shared variable: a tick may give the CPU to   *)
(* the other console after each.  turn is not volatile, so that a loop may *)
(* read it from memory or keep the value that it has itself assigned; the  *)
(* build in the repository does the latter (console.lst).                  *)
(***************************************************************************)
EXTENDS Integers

CONSTANTS
    BUFFER_SIZE,
    Builds          \* where the loops read turn: "memory", "register"

ASSUME SizeAssumption == BUFFER_SIZE \in Nat \ {0}
ASSUME BuildsAssumption == Builds \subseteq {"memory", "register"}

Process == {"producer", "consumer"}
Other(p) == IF p = "producer" THEN "consumer" ELSE "producer"

\* Products are numbered modulo a value that tells any that coexist apart.
Product == 0 .. BUFFER_SIZE
Following(n) == (n + 1) % (BUFFER_SIZE + 1)

VARIABLES
    build,          \* where the loops of this build read turn
    flag,           \* flag[]
    turn,
    in,             \* the slot that is filled next
    out,            \* the slot that is emptied next
    counter,
    buffer,
    pc,             \* the next access of each process
    made,           \* the number of the next product
    taken           \* the product that the consumer has taken last

vars == <<build, flag, turn, in, out, counter, buffer, pc, made, taken>>

shared == <<build, flag, turn, in, out, counter, buffer>>

Slots == 0 .. BUFFER_SIZE - 1

\* turn is zero at first, which is the value of producer.
Init ==
    /\ build \in Builds
    /\ flag = [p \in Process |-> 0]
    /\ turn = "producer"
    /\ in = 0
    /\ out = 0
    /\ counter = 0
    /\ buffer = [i \in Slots |-> 0]
    /\ pc = [p \in Process |-> "test"]
    /\ made = 0
    /\ taken = BUFFER_SIZE

Goes(p, here, next) ==
    /\ pc[p] = here
    /\ pc' = [pc EXCEPT ![p] = next]

\* Mutant: the producer tests for a full buffer too late.
BlockedByOne(p) ==
    IF p = "producer" THEN counter = BUFFER_SIZE + 1 ELSE counter = 0

\* The condition of the outer loop, which is tested outside the lock.
Blocked(p) == IF p = "producer" THEN counter = BUFFER_SIZE ELSE counter = 0

Test(p) ==
    /\ Goes(p, "test", IF Blocked(p) THEN "test" ELSE "raise")
    /\ UNCHANGED <<shared, made, taken>>

\* entrance: flag[p] = 1 ...
Raise(p) ==
    /\ Goes(p, "raise", "yield")
    /\ flag' = [flag EXCEPT ![p] = 1]
    /\ UNCHANGED <<build, turn, in, out, counter, buffer, made, taken>>

\* Mutant: a process gives the turn to itself.
YieldToItself(p) ==
    /\ Goes(p, "yield", "look")
    /\ turn' = p
    /\ UNCHANGED <<build, flag, in, out, counter, buffer, made, taken>>

\* ... turn = the other ...
Yield(p) ==
    /\ Goes(p, "yield", "look")
    /\ turn' = Other(p)
    /\ UNCHANGED <<build, flag, in, out, counter, buffer, made, taken>>

\* ... and the two conditions of the loop, one after the other.
Look(p) ==
    /\ Goes(p, "look", IF flag[Other(p)] = 1 THEN "turn" ELSE "update")
    /\ UNCHANGED <<shared, made, taken>>

ReadTurn(p) ==
    /\ Goes(p, "turn", IF build = "memory" /\ turn # Other(p)
                       THEN "update" ELSE "look")
    /\ UNCHANGED <<shared, made, taken>>

\* buffer[in] = outcome
Fill ==
    /\ Goes("producer", "update", "advance")
    /\ buffer' = [buffer EXCEPT ![in] = made]
    /\ made' = Following(made)
    /\ UNCHANGED <<build, flag, turn, in, out, counter, taken>>

\* outcome = buffer[out]
Take ==
    /\ Goes("consumer", "update", "advance")
    /\ taken' = buffer[out]
    /\ UNCHANGED <<shared, made>>

AdvanceIn ==
    /\ Goes("producer", "advance", "count")
    /\ in' = (in + 1) % BUFFER_SIZE
    /\ UNCHANGED <<build, flag, turn, out, counter, buffer, made, taken>>

AdvanceOut ==
    /\ Goes("consumer", "advance", "count")
    /\ out' = (out + 1) % BUFFER_SIZE
    /\ UNCHANGED <<build, flag, turn, in, counter, buffer, made, taken>>

\* counter++ and counter--: one instruction each.
CountIn(p) ==
    /\ Goes(p, "count", "lower")
    /\ counter' = IF p = "producer" THEN counter + 1 ELSE counter - 1
    /\ UNCHANGED <<build, flag, turn, in, out, buffer, made, taken>>

\* Mutant: the flag stays up.
LowerNot(p) ==
    /\ Goes(p, "lower", "test")
    /\ UNCHANGED <<shared, made, taken>>

\* exiting: flag[p] = 0
Lower(p) ==
    /\ Goes(p, "lower", "test")
    /\ flag' = [flag EXCEPT ![p] = 0]
    /\ UNCHANGED <<build, turn, in, out, counter, buffer, made, taken>>

Step(p) ==
    \/ Test(p) \/ Raise(p) \/ Yield(p) \/ Look(p) \/ ReadTurn(p)
    \/ CountIn(p) \/ Lower(p)
    \/ p = "producer" /\ (Fill \/ AdvanceIn)
    \/ p = "consumer" /\ (Take \/ AdvanceOut)

Next == \E p \in Process : Step(p)

\* Neither loop sleeps, so that both consoles get the CPU again and again.
Spec ==
    /\ Init
    /\ [][Next]_vars
    /\ \A p \in Process : WF_vars(Step(p))

-----------------------------------------------------------------------------
TypeOK ==
    /\ build \in Builds
    /\ flag \in [Process -> 0 .. 1]
    /\ turn \in Process
    /\ in \in Slots /\ out \in Slots
    /\ counter \in 0 .. BUFFER_SIZE
    /\ buffer \in [Slots -> Product]
    /\ pc \in [Process -> {"test", "raise", "yield", "look", "turn", "update",
                           "advance", "count", "lower"}]
    /\ made \in Product /\ taken \in Product

Critical(p) == pc[p] \in {"update", "advance", "count", "lower"}

(* "peterson" (console.c:2609): the two processes are never both between   *)
(* the loop and the reset of the flag, however the loop reads turn.        *)
MutualExclusion == ~(Critical("producer") /\ Critical("consumer"))

(* Nothing is lost, repeated or overwritten, although both processes test  *)
(* counter outside the critical section: the consumer takes the products   *)
(* in the order in which they were made.                                   *)
TakenInOrder == [][Take => taken' = Following(taken)]_vars

(* A process that wants to enter the critical section enters it, as        *)
(* Peterson's algorithm guarantees (console.c:2609).                       *)
EntersEventually ==
    \A p \in Process : pc[p] = "raise" ~> Critical(p)

(* If the loops read turn from memory, every process that wants to enter   *)
(* the critical section enters it, and so products are made and taken      *)
(* without end.                                                            *)
EntersIfReadAgain == build = "memory" => EntersEventually

=============================================================================
