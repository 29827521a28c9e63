------------------------ MODULE ProducerConsumerProofs ------------------------
(***************************************************************************)
(* Mutual exclusion and order of the products, for every BUFFER_SIZE and   *)
(* both builds; and the same for the programs that two tasks run on shared *)
(* variables, with what sadd and shareadd add up, for every number of free *)
(* slots and every width of an int.                                        *)
(***************************************************************************)
EXTENDS SharedVars, WellFoundedInduction, FiniteSetTheorems, TLAPS

(* Peterson's part of the invariant. *)

Entered ==
    {"yield", "look", "turn", "update", "advance", "count", "lower"}

\* The flag of a process is up from entrance to exiting.
FlagsAreUp == \A p \in Process : flag[p] = IF pc[p] \in Entered THEN 1 ELSE 0

\* While one process is in the critical section the other one is not, and if
\* it is in the loop then the turn is not its own.
Holds == \A p \in Process :
    Critical(p) => /\ ~Critical(Other(p))
                   /\ pc[Other(p)] \in {"look", "turn"} => turn = p

-----------------------------------------------------------------------------
(* The part about the buffer. *)

\* From the test of counter to its update.
Passed == {"raise", "yield", "look", "turn", "update", "advance", "count"}

\* counter has room for the product of a producer that has passed its test,
\* and counts the product that a consumer which has passed its test expects.
CounterIsFresh ==
    /\ pc["producer"] \in Passed => counter < BUFFER_SIZE
    /\ pc["consumer"] \in Passed => counter > 0

\* Remainders without division, for arguments below twice the divisor.
At(i) == IF i < BUFFER_SIZE THEN i ELSE i - BUFFER_SIZE
Num(i) == IF i < BUFFER_SIZE + 1 THEN i ELSE i - (BUFFER_SIZE + 1)

\* The slots from out to in; those that hold products; the oldest product.
Number ==
    counter + (IF pc["producer"] = "count" THEN 1 ELSE 0)
            - (IF pc["consumer"] = "count" THEN 1 ELSE 0)
Written == Number + (IF pc["producer"] = "advance" THEN 1 ELSE 0)
Oldest == IF pc["consumer"] = "advance" THEN taken ELSE Num(taken + 1)

\* The buffer holds successive products, from the one to be taken next to
\* the one made last.
RingIsInOrder ==
    /\ in = At(out + Number)
    /\ made = Num(Oldest + Written)
    /\ \A k \in 0 .. Written - 1 : buffer[At(out + k)] = Num(Oldest + k)

IInv == TypeOK /\ FlagsAreUp /\ Holds /\ CounterIsFresh /\ RingIsInOrder

-----------------------------------------------------------------------------
LEMMA ModSlot ==
  ASSUME NEW i \in Slots
  PROVE  (i + 1) % BUFFER_SIZE = At(i + 1)
  BY SizeAssumption, SMT DEF Slots, At

LEMMA ModProduct ==
  ASSUME NEW n \in Product
  PROVE  Following(n) = Num(n + 1)
  BY SizeAssumption, SMT DEF Product, Following, Num

LEMMA InitIInv == Init => IInv
<1> SUFFICES ASSUME Init PROVE IInv
  OBVIOUS
<1> USE SizeAssumption, BuildsAssumption DEF Init
<1>1. TypeOK
  BY SMT DEF TypeOK, Process, Slots, Product
<1>2. FlagsAreUp /\ Holds
  BY DEF FlagsAreUp, Holds, Entered, Critical, Process, Other
<1>3. CounterIsFresh
  BY DEF CounterIsFresh, Passed, Process
<1>4. RingIsInOrder
  BY SMT DEF RingIsInOrder, Number, Written, Oldest, At, Num, Process
<1>5. QED
  BY <1>1, <1>2, <1>3, <1>4 DEF IInv

LEMMA StepType == IInv /\ [Next]_vars => TypeOK'
<1> SUFFICES ASSUME IInv, [Next]_vars PROVE TypeOK'
  OBVIOUS
<1> USE SizeAssumption DEF IInv, TypeOK, Process, Goes
<1>1. ASSUME NEW p \in Process, Step(p) PROVE TypeOK'
  <2>1. CASE Test(p) \/ Look(p) \/ ReadTurn(p)
    BY <2>1 DEF Test, Look, ReadTurn, shared
  <2>2. CASE Raise(p) \/ Lower(p)
    BY <2>2 DEF Raise, Lower
  <2>3. CASE Yield(p)
    BY <2>3 DEF Yield, Other
  <2>4. CASE CountIn(p)
    BY <2>4, SMT DEF CountIn, CounterIsFresh, Passed
  <2>5. CASE Fill
    BY <2>5, ModProduct, SMT DEF Fill, Product, Num
  <2>6. CASE Take
    BY <2>6, SMT DEF Take, Slots, shared
  <2>7. CASE AdvanceIn
    BY <2>7, ModSlot, SMT DEF AdvanceIn, Slots, At
  <2>8. CASE AdvanceOut
    BY <2>8, ModSlot, SMT DEF AdvanceOut, Slots, At
  <2>9. QED
    BY <1>1, <2>1, <2>2, <2>3, <2>4, <2>5, <2>6, <2>7, <2>8 DEF Step
<1>2. CASE UNCHANGED vars
  BY <1>2 DEF vars
<1>3. QED
  BY <1>1, <1>2 DEF Next

(* Peterson's algorithm, which needs neither the counter nor the buffer. *)
LEMMA StepLock == IInv /\ [Next]_vars => FlagsAreUp' /\ Holds'
<1> SUFFICES ASSUME IInv, [Next]_vars PROVE FlagsAreUp' /\ Holds'
  OBVIOUS
<1> USE DEF IInv, TypeOK, FlagsAreUp, Holds, Entered, Critical, Process,
            Other, Goes
<1>1. ASSUME NEW p \in Process, Step(p) PROVE FlagsAreUp' /\ Holds'
  <2>1. CASE Test(p)
    BY <2>1 DEF Test, shared
  <2>2. CASE Raise(p)
    BY <2>2 DEF Raise
  <2>3. CASE Yield(p)
    BY <2>3 DEF Yield
  <2>4. CASE Look(p)
    BY <2>4 DEF Look, shared
  <2>5. CASE ReadTurn(p)
    BY <2>5 DEF ReadTurn, shared
  <2>6. CASE CountIn(p)
    BY <2>6 DEF CountIn
  <2>7. CASE Lower(p)
    BY <2>7 DEF Lower
  <2>8. CASE Fill \/ Take
    BY <2>8 DEF Fill, Take, shared
  <2>9. CASE AdvanceIn \/ AdvanceOut
    BY <2>9 DEF AdvanceIn, AdvanceOut
  <2>10. QED
    BY <1>1, <2>1, <2>2, <2>3, <2>4, <2>5, <2>6, <2>7, <2>8, <2>9 DEF Step
<1>2. CASE UNCHANGED vars
  BY <1>2 DEF vars
<1>3. QED
  BY <1>1, <1>2 DEF Next

\* Each process tests counter outside the critical section, but the other
\* one can only make the answer more favourable.
LEMMA StepCounter == IInv /\ [Next]_vars => CounterIsFresh'
<1> SUFFICES ASSUME IInv, [Next]_vars PROVE CounterIsFresh'
  OBVIOUS
<1> USE SizeAssumption DEF IInv, TypeOK, CounterIsFresh, Passed, Process, Goes
<1>1. ASSUME NEW p \in Process, Step(p) PROVE CounterIsFresh'
  <2>1. CASE Test(p)
    BY <2>1, SMT DEF Test, Blocked, shared
  <2>2. CASE Raise(p) \/ Lower(p)
    BY <2>2 DEF Raise, Lower
  <2>3. CASE Yield(p) \/ Look(p) \/ ReadTurn(p)
    BY <2>3 DEF Yield, Look, ReadTurn, shared
  <2>4. CASE CountIn(p)
    <3>1. counter \in 0 .. BUFFER_SIZE /\ pc[p] = "count"
      BY <2>4 DEF CountIn
    <3>2. CASE p = "producer"
      <4>1. counter' = counter + 1 /\ pc'["producer"] = "lower"
        BY <2>4, <3>2 DEF CountIn
      <4>2. counter' > 0
        BY <3>1, <4>1, SMT
      <4>3. QED
        BY <4>1, <4>2
    <3>3. CASE p = "consumer"
      <4>1. counter' = counter - 1 /\ pc'["consumer"] = "lower"
        BY <2>4, <3>3 DEF CountIn
      <4>2. counter' < BUFFER_SIZE
        BY <3>1, <4>1, SMT
      <4>3. QED
        BY <4>1, <4>2
    <3>4. QED
      BY <3>2, <3>3
  <2>5. CASE Fill \/ Take
    BY <2>5 DEF Fill, Take, shared
  <2>6. CASE AdvanceIn \/ AdvanceOut
    BY <2>6 DEF AdvanceIn, AdvanceOut
  <2>7. QED
    BY <1>1, <2>1, <2>2, <2>3, <2>4, <2>5, <2>6 DEF Step
<1>2. CASE UNCHANGED vars
  BY <1>2 DEF vars
<1>3. QED
  BY <1>1, <1>2 DEF Next

-----------------------------------------------------------------------------
(* The buffer. *)

\* What the steps that touch neither the buffer nor its cursors need to keep.
RingFrame ==
    /\ UNCHANGED <<in, out, buffer, made, taken>>
    /\ UNCHANGED <<Number, Written, Oldest>>

LEMMA RingKept == RingIsInOrder /\ RingFrame => RingIsInOrder'
  BY DEF RingIsInOrder, RingFrame, At, Num

LEMMA NumberTypes ==
  ASSUME IInv
  PROVE  /\ Number \in 0 .. BUFFER_SIZE
         /\ Written \in 0 .. BUFFER_SIZE
         /\ Oldest \in Product
<1> USE SizeAssumption DEF IInv, TypeOK, Process, Product
<1>1. Number \in 0 .. BUFFER_SIZE
  BY SMT DEF Number, CounterIsFresh, Passed
<1>2. Written \in 0 .. BUFFER_SIZE
  BY SMT DEF Written, Number, CounterIsFresh, Passed
<1>3. Oldest \in Product
  BY SMT DEF Oldest, Num
<1>4. QED
  BY <1>1, <1>2, <1>3

\* The producer puts the next product behind those that are in the buffer.
LEMMA FillRing == ASSUME IInv, Fill PROVE RingIsInOrder'
<1> USE SizeAssumption DEF IInv, TypeOK, Process, Product, Slots
<1>1. /\ pc["producer"] = "update" /\ pc'["producer"] = "advance"
      /\ pc'["consumer"] = pc["consumer"]
      /\ UNCHANGED <<in, out, counter, taken>>
  BY DEF Fill, Goes
<1>2. /\ Number' = Number /\ Written = Number /\ Written' = Number + 1
      /\ Oldest' = Oldest
  BY <1>1, NumberTypes, SMT DEF Number, Written, Oldest, Num
<1>3. Number \in 0 .. BUFFER_SIZE - 1
  BY <1>1, SMT DEF Number, CounterIsFresh, Passed
<1>4. Oldest \in Product
  BY NumberTypes
<1>5. made' = Num(made + 1) /\ buffer' = [buffer EXCEPT ![in] = made]
  BY ModProduct DEF Fill
<1>6. in = At(out + Number) /\ made = Num(Oldest + Number)
  BY <1>2 DEF RingIsInOrder
<1>7. made' = Num(Oldest + (Number + 1))
  BY <1>3, <1>4, <1>5, <1>6, SMT DEF Num
<1>8. ASSUME NEW k \in 0 .. Number PROVE buffer'[At(out + k)] = Num(Oldest + k)
  <2>1. CASE k = Number
    BY <1>5, <1>6, <2>1
  <2>2. CASE k # Number
    <3>1. k \in 0 .. Written - 1
      BY <1>2, <1>3, <2>2, SMT
    <3>2. At(out + k) # in /\ At(out + k) \in Slots
      BY <1>3, <1>6, <2>2, SMT DEF At
    <3>3. buffer'[At(out + k)] = buffer[At(out + k)]
      BY <1>5, <3>2
    <3>4. QED
      BY <3>1, <3>3 DEF RingIsInOrder
  <2>3. QED
    BY <2>1, <2>2
<1>9. 0 .. Written' - 1 = 0 .. Number
  BY <1>2, <1>3, SMT
<1>10. in' = At(out' + Number')
  BY <1>1, <1>2, <1>6
<1>11. made' = Num(Oldest' + Written')
  BY <1>2, <1>7
<1>12. \A k \in 0 .. Written' - 1 : buffer'[At(out' + k)] = Num(Oldest' + k)
  BY <1>1, <1>2, <1>8, <1>9
<1>13. QED
  BY <1>10, <1>11, <1>12 DEF RingIsInOrder, At, Num

\* The consumer takes the oldest product.
LEMMA TakeOldest ==
  ASSUME IInv, Take
  PROVE  taken' = Following(taken) /\ RingIsInOrder'
<1> USE SizeAssumption DEF IInv, TypeOK, Process, Product, Slots
<1>1. /\ pc["consumer"] = "update" /\ pc'["consumer"] = "advance"
      /\ pc'["producer"] = pc["producer"]
      /\ taken' = buffer[out]
      /\ UNCHANGED <<in, out, counter, buffer, made>>
  BY DEF Take, Goes, shared
<1>2. counter > 0 /\ Written - 1 \in Nat /\ Oldest = Num(taken + 1)
  BY <1>1, SMT DEF CounterIsFresh, Passed, Written, Number, Oldest, Holds,
                   Critical, Other
<1>3. Num(taken + 1) \in Product
  BY SMT DEF Num
<1>4. At(out + 0) = out /\ Num(Oldest + 0) = Oldest
  BY <1>2, <1>3, SMT DEF At, Num
<1>5. taken' = Oldest
  <2>1. 0 \in 0 .. Written - 1
    BY <1>2, SMT
  <2>2. QED
    BY <1>1, <1>4, <2>1 DEF RingIsInOrder
<1>6. Oldest' = Oldest /\ Number' = Number /\ Written' = Written
  BY <1>1, <1>5 DEF Oldest, Number, Written
<1>7. RingIsInOrder'
  BY <1>1, <1>6 DEF RingIsInOrder, At, Num
<1>8. QED
  BY <1>2, <1>5, <1>7, ModProduct

LEMMA AdvanceInRing == ASSUME IInv, AdvanceIn PROVE RingIsInOrder'
<1> USE SizeAssumption DEF IInv, TypeOK, Process, Product, Slots
<1>1. /\ pc["producer"] = "advance" /\ pc'["producer"] = "count"
      /\ pc'["consumer"] = pc["consumer"]
      /\ in' = At(in + 1)
      /\ UNCHANGED <<out, counter, buffer, made, taken>>
  BY ModSlot DEF AdvanceIn, Goes
<1>2. /\ Number' = Number + 1 /\ Written' = Written /\ Oldest' = Oldest
      /\ Number \in 0 .. BUFFER_SIZE - 1
  BY <1>1, SMT DEF Number, Written, Oldest, Num, CounterIsFresh, Passed
<1>3. in' = At(out' + Number')
  BY <1>1, <1>2, SMT DEF RingIsInOrder, At
<1>4. QED
  BY <1>1, <1>2, <1>3 DEF RingIsInOrder, At, Num

LEMMA AdvanceOutRing == ASSUME IInv, AdvanceOut PROVE RingIsInOrder'
<1> USE SizeAssumption DEF IInv, TypeOK, Process, Product, Slots
<1>1. /\ pc["consumer"] = "advance" /\ pc'["consumer"] = "count"
      /\ pc'["producer"] = pc["producer"]
      /\ out' = At(out + 1)
      /\ UNCHANGED <<in, counter, buffer, made, taken>>
  BY ModSlot DEF AdvanceOut, Goes
<1>2. pc["producer"] # "advance" /\ pc["producer"] # "count" /\ counter > 0
  BY <1>1 DEF Holds, Critical, Other, CounterIsFresh, Passed
<1>3. /\ Number = counter /\ Number' = counter - 1
      /\ Written = counter /\ Written' = counter - 1
      /\ Oldest = taken /\ Oldest' = Num(taken + 1)
  BY <1>1, <1>2, SMT DEF Number, Written, Oldest, Num
<1>4. in' = At(out' + Number')
  BY <1>1, <1>2, <1>3, SMT DEF RingIsInOrder, At
<1>5. made' = Num(Oldest' + Written')
  BY <1>1, <1>2, <1>3, SMT DEF RingIsInOrder, Num
<1>6. ASSUME NEW k \in 0 .. counter - 2
      PROVE  buffer'[At(out' + k)] = Num(Oldest' + k)
  <2>1. k + 1 \in 0 .. Written - 1
    BY <1>2, <1>3, SMT
  <2>2. buffer[At(out + (k + 1))] = Num(taken + (k + 1))
    BY <1>3, <2>1 DEF RingIsInOrder
  <2>3. At(out' + k) = At(out + (k + 1)) /\ Num(Oldest' + k) = Num(taken + (k + 1))
    BY <1>1, <1>2, <1>3, SMT DEF At, Num
  <2>4. QED
    BY <1>1, <2>2, <2>3
<1>7. 0 .. Written' - 1 = 0 .. counter - 2
  BY <1>2, <1>3, SMT
<1>8. \A k \in 0 .. Written' - 1 : buffer'[At(out' + k)] = Num(Oldest' + k)
  BY <1>6, <1>7
<1>9. QED
  BY <1>4, <1>5, <1>8 DEF RingIsInOrder, At, Num

LEMMA CountRing ==
  ASSUME IInv, NEW p \in Process, CountIn(p)
  PROVE  RingIsInOrder'
<1> USE DEF IInv, TypeOK, Process, Goes
<1>1. UNCHANGED <<in, out, buffer, made, taken>>
  BY DEF CountIn
<1>2. UNCHANGED Number
  <2>1. CASE p = "producer"
    BY <2>1, SMT DEF CountIn, Number, Holds, Critical, Other
  <2>2. CASE p = "consumer"
    BY <2>2, SMT DEF CountIn, Number, Holds, Critical, Other
  <2>3. QED
    BY <2>1, <2>2
<1>3. UNCHANGED <<Written, Oldest>>
  BY <1>1, <1>2 DEF CountIn, Written, Oldest, Num
<1>4. QED
  BY <1>1, <1>2, <1>3, RingKept DEF RingFrame

LEMMA StepRing == IInv /\ [Next]_vars => RingIsInOrder'
<1> SUFFICES ASSUME IInv, [Next]_vars PROVE RingIsInOrder'
  OBVIOUS
<1> USE DEF IInv
<1>1. ASSUME NEW p \in Process, Step(p) PROVE RingIsInOrder'
  <2> USE DEF TypeOK, Process, Goes, RingFrame, Number, Written, Oldest
  <2>1. CASE Test(p)
    BY <2>1, RingKept DEF Test, shared, Num
  <2>2. CASE Raise(p) \/ Lower(p)
    BY <2>2, RingKept DEF Raise, Lower, Num
  <2>3. CASE Yield(p) \/ Look(p) \/ ReadTurn(p)
    BY <2>3, RingKept DEF Yield, Look, ReadTurn, shared, Num
  <2>4. CASE CountIn(p)
    BY <2>4, CountRing
  <2>5. CASE Fill \/ Take
    BY <2>5, FillRing, TakeOldest
  <2>6. CASE AdvanceIn \/ AdvanceOut
    BY <2>6, AdvanceInRing, AdvanceOutRing
  <2>7. QED
    BY <1>1, <2>1, <2>2, <2>3, <2>4, <2>5, <2>6 DEF Step
<1>2. CASE UNCHANGED vars
  BY <1>2, RingKept DEF vars, RingFrame, Number, Written, Oldest, Num
<1>3. QED
  BY <1>1, <1>2 DEF Next

LEMMA StepIInv == IInv /\ [Next]_vars => IInv'
  BY StepType, StepLock, StepCounter, StepRing DEF IInv

(* Never are both processes in the critical section, and the fields stay   *)
(* in range, for every size of the buffer and both ways of reading turn.   *)
THEOREM Invariance == Spec => [](TypeOK /\ MutualExclusion)
<1>1. IInv => TypeOK /\ MutualExclusion
  BY DEF IInv, Holds, MutualExclusion, Process, Other
<1>2. QED
  BY InitIInv, StepIInv, <1>1, PTL DEF Spec

(* The consumer takes the products in the order in which they were made,   *)
(* none twice and none left out, for every size of the buffer.             *)
THEOREM Order == Spec => TakenInOrder
<1>1. IInv /\ [Next]_vars => [Take => taken' = Following(taken)]_vars
  BY TakeOldest
<1>2. QED
  BY InitIInv, StepIInv, <1>1, PTL DEF Spec, TakenInOrder
-----------------------------------------------------------------------------
(* The programs on shared variables.  Each part holds as long as no        *)
(* variable was used while it was created, which is what lost says.        *)

Places(d) ==
    CASE d = "applications" -> Making \cup (Entered \ {"advance"}) \cup {"find", "test", "raise"}
      [] d = "sadd" -> Making \cup {"find", "test", "reset", "snum", "enter", "await", "lock",
                                    "temp", "num", "add", "x", "unlock", "depart", "departed"}
      [] d = "shareadd" -> {"test", "reset", "enter", "await", "temp", "add", "x", "depart"}

Todos(d) == CASE d = "applications" -> {<<>>, <<"buffer">>, <<"counter", "buffer">>}
              [] d = "sadd" -> {<<>>, <<"snum">>, <<"svar", "snum">>}
              [] d = "shareadd" -> {<<>>}

\* The slot of p is taken and not yet complete.
Owns(p) == pc[p] \in Making \ {"claim"}

PlacePart ==
    /\ flag \in [Process -> 0 .. 1] /\ turn \in Process /\ build \in Builds
    /\ in \in Slots /\ out \in Slots /\ made \in Product /\ taken \in Word
    /\ pc \in [Process -> Places(demo)] /\ todo \in [Process -> Todos(demo)]
    /\ \A p \in Process :
          /\ todo[p] # <<>> => pc[p] \in Making \cup {"test", "find"}
          /\ pc[p] \in Making \cup {"find"} => todo[p] # <<>>

Flagged(s) == var[s].flag = 1
Owned(s) == \E p \in Process : Owns(p) /\ slot[p] = s
Complete(s, n) ==
    /\ name[s] = n
    /\ var[s].length = LengthOf(n)
    /\ var[s].content \in [1 .. LengthOf(n) -> Word]

\* How far p has come with its slot.
Filling(p) ==
    /\ pc[p] = "claim" => /\ ~ Flagged(slot[p])
                          /\ \A t \in Slot : t < slot[p] => Flagged(t)
    /\ Owns(p) => /\ Flagged(slot[p])
                  /\ \A t \in Slot : t > slot[p] => ~ Flagged(t)
    /\ pc[p] = "name" => name[slot[p]] = "none"
    /\ pc[p] \in {"length", "content", "clear"} => name[slot[p]] = Head(todo[p])
    /\ pc[p] \in {"content", "clear"} => var[slot[p]].length = LengthOf(Head(todo[p]))
    /\ pc[p] = "clear" => Complete(slot[p], Head(todo[p]))

\* The slots are taken from the first on, and those that nobody is filling
\* have all that belongs to a variable.
TablePart ==
    /\ ~ Overlap
    /\ \A s \in Slot : \A t \in Slot : t < s /\ Flagged(s) => Flagged(t)
    /\ \A s \in Slot : ~ Flagged(s) => name[s] = "none"
    /\ \A s \in Slot : Flagged(s) /\ ~ Owned(s) => \E n \in Names : Complete(s, n)
    /\ \A p \in Process : Filling(p)

\* The first slot is that of the first variable.
FirstPart ==
    /\ Flagged(1) => \/ name[1] = Head(Wanted(demo))
                     \/ \E p \in Process : pc[p] = "name" /\ slot[p] = 1
    /\ \A p \in Process :
          /\ slot[p] = 1 /\ pc[p] \in {"claim", "name"} => todo[p] = Wanted(demo)
          /\ todo[p] # Wanted(demo) => Flagged(1)

Running == \E p \in Process : todo[p] = <<>>
Value(s) == var[s].content[1]

\* The counter stays in its range, and so does what a program has read of it.
Polled == {"raise", "yield", "look", "turn", "update", "count"}
RangePart ==
    /\ Flagged(1) /\ ~ Owned(1) =>
          /\ Value(1) \in 0 .. BUFFER_SIZE
          /\ ~ Running => Value(1) = 0
    /\ pc["producer"] \in Polled => local["producer"].num \in 0 .. BUFFER_SIZE - 1
    /\ pc["consumer"] \in Polled => local["consumer"].num \in 1 .. BUFFER_SIZE

\* Who has entered its number in snum; nobody departs.
Past(p) == pc[p] \in {"await", "lock", "temp", "num", "add", "x", "unlock"}
One(b) == IF b THEN 1 ELSE 0
Behind == {"lock", "temp", "num", "add", "x", "unlock"}
Adds(p) ==
    /\ pc[p] \notin {"depart", "departed"}
    /\ pc[p] = "enter" => local[p].num <= 1 + One(Past(Other(p)))
    /\ pc[p] \in Behind => Past(Other(p))
    /\ pc[p] = "num" => local[p].temp = Value(1)
    /\ pc[p] = "add" => /\ local[p].temp = Value(1)
                        /\ local[p].num = (Value(1) + 1) % W
    /\ pc[p] = "x" => Value(1) = (local[p].temp + 1) % W
    /\ pc[p] = "unlock" => local[p].num = (local[p].temp + 1) % W
SumPart ==
    /\ \A p \in Process : Adds(p)
    /\ \A s \in Slot : Named("snum") # {} /\ s = Min(Named("snum")) /\ ~ Owned(s) =>
          Value(s) <= One(Past("producer")) + One(Past("consumer"))

LockPart ==
    /\ ~ (Locked("producer") /\ Locked("consumer"))
    /\ lock = 1 <=> \E p \in Process : Locked(p)
AddPart == sharenum = One(Adding("producer")) + One(Adding("consumer"))

\* The same ring as above, in the content of the two variables.
Claims(p) == (IF todo[p] = <<>> THEN 2 ELSE IF todo[p] = <<"buffer">> THEN 1 ELSE 0)
                + One(Owns(p))
Count == IF Flagged(1) /\ ~ Owned(1) THEN Value(1) ELSE 0
Held(k) == var[Min(Named("buffer"))].content[k + 1]
Stored == Count + One(pc["producer"] = "count") - One(pc["consumer"] = "count")
SpareSlots ==
    /\ \A s \in Slot : Flagged(s) => s <= Claims("producer") + Claims("consumer")
    /\ \A p \in Process : todo[p] = <<>> => Named("buffer") # {}
CountIsFresh ==
    /\ pc["producer"] \in Polled => Count < BUFFER_SIZE
    /\ pc["consumer"] \in Polled => Count > 0
RingPart ==
    /\ taken \in Product
    /\ in = At(out + Stored)
    /\ made = Num(Num(taken + 1) + Stored)
    /\ \A k \in 0 .. Stored - 1 : Held(At(out + k)) = Num(Num(taken + 1) + k)
OrderPart == SpareSlots /\ CountIsFresh /\ RingPart

DemoIInv ==
    /\ SvTypeOK
    /\ demo = "commands" => IInv
    /\ demo # "commands" => PlacePart /\ FlagsAreUp /\ Holds
    /\ demo \in {"applications", "sadd"} /\ lost # "all" => TablePart /\ FirstPart
    /\ demo = "applications" /\ lost # "all" => RangePart
    /\ demo = "applications" /\ lost = "no" /\ VAR_MAX_NUM > 2 => OrderPart
    /\ demo = "sadd" /\ lost # "all" => SumPart
    /\ demo = "sadd" => LockPart
    /\ demo = "shareadd" => AddPart

-----------------------------------------------------------------------------
(* Numbers and lists. *)

\* Every non-empty set of slots has a first one.
LEMMA Lowest ==
  ASSUME NEW T, T \subseteq Slot, T # {}
  PROVE  Min(T) \in T /\ \A y \in T : Min(T) <= y
<1>1. DEFINE R == {ss \in Nat \X Nat : ss[1] < ss[2]}
<1>2. IsWellFoundedOn(R, Nat)
  BY NatLessThanWellFounded, Zenon DEF OpToRel
<1>3. HIDE DEF R
<1>4. T \subseteq Nat
  BY SMT DEF Slot
<1>5. PICK x \in T : \A y \in T : ~ (<<y, x>> \in R)
  BY <1>2, <1>4, WFMin
<1>6. ASSUME NEW y \in T PROVE x <= y
  <2>1. x \in Nat /\ y \in Nat /\ ~ (<<y, x>> \in R)
    BY <1>4, <1>5
  <2>2. ~ (y < x)
    BY <2>1 DEF R
  <2>3. QED
    BY <2>1, <2>2, SMT
<1>7. QED
  BY <1>6 DEF Min

\* A word is taken modulo W.
LEMMA Remainders ==
  /\ W \in Nat /\ W >= 3 /\ BUFFER_SIZE + 1 \in Word
  /\ \A x \in Int : x % W \in Word
  /\ \A x \in Word : x % W = x
  /\ \A x \in Int : W <= x /\ x < 2 * W => x % W = x - W
<1>1. W \in Nat /\ W >= 3 /\ BUFFER_SIZE + 1 \in Word
  BY WordAssumption, SizeAssumption, SMT DEF Word
<1>2. \A x \in Int : x % W \in Word
  BY <1>1, SMT DEF Word
<1>3. \A x \in Word : x % W = x
  BY <1>1, SMT DEF Word
<1>4. ASSUME NEW x \in Int, W <= x, x < 2 * W PROVE x % W = x - W
  BY <1>1, <1>4, SMT
<1>5. QED
  BY <1>1, <1>2, <1>3, <1>4

LEMMA WordIs == W \in Nat /\ W >= 3 /\ 0 \in Word /\ 1 \in Word /\ 1 \in Nat /\ 0 \in Nat
  BY WordAssumption, SizeAssumption, SMT DEF Word

LEMMA Both ==
  /\ "producer" \in Process /\ "consumer" \in Process
  /\ Other("producer") = "consumer" /\ Other("consumer") = "producer"
  /\ \A p \in Process :
        /\ Other(p) \in Process /\ Other(p) # p /\ Other(Other(p)) = p
        /\ \A q \in Process : q = p \/ q = Other(p)
  BY DEF Process, Other

\* The list of the variables that a program still has to create.
LEMMA Todo ==
  ASSUME NEW d \in {"applications", "sadd"}, NEW l \in Todos(d), l # <<>>
  PROVE  /\ Head(l) \in Names
         /\ Tail(l) \in Todos(d) /\ Tail(l) # Wanted(d)
         /\ l = Wanted(d) => Tail(l) # <<>>
         /\ l # Wanted(d) => Tail(l) = <<>> /\ Head(l) # Head(Wanted(d))
         /\ Wanted(d) \in Todos(d) /\ Wanted(d) # <<>> /\ Head(Wanted(d)) \in Names
<1>1. /\ Head(<<"counter", "buffer">>) = "counter" /\ Tail(<<"counter", "buffer">>) = <<"buffer">>
      /\ Head(<<"buffer">>) = "buffer" /\ Tail(<<"buffer">>) = <<>>
      /\ Head(<<"svar", "snum">>) = "svar" /\ Tail(<<"svar", "snum">>) = <<"snum">>
      /\ Head(<<"snum">>) = "snum" /\ Tail(<<"snum">>) = <<>>
  BY SMT
<1>2. /\ <<"counter", "buffer">> # <<"buffer">> /\ <<"counter", "buffer">> # <<>>
      /\ <<"buffer">> # <<>>
      /\ <<"svar", "snum">> # <<"snum">> /\ <<"svar", "snum">> # <<>> /\ <<"snum">> # <<>>
  BY SMT
<1>3. CASE d = "applications"
  BY <1>1, <1>2, <1>3 DEF Todos, Wanted, Names
<1>4. CASE d = "sadd"
  BY <1>1, <1>2, <1>4 DEF Todos, Wanted, Names
<1>5. QED
  BY <1>3, <1>4

-----------------------------------------------------------------------------
(* var_read and var_wrt. *)

Contents == {Dangling} \cup [{1} -> Word] \cup [1 .. BUFFER_SIZE -> Word]
Cell == [flag : 0 .. 1, length : {0, 1, BUFFER_SIZE}, content : Contents]

LEMMA Cells ==
  /\ SvTypeOK => var \in [Slot -> Cell]
  /\ Slot \subseteq Nat \ {0} /\ 1 \in Slot /\ Garbage \subseteq Word
  /\ \A n \in Names : LengthOf(n) \in {1, BUFFER_SIZE} /\ LengthOf(n) \in Nat \ {0}
  /\ \A c \in Contents : \A i \in DOMAIN c : c[i] \in Word
  /\ \A c \in Contents : \A i \in DOMAIN c : \A v \in Word : [c EXCEPT ![i] = v] \in Contents
  /\ \A n \in Names : [1 .. LengthOf(n) -> Word] \subseteq Contents
  /\ \A n \in Names : \A c \in [1 .. LengthOf(n) -> Word] : \A i : \A v \in Word :
        [c EXCEPT ![i] = v] \in [1 .. LengthOf(n) -> Word]
<1>1. SvTypeOK => var \in [Slot -> Cell]
  BY DEF SvTypeOK, Cell, Contents
<1>2. Slot \subseteq Nat \ {0} /\ 1 \in Slot
  BY WordAssumption, SMT DEF Slot
<1>3. Garbage \subseteq Word
  BY Remainders, SMT DEF Garbage, Word
<1>4. \A n \in Names : LengthOf(n) \in {1, BUFFER_SIZE} /\ LengthOf(n) \in Nat \ {0}
  BY SizeAssumption DEF LengthOf
<1>5. ASSUME NEW c \in Contents, NEW i \in DOMAIN c
      PROVE  c[i] \in Word /\ \A v \in Word : [c EXCEPT ![i] = v] \in Contents
  <2>1. c # Dangling
    <3>1. DOMAIN Dangling = {}
      BY SMT DEF Dangling
    <3>2. QED
      BY <1>5, <3>1
  <2>2. CASE c \in [{1} -> Word]
    BY <1>5, <2>2 DEF Contents
  <2>3. CASE c \in [1 .. BUFFER_SIZE -> Word]
    BY <1>5, <2>3 DEF Contents
  <2>4. QED
    BY <1>5, <2>1, <2>2, <2>3 DEF Contents
<1>6. \A n \in Names : [1 .. LengthOf(n) -> Word] \subseteq Contents
  <2>1. 1 .. 1 = {1}
    BY SMT
  <2>2. QED
    BY <1>4, <2>1 DEF Contents
<1>7. QED
  BY <1>1, <1>2, <1>3, <1>4, <1>5, <1>6

LEMMA ReadTyped ==
  ASSUME SvTypeOK, NEW n \in Names, NEW i \in Nat
  PROVE  VarRead(n, i) \subseteq Word
<1>1. DEFINE found == {s \in Named(n) : i <= var[s].length}
<1>2. CASE found = {}
  BY <1>2, Remainders, SMT DEF VarRead, Word
<1>3. CASE found # {}
  <2>1. found \subseteq Slot
    BY DEF Named
  <2>2. Min(found) \in Slot
    BY <1>3, <2>1, Lowest
  <2>3. var[Min(found)].content \in Contents
    BY <2>2, Cells DEF Cell
  <2>4. i \in DOMAIN var[Min(found)].content => var[Min(found)].content[i] \in Word
    BY <2>3, Cells
  <2>5. QED
    BY <1>3, <2>4, Cells DEF VarRead
<1>4. QED
  BY <1>2, <1>3

LEMMA ReadNone == \A n, i : Named(n) = {} => VarRead(n, i) = {0}
  BY DEF VarRead

\* Once all variables are complete, the first of the name is read.
LEMMA ReadFirst ==
  ASSUME SvTypeOK, NEW n \in Names, NEW i \in 1 .. LengthOf(n), Named(n) # {},
         \A s \in Slot : Flagged(s) => \E m \in Names : Complete(s, m)
  PROVE  /\ Min(Named(n)) \in Slot /\ Complete(Min(Named(n)), n)
         /\ VarRead(n, i) = {var[Min(Named(n))].content[i]}
<1>1. \A s \in Named(n) : s \in Slot /\ Complete(s, n)
  BY DEF Named, Flagged, Complete
<1>2. i \in Nat /\ i <= LengthOf(n)
  BY Cells, SMT
<1>3. {s \in Named(n) : i <= var[s].length} = Named(n)
  BY <1>1, <1>2 DEF Complete
<1>4. Min(Named(n)) \in Named(n)
  BY <1>1, Lowest
<1>5. i \in DOMAIN var[Min(Named(n))].content
  BY <1>1, <1>4 DEF Complete
<1>6. QED
  BY <1>1, <1>3, <1>4, <1>5 DEF VarRead

\* A call of var_wrt changes at most one value.
LEMMA Written1 ==
  ASSUME SvTypeOK, NEW n \in Names, NEW i \in Nat, NEW v \in Word
  PROVE  LET w == VarWritten(n, i, v)
         IN  /\ w \in [Slot -> Cell]
             /\ \A s \in Slot : w[s].flag = var[s].flag /\ w[s].length = var[s].length
             /\ \A s \in Slot : \A m \in Names :
                   var[s].content \in [1 .. LengthOf(m) -> Word] =>
                      w[s].content \in [1 .. LengthOf(m) -> Word]
             /\ \A s \in Slot : s \notin Named(n) \/ s # Min(Named(n)) => w[s] = var[s]
<1>1. var \in [Slot -> Cell]
  BY Cells
<1>2. DEFINE s == Min(Named(n))
<1>3. CASE Named(n) = {} \/ i > var[s].length \/ i \notin DOMAIN var[s].content
  <2>1. VarWritten(n, i, v) = var
    BY <1>3 DEF VarWritten
  <2>2. QED
    BY <1>1, <2>1
<1>4. CASE ~ (Named(n) = {} \/ i > var[s].length \/ i \notin DOMAIN var[s].content)
  <2>1. VarWritten(n, i, v) = [var EXCEPT ![s].content[i] = v]
    BY <1>4 DEF VarWritten
  <2>2. s \in Named(n) /\ s \in Slot
    BY <1>4, Lowest DEF Named
  <2>3. DEFINE c == [var[s].content EXCEPT ![i] = v]
  <2>4. c \in Contents
    BY <1>1, <1>4, <2>2, Cells DEF Cell
  <2>5. \A m \in Names : var[s].content \in [1 .. LengthOf(m) -> Word] =>
                            c \in [1 .. LengthOf(m) -> Word]
    BY Cells
  <2>6. VarWritten(n, i, v) = [var EXCEPT ![s] = [var[s] EXCEPT !.content = c]]
    BY <1>1, <2>1, <2>2
  <2>7. HIDE DEF s, c
  <2>8. DEFINE w == VarWritten(n, i, v)
  <2>9. \A t \in Slot : w[t] = IF t = s THEN [var[s] EXCEPT !.content = c] ELSE var[t]
    BY <1>1, <2>2, <2>6
  <2>10. /\ [var[s] EXCEPT !.content = c] \in Cell
         /\ [var[s] EXCEPT !.content = c].flag = var[s].flag
         /\ [var[s] EXCEPT !.content = c].length = var[s].length
         /\ [var[s] EXCEPT !.content = c].content = c
    BY <1>1, <2>2, <2>4 DEF Cell
  <2>11. w \in [Slot -> Cell]
    BY <1>1, <2>2, <2>6, <2>10
  <2>12. HIDE DEF w
  <2>13. /\ \A t \in Slot : w[t].flag = var[t].flag /\ w[t].length = var[t].length
         /\ \A t \in Slot : \A m \in Names :
               var[t].content \in [1 .. LengthOf(m) -> Word] =>
                  w[t].content \in [1 .. LengthOf(m) -> Word]
         /\ \A t \in Slot : t # s => w[t] = var[t]
    BY <2>5, <2>9, <2>10
  <2>14. QED
    BY <2>2, <2>11, <2>13 DEF w, s
<1>5. QED
  BY <1>3, <1>4

\* ... the one that var_read returns.
LEMMA WrittenFirst ==
  ASSUME SvTypeOK, NEW n \in Names, NEW i \in 1 .. LengthOf(n), NEW v \in Word,
         Named(n) # {}, Complete(Min(Named(n)), n)
  PROVE  LET w == VarWritten(n, i, v)  s == Min(Named(n))
         IN  /\ w[s].content[i] = v
             /\ \A j \in 1 .. LengthOf(n) : j # i => w[s].content[j] = var[s].content[j]
<1>1. DEFINE s == Min(Named(n))
<1>2. s \in Slot
  BY Lowest DEF Named
<1>3. var \in [Slot -> Cell] /\ i \in Nat /\ i <= LengthOf(n)
  BY Cells, SMT
<1>4. i \in DOMAIN var[s].content /\ ~ (i > var[s].length)
  BY <1>3, Cells, SMT DEF Complete
<1>5. VarWritten(n, i, v) = [var EXCEPT ![s].content[i] = v]
  BY <1>4 DEF VarWritten
<1>6. VarWritten(n, i, v)[s].content = [var[s].content EXCEPT ![i] = v]
  BY <1>2, <1>3, <1>5 DEF Cell
<1>7. var[s].content \in [1 .. LengthOf(n) -> Word]
  BY DEF Complete
<1>8. QED
  BY <1>6, <1>7

-----------------------------------------------------------------------------
(* The table of variables. *)

\* What a step has kept that left lost as it was.
LEMMA LostIs ==
  ASSUME SvTypeOK, LostAfter
  PROVE  /\ lost' \in {"no", "update", "all"}
         /\ lost' # "all" => lost # "all" /\ ~ Overlap'
         /\ lost' = "no" => lost = "no" /\ ~ Overlap' /\ ~ Stale
  BY DEF SvTypeOK, LostAfter

\* A step that changes no more than the values of variables.
Revalued ==
    /\ var' \in [Slot -> Cell]
    /\ \A s \in Slot : var'[s].flag = var[s].flag /\ var'[s].length = var[s].length
    /\ \A s \in Slot : \A m \in Names :
          var[s].content \in [1 .. LengthOf(m) -> Word] =>
             var'[s].content \in [1 .. LengthOf(m) -> Word]
    /\ UNCHANGED <<name, slot>>
    /\ \A r \in Process : pc[r] \in Making \/ pc'[r] \in Making =>
                             pc'[r] = pc[r] /\ todo'[r] = todo[r]

LEMMA RevaluedNames ==
  ASSUME Revalued
  PROVE  /\ \A s \in Slot : Flagged(s)' <=> Flagged(s)
         /\ \A s \in Slot : Owned(s)' <=> Owned(s)
         /\ \A n : Named(n)' = Named(n)
         /\ \A r \in Process : Owns(r)' <=> Owns(r)
         /\ \A s \in Slot : \A n \in Names : Complete(s, n) => Complete(s, n)'
<1>1. \A s \in Slot : Flagged(s)' <=> Flagged(s)
  BY DEF Revalued, Flagged
<1>2. \A r \in Process : Owns(r)' <=> Owns(r)
  BY DEF Revalued, Owns
<1>3. \A s \in Slot : Owned(s)' <=> Owned(s)
  BY <1>2 DEF Revalued, Owned
<1>4. \A n : Named(n)' = Named(n)
  BY <1>1 DEF Revalued, Named, Flagged
<1>5. \A s \in Slot : \A n \in Names : Complete(s, n) => Complete(s, n)'
  BY DEF Revalued, Complete
<1>6. QED
  BY <1>1, <1>2, <1>3, <1>4, <1>5

LEMMA RevaluedTable ==
  ASSUME PlacePart, SvTypeOK, demo \in {"applications", "sadd"},
         TablePart, Revalued, ~ Overlap'
  PROVE  TablePart'
<1>1. /\ \A s \in Slot : Flagged(s)' <=> Flagged(s)
      /\ \A s \in Slot : Owned(s)' <=> Owned(s)
      /\ \A r \in Process : Owns(r)' <=> Owns(r)
      /\ \A s \in Slot : \A n \in Names : Complete(s, n) => Complete(s, n)'
      /\ UNCHANGED <<name, slot>>
  BY RevaluedNames DEF Revalued
<1>2. /\ \A s \in Slot : \A t \in Slot : t < s /\ Flagged(s)' => Flagged(t)'
      /\ \A s \in Slot : ~ Flagged(s)' => name'[s] = "none"
      /\ \A s \in Slot : Flagged(s)' /\ ~ Owned(s)' => \E n \in Names : Complete(s, n)'
  BY <1>1 DEF TablePart
<1>3. \A r \in Process : slot[r] \in Slot /\ slot'[r] = slot[r]
  BY <1>1 DEF SvTypeOK
<1>4. ASSUME NEW r \in Process PROVE Filling(r)'
  <2>1. CASE pc'[r] \notin Making
    BY <2>1 DEF Filling, Making, Owns
  <2>2. CASE pc'[r] \in Making
    <3>1. pc'[r] = pc[r] /\ todo'[r] = todo[r] /\ Head(todo[r]) \in Names
      <4>1. pc'[r] = pc[r] /\ todo'[r] = todo[r] /\ pc[r] \in Making
        BY <2>2 DEF Revalued
      <4>2. Head(todo[r]) \in Names
        BY <4>1, Todo DEF PlacePart
      <4>3. QED
        BY <4>1, <4>2
    <3>2. var'[slot[r]].length = var[slot[r]].length
      BY <1>3 DEF Revalued
    <3>3. Filling(r)
      BY DEF TablePart
    <3>4. /\ pc[r] = "claim" => /\ ~ Flagged(slot[r])'
                                /\ \A t \in Slot : t < slot[r] => Flagged(t)'
          /\ Owns(r)' => /\ Flagged(slot[r])'
                         /\ \A t \in Slot : t > slot[r] => ~ Flagged(t)'
      BY <1>1, <1>3, <3>1, <3>3 DEF Filling
    <3>5. /\ pc[r] = "name" => name'[slot'[r]] = "none"
          /\ pc[r] \in {"length", "content", "clear"} => name'[slot'[r]] = Head(todo'[r])
          /\ pc[r] \in {"content", "clear"} => var'[slot'[r]].length = LengthOf(Head(todo'[r]))
      BY <1>1, <1>3, <3>1, <3>2, <3>3 DEF Filling
    <3>6. pc[r] = "clear" => Complete(slot[r], Head(todo[r]))'
      <4>1. DEFINE s == slot[r]  n == Head(todo[r])
      <4>2. s \in Slot /\ n \in Names /\ slot'[r] = s /\ Head(todo'[r]) = n
        BY <1>3, <3>1
      <4>3. pc[r] = "clear" => Complete(s, n)
        BY <3>3 DEF Filling
      <4>4. QED
        BY <4>2, <4>3 DEF Complete, Revalued
    <3>7. QED
      BY <3>1, <3>4, <3>5, <3>6, <1>3 DEF Filling
  <2>3. QED
    BY <2>1, <2>2
<1>5. QED
  BY <1>2, <1>4 DEF TablePart

-----------------------------------------------------------------------------
(* var_create. *)

LEMMA DoneIs ==
  ASSUME PlacePart, demo \in {"applications", "sadd"}, NEW p \in Process, Done(p),
         todo[p] # <<>>
  PROVE  /\ pc' = [pc EXCEPT ![p] = "test"] /\ pc' \in [Process -> Places(demo)]
         /\ todo' \in [Process -> Todos(demo)]
         /\ pc'[p] = "test" /\ todo'[p] = Tail(todo[p]) /\ todo'[p] # Wanted(demo)
         /\ \A q \in Process : q # p => pc'[q] = pc[q] /\ todo'[q] = todo[q]
<1>1. Tail(todo[p]) \in Todos(demo) /\ Tail(todo[p]) # Wanted(demo)
  BY Todo DEF PlacePart
<1>2. "test" \in Places(demo)
  BY DEF Places
<1>3. QED
  BY <1>1, <1>2 DEF Done, PlacePart

\* Where a program is before and after a step of var_create.
LEMMA CreateFrame ==
  ASSUME PlacePart, SvTypeOK, demo \in {"applications", "sadd"},
         NEW p \in Process, Create(p)
  PROVE  /\ todo[p] # <<>> /\ pc[p] \in Making \cup {"test", "find"}
         /\ pc' \in [Process -> Places(demo)] /\ pc'[p] \in Making \cup {"test", "find"}
         /\ todo' \in [Process -> Todos(demo)]
         /\ pc'[p] \in Making \cup {"find"} => todo'[p] # <<>>
         /\ \A q \in Process : q # p => pc'[q] = pc[q] /\ todo'[q] = todo[q]
         /\ \A q \in Process : q # p => slot'[q] = slot[q]
         /\ var' \in [Slot -> Cell] /\ name' \in [Slot -> Names \cup {"none"}]
         /\ slot' \in [Process -> Slot]
<1>1. /\ pc \in [Process -> Places(demo)] /\ todo \in [Process -> Todos(demo)]
      /\ var \in [Slot -> Cell] /\ name \in [Slot -> Names \cup {"none"}]
      /\ slot \in [Process -> Slot]
  BY Cells DEF PlacePart, SvTypeOK
<1>2. Making \cup {"test", "find"} \subseteq Places(demo)
  BY DEF Places, Making
<1>3. todo[p] # <<>> => Head(todo[p]) \in Names
  BY <1>1, Todo
<1>4. CASE Scan(p)
  <2>1. todo[p] # <<>> /\ pc[p] = "test" /\ UNCHANGED <<var, name, slot>>
    BY <1>4 DEF Scan
  <2>2. CASE Done(p)
    BY <1>1, <2>1, <2>2, DoneIs DEF Making
  <2>3. CASE Goes(p, "test", "find") /\ UNCHANGED todo
    BY <1>1, <1>2, <2>1, <2>3 DEF Goes, Making
  <2>4. QED
    BY <1>4, <2>2, <2>3 DEF Scan
<1>5. CASE Find(p)
  <2>1. todo[p] # <<>> /\ pc[p] = "find" /\ UNCHANGED <<var, name>>
    BY <1>5 DEF Find, PlacePart
  <2>2. CASE Done(p) /\ UNCHANGED slot
    BY <1>1, <2>1, <2>2, DoneIs DEF Making
  <2>3. CASE ~ (Done(p) /\ UNCHANGED slot)
    <3>1. DEFINE free == {s \in Slot : var[s].flag = 0}
    <3>2. /\ free # {} /\ Goes(p, "find", "claim") /\ UNCHANGED todo
          /\ slot' = [slot EXCEPT ![p] = Min(free)]
      BY <1>5, <2>3 DEF Find
    <3>3. Min(free) \in Slot
      BY <3>2, Lowest
    <3>4. QED
      BY <1>1, <1>2, <2>1, <3>2, <3>3 DEF Goes, Making
  <2>4. QED
    BY <2>2, <2>3
<1>6. CASE Claim(p)
  <2>1. /\ pc[p] = "claim" /\ pc' = [pc EXCEPT ![p] = "name"] /\ UNCHANGED <<name, todo, slot>>
        /\ var' = [var EXCEPT ![slot[p]].flag = 1]
    BY <1>6 DEF Claim, Goes
  <2>2. todo[p] # <<>>
    BY <2>1 DEF PlacePart, Making
  <2>6. [var[slot[p]] EXCEPT !.flag = 1] \in Cell
    <3>1. var[slot[p]] \in Cell
      BY <1>1
    <3>2. QED
      BY <3>1 DEF Cell
  <2>3. var' = [var EXCEPT ![slot[p]] = [var[slot[p]] EXCEPT !.flag = 1]]
    BY <1>1, <2>1
  <2>4. var' \in [Slot -> Cell]
    BY <1>1, <2>6, <2>3
  <2>5. QED
    BY <1>1, <1>2, <2>1, <2>2, <2>4 DEF Making
<1>7. CASE Name(p)
  <2>1. /\ pc[p] = "name" /\ pc' = [pc EXCEPT ![p] = "length"] /\ UNCHANGED <<var, todo, slot>>
        /\ name' = [name EXCEPT ![slot[p]] = Head(todo[p])]
    BY <1>7 DEF Name, Goes
  <2>2. todo[p] # <<>>
    BY <2>1 DEF PlacePart, Making
  <2>3. name' \in [Slot -> Names \cup {"none"}]
    BY <1>1, <1>3, <2>1, <2>2
  <2>4. QED
    BY <1>1, <1>2, <2>1, <2>2, <2>3 DEF Making
<1>8. CASE Length(p)
  <2>1. /\ pc[p] = "length" /\ pc' = [pc EXCEPT ![p] = "content"] /\ UNCHANGED <<name, todo, slot>>
        /\ var' = [var EXCEPT ![slot[p]].length = LengthOf(Head(todo[p]))]
    BY <1>8 DEF Length, Goes
  <2>2. todo[p] # <<>>
    BY <2>1 DEF PlacePart, Making
  <2>3. LengthOf(Head(todo[p])) \in {0, 1, BUFFER_SIZE}
    BY <1>3, <2>2, Cells
  <2>4. [var[slot[p]] EXCEPT !.length = LengthOf(Head(todo[p]))] \in Cell
    BY <1>1, <2>3 DEF Cell
  <2>5. var' = [var EXCEPT ![slot[p]] = [var[slot[p]] EXCEPT !.length = LengthOf(Head(todo[p]))]]
    BY <1>1, <2>1
  <2>6. var' \in [Slot -> Cell]
    BY <1>1, <2>4, <2>5
  <2>7. QED
    BY <1>1, <1>2, <2>1, <2>2, <2>6 DEF Making
<1>9. CASE Content(p)
  <2>1. /\ pc[p] = "content" /\ pc' = [pc EXCEPT ![p] = "clear"] /\ UNCHANGED <<name, todo, slot>>
    BY <1>9 DEF Content, Goes
  <2>2. PICK v \in Garbage :
           var' = [var EXCEPT ![slot[p]].content = [i \in 1 .. LengthOf(Head(todo[p])) |-> v]]
    BY <1>9 DEF Content
  <2>3. todo[p] # <<>>
    BY <2>1 DEF PlacePart, Making
  <2>4. DEFINE c == [i \in 1 .. LengthOf(Head(todo[p])) |-> v]
  <2>5. c \in [1 .. LengthOf(Head(todo[p])) -> Word]
    BY Cells
  <2>6. c \in Contents
    BY <1>3, <2>3, <2>5, Cells
  <2>7. HIDE DEF c
  <2>8. [var[slot[p]] EXCEPT !.content = c] \in Cell
    BY <1>1, <2>6 DEF Cell
  <2>9. var' = [var EXCEPT ![slot[p]] = [var[slot[p]] EXCEPT !.content = c]]
    BY <1>1, <2>2 DEF c
  <2>10. var' \in [Slot -> Cell]
    BY <1>1, <2>8, <2>9
  <2>11. QED
    BY <1>1, <1>2, <2>1, <2>3, <2>10 DEF Making
<1>10. CASE Clear(p)
  <2>1. pc[p] = "clear" /\ Done(p) /\ UNCHANGED <<name, slot>>
    BY <1>10 DEF Clear
  <2>2. todo[p] # <<>>
    BY <2>1 DEF PlacePart, Making
  <2>3. 1 \in Nat /\ 0 \in Word
    BY Remainders, SMT DEF Word
  <2>4. VarWritten(Head(todo[p]), 1, 0) \in [Slot -> Cell]
    BY <1>3, <2>2, <2>3, Written1
  <2>5. var' \in [Slot -> Cell]
    BY <1>1, <1>10, <2>4 DEF Clear
  <2>6. QED
    BY <1>1, <2>1, <2>2, <2>5, DoneIs DEF Making
<1>11. QED
  BY <1>4, <1>5, <1>6, <1>7, <1>8, <1>9, <1>10 DEF Create

LEMMA CreateTypes ==
  ASSUME PlacePart, SvTypeOK, FlagsAreUp, Holds, demo \in {"applications", "sadd"},
         NEW p \in Process, Create(p), LostAfter, UNCHANGED demo
  PROVE  /\ PlacePart' /\ SvTypeOK' /\ FlagsAreUp' /\ Holds'
         /\ demo = "sadd" /\ LockPart => LockPart'
<1>1. UNCHANGED <<build, flag, turn, in, out, made, taken, local, lock, share, sharenum, demo>>
  BY DEF Create
<1>2. /\ todo[p] # <<>> /\ pc[p] \in Making \cup {"test", "find"}
      /\ pc' \in [Process -> Places(demo)] /\ pc'[p] \in Making \cup {"test", "find"}
      /\ todo' \in [Process -> Todos(demo)]
      /\ pc'[p] \in Making \cup {"find"} => todo'[p] # <<>>
      /\ \A q \in Process : q # p => pc'[q] = pc[q] /\ todo'[q] = todo[q]
      /\ var' \in [Slot -> Cell] /\ name' \in [Slot -> Names \cup {"none"}]
      /\ slot' \in [Process -> Slot]
  BY CreateFrame
<1>3. lost' \in {"no", "update", "all"}
  BY LostIs
<1>4. SvTypeOK'
  BY <1>1, <1>2, <1>3 DEF SvTypeOK, Cell, Contents
<1>5. PlacePart'
  BY <1>1, <1>2 DEF PlacePart
<1>6. \A q \in Process : /\ pc'[q] \in Entered <=> pc[q] \in Entered
                         /\ Critical(q)' <=> Critical(q)
                         /\ pc'[q] \in {"look", "turn"} <=> pc[q] \in {"look", "turn"}
                         /\ Locked(q)' <=> Locked(q)
  BY <1>2 DEF Entered, Critical, Making, Locked
<1>7. FlagsAreUp' /\ Holds'
  BY <1>1, <1>6, Both DEF FlagsAreUp, Holds
<1>8. demo = "sadd" /\ LockPart => LockPart'
  BY <1>1, <1>6, Both DEF LockPart
<1>9. QED
  BY <1>4, <1>5, <1>7, <1>8

\* A step before or after a slot is filled.
LEMMA SearchTable ==
  ASSUME PlacePart, SvTypeOK, demo \in {"applications", "sadd"}, TablePart,
         NEW p \in Process, Create(p), ~ Overlap',
         pc[p] \notin Making, pc'[p] \notin Making
  PROVE  Revalued /\ UNCHANGED <<var, name, slot>> /\ TablePart'
<1>1. \A q \in Process : q # p => pc'[q] = pc[q] /\ todo'[q] = todo[q]
  BY CreateFrame
<1>2. UNCHANGED <<var, name, slot>>
  <2>1. CASE Scan(p)
    BY <2>1 DEF Scan
  <2>2. CASE Find(p)
    <3>1. pc \in [Process -> Places(demo)]
      BY DEF PlacePart
    <3>2. ~ Goes(p, "find", "claim")
      BY <3>1 DEF Goes, Making
    <3>3. QED
      BY <2>2, <3>2 DEF Find
  <2>3. CASE ~ (Scan(p) \/ Find(p))
    BY <2>3 DEF Create, Claim, Name, Length, Content, Clear, Goes, Making
  <2>4. QED
    BY <2>1, <2>2, <2>3
<1>3. var \in [Slot -> Cell]
  BY Cells
<1>4. Revalued
  BY <1>1, <1>2, <1>3 DEF Revalued
<1>5. QED
  BY <1>2, <1>4, RevaluedTable

\* Only one program fills a slot.
LEMMA AloneIs ==
  ASSUME ~ Overlap, ~ Overlap', PlacePart, SvTypeOK, demo \in {"applications", "sadd"},
         NEW p \in Process, Create(p), pc[p] \in Making \/ pc'[p] \in Making
  PROVE  /\ \A r \in Process : r # p => pc[r] \notin Making /\ pc'[r] \notin Making
         /\ \A r \in Process : r # p => ~ Owns(r) /\ ~ Owns(r)' /\ Filling(r)'
         /\ \A s \in Slot : Owned(s) <=> Owns(p) /\ slot[p] = s
         /\ \A s \in Slot : Owned(s)' <=> Owns(p)' /\ slot'[p] = s
<1>1. \A r \in Process : r # p => pc'[r] = pc[r] /\ r = Other(p)
  BY CreateFrame, Both
<1>2. \A r \in Process : r # p => pc[r] \notin Making /\ pc'[r] \notin Making
  BY <1>1 DEF Overlap
<1>3. \A r \in Process : r # p => ~ Owns(r) /\ ~ Owns(r)' /\ Filling(r)'
  BY <1>2 DEF Owns, Filling, Making
<1>4. QED
  BY <1>2, <1>3 DEF Owned

LEMMA FindTable ==
  ASSUME PlacePart, SvTypeOK, demo \in {"applications", "sadd"}, TablePart,
         NEW p \in Process, Create(p), Find(p), ~ Overlap', pc'[p] = "claim"
  PROVE  TablePart' /\ UNCHANGED <<var, name, todo>>
<1>1. DEFINE free == {s \in Slot : var[s].flag = 0}
<1>2. pc \in [Process -> Places(demo)] /\ var \in [Slot -> Cell] /\ slot \in [Process -> Slot]
  BY Cells DEF PlacePart, SvTypeOK
<1>3. /\ pc[p] = "find" /\ UNCHANGED <<var, name, todo>> /\ free # {}
      /\ slot' = [slot EXCEPT ![p] = Min(free)]
  BY <1>2 DEF Find, Done
<1>10. PICK f : f = Min(free)
  OBVIOUS
<1>4. slot'[p] = f /\ f \in Slot /\ var[f].flag = 0
      /\ \A t \in Slot : t < f => var[t].flag # 0
  <2>1. f \in free /\ \A t \in free : f <= t
    BY <1>3, <1>10, Lowest
  <2>2. ASSUME NEW t \in Slot, t < f PROVE t \notin free
    <3>1. t \in Nat /\ f \in Nat
      BY <2>1, Cells
    <3>2. ~ (f <= t)
      BY <2>2, <3>1, SMT
    <3>3. QED
      BY <2>1, <3>2
  <2>3. QED
    BY <1>2, <1>3, <1>10, <2>1, <2>2
<1>5. pc'[p] \in Making /\ ~ Owns(p) /\ ~ Owns(p)' /\ ~ Overlap
  BY <1>3 DEF Making, Owns, TablePart
<1>6. /\ \A r \in Process : r # p => Filling(r)'
      /\ \A s \in Slot : ~ Owned(s) /\ ~ Owned(s)'
  BY <1>5, AloneIs
<1>7. Filling(p)'
  <2>1. ~ Flagged(f)' /\ \A t \in Slot : t < f => Flagged(t)'
    BY <1>2, <1>3, <1>4 DEF Flagged, Cell
  <2>2. QED
    BY <1>4, <1>5, <2>1 DEF Filling, Flagged
<1>8. \A s \in Slot : (Flagged(s)' <=> Flagged(s)) /\ \A n \in Names : Complete(s, n)' <=> Complete(s, n)
  BY <1>3 DEF Flagged, Complete
<1>9. QED
  BY <1>3, <1>6, <1>7, <1>8 DEF TablePart

LEMMA ClaimTable ==
  ASSUME PlacePart, SvTypeOK, demo \in {"applications", "sadd"}, TablePart,
         NEW p \in Process, Create(p), Claim(p), ~ Overlap'
  PROVE  /\ TablePart' /\ UNCHANGED <<name, todo, slot>>
         /\ \A s \in Slot : Flagged(s)' <=> Flagged(s) \/ s = slot[p]
         /\ \A s \in Slot : var'[s].content = var[s].content
<1>1. DEFINE s0 == slot[p]
<1>2. pc \in [Process -> Places(demo)] /\ var \in [Slot -> Cell] /\ s0 \in Slot
  BY Cells DEF PlacePart, SvTypeOK
<1>3. /\ pc[p] = "claim" /\ pc'[p] = "name" /\ UNCHANGED <<name, todo, slot>>
      /\ var' = [var EXCEPT ![s0].flag = 1]
  BY <1>2 DEF Claim, Goes
<1>4. \A s \in Slot : /\ var'[s].flag = IF s = s0 THEN 1 ELSE var[s].flag
                      /\ var'[s].length = var[s].length /\ var'[s].content = var[s].content
  BY <1>2, <1>3 DEF Cell
<1>5. pc[p] \in Making /\ ~ Owns(p) /\ Owns(p)' /\ ~ Overlap
  BY <1>3 DEF Making, Owns, TablePart
<1>6. /\ \A r \in Process : r # p => Filling(r)'
      /\ \A s \in Slot : ~ Owned(s)
      /\ \A s \in Slot : Owned(s)' <=> s = s0
  BY <1>3, <1>5, AloneIs
<1>7. \A s \in Slot : Flagged(s)' <=> Flagged(s) \/ s = s0
  BY <1>4 DEF Flagged
<1>8. ~ Flagged(s0) /\ \A t \in Slot : t < s0 => Flagged(t)
  BY <1>3 DEF TablePart, Filling
<1>9. \A s \in Slot : \A t \in Slot : t < s /\ Flagged(s)' => Flagged(t)'
  BY <1>7, <1>8 DEF TablePart
<1>10. \A s \in Slot : ~ Flagged(s)' => name'[s] = "none"
  BY <1>3, <1>7 DEF TablePart
<1>11. \A s \in Slot : Flagged(s)' /\ ~ Owned(s)' => \E n \in Names : Complete(s, n)'
  BY <1>3, <1>4, <1>6, <1>7 DEF TablePart, Complete
<1>12. Filling(p)'
  <2>1. \A t \in Slot : t > s0 => ~ Flagged(t)'
    <3>1. ASSUME NEW t \in Slot, t > s0 PROVE ~ Flagged(t)'
      <4>1. s0 < t /\ t # s0
        BY <1>2, <3>1, Cells, SMT
      <4>2. QED
        BY <1>2, <1>7, <1>8, <4>1 DEF TablePart
    <3>2. QED
      BY <3>1
  <2>2. Flagged(s0)' /\ name'[s0] = "none"
    BY <1>2, <1>3, <1>7, <1>8 DEF TablePart
  <2>3. QED
    BY <1>2, <1>3, <2>1, <2>2 DEF Filling
<1>13. QED
  BY <1>3, <1>4, <1>6, <1>7, <1>9, <1>10, <1>11, <1>12 DEF TablePart

LEMMA NameTable ==
  ASSUME PlacePart, SvTypeOK, demo \in {"applications", "sadd"}, TablePart,
         NEW p \in Process, Create(p), Name(p), ~ Overlap'
  PROVE  /\ TablePart' /\ UNCHANGED <<var, todo, slot>>
         /\ \A s \in Slot : name'[s] = IF s = slot[p] THEN Head(todo[p]) ELSE name[s]
<1>1. DEFINE s0 == slot[p]
<1>2. /\ pc \in [Process -> Places(demo)] /\ s0 \in Slot
      /\ name \in [Slot -> Names \cup {"none"}]
  BY DEF PlacePart, SvTypeOK
<1>3. /\ pc[p] = "name" /\ pc'[p] = "length" /\ UNCHANGED <<var, todo, slot>>
      /\ \A s \in Slot : name'[s] = IF s = s0 THEN Head(todo[p]) ELSE name[s]
  BY <1>2 DEF Name, Goes
<1>4. pc[p] \in Making /\ Owns(p) /\ Owns(p)' /\ ~ Overlap
  BY <1>3 DEF Making, Owns, TablePart
<1>5. /\ \A r \in Process : r # p => Filling(r)'
      /\ \A s \in Slot : Owned(s) <=> s = s0
      /\ \A s \in Slot : Owned(s)' <=> s = s0
  BY <1>3, <1>4, AloneIs
<1>6. \A s \in Slot : Flagged(s)' <=> Flagged(s)
  BY <1>3 DEF Flagged
<1>7. Flagged(s0) /\ \A t \in Slot : t > s0 => ~ Flagged(t)
  BY <1>4 DEF TablePart, Filling
<1>8. \A s \in Slot : ~ Flagged(s)' => name'[s] = "none"
  BY <1>3, <1>6, <1>7 DEF TablePart
<1>9. \A s \in Slot : Flagged(s)' /\ ~ Owned(s)' => \E n \in Names : Complete(s, n)'
  BY <1>3, <1>5, <1>6 DEF TablePart, Complete
<1>10. Filling(p)'
  BY <1>2, <1>3, <1>6, <1>7 DEF Filling
<1>11. QED
  BY <1>3, <1>5, <1>6, <1>8, <1>9, <1>10 DEF TablePart

LEMMA LengthTable ==
  ASSUME PlacePart, SvTypeOK, demo \in {"applications", "sadd"}, TablePart,
         NEW p \in Process, Create(p), Length(p), ~ Overlap'
  PROVE  /\ TablePart' /\ UNCHANGED <<name, todo, slot>>
         /\ \A s \in Slot : Flagged(s)' <=> Flagged(s)
         /\ \A s \in Slot : var'[s].content = var[s].content
<1>1. DEFINE s0 == slot[p]  k == LengthOf(Head(todo[p]))
<1>2. pc \in [Process -> Places(demo)] /\ var \in [Slot -> Cell] /\ s0 \in Slot
  BY Cells DEF PlacePart, SvTypeOK
<1>3. /\ pc[p] = "length" /\ pc'[p] = "content" /\ UNCHANGED <<name, todo, slot>>
      /\ var' = [var EXCEPT ![s0].length = k]
  BY <1>2 DEF Length, Goes
<1>4. \A s \in Slot : /\ var'[s].length = IF s = s0 THEN k ELSE var[s].length
                      /\ var'[s].flag = var[s].flag /\ var'[s].content = var[s].content
  BY <1>2, <1>3 DEF Cell
<1>5. pc[p] \in Making /\ Owns(p) /\ Owns(p)' /\ ~ Overlap
  BY <1>3 DEF Making, Owns, TablePart
<1>6. /\ \A r \in Process : r # p => Filling(r)'
      /\ \A s \in Slot : Owned(s) <=> s = s0
      /\ \A s \in Slot : Owned(s)' <=> s = s0
  BY <1>3, <1>5, AloneIs
<1>7. \A s \in Slot : Flagged(s)' <=> Flagged(s)
  BY <1>4 DEF Flagged
<1>8. Filling(p)
  BY DEF TablePart
<1>9. \A s \in Slot : Flagged(s)' /\ ~ Owned(s)' => \E n \in Names : Complete(s, n)'
  BY <1>3, <1>4, <1>6, <1>7 DEF TablePart, Complete
<1>10. Filling(p)'
  BY <1>2, <1>3, <1>4, <1>5, <1>7, <1>8 DEF Filling
<1>11. QED
  BY <1>3, <1>4, <1>6, <1>7, <1>9, <1>10 DEF TablePart

LEMMA ContentTable ==
  ASSUME PlacePart, SvTypeOK, demo \in {"applications", "sadd"}, TablePart,
         NEW p \in Process, Create(p), Content(p), ~ Overlap'
  PROVE  /\ TablePart' /\ UNCHANGED <<name, todo, slot>>
         /\ \A s \in Slot : Flagged(s)' <=> Flagged(s)
         /\ \A s \in Slot : s # slot[p] => var'[s].content = var[s].content
<1>1. DEFINE s0 == slot[p]  n0 == Head(todo[p])
<1>2. pc \in [Process -> Places(demo)] /\ var \in [Slot -> Cell] /\ s0 \in Slot
  BY Cells DEF PlacePart, SvTypeOK
<1>3. pc[p] = "content" /\ pc'[p] = "clear" /\ UNCHANGED <<name, todo, slot>>
  BY <1>2 DEF Content, Goes
<1>4. PICK v \in Garbage : var' = [var EXCEPT ![s0].content = [i \in 1 .. LengthOf(n0) |-> v]]
  BY DEF Content
<1>5. DEFINE c == [i \in 1 .. LengthOf(n0) |-> v]
<1>6. c \in [1 .. LengthOf(n0) -> Word]
  BY Cells
<1>7. var' = [var EXCEPT ![s0].content = c]
  BY <1>4
<1>8. HIDE DEF c
<1>9. \A s \in Slot : /\ var'[s].content = IF s = s0 THEN c ELSE var[s].content
                      /\ var'[s].flag = var[s].flag /\ var'[s].length = var[s].length
  BY <1>2, <1>7 DEF Cell
<1>10. pc[p] \in Making /\ Owns(p) /\ Owns(p)' /\ ~ Overlap
  BY <1>3 DEF Making, Owns, TablePart
<1>11. /\ \A r \in Process : r # p => Filling(r)'
       /\ \A s \in Slot : Owned(s) <=> s = s0
       /\ \A s \in Slot : Owned(s)' <=> s = s0
  BY <1>3, <1>10, AloneIs
<1>12. \A s \in Slot : Flagged(s)' <=> Flagged(s)
  BY <1>9 DEF Flagged
<1>13. Filling(p)
  BY DEF TablePart
<1>14. \A s \in Slot : Flagged(s)' /\ ~ Owned(s)' => \E n \in Names : Complete(s, n)'
  BY <1>3, <1>9, <1>11, <1>12 DEF TablePart, Complete
<1>15. Filling(p)'
  <2>1. /\ Flagged(s0)' /\ \A t \in Slot : t > s0 => ~ Flagged(t)'
        /\ name'[s0] = n0 /\ var'[s0].length = LengthOf(n0)
    BY <1>2, <1>3, <1>9, <1>10, <1>12, <1>13 DEF Filling
  <2>2. Complete(s0, n0)'
    BY <1>2, <1>3, <1>6, <1>9, <2>1 DEF Complete
  <2>3. QED
    BY <1>3, <2>1, <2>2 DEF Filling
<1>16. QED
  BY <1>3, <1>9, <1>11, <1>12, <1>14, <1>15 DEF TablePart

LEMMA ClearTable ==
  ASSUME PlacePart, SvTypeOK, demo \in {"applications", "sadd"}, TablePart,
         NEW p \in Process, Create(p), Clear(p), ~ Overlap'
  PROVE  /\ TablePart' /\ UNCHANGED <<name, slot>>
         /\ \A s \in Slot : Flagged(s)' <=> Flagged(s)
         /\ \A s \in Slot : ~ Owned(s)'
         /\ \A s \in Slot : \A n \in Names : Complete(s, n) => Complete(s, n)'
<1>1. DEFINE s0 == slot[p]  n0 == Head(todo[p])
<1>2. pc \in [Process -> Places(demo)] /\ var \in [Slot -> Cell] /\ s0 \in Slot
  BY Cells DEF PlacePart, SvTypeOK
<1>3. /\ pc[p] = "clear" /\ pc'[p] = "test" /\ UNCHANGED <<name, slot>>
      /\ var' = IF n0 = "buffer" THEN var ELSE VarWritten(n0, 1, 0)
  BY <1>2 DEF Clear, Done
<1>4. n0 \in Names
  BY CreateFrame, Todo DEF PlacePart
<1>5. 1 \in Nat /\ 0 \in Word
  BY Remainders, SMT DEF Word
<1>6. /\ \A s \in Slot : var'[s].flag = var[s].flag /\ var'[s].length = var[s].length
      /\ \A s \in Slot : \A m \in Names :
            var[s].content \in [1 .. LengthOf(m) -> Word] =>
               var'[s].content \in [1 .. LengthOf(m) -> Word]
  <2>1. CASE n0 = "buffer"
    BY <1>3, <2>1
  <2>2. CASE n0 # "buffer"
    <3>1. var' = VarWritten(n0, 1, 0)
      BY <1>3, <2>2
    <3>2. QED
      BY <1>4, <1>5, <3>1, Written1
  <2>3. QED
    BY <2>1, <2>2
<1>7. pc[p] \in Making /\ Owns(p) /\ ~ Owns(p)' /\ ~ Overlap
  BY <1>3 DEF Making, Owns, TablePart
<1>8. /\ \A r \in Process : r # p => Filling(r)'
      /\ \A s \in Slot : Owned(s) <=> s = s0
      /\ \A s \in Slot : ~ Owned(s)'
  BY <1>3, <1>7, AloneIs
<1>9. \A s \in Slot : Flagged(s)' <=> Flagged(s)
  BY <1>6 DEF Flagged
<1>10. \A s \in Slot : \A n \in Names : Complete(s, n) => Complete(s, n)'
  BY <1>3, <1>6 DEF Complete
<1>11. Complete(s0, n0)
  BY <1>3 DEF TablePart, Filling
<1>12. \A s \in Slot : Flagged(s)' /\ ~ Owned(s)' => \E n \in Names : Complete(s, n)'
  BY <1>4, <1>8, <1>9, <1>10, <1>11 DEF TablePart
<1>13. Filling(p)'
  BY <1>3, <1>7 DEF Filling
<1>14. QED
  BY <1>3, <1>8, <1>9, <1>10, <1>12, <1>13 DEF TablePart

LEMMA CreateKinds ==
  ASSUME PlacePart, NEW p \in Process, Create(p)
  PROVE  \/ pc[p] \notin Making /\ pc'[p] \notin Making
         \/ Find(p) /\ pc'[p] = "claim"
         \/ Claim(p) \/ Name(p) \/ Length(p) \/ Content(p) \/ Clear(p)
<1>1. pc \in [Process -> Places(demo)]
  BY DEF PlacePart
<1>2. CASE Scan(p)
  BY <1>1, <1>2 DEF Scan, Done, Goes, Making
<1>3. CASE Find(p)
  BY <1>1, <1>3 DEF Find, Done, Goes, Making
<1>4. QED
  BY <1>2, <1>3 DEF Create

LEMMA CreateTable ==
  ASSUME PlacePart, SvTypeOK, demo \in {"applications", "sadd"}, TablePart,
         NEW p \in Process, Create(p), ~ Overlap'
  PROVE  TablePart'
BY CreateKinds, SearchTable, FindTable, ClaimTable, NameTable, LengthTable, ContentTable,
   ClearTable

\* The programs of one kind begin with the same variable.
LEMMA CreateFirst ==
  ASSUME PlacePart, SvTypeOK, demo \in {"applications", "sadd"}, TablePart, FirstPart,
         NEW p \in Process, Create(p), ~ Overlap', UNCHANGED demo
  PROVE  FirstPart'
<1>1. /\ todo[p] # <<>> /\ \A q \in Process : q # p => pc'[q] = pc[q] /\ todo'[q] = todo[q]
      /\ \A q \in Process : q # p => slot'[q] = slot[q]
      /\ pc \in [Process -> Places(demo)] /\ todo[p] \in Todos(demo)
      /\ slot \in [Process -> Slot] /\ var \in [Slot -> Cell]
  BY CreateFrame, Cells DEF PlacePart, SvTypeOK
<1>2. 1 \in Slot /\ \A s \in Slot : s = 1 \/ 1 < s
  BY Cells, SMT
<1>3. \A s \in Slot : Flagged(s) => Flagged(1)
  BY <1>2 DEF TablePart
<1>4. Tail(todo[p]) # Wanted(demo)
  BY <1>1, Todo
<1>5. CASE pc[p] \notin Making /\ pc'[p] \notin Making
  <2>1. UNCHANGED <<var, name, slot>>
    BY <1>5, SearchTable
  <2>2. todo'[p] # todo[p] => Flagged(1)
    <3>1. CASE Scan(p)
      <4>1. todo'[p] # todo[p] => Named(Head(todo[p])) # {}
        BY <3>1 DEF Scan
      <4>2. QED
        BY <1>3, <4>1 DEF Named, Flagged
    <3>2. CASE Find(p)
      <4>1. todo'[p] # todo[p] => {s \in Slot : var[s].flag = 0} = {}
        BY <3>2 DEF Find
      <4>2. var[1].flag \in 0 .. 1
        BY <1>1, <1>2 DEF Cell
      <4>3. todo'[p] # todo[p] => var[1].flag # 0
        BY <1>2, <4>1
      <4>4. QED
        BY <4>2, <4>3, SMT DEF Flagged
    <3>3. CASE ~ (Scan(p) \/ Find(p))
      BY <1>5, <3>3 DEF Create, Claim, Name, Length, Content, Clear, Goes, Making
    <3>4. QED
      BY <3>1, <3>2, <3>3
  <2>3. Flagged(1)' <=> Flagged(1)
    BY <2>1 DEF Flagged
  <2>4. Flagged(1)' => \/ name'[1] = Head(Wanted(demo'))
                       \/ \E r \in Process : pc'[r] = "name" /\ slot'[r] = 1
    BY <1>1, <1>5, <2>1, <2>3 DEF FirstPart, Making
  <2>5. \A r \in Process :
           /\ slot'[r] = 1 /\ pc'[r] \in {"claim", "name"} => todo'[r] = Wanted(demo')
           /\ todo'[r] # Wanted(demo') => Flagged(1)'
    BY <1>1, <1>5, <2>1, <2>2, <2>3 DEF FirstPart, Making
  <2>6. QED
    BY <2>4, <2>5 DEF FirstPart
<1>6. CASE Find(p) /\ pc'[p] = "claim"
  <2>1. UNCHANGED <<var, name, todo>> /\ TablePart'
    BY <1>6, FindTable
  <2>2. (Flagged(1)' <=> Flagged(1)) /\ ~ Flagged(slot'[p])
    BY <1>6, <2>1 DEF Flagged, TablePart, Filling
  <2>3. pc[p] = "find"
    BY <1>6 DEF Find
  <2>4. Flagged(1)' => \/ name'[1] = Head(Wanted(demo'))
                       \/ \E r \in Process : pc'[r] = "name" /\ slot'[r] = 1
    <3>1. \A r \in Process : pc[r] = "name" => r # p
      BY <2>3
    <3>2. QED
      BY <1>1, <2>1, <2>2, <3>1 DEF FirstPart
  <2>5. ASSUME NEW r \in Process
        PROVE  /\ slot'[r] = 1 /\ pc'[r] \in {"claim", "name"} => todo'[r] = Wanted(demo')
               /\ todo'[r] # Wanted(demo') => Flagged(1)'
    <3>1. CASE r = p
      BY <2>1, <2>2, <3>1 DEF FirstPart
    <3>2. CASE r # p
      BY <1>1, <2>1, <2>2, <3>2 DEF FirstPart
    <3>3. QED
      BY <3>1, <3>2
  <2>6. QED
    BY <2>4, <2>5 DEF FirstPart
<1>7. ASSUME pc[p] \in Making \/ pc'[p] \in Making
      PROVE  \A r \in Process : r # p => pc[r] \notin Making /\ pc'[r] \notin Making
  BY <1>7, AloneIs DEF TablePart
<1>8. CASE Claim(p)
  <2>1. /\ UNCHANGED <<name, todo, slot>>
        /\ \A s \in Slot : Flagged(s)' <=> Flagged(s) \/ s = slot[p]
    BY <1>8, ClaimTable
  <2>2. pc[p] = "claim" /\ pc'[p] = "name" /\ pc[p] \in Making
    BY <1>1, <1>8 DEF Claim, Goes, Making
  <2>3. \A r \in Process : pc[r] = "name" => FALSE
    BY <1>7, <2>2 DEF Making
  <2>4. \A r \in Process : r # p => pc'[r] \notin {"claim", "name"}
    BY <1>7, <2>2 DEF Making
  <2>5. QED
    BY <1>1, <1>2, <2>1, <2>2, <2>3, <2>4 DEF FirstPart
<1>9. CASE Name(p)
  <2>1. /\ UNCHANGED <<var, todo, slot>>
        /\ \A s \in Slot : name'[s] = IF s = slot[p] THEN Head(todo[p]) ELSE name[s]
    BY <1>9, NameTable
  <2>2. pc[p] = "name" /\ pc'[p] = "length" /\ pc[p] \in Making
    BY <1>1, <1>9 DEF Name, Goes, Making
  <2>3. \A r \in Process : r # p => pc[r] # "name"
    BY <1>7, <2>2 DEF Making
  <2>4. \A r \in Process : pc'[r] \notin {"claim", "name"}
    BY <1>7, <2>2 DEF Making
  <2>5. Flagged(1)' <=> Flagged(1)
    BY <2>1 DEF Flagged
  <2>6. Flagged(1)' => name'[1] = Head(Wanted(demo'))
    BY <1>2, <2>1, <2>2, <2>3, <2>5 DEF FirstPart
  <2>7. QED
    BY <2>1, <2>4, <2>5, <2>6 DEF FirstPart
<1>10. CASE Length(p) \/ Content(p)
  <2>1. /\ UNCHANGED <<name, todo, slot>> /\ (Flagged(1)' <=> Flagged(1))
    BY <1>2, <1>10, LengthTable, ContentTable
  <2>2. pc[p] \in {"length", "content"} /\ pc'[p] \in {"content", "clear"} /\ pc[p] \in Making
    BY <1>1, <1>10 DEF Length, Content, Goes, Making
  <2>3. \A r \in Process : pc[r] # "name" /\ pc'[r] \notin {"claim", "name"}
    BY <1>7, <2>2 DEF Making
  <2>4. QED
    BY <2>1, <2>3 DEF FirstPart
<1>11. CASE Clear(p)
  <2>1. /\ UNCHANGED <<name, slot>> /\ (Flagged(1)' <=> Flagged(1))
    BY <1>2, <1>11, ClearTable
  <2>2. pc[p] = "clear" /\ pc'[p] = "test" /\ pc[p] \in Making
    BY <1>1, <1>11 DEF Clear, Done, Making
  <2>3. \A r \in Process : pc[r] # "name" /\ pc'[r] \notin {"claim", "name"}
    BY <1>7, <2>2 DEF Making
  <2>4. Flagged(1)
    BY <1>1, <1>3, <2>2 DEF TablePart, Filling, Owns, Making
  <2>5. QED
    BY <2>1, <2>3, <2>4 DEF FirstPart
<1>12. QED
  BY <1>5, <1>6, <1>8, <1>9, <1>10, <1>11, CreateKinds

\* Clear sets the first variable of its name to zero, which is not the slot
\* of another one.
LEMMA ClearFirst ==
  ASSUME PlacePart, SvTypeOK, demo \in {"applications", "sadd"}, TablePart,
         NEW p \in Process, Clear(p)
  PROVE  LET n == Head(todo[p])  s == Min(Named(n))
         IN  /\ n \in Names /\ Named(n) # {} /\ s \in Slot /\ Complete(s, n)
             /\ \A t \in Slot : t # s => var'[t].content = var[t].content
             /\ n # "buffer" => var'[s].content[1] = 0
             /\ n = "buffer" => var' = var
<1>1. DEFINE n == Head(todo[p])  s == Min(Named(n))  s0 == slot[p]
<1>2. /\ pc[p] = "clear" /\ s0 \in Slot
      /\ var' = IF n = "buffer" THEN var ELSE VarWritten(n, 1, 0)
  BY DEF Clear, SvTypeOK
<1>3. n \in Names
  BY <1>2, Todo DEF PlacePart, Making
<1>4. Complete(s0, n) /\ Flagged(s0)
  BY <1>2 DEF TablePart, Filling, Owns, Making
<1>5. s0 \in Named(n)
  BY <1>2, <1>4 DEF Named, Complete, Flagged
<1>6. s \in Named(n) /\ s \in Slot
  BY <1>5, Lowest DEF Named
<1>7. Complete(s, n)
  <2>1. name[s] = n /\ Flagged(s)
    BY <1>6 DEF Named, Flagged
  <2>2. CASE Owned(s)
    <3>1. PICK r \in Process : Owns(r) /\ slot[r] = s
      BY <2>2 DEF Owned
    <3>2. pc[r] \in Making /\ pc[p] \in Making /\ ~ Overlap
      BY <1>2, <3>1 DEF Owns, Making, TablePart
    <3>3. r = p
      BY <3>2, Both DEF Overlap
    <3>4. QED
      BY <1>4, <3>1, <3>3
  <2>3. CASE ~ Owned(s)
    <3>1. PICK m \in Names : Complete(s, m)
      BY <1>6, <2>1, <2>3 DEF TablePart
    <3>2. QED
      BY <2>1, <3>1 DEF Complete
  <2>4. QED
    BY <2>2, <2>3
<1>8. 1 \in Nat /\ 0 \in Word /\ 1 \in 1 .. LengthOf(n)
  <2>1. LengthOf(n) \in Nat \ {0}
    BY <1>3, Cells
  <2>2. QED
    BY <2>1, Remainders, SMT DEF Word
<1>9. CASE n = "buffer"
  BY <1>2, <1>3, <1>5, <1>6, <1>7, <1>9
<1>10. CASE n # "buffer"
  <2>1. var' = VarWritten(n, 1, 0)
    BY <1>2, <1>10
  <2>2. \A t \in Slot : t # s => var'[t] = var[t]
    BY <1>3, <1>8, <2>1, Written1
  <2>3. var'[s].content[1] = 0
    BY <1>3, <1>5, <1>7, <1>8, <2>1, WrittenFirst
  <2>4. QED
    BY <1>3, <1>5, <1>6, <1>7, <1>10, <2>2, <2>3
<1>11. QED
  BY <1>9, <1>10

LEMMA HeadOfApplication ==
  ASSUME NEW l \in Todos("applications"), l # <<>>
  PROVE  Head(l) \in {"counter", "buffer"}
<1>1. /\ Head(<<"counter", "buffer">>) = "counter" /\ Head(<<"buffer">>) = "buffer"
  BY SMT
<1>2. QED
  BY <1>1 DEF Todos

\* The counter is made with the value zero.
LEMMA CreateValue ==
  ASSUME PlacePart, SvTypeOK, demo = "applications", TablePart, FirstPart,
         NEW p \in Process, Create(p), ~ Overlap', UNCHANGED demo, Flagged(1)', ~ Owned(1)'
  PROVE  \/ Value(1)' = 0
         \/ Flagged(1) /\ ~ Owned(1) /\ Value(1)' = Value(1)
<1>1. /\ todo[p] # <<>> /\ \A q \in Process : q # p => pc'[q] = pc[q] /\ todo'[q] = todo[q]
      /\ pc'[p] \in Making \cup {"test", "find"}
      /\ pc \in [Process -> Places(demo)] /\ slot \in [Process -> Slot]
  BY CreateFrame DEF PlacePart, SvTypeOK
<1>6. 1 \in Slot
  BY Cells
<1>7. Flagged(1)' /\ ~ Owned(1)'
  OBVIOUS
<1>8. ASSUME Flagged(1), ~ Owned(1), var'[1].content = var[1].content
      PROVE  Flagged(1) /\ ~ Owned(1) /\ Value(1)' = Value(1)
  BY <1>8 DEF Value
<1>9. demo \in {"applications", "sadd"}
  OBVIOUS
<1>10. CASE pc[p] \notin Making /\ pc'[p] \notin Making
  <2>1. Revalued /\ UNCHANGED var
    BY <1>9, <1>10, SearchTable
  <2>2. Flagged(1) /\ ~ Owned(1)
    BY <1>6, <1>7, <2>1, RevaluedNames
  <2>3. QED
    BY <1>8, <2>1, <2>2
<1>11. CASE Find(p) /\ pc'[p] = "claim"
  <2>1. UNCHANGED var /\ pc[p] = "find" /\ pc'[p] \in Making
    BY <1>11 DEF Find, Making
  <2>2. Owned(1) <=> Owns(p) /\ slot[p] = 1
    BY <1>6, <1>9, <2>1, AloneIs DEF TablePart
  <2>3. ~ Owned(1) /\ Flagged(1)
    BY <1>7, <2>1, <2>2 DEF Owns, Making, Flagged
  <2>4. QED
    BY <1>8, <2>1, <2>3
<1>12. CASE Claim(p)
  <2>1. /\ UNCHANGED slot
        /\ \A s \in Slot : Flagged(s)' <=> Flagged(s) \/ s = slot[p]
        /\ \A s \in Slot : var'[s].content = var[s].content
    BY <1>9, <1>12, ClaimTable
  <2>2. pc[p] = "claim" /\ pc'[p] = "name" /\ pc[p] \in Making
    BY <1>1, <1>12 DEF Claim, Goes, Making
  <2>3. /\ Owned(1) <=> Owns(p) /\ slot[p] = 1
        /\ Owned(1)' <=> Owns(p)' /\ slot'[p] = 1
    BY <1>6, <1>9, <2>2, AloneIs DEF TablePart
  <2>4. ~ Owns(p) /\ Owns(p)'
    BY <2>2 DEF Owns, Making
  <2>5. QED
    BY <1>6, <1>7, <1>8, <2>1, <2>3, <2>4
<1>13. CASE Name(p) \/ Length(p)
  <2>1. /\ UNCHANGED slot
        /\ \A s \in Slot : Flagged(s)' <=> Flagged(s)
        /\ \A s \in Slot : var'[s].content = var[s].content
    BY <1>9, <1>13, NameTable, LengthTable DEF Flagged
  <2>2. pc[p] \in {"name", "length"} /\ pc'[p] \in {"length", "content"} /\ pc[p] \in Making
    BY <1>1, <1>13 DEF Name, Length, Goes, Making
  <2>3. /\ Owned(1) <=> Owns(p) /\ slot[p] = 1
        /\ Owned(1)' <=> Owns(p)' /\ slot'[p] = 1
    BY <1>6, <1>9, <2>2, AloneIs DEF TablePart
  <2>4. Owns(p) /\ Owns(p)'
    BY <2>2 DEF Owns, Making
  <2>5. QED
    BY <1>6, <1>7, <1>8, <2>1, <2>3, <2>4
<1>14. CASE Content(p)
  <2>1. /\ UNCHANGED slot
        /\ \A s \in Slot : Flagged(s)' <=> Flagged(s)
        /\ \A s \in Slot : s # slot[p] => var'[s].content = var[s].content
    BY <1>9, <1>14, ContentTable
  <2>2. pc[p] = "content" /\ pc'[p] = "clear" /\ pc[p] \in Making
    BY <1>1, <1>14 DEF Content, Goes, Making
  <2>3. /\ Owned(1) <=> Owns(p) /\ slot[p] = 1
        /\ Owned(1)' <=> Owns(p)' /\ slot'[p] = 1
    BY <1>6, <1>9, <2>2, AloneIs DEF TablePart
  <2>4. Owns(p) /\ Owns(p)'
    BY <2>2 DEF Owns, Making
  <2>5. QED
    BY <1>6, <1>7, <1>8, <2>1, <2>3, <2>4
<1>15. CASE Clear(p)
  <2>1. /\ UNCHANGED <<name, slot>>
        /\ \A s \in Slot : Flagged(s)' <=> Flagged(s)
    BY <1>9, <1>15, ClearTable
  <2>2. pc[p] = "clear" /\ pc'[p] = "test" /\ pc[p] \in Making
    BY <1>1, <1>15 DEF Clear, Done, Making
  <2>3. \A r \in Process : pc[r] # "name"
    BY <1>9, <2>2, AloneIs DEF TablePart, Making
  <2>4. Flagged(1) /\ name[1] = "counter"
    <3>1. Flagged(1) /\ name[1] = Head(Wanted(demo))
      BY <1>6, <1>7, <2>1, <2>3 DEF FirstPart
    <3>2. Head(<<"counter", "buffer">>) = "counter"
      BY SMT
    <3>3. QED
      BY <3>1, <3>2 DEF Wanted
  <2>5. DEFINE n == Head(todo[p])  s == Min(Named(n))
  <2>6. /\ n \in Names /\ Named(n) # {} /\ s \in Slot /\ Complete(s, n)
        /\ \A t \in Slot : t # s => var'[t].content = var[t].content
        /\ n # "buffer" => var'[s].content[1] = 0
        /\ n = "buffer" => var' = var
    BY <1>9, <1>15, ClearFirst
  <2>7. Complete(slot[p], n)
    BY <2>2 DEF TablePart, Filling
  <2>8. CASE n = "buffer"
    <3>1. slot[p] # 1
      BY <2>4, <2>7, <2>8 DEF Complete
    <3>2. ~ Owned(1)
      BY <1>6, <1>9, <2>2, <3>1, AloneIs DEF TablePart
    <3>3. QED
      BY <1>8, <2>4, <2>6, <2>8, <3>2
  <2>9. CASE n # "buffer"
    <3>1. n = "counter"
      BY <1>1, <2>9, HeadOfApplication DEF PlacePart
    <3>2. 1 \in Named(n)
      BY <1>6, <2>4, <3>1 DEF Named, Flagged
    <3>3. s = 1
      <4>1. s \in Named(n) /\ \A t \in Named(n) : s <= t
        BY <3>2, Lowest DEF Named
      <4>2. s <= 1 /\ s \in Nat \ {0}
        BY <2>6, <3>2, <4>1, Cells
      <4>3. QED
        BY <4>2, SMT
    <3>4. Value(1)' = 0
      BY <2>6, <2>9, <3>3 DEF Value
    <3>5. QED
      BY <3>4
  <2>10. QED
    BY <2>8, <2>9
<1>16. QED
  BY <1>10, <1>11, <1>12, <1>13, <1>14, <1>15, CreateKinds

LEMMA CreateRange ==
  ASSUME PlacePart, SvTypeOK, demo = "applications", TablePart, FirstPart, RangePart,
         NEW p \in Process, Create(p), ~ Overlap', UNCHANGED demo
  PROVE  RangePart'
<1>1. /\ todo[p] # <<>> /\ \A q \in Process : q # p => pc'[q] = pc[q] /\ todo'[q] = todo[q]
      /\ pc'[p] \in Making \cup {"test", "find"} /\ pc \in [Process -> Places(demo)]
  BY CreateFrame DEF PlacePart
<1>2. UNCHANGED local
  BY DEF Create
<1>3. \A q \in Process : pc'[q] \in Polled => pc[q] \in Polled
  BY <1>1 DEF Polled, Making
<1>4. /\ pc'["producer"] \in Polled => local'["producer"].num \in 0 .. BUFFER_SIZE - 1
      /\ pc'["consumer"] \in Polled => local'["consumer"].num \in 1 .. BUFFER_SIZE
  BY <1>2, <1>3, Both DEF RangePart
<1>5. ~ Running' => ~ Running
  BY <1>1 DEF Running
<1>6. ASSUME Flagged(1)', ~ Owned(1)'
      PROVE  /\ Value(1)' \in 0 .. BUFFER_SIZE
             /\ ~ Running' => Value(1)' = 0
  <2>1. CASE Value(1)' = 0
    BY <2>1, SizeAssumption, SMT
  <2>2. CASE Flagged(1) /\ ~ Owned(1) /\ Value(1)' = Value(1)
    BY <1>5, <2>2 DEF RangePart
  <2>3. QED
    BY <1>6, <2>1, <2>2, CreateValue
<1>7. QED
  BY <1>4, <1>6 DEF RangePart

LEMMA HeadOfSadd ==
  ASSUME NEW l \in Todos("sadd"), l # <<>>
  PROVE  Head(l) \in {"svar", "snum"}
<1>1. /\ Head(<<"svar", "snum">>) = "svar" /\ Head(<<"snum">>) = "snum"
  BY SMT
<1>2. QED
  BY <1>1 DEF Todos

LEMMA Least ==
  ASSUME NEW T, T \subseteq Slot, NEW s \in T, \A t \in T : s <= t
  PROVE  s = Min(T)
<1>1. PICK m : m = Min(T)
  OBVIOUS
<1>2. m \in T /\ m <= s /\ s <= m
  BY <1>1, Lowest
<1>3. m \in Nat /\ s \in Nat
  BY <1>2, Cells
<1>4. QED
  BY <1>1, <1>2, <1>3, SMT

\* Nobody is counted in snum before it has created its variables.
LEMMA CreateSum ==
  ASSUME PlacePart, SvTypeOK, demo = "sadd", TablePart, FirstPart, SumPart,
         NEW p \in Process, Create(p), ~ Overlap', UNCHANGED demo
  PROVE  SumPart'
<1>1. /\ todo[p] # <<>> /\ \A q \in Process : q # p => pc'[q] = pc[q] /\ todo'[q] = todo[q]
      /\ pc'[p] \in Making \cup {"test", "find"} /\ pc[p] \in Making \cup {"test", "find"}
      /\ pc \in [Process -> Places(demo)] /\ slot \in [Process -> Slot] /\ slot[p] \in Slot
  BY CreateFrame DEF PlacePart, SvTypeOK
<1>2. UNCHANGED local
  BY DEF Create
<1>3. \A q \in Process : (Past(q)' <=> Past(q)) /\ ~ Past(p)
  BY <1>1 DEF Past, Making
<1>4. \A q \in Process : pc[q] \notin Behind
  BY <1>1, <1>3, Both DEF SumPart, Adds, Past, Behind, Making
<1>5. \A q \in Process : pc'[q] \notin Behind
  BY <1>1, <1>4 DEF Behind, Making
<1>6. ASSUME NEW q \in Process
      PROVE  /\ pc'[q] \notin {"depart", "departed"}
             /\ pc'[q] = "enter" => local'[q].num <= 1 + One(Past(Other(q)))'
  <2>1. pc'[q] \notin {"depart", "departed"} /\ (pc'[q] = "enter" => pc[q] = "enter")
    BY <1>1 DEF SumPart, Adds, Making
  <2>2. Past(Other(q))' <=> Past(Other(q))
    BY <1>3, Both
  <2>3. One(Past(Other(q)))' = One(Past(Other(q)))
    BY <2>2 DEF One
  <2>4. pc[q] = "enter" => local[q].num <= 1 + One(Past(Other(q)))
    BY DEF SumPart, Adds
  <2>5. QED
    BY <1>2, <2>1, <2>3, <2>4
<1>7. One(Past("producer"))' = One(Past("producer"))
      /\ One(Past("consumer"))' = One(Past("consumer"))
  BY <1>3, Both DEF One
<1>8. SUFFICES ASSUME NEW s \in Slot, Named("snum")' # {}, s = Min(Named("snum")'), ~ Owned(s)'
               PROVE  Value(s)' <= One(Past("producer")) + One(Past("consumer"))
  BY <1>5, <1>6, <1>7 DEF SumPart, Adds, Behind, One
<1>9. ASSUME Named("snum") # {}, s = Min(Named("snum")), ~ Owned(s),
             var'[s].content = var[s].content
      PROVE  Value(s)' <= One(Past("producer")) + One(Past("consumer"))
  BY <1>9 DEF SumPart, Adds, Value
<1>10. demo \in {"applications", "sadd"}
  OBVIOUS
<1>11. CASE pc[p] \notin Making /\ pc'[p] \notin Making
  <2>1. Revalued /\ UNCHANGED var
    BY <1>10, <1>11, SearchTable
  <2>2. Named("snum")' = Named("snum") /\ ~ Owned(s)
    BY <1>8, <2>1, RevaluedNames
  <2>3. QED
    BY <1>8, <1>9, <2>1, <2>2
<1>12. CASE Find(p) /\ pc'[p] = "claim"
  <2>1. UNCHANGED <<var, name>> /\ pc[p] = "find" /\ pc'[p] \in Making
    BY <1>12 DEF Find, Making
  <2>2. Owned(s) <=> Owns(p) /\ slot[p] = s
    BY <1>10, <2>1, AloneIs DEF TablePart
  <2>3. ~ Owned(s) /\ Named("snum")' = Named("snum")
    BY <2>1, <2>2 DEF Owns, Making, Named
  <2>4. QED
    BY <1>8, <1>9, <2>1, <2>3
<1>13. CASE Claim(p)
  <2>1. /\ UNCHANGED <<name, slot>>
        /\ \A t \in Slot : Flagged(t)' <=> Flagged(t) \/ t = slot[p]
        /\ \A t \in Slot : var'[t].content = var[t].content
    BY <1>10, <1>13, ClaimTable
  <2>2. pc[p] = "claim" /\ pc'[p] = "name" /\ pc[p] \in Making
    BY <1>1, <1>13 DEF Claim, Goes, Making
  <2>3. Owned(s) <=> Owns(p) /\ slot[p] = s
    BY <1>10, <2>2, AloneIs DEF TablePart
  <2>4. name[slot[p]] = "none"
    BY <1>1, <2>2 DEF TablePart, Filling
  <2>5. Named("snum")' = Named("snum")
    BY <2>1, <2>4 DEF Named, Flagged
  <2>6. QED
    BY <1>8, <1>9, <2>1, <2>2, <2>3, <2>5 DEF Owns
<1>14. CASE Name(p)
  <2>1. /\ UNCHANGED <<var, slot>>
        /\ \A t \in Slot : name'[t] = IF t = slot[p] THEN Head(todo[p]) ELSE name[t]
    BY <1>10, <1>14, NameTable
  <2>2. pc[p] = "name" /\ pc'[p] = "length" /\ pc[p] \in Making
    BY <1>1, <1>14 DEF Name, Goes, Making
  <2>3. /\ Owned(s) <=> Owns(p) /\ slot[p] = s
        /\ Owned(s)' <=> Owns(p)' /\ slot'[p] = s
    BY <1>10, <2>2, AloneIs DEF TablePart
  <2>4. s # slot[p] /\ ~ Owned(s)
    BY <1>8, <2>1, <2>2, <2>3 DEF Owns, Making
  <2>5. name[slot[p]] = "none"
    BY <2>2 DEF TablePart, Filling
  <2>6. /\ s \in Named("snum")' /\ \A t \in Named("snum")' : s <= t
    BY <1>8, Lowest DEF Named
  <2>7. s \in Named("snum") /\ Named("snum") \subseteq Named("snum")'
    BY <2>1, <2>4, <2>5, <2>6 DEF Named
  <2>8. s = Min(Named("snum"))
    <3>1. Named("snum") \subseteq Slot
      BY DEF Named
    <3>2. \A t \in Named("snum") : s <= t
      BY <2>6, <2>7
    <3>3. QED
      BY <2>7, <3>1, <3>2, Least
  <2>9. QED
    BY <1>9, <2>1, <2>4, <2>7, <2>8
<1>15. CASE Length(p) \/ Content(p)
  <2>1. /\ UNCHANGED <<name, slot>>
        /\ \A t \in Slot : Flagged(t)' <=> Flagged(t)
        /\ \A t \in Slot : t # slot[p] => var'[t].content = var[t].content
    BY <1>10, <1>15, LengthTable, ContentTable
  <2>2. pc[p] \in {"length", "content"} /\ pc'[p] \in {"content", "clear"} /\ pc[p] \in Making
    BY <1>1, <1>15 DEF Length, Content, Goes, Making
  <2>3. /\ Owned(s) <=> Owns(p) /\ slot[p] = s
        /\ Owned(s)' <=> Owns(p)' /\ slot'[p] = s
    BY <1>10, <2>2, AloneIs DEF TablePart
  <2>4. s # slot[p] /\ ~ Owned(s)
    BY <1>8, <2>1, <2>2, <2>3 DEF Owns, Making
  <2>5. Named("snum")' = Named("snum")
    BY <2>1 DEF Named, Flagged
  <2>6. QED
    BY <1>8, <1>9, <2>1, <2>4, <2>5
<1>16. CASE Clear(p)
  <2>1. /\ UNCHANGED <<name, slot>>
        /\ \A t \in Slot : Flagged(t)' <=> Flagged(t)
    BY <1>10, <1>16, ClearTable
  <2>2. pc[p] = "clear" /\ pc[p] \in Making
    BY <1>16 DEF Clear, Making
  <2>3. Owned(s) <=> Owns(p) /\ slot[p] = s
    BY <1>10, <2>2, AloneIs DEF TablePart
  <2>4. Named("snum")' = Named("snum")
    BY <2>1 DEF Named, Flagged
  <2>5. DEFINE n == Head(todo[p])
  <2>6. /\ n \in Names /\ Named(n) # {} /\ Min(Named(n)) \in Slot /\ Complete(Min(Named(n)), n)
        /\ \A t \in Slot : t # Min(Named(n)) => var'[t].content = var[t].content
        /\ n # "buffer" => var'[Min(Named(n))].content[1] = 0
    BY <1>10, <1>16, ClearFirst
  <2>7. Complete(slot[p], n)
    BY <2>2 DEF TablePart, Filling
  <2>8. n \in {"svar", "snum"}
    BY <1>1, HeadOfSadd DEF PlacePart
  <2>9. CASE n = "snum"
    <3>1. Value(s)' = 0
      BY <1>8, <2>4, <2>6, <2>9 DEF Value
    <3>2. QED
      BY <3>1, SMT DEF One
  <2>10. CASE n = "svar"
    <3>1. s \in Named("snum")
      BY <1>8, <2>4, Lowest DEF Named
    <3>2. name[s] = "snum"
      BY <3>1 DEF Named
    <3>3. s # slot[p] /\ s # Min(Named(n))
      BY <2>6, <2>7, <2>10, <3>2 DEF Complete
    <3>4. QED
      BY <1>8, <1>9, <2>3, <2>4, <2>6, <3>3
  <2>11. QED
    BY <2>8, <2>9, <2>10
<1>17. QED
  BY <1>11, <1>12, <1>13, <1>14, <1>15, <1>16, CreateKinds

-----------------------------------------------------------------------------
(* The steps of the programs. *)

LEMMA WrittenKeeps ==
  ASSUME SvTypeOK, NEW n \in Names, NEW i \in Nat, NEW v \in Word,
         var' = VarWritten(n, i, v)
  PROVE  /\ var' \in [Slot -> Cell]
         /\ \A s \in Slot : var'[s].flag = var[s].flag /\ var'[s].length = var[s].length
         /\ \A s \in Slot : \A m \in Names :
               var[s].content \in [1 .. LengthOf(m) -> Word] =>
                  var'[s].content \in [1 .. LengthOf(m) -> Word]
  BY Written1

LEMMA SeesTyped ==
  ASSUME SvTypeOK, NEW p \in Process, NEW of \in {"num", "temp"}, NEW v \in Word,
         Sees(p, of, v)
  PROVE  /\ local' \in [Process -> [num : Word, temp : Word]]
         /\ local'[p][of] = v
         /\ of = "num" => local'[p].temp = local[p].temp
         /\ of = "temp" => local'[p].num = local[p].num
         /\ \A q \in Process : q # p => local'[q] = local[q]
<1>1. local \in [Process -> [num : Word, temp : Word]]
  BY DEF SvTypeOK
<1>2. local' = [local EXCEPT ![p] = [local[p] EXCEPT ![of] = v]]
  BY <1>1 DEF Sees
<1>3. DEFINE c == [local[p] EXCEPT ![of] = v]
<1>4. CASE of = "num"
  <2>1. /\ c \in [num : Word, temp : Word] /\ c.num = v
        /\ c.temp = local[p].temp
    BY <1>1, <1>4
  <2>2. HIDE DEF c
  <2>3. local' = [local EXCEPT ![p] = c]
    BY <1>2 DEF c
  <2>4. QED
    BY <1>1, <1>4, <2>1, <2>3
<1>5. CASE of = "temp"
  <2>1. /\ c \in [num : Word, temp : Word] /\ c.temp = v
        /\ c.num = local[p].num
    BY <1>1, <1>5
  <2>2. HIDE DEF c
  <2>3. local' = [local EXCEPT ![p] = c]
    BY <1>2 DEF c
  <2>4. QED
    BY <1>1, <1>5, <2>1, <2>3
<1>6. QED
  BY <1>4, <1>5

\* While a program runs on its variables, none is being created.
LEMMA FirstIs ==
  ASSUME PlacePart, SvTypeOK, demo \in {"applications", "sadd"}, TablePart, FirstPart,
         NEW p \in Process, todo[p] = <<>>
  PROVE  LET n == Head(Wanted(demo))
         IN  /\ \A r \in Process : pc[r] \notin Making
             /\ \A s \in Slot : ~ Owned(s)
             /\ \A s \in Slot : Flagged(s) => \E m \in Names : Complete(s, m)
             /\ n \in Names /\ 1 \in Named(n) /\ Min(Named(n)) = 1 /\ Complete(1, n)
             /\ 1 \in 1 .. LengthOf(n) /\ VarRead(n, 1) = {Value(1)}
             /\ Flagged(1) /\ name[1] = n /\ Value(1) \in Word
<1>1. DEFINE n == Head(Wanted(demo))
<1>2. \A r \in Process : pc[r] \notin Making
  <2>1. pc[p] \notin Making
    BY DEF PlacePart
  <2>2. pc[Other(p)] \notin Making
    <3>1. Other(p) \in Process /\ Other(Other(p)) = p
      BY Both
    <3>2. QED
      BY <3>1 DEF TablePart, Overlap
  <2>3. QED
    BY <2>1, <2>2, Both
<1>3. \A s \in Slot : ~ Owned(s)
  BY <1>2 DEF Owned, Owns
<1>4. \A s \in Slot : Flagged(s) => \E m \in Names : Complete(s, m)
  BY <1>3 DEF TablePart
<1>5. Wanted(demo) \in Todos(demo) /\ Wanted(demo) # <<>>
  <2>1. <<"counter", "buffer">> # <<>> /\ <<"svar", "snum">> # <<>>
    BY SMT
  <2>2. QED
    BY <2>1 DEF Wanted, Todos
<1>6. n \in Names
  BY <1>5, Todo
<1>7. Flagged(1)
  BY <1>5 DEF FirstPart
<1>8. name[1] = n
  BY <1>2, <1>7 DEF FirstPart, Making
<1>9. 1 \in Slot
  BY Cells
<1>10. 1 \in Named(n)
  BY <1>7, <1>8, <1>9 DEF Named, Flagged
<1>11. Complete(1, n)
  BY <1>4, <1>7, <1>8, <1>9 DEF Complete
<1>12. Min(Named(n)) = 1
  <2>1. Named(n) \subseteq Slot
    BY DEF Named
  <2>2. \A t \in Slot : 1 <= t
    BY SMT DEF Slot
  <2>3. QED
    BY <1>10, <2>1, <2>2, Least
<1>13. 1 \in 1 .. LengthOf(n)
  <2>1. LengthOf(n) \in Nat \ {0}
    BY <1>6, Cells
  <2>2. QED
    BY <2>1, SMT
<1>14. VarRead(n, 1) = {Value(1)}
  <2>1. VarRead(n, 1) = {var[Min(Named(n))].content[1]}
    BY <1>4, <1>6, <1>10, <1>13, ReadFirst
  <2>2. QED
    BY <1>12, <2>1 DEF Value
<1>15. Value(1) \in Word
  BY <1>11, <1>13 DEF Complete, Value
<1>16. QED
  BY <1>2, <1>3, <1>4, <1>6, <1>7, <1>8, <1>10, <1>11, <1>12, <1>13, <1>14, <1>15

LEMMA RevaluedFirst ==
  ASSUME PlacePart, SvTypeOK, FirstPart, Revalued, UNCHANGED <<demo, todo>>
  PROVE  FirstPart'
<1>1. (Flagged(1)' <=> Flagged(1)) /\ name'[1] = name[1]
  BY Cells, RevaluedNames DEF Revalued
<1>2. \A r \in Process : /\ pc'[r] = "name" <=> pc[r] = "name"
                         /\ pc'[r] = "claim" <=> pc[r] = "claim"
                         /\ slot'[r] = slot[r]
  BY DEF Revalued, Making
<1>3. QED
  BY <1>1, <1>2 DEF FirstPart

\* Where a program is before and after a step of its own.
LEMMA ApplicationFrame ==
  ASSUME PlacePart, SvTypeOK, demo = "applications", NEW p \in Process, Application(p)
  PROVE  /\ todo[p] = <<>> /\ UNCHANGED <<build, name, todo, slot, lock, share, sharenum>>
         /\ pc' \in [Process -> Places(demo)] /\ \A q \in Process : q # p => pc'[q] = pc[q]
         /\ pc[p] \notin Making \cup {"find"} /\ pc'[p] \notin Making \cup {"find"}
         /\ local' \in [Process -> [num : Word, temp : Word]]
         /\ in' \in Slots /\ out' \in Slots /\ made' \in Product /\ taken' \in Word
         /\ Revalued
<1>1. /\ pc \in [Process -> Places(demo)] /\ local \in [Process -> [num : Word, temp : Word]]
      /\ in \in Slots /\ out \in Slots /\ made \in Product /\ taken \in Word
      /\ todo \in [Process -> Todos(demo)] /\ var \in [Slot -> Cell]
      /\ \A q \in Process : todo[q] # <<>> => pc[q] \in Making \cup {"test", "find"}
  BY Cells DEF PlacePart, SvTypeOK
<1>2. UNCHANGED <<name, todo, slot, lock, share, sharenum>>
  BY DEF Application
<1>3. /\ {"test", "raise", "yield", "look", "turn", "update", "count", "lower"} \subseteq Places(demo)
      /\ {"test", "raise", "yield", "look", "turn", "update", "count", "lower"}
            \cap (Making \cup {"find"}) = {}
  BY DEF Places, Entered, Making
<1>4. ASSUME NEW here \in {"test", "raise", "yield", "look", "turn", "update", "count", "lower"},
             NEW next \in {"test", "raise", "yield", "look", "turn", "update", "count", "lower"},
             Goes(p, here, next)
      PROVE  /\ pc' \in [Process -> Places(demo)] /\ \A q \in Process : q # p => pc'[q] = pc[q]
             /\ pc[p] \notin Making \cup {"find"} /\ pc'[p] \notin Making \cup {"find"}
             /\ here # "test" => todo[p] = <<>>
  BY <1>1, <1>3, <1>4 DEF Goes
<1>5. in \in Nat /\ out \in Nat /\ in + 1 \in Nat /\ out + 1 \in Nat
      /\ (in + 1) % BUFFER_SIZE \in Slots /\ (out + 1) % BUFFER_SIZE \in Slots
  BY <1>1, SizeAssumption, SMT DEF Slots
<1>6. "buffer" \in Names /\ "counter" \in Names /\ Product \subseteq Word
  BY WordAssumption, SizeAssumption, SMT DEF Names, Product, Word
<1>7. ASSUME /\ \A q \in Process : q # p => pc'[q] = pc[q]
             /\ pc[p] \notin Making \cup {"find"} /\ pc'[p] \notin Making \cup {"find"}
             /\ \/ UNCHANGED var
                \/ \E n \in Names, i \in Nat, v \in Word : var' = VarWritten(n, i, v)
      PROVE  Revalued
  <2>1. /\ var' \in [Slot -> Cell]
        /\ \A s \in Slot : var'[s].flag = var[s].flag /\ var'[s].length = var[s].length
        /\ \A s \in Slot : \A m \in Names :
              var[s].content \in [1 .. LengthOf(m) -> Word] =>
                 var'[s].content \in [1 .. LengthOf(m) -> Word]
    BY <1>1, <1>7, WrittenKeeps
  <2>2. QED
    BY <1>2, <1>7, <2>1 DEF Revalued
<1>8. CASE Poll(p)
  <2>1. PICK v \in VarRead("counter", 1) :
           /\ Runs(p, "test", IF v = (IF p = "producer" THEN BUFFER_SIZE ELSE 0)
                              THEN "test" ELSE "raise")
           /\ Sees(p, "num", v)
    BY <1>8 DEF Poll
  <2>2. UNCHANGED <<shared, made, taken, var>>
    BY <1>8 DEF Poll
  <2>3. v \in Word
    BY <1>6, <2>1, ReadTyped, SMT
  <2>4. local' \in [Process -> [num : Word, temp : Word]]
    BY <2>1, <2>3, SeesTyped
  <2>5. todo[p] = <<>> /\ \E next \in {"test", "raise"} : Goes(p, "test", next)
    BY <2>1 DEF Runs
  <2>6. QED
    BY <1>1, <1>2, <1>4, <1>7, <2>2, <2>4, <2>5 DEF shared
<1>9. CASE EntranceAndExit(p)
  <2>1. UNCHANGED <<local, var, build, in, out, made, taken>>
    BY <1>9 DEF EntranceAndExit, Raise, Yield, Look, ReadTurn, Lower, shared
  <2>2. \E here \in {"raise", "yield", "look", "turn", "lower"} :
        \E next \in {"test", "raise", "yield", "look", "turn", "update", "count", "lower"} :
           Goes(p, here, next)
    BY <1>9 DEF EntranceAndExit, Raise, Yield, Look, ReadTurn, Lower
  <2>3. QED
    BY <1>1, <1>2, <1>4, <1>7, <2>1, <2>2
<1>10. CASE CountVar(p)
  <2>1. Goes(p, "count", "lower") /\ UNCHANGED <<shared, made, taken, local>>
    BY <1>10 DEF CountVar, Runs
  <2>2. DEFINE x == local[p].num + (IF p = "producer" THEN 1 ELSE W - 1)
  <2>3. var' = VarWritten("counter", 1, x % W)
    BY <1>10 DEF CountVar
  <2>4. x % W \in Word
    <3>1. local[p].num \in Word
      BY <1>1
    <3>2. x \in Int
      BY <3>1, Remainders, SMT DEF Word
    <3>3. QED
      BY <3>2, Remainders
  <2>5. \E n \in Names, i \in Nat, v \in Word : var' = VarWritten(n, i, v)
    BY <1>6, <2>3, <2>4
  <2>6. QED
    BY <1>1, <1>2, <1>4, <1>7, <2>1, <2>5 DEF shared
<1>11. CASE p = "producer" /\ FillVar
  <2>1. /\ Goes(p, "update", "count") /\ UNCHANGED <<build, out, taken, local>>
        /\ var' = VarWritten("buffer", in + 1, made)
        /\ made' = Following(made) /\ in' = (in + 1) % BUFFER_SIZE
    BY <1>11 DEF FillVar, Runs
  <2>2. Following(made) \in Product
    BY <1>1, ModProduct, SizeAssumption, SMT DEF Product, Num
  <2>3. \E n \in Names, i \in Nat, v \in Word : var' = VarWritten(n, i, v)
    BY <1>1, <1>5, <1>6, <2>1
  <2>4. QED
    BY <1>1, <1>2, <1>4, <1>5, <1>7, <2>1, <2>2, <2>3
<1>12. CASE p = "consumer" /\ TakeVar
  <2>1. /\ Goes(p, "update", "count") /\ UNCHANGED <<build, in, made, local, var>>
        /\ taken' \in VarRead("buffer", out + 1) /\ out' = (out + 1) % BUFFER_SIZE
    BY <1>12 DEF TakeVar, Runs
  <2>2. taken' \in Word
    BY <1>5, <1>6, <2>1, ReadTyped
  <2>3. QED
    BY <1>1, <1>2, <1>4, <1>5, <1>7, <2>1, <2>2
<1>13. QED
  BY <1>8, <1>9, <1>10, <1>11, <1>12 DEF Application

LEMMA ApplicationTypes ==
  ASSUME PlacePart, SvTypeOK, FlagsAreUp, Holds, demo = "applications",
         NEW p \in Process, Application(p), LostAfter, UNCHANGED demo
  PROVE  PlacePart' /\ SvTypeOK' /\ FlagsAreUp' /\ Holds'
<1>1. /\ todo[p] = <<>> /\ UNCHANGED <<build, name, todo, slot, lock, share, sharenum>>
      /\ pc' \in [Process -> Places(demo)] /\ \A q \in Process : q # p => pc'[q] = pc[q]
      /\ pc[p] \notin Making \cup {"find"} /\ pc'[p] \notin Making \cup {"find"}
      /\ local' \in [Process -> [num : Word, temp : Word]]
      /\ in' \in Slots /\ out' \in Slots /\ made' \in Product /\ taken' \in Word
      /\ var' \in [Slot -> Cell]
  BY ApplicationFrame DEF Revalued
<1>2. lost' \in {"no", "update", "all"}
  BY LostIs
<1>3. SvTypeOK'
  BY <1>1, <1>2 DEF SvTypeOK, Cell, Contents
<1>4. pc \in [Process -> Places(demo)] /\ flag \in [Process -> 0 .. 1] /\ turn \in Process
  BY DEF PlacePart
<1>5. /\ FlagsAreUp' /\ Holds'
      /\ flag' \in [Process -> 0 .. 1] /\ turn' \in Process
  <2> USE <1>4 DEF FlagsAreUp, Holds, Entered, Critical, Process, Other, Goes, Runs
  <2>1. CASE Poll(p)
    BY <2>1 DEF Poll, shared
  <2>2. CASE Raise(p)
    BY <2>2 DEF Raise
  <2>3. CASE Yield(p)
    BY <2>3 DEF Yield
  <2>4. CASE Look(p)
    BY <2>4 DEF Look, shared
  <2>5. CASE ReadTurn(p)
    BY <2>5 DEF ReadTurn, shared
  <2>6. CASE CountVar(p)
    BY <2>6 DEF CountVar, shared
  <2>7. CASE Lower(p)
    BY <2>7 DEF Lower
  <2>8. CASE (p = "producer" /\ FillVar) \/ (p = "consumer" /\ TakeVar)
    BY <2>8 DEF FillVar, TakeVar
  <2>9. QED
    BY <2>1, <2>2, <2>3, <2>4, <2>5, <2>6, <2>7, <2>8 DEF Application, EntranceAndExit
<1>6. PlacePart'
  BY <1>1, <1>5 DEF PlacePart
<1>7. QED
  BY <1>3, <1>5, <1>6

\* What var_wrt does to the first variable and to the others.
LEMMA FirstWritten ==
  ASSUME PlacePart, SvTypeOK, demo \in {"applications", "sadd"}, TablePart, FirstPart,
         NEW p \in Process, todo[p] = <<>>,
         NEW n \in Names, NEW i \in Nat, NEW v \in Word, var' = VarWritten(n, i, v)
  PROVE  /\ n = Head(Wanted(demo)) /\ i = 1 => Value(1)' = v
         /\ n # Head(Wanted(demo)) => Value(1)' = Value(1)
<1>1. DEFINE m == Head(Wanted(demo))
<1>2. /\ m \in Names /\ 1 \in Named(m) /\ Min(Named(m)) = 1 /\ Complete(1, m)
      /\ 1 \in 1 .. LengthOf(m) /\ name[1] = m /\ 1 \in Slot
  BY FirstIs, Cells
<1>3. ASSUME n = m, i = 1 PROVE Value(1)' = v
  <2>1. Named(m) # {} /\ Complete(Min(Named(m)), m) /\ var' = VarWritten(m, 1, v)
    BY <1>2, <1>3
  <2>2. var'[Min(Named(m))].content[1] = v
    BY <1>2, <2>1, WrittenFirst
  <2>3. QED
    BY <1>2, <2>2 DEF Value
<1>4. ASSUME n # m PROVE Value(1)' = Value(1)
  <2>1. 1 \notin Named(n)
    BY <1>2, <1>4 DEF Named
  <2>2. var'[1] = var[1]
    BY <1>2, <2>1, Written1
  <2>3. QED
    BY <2>2 DEF Value
<1>5. QED
  BY <1>3, <1>4

LEMMA ApplicationRange ==
  ASSUME PlacePart, SvTypeOK, demo = "applications", TablePart, FirstPart, RangePart,
         NEW p \in Process, Application(p)
  PROVE  RangePart'
<1>1. /\ todo[p] = <<>> /\ UNCHANGED todo
      /\ \A q \in Process : q # p => pc'[q] = pc[q]
      /\ pc \in [Process -> Places(demo)] /\ local \in [Process -> [num : Word, temp : Word]]
  BY ApplicationFrame DEF PlacePart, SvTypeOK
<1>2. demo \in {"applications", "sadd"} /\ Head(Wanted(demo)) = "counter"
  <2>1. Head(<<"counter", "buffer">>) = "counter"
    BY SMT
  <2>2. QED
    BY <2>1 DEF Wanted
<1>3. /\ Flagged(1) /\ ~ Owned(1) /\ VarRead("counter", 1) = {Value(1)} /\ 1 \in Slot
  BY <1>1, <1>2, FirstIs, Cells
<1>4. Value(1) \in 0 .. BUFFER_SIZE /\ Running' /\ "counter" \in Names /\ "buffer" \in Names
  BY <1>1, <1>3 DEF RangePart, Running, Names
<1>5. SUFFICES /\ Value(1)' \in 0 .. BUFFER_SIZE
               /\ pc'["producer"] \in Polled => local'["producer"].num \in 0 .. BUFFER_SIZE - 1
               /\ pc'["consumer"] \in Polled => local'["consumer"].num \in 1 .. BUFFER_SIZE
  BY <1>4 DEF RangePart
<1>6. ASSUME UNCHANGED local, \A q \in Process : pc'[q] \in Polled => pc[q] \in Polled
      PROVE  /\ pc'["producer"] \in Polled => local'["producer"].num \in 0 .. BUFFER_SIZE - 1
             /\ pc'["consumer"] \in Polled => local'["consumer"].num \in 1 .. BUFFER_SIZE
  BY <1>6, Both DEF RangePart
<1>7. CASE Poll(p)
  <2>1. UNCHANGED var
    BY <1>7 DEF Poll
  <2>2. PICK v \in VarRead("counter", 1) :
           /\ Runs(p, "test", IF v = (IF p = "producer" THEN BUFFER_SIZE ELSE 0)
                              THEN "test" ELSE "raise")
           /\ Sees(p, "num", v)
    BY <1>7 DEF Poll
  <2>3. v = Value(1) /\ v \in 0 .. BUFFER_SIZE /\ v \in Word
    <3>1. v = Value(1)
      BY <1>3, <2>2
    <3>2. QED
      BY <1>4, <3>1, WordAssumption, SizeAssumption, SMT DEF Word
  <2>4. local'[p].num = v /\ \A q \in Process : q # p => local'[q] = local[q]
    BY <2>2, <2>3, SeesTyped
  <2>5. pc'[p] = IF v = (IF p = "producer" THEN BUFFER_SIZE ELSE 0) THEN "test" ELSE "raise"
    BY <1>1, <2>2 DEF Runs, Goes
  <2>6. CASE p = "producer"
    <3>1. pc'[p] \in Polled => v # BUFFER_SIZE
      BY <2>5, <2>6 DEF Polled
    <3>2. v # BUFFER_SIZE => v \in 0 .. BUFFER_SIZE - 1
      BY <2>3, SizeAssumption, SMT
    <3>3. QED
      BY <1>1, <1>4, <2>1, <2>4, <2>6, <3>1, <3>2, Both DEF RangePart, Value
  <2>7. CASE p = "consumer"
    <3>1. pc'[p] \in Polled => v # 0
      BY <2>5, <2>7 DEF Polled
    <3>2. v # 0 => v \in 1 .. BUFFER_SIZE
      BY <2>3, SizeAssumption, SMT
    <3>3. QED
      BY <1>1, <1>4, <2>1, <2>4, <2>7, <3>1, <3>2, Both DEF RangePart, Value
  <2>8. QED
    BY <2>6, <2>7 DEF Process
<1>8. CASE EntranceAndExit(p)
  <2>1. UNCHANGED <<local, var>>
    BY <1>8 DEF EntranceAndExit
  <2>2. pc'[p] \in Polled => pc[p] \in Polled
    BY <1>1, <1>8 DEF EntranceAndExit, Raise, Yield, Look, ReadTurn, Lower, Goes, Polled
  <2>3. QED
    BY <1>1, <1>4, <1>6, <2>1, <2>2 DEF Value
<1>9. CASE CountVar(p)
  <2>1. /\ pc[p] = "count" /\ pc'[p] = "lower" /\ UNCHANGED local
    BY <1>1, <1>9 DEF CountVar, Runs, Goes
  <2>2. PICK x : x = local[p].num + (IF p = "producer" THEN 1 ELSE W - 1)
    OBVIOUS
  <2>3. x % W \in 0 .. BUFFER_SIZE /\ x % W \in Word
    <3>1. CASE p = "producer"
      <4>1. PICK k : k = local[p].num
        OBVIOUS
      <4>2. k \in 0 .. BUFFER_SIZE - 1 /\ x = k + 1
        BY <2>1, <2>2, <3>1, <4>1 DEF RangePart, Polled
      <4>3. x \in 0 .. BUFFER_SIZE /\ x \in Word
        BY <4>2, WordAssumption, SizeAssumption, SMT DEF Word
      <4>4. QED
        BY <4>3, Remainders
    <3>2. CASE p = "consumer"
      <4>1. PICK k : k = local[p].num
        OBVIOUS
      <4>2. k \in 1 .. BUFFER_SIZE /\ x = k + (W - 1)
        BY <2>1, <2>2, <3>2, <4>1 DEF RangePart, Polled
      <4>3. x \in Int /\ W <= x /\ x < 2 * W /\ x - W \in 0 .. BUFFER_SIZE
            /\ x - W \in Word
        BY <4>2, WordAssumption, SizeAssumption, SMT DEF Word
      <4>4. x % W = x - W
        BY <4>3, Remainders
      <4>5. QED
        BY <4>3, <4>4
    <3>3. QED
      BY <3>1, <3>2 DEF Process
  <2>4. Value(1)' = x % W
    <3>1. var' = VarWritten("counter", 1, x % W)
      BY <1>9, <2>2 DEF CountVar
    <3>2. QED
      BY <1>1, <1>2, <1>4, <2>3, <3>1, FirstWritten
  <2>5. \A q \in Process : pc'[q] \in Polled => pc[q] \in Polled
    BY <1>1, <2>1 DEF Polled
  <2>6. QED
    BY <1>6, <2>1, <2>3, <2>4, <2>5
<1>10. CASE p = "producer" /\ FillVar
  <2>1. /\ pc[p] = "update" /\ UNCHANGED local
        /\ var' = VarWritten("buffer", in + 1, made)
    BY <1>10 DEF FillVar, Runs, Goes
  <2>2. in + 1 \in Nat /\ made \in Word
    BY WordAssumption, SizeAssumption, SMT DEF PlacePart, Slots, Product, Word
  <2>3. Value(1)' = Value(1)
    BY <1>1, <1>2, <1>4, <2>1, <2>2, FirstWritten
  <2>4. \A q \in Process : pc'[q] \in Polled => pc[q] \in Polled
    BY <1>1, <2>1 DEF Polled
  <2>5. QED
    BY <1>4, <1>6, <2>1, <2>3, <2>4
<1>11. CASE p = "consumer" /\ TakeVar
  <2>1. pc[p] = "update" /\ UNCHANGED <<local, var>>
    BY <1>11 DEF TakeVar, Runs, Goes
  <2>2. \A q \in Process : pc'[q] \in Polled => pc[q] \in Polled
    BY <1>1, <2>1 DEF Polled
  <2>3. QED
    BY <1>4, <1>6, <2>1, <2>2 DEF Value
<1>12. QED
  BY <1>7, <1>8, <1>9, <1>10, <1>11 DEF Application

\* With three slots for two programs there is one left for the buffer.
LEMMA CreateSpare ==
  ASSUME PlacePart, SvTypeOK, demo = "applications", TablePart, FirstPart, SpareSlots,
         VAR_MAX_NUM > 2, NEW p \in Process, Create(p), ~ Overlap', UNCHANGED demo
  PROVE  SpareSlots'
<1>1. /\ todo[p] # <<>> /\ \A r \in Process : r # p => pc'[r] = pc[r] /\ todo'[r] = todo[r]
      /\ pc \in [Process -> Places(demo)] /\ todo[p] \in Todos(demo)
      /\ slot \in [Process -> Slot] /\ var \in [Slot -> Cell]
  BY CreateFrame, Cells DEF PlacePart, SvTypeOK
<1>2. demo \in {"applications", "sadd"}
  OBVIOUS
<1>3. PICK q \in Process : q # p /\ Other(p) = q /\ Other(q) = p /\ \A r \in Process : r = p \/ r = q
  BY Both
<1>4. ASSUME NEW r \in Process PROVE Claims(r) \in 0 .. 3 /\ Claims(r)' \in 0 .. 3
  BY SMT DEF Claims, One
<1>5. Claims("producer") + Claims("consumer") = Claims(p) + Claims(q)
      /\ Claims("producer")' + Claims("consumer")' = Claims(p)' + Claims(q)'
  <2>1. CASE p = "producer"
    BY <1>3, <2>1 DEF Process
  <2>2. CASE p = "consumer"
    <3>1. q = "producer"
      BY <1>3, <2>2 DEF Process
    <3>2. QED
      BY <1>3, <1>4, <2>2, <3>1, Both, SMT
  <2>3. QED
    BY <2>1, <2>2 DEF Process
<1>6. Claims(q)' = Claims(q)
  BY <1>1, <1>3 DEF Claims, One, Owns
<1>7. \A s \in Slot : Flagged(s) => s <= Claims(p) + Claims(q)
  BY <1>5 DEF SpareSlots
<1>8. ASSUME \A s \in Slot : Flagged(s)' => Flagged(s), Claims(p) <= Claims(p)'
      PROVE  \A s \in Slot : Flagged(s)' => s <= Claims("producer")' + Claims("consumer")'
  <2>1. SUFFICES ASSUME NEW s \in Slot, Flagged(s)'
                 PROVE  s <= Claims(p)' + Claims(q)'
    BY <1>5
  <2>2. s <= Claims(p) + Claims(q) /\ s \in Nat
    BY <1>7, <1>8, <2>1, Cells
  <2>3. QED
    BY <1>3, <1>4, <1>6, <1>8, <2>2, SMT
<1>9. todo[p] \in {<<"buffer">>, <<"counter", "buffer">>}
  BY <1>1 DEF Todos
<1>10. /\ <<"counter", "buffer">> # <<"buffer">> /\ <<"counter", "buffer">> # <<>>
       /\ <<"buffer">> # <<>>
       /\ Tail(<<"counter", "buffer">>) = <<"buffer">> /\ Tail(<<"buffer">>) = <<>>
       /\ Head(<<"buffer">>) = "buffer"
  BY SMT
\* One variable is done.
<1>11. ASSUME todo'[p] = Tail(todo[p])
       PROVE  /\ todo[p] = <<"buffer">> <=> todo'[p] = <<>>
              /\ Claims(p) = (IF todo'[p] = <<>> THEN 1 ELSE 0) + One(Owns(p))
              /\ ~ Owns(p)' => Claims(p)' = IF todo'[p] = <<>> THEN 2 ELSE 1
  <2>1. CASE todo[p] = <<"buffer">>
    BY <1>10, <1>11, <2>1, SMT DEF Claims, One
  <2>2. CASE todo[p] = <<"counter", "buffer">>
    BY <1>10, <1>11, <2>2, SMT DEF Claims, One
  <2>3. QED
    BY <1>9, <2>1, <2>2
<1>12. CASE pc[p] \notin Making /\ pc'[p] \notin Making
  <2>1. UNCHANGED <<var, name, slot>> /\ ~ Owns(p) /\ ~ Owns(p)'
    BY <1>2, <1>12, SearchTable DEF Owns
  <2>2. \/ todo'[p] = todo[p]
        \/ /\ todo'[p] = Tail(todo[p])
           /\ \/ Named(Head(todo[p])) # {}
              \/ {s \in Slot : var[s].flag = 0} = {}
    BY <1>1, <1>12 DEF Create, Scan, Find, Done, PlacePart, Claim, Name, Length, Content, Clear,
                       Goes, Making
  <2>3. Claims(p) <= Claims(p)'
    <3>1. CASE todo'[p] = todo[p]
      BY <1>4, <2>1, <3>1, SMT DEF Claims, One
    <3>2. CASE todo'[p] = Tail(todo[p])
      BY <1>11, <2>1, <3>2, SMT DEF One
    <3>3. QED
      BY <2>2, <3>1, <3>2
  <2>4. \A s \in Slot : Flagged(s)' <=> Flagged(s)
    BY <2>1 DEF Flagged
  <2>5. Named("buffer")' = Named("buffer")
    BY <2>1 DEF Named
  <2>6. ASSUME todo'[p] = <<>> PROVE Named("buffer") # {}
    <3>1. todo'[p] = Tail(todo[p]) /\ todo[p] = <<"buffer">>
      BY <1>1, <1>11, <2>2, <2>6
    <3>2. SUFFICES ASSUME {s \in Slot : var[s].flag = 0} = {}, todo[q] # <<>>
                   PROVE  FALSE
      BY <1>10, <2>2, <3>1, <1>1 DEF SpareSlots
    <3>3. PICK s \in Slot : s = VAR_MAX_NUM
      BY WordAssumption, SMT DEF Slot
    <3>4. Flagged(s)
      <4>1. var[s].flag \in 0 .. 1 /\ var[s].flag # 0
        BY <1>1, <3>2 DEF Cell
      <4>2. QED
        BY <4>1, SMT DEF Flagged
    <3>5. Claims(p) = 1
      BY <1>11, <2>1, <2>6, <3>1, SMT DEF One
    <3>6. pc[q] \notin Making
      BY <1>1, <1>3, <2>6 DEF Overlap
    <3>7. Claims(q) <= 1
      BY <3>2, <3>6, SMT DEF Claims, One, Owns
    <3>8. s <= Claims(p) + Claims(q)
      BY <1>7, <3>4
    <3>9. PICK b : b = Claims(q)
      OBVIOUS
    <3>10. VAR_MAX_NUM <= 1 + b /\ b <= 1 /\ b \in 0 .. 3
      BY <1>4, <3>3, <3>5, <3>7, <3>8, <3>9
    <3>11. QED
      BY <3>10, WordAssumption, SMT
  <2>7. \A r \in Process : todo'[r] = <<>> => Named("buffer")' # {}
    BY <1>1, <1>3, <2>5, <2>6 DEF SpareSlots
  <2>8. QED
    BY <1>8, <2>3, <2>4, <2>7 DEF SpareSlots
\* The variable is being made; so nobody runs.
<1>13. ASSUME pc[p] \in Making \/ pc'[p] \in Making
       PROVE  todo'[q] # <<>> /\ todo[q] # <<>>
  <2>1. todo'[q] # <<>>
    <3>1. pc[p] \in Making => todo[q] # <<>>
      BY <1>3 DEF TablePart, Overlap
    <3>2. pc'[p] \in Making => todo'[q] # <<>>
      BY <1>3 DEF Overlap
    <3>3. QED
      BY <1>1, <1>3, <1>13, <3>1, <3>2
  <2>2. QED
    BY <1>1, <1>3, <2>1
<1>14. CASE Find(p) /\ pc'[p] = "claim"
  <2>1. UNCHANGED <<var, name, todo>> /\ pc[p] = "find" /\ pc'[p] \in Making
    BY <1>2, <1>14, FindTable DEF Find, Making
  <2>2. ~ Owns(p) /\ ~ Owns(p)'
    BY <1>14, <2>1 DEF Owns, Making
  <2>3. Claims(p)' = Claims(p) /\ \A s \in Slot : Flagged(s)' <=> Flagged(s)
    BY <2>1, <2>2 DEF Claims, One, Flagged
  <2>4. \A r \in Process : todo'[r] # <<>>
    BY <1>1, <1>3, <1>13, <2>1
  <2>5. QED
    BY <1>3, <1>4, <1>8, <2>3, <2>4, SMT DEF SpareSlots
<1>15. CASE Claim(p)
  <2>1. /\ UNCHANGED todo
        /\ \A s \in Slot : Flagged(s)' <=> Flagged(s) \/ s = slot[p]
    BY <1>2, <1>15, ClaimTable
  <2>2. pc[p] = "claim" /\ pc'[p] = "name" /\ pc[p] \in Making
    BY <1>1, <1>15 DEF Claim, Goes, Making
  <2>3. ~ Owns(p) /\ Owns(p)'
    BY <2>2 DEF Owns, Making
  <2>4. Claims(p)' = Claims(p) + 1
    BY <2>1, <2>3, SMT DEF Claims, One
  <2>5. PICK n \in Slot : n = slot[p]
    BY <1>1
  <2>6. \A t \in Slot : t < n => Flagged(t)
    BY <2>2, <2>5 DEF TablePart, Filling
  <2>7. PICK a, b : a = Claims(p) /\ b = Claims(q) /\ a \in 0 .. 3 /\ b \in 0 .. 3
    BY <1>3, <1>4
  <2>8. n <= (a + 1) + b
    <3>1. CASE n = 1
      BY <2>7, <3>1, SMT
    <3>2. CASE n # 1
      <4>1. n - 1 \in Slot /\ n - 1 < n
        BY <2>5, <3>2, WordAssumption, SMT DEF Slot
      <4>2. n - 1 <= a + b
        BY <1>7, <2>6, <2>7, <4>1
      <4>3. QED
        BY <2>7, <4>1, <4>2, Cells, SMT
    <3>3. QED
      BY <3>1, <3>2
  <2>9. ASSUME NEW s \in Slot, Flagged(s)' PROVE s <= Claims(p)' + Claims(q)'
    <3>1. CASE s = n
      BY <1>6, <2>4, <2>7, <2>8, <3>1
    <3>2. CASE s # n
      <4>1. s <= a + b /\ s \in Nat
        BY <1>7, <2>1, <2>5, <2>7, <2>9, <3>2, Cells
      <4>2. s <= (a + 1) + b
        BY <2>7, <4>1, SMT
      <4>3. QED
        BY <1>6, <2>4, <2>7, <4>2
    <3>3. QED
      BY <3>1, <3>2
  <2>10. \A r \in Process : todo'[r] # <<>>
    BY <1>1, <1>3, <1>13, <2>1, <2>2
  <2>11. QED
    BY <1>5, <2>9, <2>10 DEF SpareSlots
<1>16. CASE Name(p) \/ Length(p) \/ Content(p)
  <2>1. UNCHANGED todo /\ \A s \in Slot : Flagged(s)' <=> Flagged(s)
    BY <1>2, <1>16, NameTable, LengthTable, ContentTable DEF Flagged
  <2>2. /\ pc[p] \in {"name", "length", "content"} /\ pc'[p] \in {"length", "content", "clear"}
        /\ pc[p] \in Making
    BY <1>1, <1>16 DEF Name, Length, Content, Goes, Making
  <2>3. Owns(p) /\ Owns(p)'
    BY <2>2 DEF Owns, Making
  <2>4. Claims(p)' = Claims(p)
    BY <2>1, <2>3 DEF Claims, One
  <2>5. \A r \in Process : todo'[r] # <<>>
    BY <1>1, <1>3, <1>13, <2>1, <2>2
  <2>6. QED
    BY <1>3, <1>4, <1>8, <2>1, <2>4, <2>5, SMT DEF SpareSlots
<1>17. CASE Clear(p)
  <2>1. UNCHANGED name /\ \A s \in Slot : Flagged(s)' <=> Flagged(s)
    BY <1>2, <1>17, ClearTable
  <2>2. pc[p] = "clear" /\ pc'[p] = "test" /\ pc[p] \in Making /\ todo'[p] = Tail(todo[p])
    <3>1. todo \in [Process -> Todos(demo)]
      BY DEF PlacePart
    <3>2. QED
      BY <1>1, <1>17, <3>1 DEF Clear, Done, Making
  <2>3. Owns(p) /\ ~ Owns(p)'
    BY <2>2 DEF Owns, Making
  <2>4. Claims(p) <= Claims(p)'
    BY <1>11, <2>2, <2>3, SMT DEF One
  <2>5. ASSUME todo'[p] = <<>> PROVE Named("buffer")' # {}
    <3>1. Head(todo[p]) = "buffer"
      BY <1>10, <1>11, <2>2, <2>5
    <3>2. Complete(slot[p], "buffer") /\ Flagged(slot[p])
      BY <2>2, <2>3, <3>1 DEF TablePart, Filling
    <3>3. slot[p] \in Named("buffer")'
      BY <1>1, <2>1, <3>2 DEF Named, Flagged, Complete
    <3>4. QED
      BY <3>3
  <2>6. \A r \in Process : todo'[r] = <<>> => Named("buffer")' # {}
    BY <1>3, <1>13, <2>2, <2>5
  <2>7. QED
    BY <1>8, <2>1, <2>4, <2>6 DEF SpareSlots
<1>18. QED
  BY <1>12, <1>14, <1>15, <1>16, <1>17, CreateKinds

\* While a program runs no variable is made, and before that nothing is
\* counted.
LEMMA CreateOrder ==
  ASSUME PlacePart, SvTypeOK, demo = "applications", TablePart, FirstPart, RangePart, OrderPart,
         VAR_MAX_NUM > 2, NEW p \in Process, Create(p), ~ Overlap', UNCHANGED demo
  PROVE  OrderPart'
<1>1. /\ todo[p] # <<>> /\ \A r \in Process : r # p => pc'[r] = pc[r] /\ todo'[r] = todo[r]
      /\ pc[p] \in Making \cup {"test", "find"} /\ pc'[p] \in Making \cup {"test", "find"}
      /\ \A r \in Process : todo[r] # <<>> => pc[r] \in Making \cup {"test", "find"}
      /\ 1 \in Slot
  BY CreateFrame, Cells DEF PlacePart
<1>2. demo \in {"applications", "sadd"} /\ UNCHANGED <<in, out, made, taken>>
  BY DEF Create
<1>3. SpareSlots'
  BY CreateSpare DEF OrderPart
<1>4. \A r \in Process : /\ pc'[r] \in Polled => pc[r] \in Polled
                         /\ pc'[r] = "count" <=> pc[r] = "count"
  BY <1>1 DEF Polled, Making
<1>5. ASSUME Count' = Count, Stored \notin Nat \ {0} \/ Named("buffer")' = Named("buffer"),
             Stored \in Int, Stored > 0 => UNCHANGED var
      PROVE  OrderPart'
  <2>1. Stored' = Stored
    BY <1>4, <1>5, Both DEF Stored, One
  <2>2. CountIsFresh'
    BY <1>4, <1>5, Both DEF OrderPart, CountIsFresh
  <2>3. taken' \in Product /\ in' = At(out' + Stored') /\ made' = Num(Num(taken' + 1) + Stored')
    BY <1>2, <2>1 DEF OrderPart, RingPart
  <2>4. ASSUME NEW k \in 0 .. Stored - 1
        PROVE  Held(At(out + k))' = Num(Num(taken + 1) + k)
    <3>1. Stored > 0 /\ Stored \in Nat \ {0}
      BY <1>5, SMT
    <3>2. UNCHANGED var /\ Named("buffer")' = Named("buffer")
      BY <1>5, <3>1
    <3>3. Held(At(out + k))' = Held(At(out + k))
      BY <1>2, <3>2 DEF Held, At
    <3>4. QED
      BY <3>3 DEF OrderPart, RingPart
  <2>5. \A k \in 0 .. Stored' - 1 : Held(At(out + k))' = Num(Num(taken + 1) + k)
    BY <2>1, <2>4
  <2>6. RingPart'
    BY <1>2, <2>3, <2>5 DEF RingPart, At, Num, Held
  <2>7. QED
    BY <1>3, <2>2, <2>6 DEF OrderPart
<1>6. Count \in 0 .. BUFFER_SIZE
  BY SizeAssumption, SMT DEF Count, RangePart
<1>7. Stored \in Int
  BY <1>6, SMT DEF Stored, One
<1>8. CASE Running
  <2>1. PICK q \in Process : todo[q] = <<>> /\ q # p /\ Other(p) = q /\ todo'[q] = <<>>
    BY <1>1, <1>8, Both DEF Running
  <2>2. pc[p] \notin Making /\ pc'[p] \notin Making
    BY <2>1 DEF TablePart, Overlap
  <2>3. Revalued /\ UNCHANGED <<var, name, slot>>
    BY <1>2, <2>2, SearchTable
  <2>4. Named("buffer")' = Named("buffer") /\ (Flagged(1)' <=> Flagged(1)) /\ (Owned(1)' <=> Owned(1))
    BY <1>1, <2>3, RevaluedNames
  <2>5. Count' = Count
    BY <2>3, <2>4 DEF Count, Value
  <2>6. QED
    BY <1>5, <1>7, <2>3, <2>4, <2>5
<1>9. CASE ~ Running
  <2>1. Count = 0
    BY <1>9 DEF Count, RangePart
  <2>2. Count' = 0
    <3>1. CASE Flagged(1)' /\ ~ Owned(1)'
      <4>1. Value(1)' = 0
        BY <1>9, <3>1, CreateValue DEF RangePart
      <4>2. QED
        BY <4>1 DEF Count
    <3>2. CASE ~ (Flagged(1)' /\ ~ Owned(1)')
      BY <3>2 DEF Count
    <3>3. QED
      BY <3>1, <3>2
  <2>3. Stored = 0
    <3>1. \A r \in Process : pc[r] # "count"
      BY <1>1, <1>9 DEF Running, Making
    <3>2. QED
      BY <2>1, <3>1, Both, SMT DEF Stored, One
  <2>4. QED
    BY <1>5, <2>1, <2>2, <2>3, SMT
<1>10. QED
  BY <1>8, <1>9

\* The ring, in numbers.
LEMMA Filled ==
  ASSUME NEW o \in Slots, NEW n \in 0 .. BUFFER_SIZE - 1, NEW t \in Product,
         NEW i, i = At(o + n), NEW m, m = Num(Num(t + 1) + n)
  PROVE  /\ i \in Slots /\ m \in Product
         /\ (i + 1) % BUFFER_SIZE = At(o + (n + 1))
         /\ Following(m) = Num(Num(t + 1) + (n + 1))
         /\ \A k \in 0 .. n : At(o + k) \in Slots /\ (At(o + k) = i <=> k = n)
<1> USE SizeAssumption
<1>1. i \in Slots /\ m \in Product
  BY SMT DEF Slots, Product, At, Num
<1>2. At(i + 1) = At(o + (n + 1))
  BY SMT DEF Slots, At
<1>3. Num(m + 1) = Num(Num(t + 1) + (n + 1))
  BY SMT DEF Product, Num
<1>4. ASSUME NEW k \in 0 .. n PROVE At(o + k) \in Slots /\ (At(o + k) = i <=> k = n)
  BY SMT DEF Slots, At
<1>5. QED
  BY <1>1, <1>2, <1>3, <1>4, ModSlot, ModProduct

LEMMA Taken ==
  ASSUME NEW o \in Slots, NEW n \in 1 .. BUFFER_SIZE, NEW t \in Product
  PROVE  LET next == At(o + 1)  u == Num(t + 1)
         IN  /\ next \in Slots /\ u \in Product /\ (o + 1) % BUFFER_SIZE = next
             /\ At(o + 0) = o /\ Num(u + 0) = u /\ u = Following(t)
             /\ At(o + n) = At(next + (n - 1)) /\ Num(u + n) = Num(Num(u + 1) + (n - 1))
             /\ \A k \in 0 .. (n - 1) - 1 :
                   /\ k + 1 \in 0 .. n - 1
                   /\ At(next + k) = At(o + (k + 1))
                   /\ Num(Num(u + 1) + k) = Num(u + (k + 1))
<1> USE SizeAssumption
<1>1. PICK next, u : next = At(o + 1) /\ u = Num(t + 1)
  OBVIOUS
<1>2. next \in Slots /\ u \in Product
  BY <1>1, SMT DEF Slots, Product, At, Num
<1>3. At(o + 0) = o /\ Num(u + 0) = u
  BY <1>2, SMT DEF Slots, Product, At, Num
<1>4. At(o + n) = At(next + (n - 1))
  BY <1>1, SMT DEF Slots, At
<1>5. Num(u + n) = Num(Num(u + 1) + (n - 1))
  BY <1>2, SMT DEF Product, Num
<1>6. ASSUME NEW k \in 0 .. (n - 1) - 1
      PROVE  /\ k + 1 \in 0 .. n - 1
             /\ At(next + k) = At(o + (k + 1))
             /\ Num(Num(u + 1) + k) = Num(u + (k + 1))
  <2>1. k + 1 \in 0 .. n - 1
    BY SMT
  <2>2. At(next + k) = At(o + (k + 1))
    BY <1>1, SMT DEF Slots, At
  <2>3. Num(Num(u + 1) + k) = Num(u + (k + 1))
    BY <1>2, SMT DEF Product, Num
  <2>4. QED
    BY <2>1, <2>2, <2>3
<1>7. QED
  BY <1>1, <1>2, <1>3, <1>4, <1>5, <1>6, ModSlot, ModProduct

\* The variable that is the buffer.
LEMMA BufferIs ==
  ASSUME PlacePart, SvTypeOK, demo = "applications", TablePart, FirstPart, SpareSlots,
         NEW p \in Process, todo[p] = <<>>
  PROVE  /\ "buffer" \in Names /\ Product \subseteq Word
         /\ \A k \in Slots : k + 1 \in Nat /\ VarRead("buffer", k + 1) = {Held(k)}
         /\ \A k \in Slots, v \in Word :
               LET w == VarWritten("buffer", k + 1, v)
               IN  /\ w[Min(Named("buffer"))].content[k + 1] = v
                   /\ \A j \in Slots : j # k =>
                         w[Min(Named("buffer"))].content[j + 1] = Held(j)
<1>1. demo \in {"applications", "sadd"} /\ "buffer" \in Names /\ Named("buffer") # {}
      /\ LengthOf("buffer") = BUFFER_SIZE
  BY DEF Names, SpareSlots, LengthOf
<1>2. \A s \in Slot : Flagged(s) => \E m \in Names : Complete(s, m)
  BY <1>1, FirstIs
<1>3. \A k \in Slots : /\ k + 1 \in Nat /\ k + 1 \in 1 .. LengthOf("buffer")
  BY <1>1, SizeAssumption, SMT DEF Slots
<1>4. 1 \in 1 .. LengthOf("buffer")
  BY <1>1, SizeAssumption, SMT
<1>5. Complete(Min(Named("buffer")), "buffer")
  BY <1>1, <1>2, <1>4, ReadFirst
<1>6. ASSUME NEW k \in Slots PROVE VarRead("buffer", k + 1) = {Held(k)}
  BY <1>1, <1>2, <1>3, ReadFirst DEF Held
<1>7. ASSUME NEW k \in Slots, NEW v \in Word
      PROVE  LET w == VarWritten("buffer", k + 1, v)
             IN  /\ w[Min(Named("buffer"))].content[k + 1] = v
                 /\ \A j \in Slots : j # k =>
                       w[Min(Named("buffer"))].content[j + 1] = Held(j)
  <2>1. DEFINE w == VarWritten("buffer", k + 1, v)  b == Min(Named("buffer"))
  <2>2. /\ w[b].content[k + 1] = v
        /\ \A j \in 1 .. LengthOf("buffer") : j # k + 1 => w[b].content[j] = var[b].content[j]
    BY <1>1, <1>3, <1>5, WrittenFirst
  <2>3. \A j \in Slots : j # k => j + 1 # k + 1
    BY SMT DEF Slots
  <2>4. QED
    BY <1>3, <2>2, <2>3 DEF Held
<1>8. Product \subseteq Word
  BY WordAssumption, SizeAssumption, SMT DEF Product, Word
<1>9. QED
  BY <1>1, <1>3, <1>6, <1>7, <1>8

\* As long as no update of the counter gets lost, the ring is in order.
LEMMA ApplicationOrder ==
  ASSUME PlacePart, SvTypeOK, Holds, demo = "applications", TablePart, FirstPart, RangePart,
         OrderPart, NEW p \in Process, Application(p), ~ Stale
  PROVE  OrderPart' /\ (taken' # taken => taken' = Following(taken))
<1>1. /\ todo[p] = <<>> /\ UNCHANGED todo
      /\ \A q \in Process : q # p => pc'[q] = pc[q]
      /\ pc \in [Process -> Places(demo)] /\ local \in [Process -> [num : Word, temp : Word]]
      /\ in \in Slots /\ out \in Slots /\ made \in Product
      /\ Revalued
  BY ApplicationFrame DEF PlacePart, SvTypeOK
<1>2. demo \in {"applications", "sadd"} /\ Head(Wanted(demo)) = "counter"
  <2>1. Head(<<"counter", "buffer">>) = "counter"
    BY SMT
  <2>2. QED
    BY <2>1 DEF Wanted
<1>3. /\ Flagged(1) /\ ~ Owned(1) /\ VarRead("counter", 1) = {Value(1)} /\ 1 \in Slot
      /\ Value(1) \in 0 .. BUFFER_SIZE /\ "counter" \in Names
  <2>1. Flagged(1) /\ ~ Owned(1) /\ VarRead("counter", 1) = {Value(1)} /\ 1 \in Slot
    BY <1>1, <1>2, FirstIs, Cells
  <2>2. QED
    BY <2>1 DEF RangePart, Names
<1>4. /\ \A s \in Slot : Flagged(s)' <=> Flagged(s)
      /\ \A s \in Slot : Owned(s)' <=> Owned(s)
      /\ \A r \in Process : Owns(r)' <=> Owns(r)
      /\ Named("buffer")' = Named("buffer")
  BY <1>1, RevaluedNames
<1>5. Count = Value(1) /\ Count' = Value(1)'
  BY <1>3, <1>4 DEF Count
<1>6. SpareSlots'
  <2>1. \A r \in Process : Claims(r)' = Claims(r)
    BY <1>1, <1>4 DEF Claims, One
  <2>2. QED
    BY <1>1, <1>4, <2>1, Both DEF OrderPart, SpareSlots
<1>7. PICK c : c = Count /\ c \in 0 .. BUFFER_SIZE
  BY <1>3, <1>5
<1>8. CountIsFresh /\ RingPart /\ SpareSlots
  BY DEF OrderPart
\* A step that neither counts nor touches the buffer.
<1>9. ASSUME UNCHANGED <<in, out, made, taken, var>>, pc[p] # "count", pc'[p] # "count",
             pc'["producer"] \in Polled => c < BUFFER_SIZE,
             pc'["consumer"] \in Polled => c > 0
      PROVE  OrderPart' /\ (taken' # taken => taken' = Following(taken))
  <2>1. Count' = Count
    BY <1>5, <1>9 DEF Value
  <2>2. CountIsFresh'
    BY <1>7, <1>9, <2>1 DEF CountIsFresh
  <2>3. \A r \in Process : pc'[r] = "count" <=> pc[r] = "count"
    BY <1>1, <1>9
  <2>4. Stored' = Stored
    BY <2>1, <2>3, Both DEF Stored, One
  <2>5. \A k : Held(k)' = Held(k)
    BY <1>4, <1>9 DEF Held
  <2>6. RingPart'
    BY <1>8, <1>9, <2>4, <2>5 DEF RingPart, At, Num
  <2>7. QED
    BY <1>6, <1>9, <2>2, <2>6 DEF OrderPart
<1>10. CASE Poll(p)
  <2>1. UNCHANGED <<in, out, made, taken, var>>
    BY <1>10 DEF Poll, shared
  <2>2. Runs(p, "test", IF c = (IF p = "producer" THEN BUFFER_SIZE ELSE 0) THEN "test" ELSE "raise")
    BY <1>3, <1>5, <1>7, <1>10 DEF Poll
  <2>3. /\ pc[p] = "test"
        /\ pc'[p] = IF c = (IF p = "producer" THEN BUFFER_SIZE ELSE 0) THEN "test" ELSE "raise"
    BY <1>1, <2>2 DEF Runs, Goes
  <2>4. CASE p = "producer"
    <3>1. pc'["producer"] \in Polled => c # BUFFER_SIZE
      BY <2>3, <2>4 DEF Polled
    <3>2. pc'["producer"] \in Polled => c < BUFFER_SIZE
      BY <1>7, <3>1, SizeAssumption, SMT
    <3>3. pc'["consumer"] \in Polled => c > 0
      BY <1>1, <1>7, <1>8, <2>4, Both DEF CountIsFresh
    <3>4. QED
      BY <1>9, <2>1, <2>3, <3>2, <3>3
  <2>5. CASE p = "consumer"
    <3>1. pc'["consumer"] \in Polled => c # 0
      BY <2>3, <2>5 DEF Polled
    <3>2. pc'["consumer"] \in Polled => c > 0
      BY <1>7, <3>1, SizeAssumption, SMT
    <3>3. pc'["producer"] \in Polled => c < BUFFER_SIZE
      BY <1>1, <1>7, <1>8, <2>5, Both DEF CountIsFresh
    <3>4. QED
      BY <1>9, <2>1, <2>3, <3>2, <3>3
  <2>6. QED
    BY <2>4, <2>5 DEF Process
<1>11. ASSUME \A q \in Process : pc'[q] \in Polled => pc[q] \in Polled
       PROVE  /\ pc'["producer"] \in Polled => c < BUFFER_SIZE
              /\ pc'["consumer"] \in Polled => c > 0
  BY <1>7, <1>8, <1>11, Both DEF CountIsFresh
<1>12. CASE EntranceAndExit(p)
  <2>1. UNCHANGED <<in, out, made, taken, var>>
    BY <1>12 DEF EntranceAndExit, Raise, Yield, Look, ReadTurn, Lower, shared
  <2>2. /\ pc'[p] \in Polled => pc[p] \in Polled
        /\ pc[p] # "count" /\ pc'[p] # "count"
    BY <1>1, <1>12 DEF EntranceAndExit, Raise, Yield, Look, ReadTurn, Lower, Goes, Polled
  <2>3. QED
    BY <1>1, <1>9, <1>11, <2>1, <2>2
<1>13. CASE p = "producer" /\ FillVar
  <2>1. /\ pc["producer"] = "update" /\ pc'["producer"] = "count"
        /\ var' = VarWritten("buffer", in + 1, made)
        /\ made' = Following(made) /\ in' = (in + 1) % BUFFER_SIZE
        /\ UNCHANGED <<out, taken>>
    BY <1>1, <1>13 DEF FillVar, Runs, Goes
  <2>2. pc["consumer"] # "count" /\ pc'["consumer"] # "count" /\ pc'["consumer"] = pc["consumer"]
    BY <1>1, <1>13, <2>1, Both DEF Holds, Critical
  <2>3. Stored = c /\ c \in 0 .. BUFFER_SIZE - 1
    <3>1. c < BUFFER_SIZE
      BY <1>7, <1>8, <2>1 DEF CountIsFresh, Polled
    <3>2. Stored = c + 0 - 0
      BY <1>7, <2>1, <2>2 DEF Stored, One
    <3>3. QED
      BY <1>7, <3>1, <3>2, SizeAssumption, SMT
  <2>4. /\ "buffer" \in Names /\ Product \subseteq Word /\ in + 1 \in Nat
    BY <1>1, <1>8, BufferIs
  <2>5. Value(1)' = Value(1)
    BY <1>1, <1>2, <2>1, <2>4, FirstWritten
  <2>6. Stored' = c + 1
    <3>1. Stored' = c + 1 - 0
      BY <1>5, <1>7, <2>1, <2>2, <2>5 DEF Stored, One
    <3>2. QED
      BY <1>7, <3>1, SMT
  <2>7. PICK i, o, t, m : /\ i = in /\ o = out /\ t = taken /\ m = made
                          /\ i \in Slots /\ o \in Slots /\ t \in Product /\ m \in Product
    BY <1>1, <1>8 DEF RingPart
  <2>8. i = At(o + c) /\ m = Num(Num(t + 1) + c)
    BY <1>8, <2>3, <2>7 DEF RingPart
  <2>9. /\ in' = At(o + (c + 1)) /\ made' = Num(Num(t + 1) + (c + 1))
        /\ \A k \in 0 .. c : At(o + k) \in Slots /\ (At(o + k) = i <=> k = c)
    BY <2>1, <2>3, <2>7, <2>8, Filled
  <2>10. Held(i)' = m /\ \A j \in Slots : j # i => Held(j)' = Held(j)
    <3>1. m \in Word /\ var' = VarWritten("buffer", i + 1, m)
      BY <2>1, <2>4, <2>7
    <3>2. /\ var'[Min(Named("buffer"))].content[i + 1] = m
          /\ \A j \in Slots : j # i => var'[Min(Named("buffer"))].content[j + 1] = Held(j)
      BY <1>1, <1>8, <2>7, <3>1, BufferIs
    <3>3. \A j : Held(j)' = var'[Min(Named("buffer"))].content[j + 1]
      BY <1>4 DEF Held
    <3>4. QED
      BY <3>2, <3>3
  <2>11. \A k \in 0 .. c - 1 : Held(At(o + k)) = Num(Num(t + 1) + k)
    BY <1>8, <2>3, <2>7 DEF RingPart
  <2>12. ASSUME NEW k \in 0 .. c PROVE Held(At(o + k))' = Num(Num(t + 1) + k)
    <3>1. CASE k = c
      BY <2>8, <2>9, <2>10, <3>1
    <3>2. CASE k # c
      <4>1. k \in 0 .. c - 1
        BY <2>3, <3>2, SMT
      <4>2. QED
        BY <2>9, <2>10, <2>11, <3>2, <4>1
    <3>3. QED
      BY <3>1, <3>2
  <2>13. RingPart'
    <3>1. 0 .. Stored' - 1 = 0 .. c
      BY <2>3, <2>6, SMT
    <3>2. out' = o /\ taken' = t
      BY <2>1, <2>7
    <3>3. \A k \in 0 .. Stored' - 1 : Held(At(out + k))' = Num(Num(t + 1) + k)
      BY <2>12, <3>1, <3>2
    <3>4. QED
      BY <2>6, <2>7, <2>9, <3>2, <3>3 DEF RingPart, At, Num
  <2>14. CountIsFresh'
    <3>1. \A q \in Process : pc'[q] \in Polled => pc[q] \in Polled
      BY <1>1, <1>13, <2>1 DEF Polled
    <3>2. QED
      BY <1>5, <1>7, <1>11, <2>5, <3>1 DEF CountIsFresh
  <2>15. QED
    BY <1>6, <2>1, <2>13, <2>14 DEF OrderPart
<1>14. CASE p = "consumer" /\ TakeVar
  <2>1. /\ pc["consumer"] = "update" /\ pc'["consumer"] = "count"
        /\ taken' \in VarRead("buffer", out + 1) /\ out' = (out + 1) % BUFFER_SIZE
        /\ UNCHANGED <<in, made, var>>
    BY <1>1, <1>14 DEF TakeVar, Runs, Goes
  <2>2. pc["producer"] # "count" /\ pc'["producer"] # "count" /\ pc'["producer"] = pc["producer"]
    BY <1>1, <1>14, <2>1, Both DEF Holds, Critical
  <2>3. Stored = c /\ c \in 1 .. BUFFER_SIZE
    <3>1. c > 0
      BY <1>7, <1>8, <2>1 DEF CountIsFresh, Polled
    <3>2. Stored = c + 0 - 0
      BY <1>7, <2>1, <2>2 DEF Stored, One
    <3>3. QED
      BY <1>7, <3>1, <3>2, SizeAssumption, SMT
  <2>4. Count' = c
    BY <1>5, <1>7, <2>1 DEF Value
  <2>5. Stored' = c - 1
    <3>1. Stored' = c + 0 - 1
      BY <2>1, <2>2, <2>4 DEF Stored, One
    <3>2. QED
      BY <1>7, <3>1, SMT
  <2>6. PICK o, t : o = out /\ t = taken /\ o \in Slots /\ t \in Product
    BY <1>1, <1>8 DEF RingPart
  <2>7. PICK next, u : next = At(o + 1) /\ u = Num(t + 1)
    OBVIOUS
  <2>8. /\ next \in Slots /\ u \in Product /\ (o + 1) % BUFFER_SIZE = next
        /\ At(o + 0) = o /\ Num(u + 0) = u /\ u = Following(t)
        /\ At(o + c) = At(next + (c - 1)) /\ Num(u + c) = Num(Num(u + 1) + (c - 1))
        /\ \A k \in 0 .. (c - 1) - 1 :
              /\ k + 1 \in 0 .. c - 1
              /\ At(next + k) = At(o + (k + 1))
              /\ Num(Num(u + 1) + k) = Num(u + (k + 1))
    BY <2>3, <2>6, <2>7, Taken
  <2>9. /\ in = At(o + c) /\ made = Num(u + c)
        /\ \A k \in 0 .. c - 1 : Held(At(o + k)) = Num(u + k)
    BY <1>8, <2>3, <2>6, <2>7 DEF RingPart
  <2>10. taken' = u
    <3>1. taken' = Held(o)
      BY <1>1, <1>8, <2>1, <2>6, BufferIs
    <3>2. 0 \in 0 .. c - 1
      BY <2>3, SMT
    <3>3. QED
      BY <2>8, <2>9, <3>1, <3>2
  <2>11. out' = next /\ \A j : Held(j)' = Held(j)
    BY <1>4, <2>1, <2>6, <2>8 DEF Held
  <2>12. \A k \in 0 .. Stored' - 1 : Held(At(next + k))' = Num(Num(u + 1) + k)
    BY <2>5, <2>8, <2>9, <2>11
  <2>13. RingPart'
    <3>1. in' = At(next + Stored') /\ made' = Num(Num(u + 1) + Stored')
      BY <2>1, <2>5, <2>8, <2>9
    <3>2. QED
      BY <2>8, <2>10, <2>11, <2>12, <3>1 DEF RingPart, At, Num
  <2>14. CountIsFresh'
    <3>1. \A q \in Process : pc'[q] \in Polled => pc[q] \in Polled
      BY <1>1, <1>14, <2>1 DEF Polled
    <3>2. QED
      BY <1>11, <2>4, <3>1 DEF CountIsFresh
  <2>15. QED
    BY <1>6, <2>6, <2>8, <2>10, <2>13, <2>14 DEF OrderPart
<1>15. CASE CountVar(p)
  <2>1. /\ pc[p] = "count" /\ pc'[p] = "lower" /\ UNCHANGED <<in, out, made, taken>>
    BY <1>1, <1>15 DEF CountVar, Runs, Goes, shared
  <2>2. local[p].num = c
    <3>1. VarRead("counter", 1) = {local[p].num}
      BY <2>1 DEF Stale
    <3>2. QED
      BY <1>3, <1>5, <1>7, <3>1
  <2>3. PICK q \in Process : q # p /\ Other(p) = q /\ \A r \in Process : r = p \/ r = q
    BY Both
  <2>4. pc[q] # "count" /\ pc'[q] = pc[q]
    BY <1>1, <2>1, <2>3 DEF Holds, Critical
  <2>5. PICK x : x = c + (IF p = "producer" THEN 1 ELSE W - 1)
    OBVIOUS
  <2>6. x % W \in Word => Count' = x % W
    <3>1. var' = VarWritten("counter", 1, x % W)
      BY <1>15, <2>2, <2>5 DEF CountVar
    <3>2. QED
      BY <1>1, <1>2, <1>3, <1>5, <3>1, FirstWritten, WordIs
  <2>7. \A k : Held(k)' = Held(k)
    <3>1. x % W \in Word
      <4>1. x \in Int
        BY <1>7, <2>5, WordIs, SMT
      <4>2. QED
        BY <4>1, Remainders
    <3>2. var' = VarWritten("counter", 1, x % W)
      BY <1>15, <2>2, <2>5 DEF CountVar
    <3>3. Min(Named("buffer")) \in Slot /\ Min(Named("buffer")) \in Named("buffer")
      BY <1>1, <1>8, Lowest DEF SpareSlots, Named
    <3>4. name[1] = "counter"
      BY <1>1, <1>2, FirstIs
    <3>5. Min(Named("buffer")) \notin Named("counter")
      BY <3>3 DEF Named
    <3>6. var'[Min(Named("buffer"))] = var[Min(Named("buffer"))]
      BY <1>3, <3>1, <3>2, <3>3, <3>5, Written1, WordIs
    <3>7. QED
      BY <1>4, <3>6 DEF Held
  <2>8. /\ Stored' = Stored
        /\ pc'["producer"] \in Polled => Count' < BUFFER_SIZE
        /\ pc'["consumer"] \in Polled => Count' > 0
    <3>1. CASE p = "producer"
      <4>1. pc["producer"] = "count" /\ pc'["producer"] = "lower" /\ q = "consumer"
            /\ pc["consumer"] # "count" /\ pc'["consumer"] # "count"
        BY <2>1, <2>3, <2>4, <3>1 DEF Process
      <4>2. c < BUFFER_SIZE
        BY <1>7, <1>8, <4>1 DEF CountIsFresh, Polled
      <4>3. x = c + 1 /\ x \in Word
        BY <1>7, <2>5, <3>1, <4>2, WordAssumption, SizeAssumption, SMT DEF Word
      <4>4. Count' = c + 1
        BY <2>6, <4>3, Remainders
      <4>5. Stored = c + 1 - 0 /\ Stored' = c + 1 + 0 - 0
        BY <1>7, <4>1, <4>4 DEF Stored, One
      <4>6. c + 1 - 0 = c + 1 + 0 - 0 /\ c + 1 > 0
        BY <1>7, SMT
      <4>7. QED
        BY <4>1, <4>4, <4>5, <4>6 DEF Polled
    <3>2. CASE p = "consumer"
      <4>1. pc["consumer"] = "count" /\ pc'["consumer"] = "lower" /\ q = "producer"
            /\ pc["producer"] # "count" /\ pc'["producer"] # "count"
        BY <2>1, <2>3, <2>4, <3>2 DEF Process
      <4>2. c > 0
        BY <1>7, <1>8, <4>1 DEF CountIsFresh, Polled
      <4>3. x = c + (W - 1) /\ x \in Int /\ W <= x /\ x < 2 * W /\ x - W = c - 1
            /\ c - 1 \in Word
        BY <1>7, <2>5, <3>2, <4>2, WordAssumption, SizeAssumption, SMT DEF Word
      <4>4. Count' = c - 1
        <5>1. x % W = x - W
          BY <4>3, Remainders
        <5>2. QED
          BY <2>6, <4>3, <5>1
      <4>5. Stored = c + 0 - 1 /\ Stored' = (c - 1) + 0 - 0
        BY <1>7, <4>1, <4>4 DEF Stored, One
      <4>6. c + 0 - 1 = (c - 1) + 0 - 0 /\ c - 1 < BUFFER_SIZE
        BY <1>7, SizeAssumption, SMT
      <4>7. QED
        BY <4>1, <4>4, <4>5, <4>6 DEF Polled
    <3>3. QED
      BY <3>1, <3>2 DEF Process
  <2>9. RingPart'
    BY <1>8, <2>1, <2>7, <2>8 DEF RingPart, At, Num
  <2>10. QED
    BY <1>6, <2>1, <2>8, <2>9 DEF OrderPart, CountIsFresh
<1>16. QED
  BY <1>10, <1>12, <1>13, <1>14, <1>15 DEF Application

LEMMA ApplicationStep ==
  ASSUME DemoIInv, demo = "applications", NEW p \in Process, Create(p) \/ Application(p),
         LostAfter, UNCHANGED demo
  PROVE  DemoIInv'
<1>1. PlacePart /\ SvTypeOK /\ FlagsAreUp /\ Holds
  BY DEF DemoIInv
<1>2. PlacePart' /\ SvTypeOK' /\ FlagsAreUp' /\ Holds'
  BY <1>1, CreateTypes, ApplicationTypes
<1>3. ASSUME lost' # "all" PROVE TablePart' /\ FirstPart' /\ RangePart'
  <2>1. lost # "all" /\ ~ Overlap'
    BY <1>1, <1>3, LostIs
  <2>2. TablePart /\ FirstPart /\ RangePart /\ demo \in {"applications", "sadd"}
    BY <2>1 DEF DemoIInv
  <2>3. CASE Create(p)
    BY <1>1, <2>1, <2>2, <2>3, CreateTable, CreateFirst, CreateRange
  <2>4. CASE Application(p)
    <3>1. Revalued /\ UNCHANGED todo
      BY <1>1, <2>4, ApplicationFrame
    <3>2. TablePart' /\ FirstPart'
      BY <1>1, <2>1, <2>2, <3>1, RevaluedTable, RevaluedFirst
    <3>3. QED
      BY <1>1, <2>2, <2>4, <3>2, ApplicationRange
  <2>5. QED
    BY <2>3, <2>4
<1>4. ASSUME lost' = "no", VAR_MAX_NUM > 2 PROVE OrderPart'
  <2>1. lost = "no" /\ ~ Overlap' /\ ~ Stale
    BY <1>1, <1>4, LostIs
  <2>2. TablePart /\ FirstPart /\ RangePart /\ OrderPart
    BY <1>4, <2>1 DEF DemoIInv
  <2>3. QED
    BY <1>1, <1>4, <2>1, <2>2, CreateOrder, ApplicationOrder
<1>5. demo' = "applications"
  OBVIOUS
<1>6. QED
  BY <1>2, <1>3, <1>4, <1>5 DEF DemoIInv

\* The same for sadd, which may also begin again.
LEMMA SaddFrame ==
  ASSUME PlacePart, SvTypeOK, demo = "sadd", NEW p \in Process, Sadd(p)
  PROVE  /\ todo[p] = <<>> /\ UNCHANGED <<shared, made, taken, name, slot, share, sharenum>>
         /\ pc' \in [Process -> Places(demo)] /\ \A q \in Process : q # p => pc'[q] = pc[q]
         /\ pc[p] \notin Making \cup {"find"} /\ pc'[p] \notin Making \cup {"find"}
         /\ todo' \in [Process -> Todos(demo)] /\ \A q \in Process : q # p => todo'[q] = todo[q]
         /\ todo'[p] # <<>> => pc'[p] = "test"
         /\ pc[p] # "departed" => UNCHANGED todo
         /\ local' \in [Process -> [num : Word, temp : Word]]
         /\ \A q \in Process : q # p => local'[q] = local[q]
         /\ lock' \in 0 .. 1 /\ Revalued
<1>1. /\ pc \in [Process -> Places(demo)] /\ local \in [Process -> [num : Word, temp : Word]]
      /\ todo \in [Process -> Todos(demo)] /\ var \in [Slot -> Cell] /\ lock \in 0 .. 1
      /\ \A q \in Process : todo[q] # <<>> => pc[q] \in Making \cup {"test", "find"}
  BY Cells DEF PlacePart, SvTypeOK
<1>2. UNCHANGED <<shared, made, taken, name, slot, share, sharenum>>
  BY DEF Sadd
<1>3. DEFINE L == {"test", "reset", "snum", "enter", "await", "lock", "temp", "num", "add", "x",
                   "unlock", "depart", "departed"}
<1>4. L \subseteq Places(demo) /\ L \cap (Making \cup {"find"}) = {}
  BY DEF Places, Making
<1>5. ASSUME NEW here \in L, NEW next \in L, Goes(p, here, next)
      PROVE  /\ pc' \in [Process -> Places(demo)] /\ \A q \in Process : q # p => pc'[q] = pc[q]
             /\ pc[p] \notin Making \cup {"find"} /\ pc'[p] \notin Making \cup {"find"}
             /\ pc[p] = here /\ pc'[p] = next
  BY <1>1, <1>4, <1>5 DEF Goes
<1>6. {"svar", "snum"} \subseteq Names /\ 0 \in Word /\ 1 \in Nat
  BY Remainders, SMT DEF Names, Word
<1>7. ASSUME /\ \A q \in Process : q # p => pc'[q] = pc[q] /\ todo'[q] = todo[q]
             /\ pc[p] \notin Making \cup {"find"} /\ pc'[p] \notin Making \cup {"find"}
             /\ \/ UNCHANGED var
                \/ \E n \in Names, v \in Word : var' = VarWritten(n, 1, v)
      PROVE  Revalued
  <2>1. /\ var' \in [Slot -> Cell]
        /\ \A s \in Slot : var'[s].flag = var[s].flag /\ var'[s].length = var[s].length
        /\ \A s \in Slot : \A m \in Names :
              var[s].content \in [1 .. LengthOf(m) -> Word] =>
                 var'[s].content \in [1 .. LengthOf(m) -> Word]
    BY <1>1, <1>6, <1>7, WrittenKeeps
  <2>2. QED
    BY <1>2, <1>7, <2>1 DEF Revalued
<1>8. CASE \/ Tests(p, "test", "reset", "snum", {0})
           \/ Tests(p, "await", "lock", "await", 2 .. (W \div 2) - 1)
  <2>1. UNCHANGED <<local, var, todo, lock>> /\ todo[p] = <<>>
    BY <1>8 DEF Tests, Runs
  <2>2. \E here \in {"test", "await"} : \E next \in {"reset", "snum", "lock", "await"} :
           Goes(p, here, next)
    BY <1>8 DEF Tests, Runs
  <2>3. QED
    BY <1>1, <1>2, <1>5, <1>7, <2>1, <2>2
<1>9. CASE \/ Writes(p, "reset", "snum", "svar", 0)
           \/ Writes(p, "enter", "await", "snum", local[p].num)
           \/ Writes(p, "add", "x", "svar", local[p].num)
  <2>1. UNCHANGED <<local, todo, lock>> /\ todo[p] = <<>>
    BY <1>9 DEF Writes, Runs
  <2>2. \E here \in {"reset", "enter", "add"} : \E next \in {"snum", "await", "x"} :
           Goes(p, here, next)
    BY <1>9 DEF Writes, Runs
  <2>3. local[p].num \in Word
    BY <1>1
  <2>4. \E n \in Names, v \in Word : var' = VarWritten(n, 1, v)
    BY <1>6, <1>9, <2>3 DEF Writes
  <2>5. QED
    BY <1>1, <1>2, <1>5, <1>7, <2>1, <2>2, <2>4
<1>10. CASE \/ Reads(p, "snum", "enter", "snum", "num", 1)
            \/ Reads(p, "temp", "num", "svar", "temp", 0)
            \/ Reads(p, "num", "add", "svar", "num", 1)
            \/ Reads(p, "x", "unlock", "svar", "num", 0)
            \/ Reads(p, "depart", "departed", "snum", "num", W - 1)
  <2>1. UNCHANGED <<var, todo, lock>> /\ todo[p] = <<>>
    BY <1>10 DEF Reads, Runs
  <2>2. \E here \in {"snum", "temp", "num", "x", "depart"} :
        \E next \in {"enter", "num", "add", "unlock", "departed"} : Goes(p, here, next)
    BY <1>10 DEF Reads, Runs
  <2>3. PICK n \in {"svar", "snum"}, of \in {"num", "temp"}, plus \in {0, 1, W - 1} :
           \E v \in VarRead(n, 1) : Sees(p, of, (v + plus) % W)
    BY <1>10 DEF Reads
  <2>4. PICK v \in VarRead(n, 1) : Sees(p, of, (v + plus) % W)
    BY <2>3
  <2>5. v \in Word
    BY <1>6, <2>4, ReadTyped
  <2>6. v + plus \in Int
    BY <2>5, Remainders, SMT DEF Word
  <2>7. (v + plus) % W \in Word
    BY <2>6, Remainders
  <2>8. /\ local' \in [Process -> [num : Word, temp : Word]]
        /\ \A q \in Process : q # p => local'[q] = local[q]
    BY <2>4, <2>7, SeesTyped
  <2>9. QED
    BY <1>1, <1>2, <1>5, <1>7, <2>1, <2>2, <2>8
<1>11. CASE TestAndSet(p)
  <2>1. UNCHANGED <<local, var, todo>> /\ todo[p] = <<>> /\ lock' = 1
    BY <1>11 DEF TestAndSet, Runs
  <2>2. \E next \in {"temp", "lock"} : Goes(p, "lock", next)
    BY <1>11 DEF TestAndSet, Runs
  <2>3. QED
    BY <1>1, <1>2, <1>5, <1>7, <2>1, <2>2
<1>12. CASE Unlock(p)
  <2>1. UNCHANGED <<local, var, todo>> /\ todo[p] = <<>> /\ lock' = 0
    BY <1>12 DEF Unlock, Runs
  <2>2. \E next \in {"depart", "lock"} : Goes(p, "unlock", next)
    BY <1>12 DEF Unlock, Runs
  <2>3. QED
    BY <1>1, <1>2, <1>5, <1>7, <2>1, <2>2
<1>13. CASE Again(p)
  <2>1. /\ UNCHANGED <<local, lock>> /\ Goes(p, "departed", "test")
        /\ var' = VarWritten("snum", 1, local[p].num)
        /\ todo' = [todo EXCEPT ![p] = Wanted(demo)]
    BY <1>13 DEF Again
  <2>2. pc[p] = "departed" /\ pc'[p] = "test"
    BY <1>5, <2>1
  <2>3. todo[p] = <<>>
    BY <1>1, <2>2 DEF Making
  <2>4. Wanted(demo) \in Todos(demo)
    BY DEF Wanted, Todos
  <2>5. todo' \in [Process -> Todos(demo)] /\ \A q \in Process : q # p => todo'[q] = todo[q]
    BY <1>1, <2>1, <2>4
  <2>6. local[p].num \in Word
    BY <1>1
  <2>7. \E n \in Names, v \in Word : var' = VarWritten(n, 1, v)
    BY <1>6, <2>1, <2>6
  <2>8. QED
    BY <1>1, <1>2, <1>5, <1>7, <2>1, <2>2, <2>3, <2>5, <2>7
<1>14. QED
  BY <1>8, <1>9, <1>10, <1>11, <1>12, <1>13 DEF Sadd

LEMMA SaddTypes ==
  ASSUME PlacePart, SvTypeOK, FlagsAreUp, Holds, demo = "sadd",
         NEW p \in Process, Sadd(p), LostAfter, UNCHANGED demo
  PROVE  PlacePart' /\ SvTypeOK' /\ FlagsAreUp' /\ Holds'
<1>1. /\ UNCHANGED <<shared, made, taken, name, slot, share, sharenum>>
      /\ pc' \in [Process -> Places(demo)] /\ \A q \in Process : q # p => pc'[q] = pc[q]
      /\ pc[p] \notin Making \cup {"find"} /\ pc'[p] \notin Making \cup {"find"}
      /\ todo' \in [Process -> Todos(demo)] /\ \A q \in Process : q # p => todo'[q] = todo[q]
      /\ todo'[p] # <<>> => pc'[p] = "test"
      /\ local' \in [Process -> [num : Word, temp : Word]]
      /\ lock' \in 0 .. 1 /\ var' \in [Slot -> Cell]
  BY SaddFrame DEF Revalued
<1>2. lost' \in {"no", "update", "all"}
  BY LostIs
<1>3. SvTypeOK'
  BY <1>1, <1>2 DEF SvTypeOK, Cell, Contents
<1>4. PlacePart'
  BY <1>1 DEF PlacePart, shared
<1>5. Places(demo) \cap Entered = {} /\ Places(demo) \cap {"update", "advance", "count", "lower"} = {}
  BY DEF Places, Entered, Making
<1>6. \A q \in Process : pc[q] \notin Entered /\ pc'[q] \notin Entered /\ ~ Critical(q)'
  BY <1>1, <1>5 DEF PlacePart, Critical
<1>7. FlagsAreUp' /\ Holds'
  BY <1>1, <1>6 DEF FlagsAreUp, Holds, shared
<1>8. QED
  BY <1>3, <1>4, <1>7

\* The lock is set exactly while a program is between Tlock and unTlock.
LEMMA SaddLock ==
  ASSUME PlacePart, SvTypeOK, LockPart, demo = "sadd", NEW p \in Process, Sadd(p)
  PROVE  LockPart'
<1>1. /\ pc \in [Process -> Places(demo)] /\ \A q \in Process : q # p => pc'[q] = pc[q]
  BY SaddFrame DEF PlacePart
<1>2. lock \in 0 .. 1
  BY DEF SvTypeOK
<1>3. Other(p) \in Process /\ Other(p) # p /\ \A q \in Process : q = p \/ q = Other(p)
  BY Both
<1>4. /\ ~ (Locked(p) /\ Locked(Other(p)))
      /\ lock = 1 <=> Locked(p) \/ Locked(Other(p))
  BY <1>3, Both DEF LockPart
<1>5. Locked(Other(p))' <=> Locked(Other(p))
  BY <1>1, <1>3 DEF Locked
<1>6. SUFFICES /\ ~ (Locked(p)' /\ Locked(Other(p))')
               /\ lock' = 1 <=> Locked(p)' \/ Locked(Other(p))'
  BY <1>3, Both DEF LockPart
<1>7. ASSUME UNCHANGED lock, Locked(p)' <=> Locked(p)
      PROVE  /\ ~ (Locked(p)' /\ Locked(Other(p))')
             /\ lock' = 1 <=> Locked(p)' \/ Locked(Other(p))'
  BY <1>4, <1>5, <1>7
<1>8. CASE TestAndSet(p)
  <2>1. /\ lock' = 1 /\ pc[p] = "lock"
        /\ pc'[p] = IF lock = 0 THEN "temp" ELSE "lock"
    BY <1>1, <1>8 DEF TestAndSet, Runs, Goes
  <2>2. CASE lock = 0
    <3>1. Locked(p)' /\ ~ Locked(Other(p))
      BY <1>4, <2>1, <2>2 DEF Locked
    <3>2. QED
      BY <1>5, <2>1, <3>1
  <2>3. CASE lock = 1
    <3>1. ~ Locked(p)' /\ ~ Locked(p)
      BY <2>1, <2>3 DEF Locked
    <3>2. QED
      BY <1>4, <1>5, <2>1, <2>3, <3>1
  <2>4. QED
    BY <1>2, <2>2, <2>3
<1>9. CASE Unlock(p)
  <2>1. lock' = 0 /\ pc[p] = "unlock" /\ pc'[p] \in {"depart", "lock"}
    BY <1>1, <1>9 DEF Unlock, Runs, Goes
  <2>2. Locked(p) /\ ~ Locked(p)'
    BY <2>1 DEF Locked
  <2>3. QED
    BY <1>4, <1>5, <2>1, <2>2
<1>10. CASE ~ (TestAndSet(p) \/ Unlock(p))
  <2>1. UNCHANGED lock
    BY <1>10 DEF Sadd, Tests, Writes, Reads, Again
  <2>2. Locked(p)' <=> Locked(p)
    BY <1>1, <1>10 DEF Sadd, Tests, Writes, Reads, Again, Runs, Goes, Locked
  <2>3. QED
    BY <1>7, <2>1, <2>2
<1>11. QED
  BY <1>8, <1>9, <1>10

\* snum counts no more programs than have entered their number.
LEMMA SnumIs ==
  ASSUME PlacePart, SvTypeOK, demo = "sadd", TablePart, FirstPart, SumPart,
         NEW p \in Process, todo[p] = <<>>
  PROVE  \E k \in Word : /\ VarRead("snum", 1) = {k}
                         /\ k <= One(Past("producer")) + One(Past("consumer"))
<1>1. demo \in {"applications", "sadd"} /\ "snum" \in Names /\ LengthOf("snum") = 1
  BY DEF Names, LengthOf
<1>2. CASE Named("snum") = {}
  <2>1. VarRead("snum", 1) = {0}
    BY <1>2, ReadNone
  <2>2. 0 \in Word /\ 0 <= One(Past("producer")) + One(Past("consumer"))
    BY WordIs, SMT DEF One
  <2>3. QED
    BY <2>1, <2>2
<1>3. CASE Named("snum") # {}
  <2>1. 1 \in 1 .. LengthOf("snum")
    BY <1>1, SMT
  <2>2. /\ \A s \in Slot : ~ Owned(s)
        /\ \A s \in Slot : Flagged(s) => \E m \in Names : Complete(s, m)
    BY <1>1, FirstIs
  <2>3. /\ Min(Named("snum")) \in Slot /\ Complete(Min(Named("snum")), "snum")
        /\ VarRead("snum", 1) = {Value(Min(Named("snum")))}
    BY <1>1, <1>3, <2>1, <2>2, ReadFirst DEF Value
  <2>4. Value(Min(Named("snum"))) \in Word
    BY <2>1, <2>3 DEF Complete, Value
  <2>5. Value(Min(Named("snum"))) <= One(Past("producer")) + One(Past("consumer"))
    BY <1>3, <2>2, <2>3 DEF SumPart
  <2>6. QED
    BY <2>3, <2>4, <2>5
<1>4. QED
  BY <1>2, <1>3

\* What a program has read and added once is one more than before.
LEMMA NotGrown ==
  ASSUME NEW p, local[p].temp \in Word
  PROVE  ~ Grown(p, (local[p].temp + 1) % W)
<1>1. PICK t \in Word : t = local[p].temp
  OBVIOUS
<1>2. PICK d : d = (((t + 1) % W) + W - t) % W
  OBVIOUS
<1>3. d = 1
  <2>1. CASE t = W - 1
    <3>2. (t + 1) % W = 0
      <4>1. PICK x : x = t + 1
        OBVIOUS
      <4>2. x \in Int /\ W <= x /\ x < 2 * W /\ x - W = 0
        BY <2>1, <4>1, WordIs, SMT
      <4>3. x % W = x - W
        BY <4>2, Remainders
      <4>4. QED
        BY <4>1, <4>2, <4>3
    <3>3. d = (0 + W - t) % W
      BY <1>2, <3>2
    <3>4. 0 + W - t = 1 /\ 1 \in Word
      BY <2>1, WordIs, SMT DEF Word
    <3>5. QED
      BY <3>3, <3>4, Remainders
  <2>2. CASE t # W - 1
    <3>1. t + 1 \in Word
      BY <2>2, WordIs, SMT DEF Word
    <3>2. (t + 1) % W = t + 1
      BY <3>1, Remainders
    <3>3. d = (t + 1 + W - t) % W
      BY <1>2, <3>2
    <3>4. t + 1 + W - t = W + 1 /\ W + 1 \in Int /\ W <= W + 1 /\ W + 1 < 2 * W /\ W + 1 - W = 1
      BY WordIs, SMT DEF Word
    <3>5. QED
      BY <3>3, <3>4, Remainders
  <2>3. QED
    BY <2>1, <2>2
<1>4. Grown(p, (t + 1) % W) => d > 1
  BY <1>1, <1>2 DEF Grown
<1>5. QED
  BY <1>1, <1>3, <1>4, SMT

LEMMA SaddSum ==
  ASSUME PlacePart, SvTypeOK, demo = "sadd", TablePart, FirstPart, SumPart, LockPart,
         NEW p \in Process, Sadd(p), UNCHANGED demo
  PROVE  SumPart' /\ UNCHANGED todo
<1>1. /\ todo[p] = <<>> /\ pc \in [Process -> Places(demo)]
      /\ \A q \in Process : q # p => pc'[q] = pc[q]
      /\ pc[p] # "departed" => UNCHANGED todo
      /\ \A q \in Process : q # p => local'[q] = local[q]
      /\ local \in [Process -> [num : Word, temp : Word]]
      /\ Revalued
  BY SaddFrame DEF PlacePart, SvTypeOK
<1>2. demo \in {"applications", "sadd"} /\ Head(Wanted(demo)) = "svar"
  <2>1. Head(<<"svar", "snum">>) = "svar"
    BY SMT
  <2>2. QED
    BY <2>1 DEF Wanted
<1>3. /\ \A s \in Slot : ~ Owned(s)
      /\ \A s \in Slot : Flagged(s) => \E m \in Names : Complete(s, m)
      /\ VarRead("svar", 1) = {Value(1)} /\ Value(1) \in Word /\ name[1] = "svar"
      /\ Min(Named("svar")) = 1 /\ 1 \in Slot
  BY <1>1, <1>2, FirstIs, Cells
<1>4. PICK q \in Process : q # p /\ Other(p) = q /\ Other(q) = p /\ \A r \in Process : r = p \/ r = q
  BY Both
<1>5. Adds(p) /\ Adds(q)
  BY DEF SumPart
<1>6. UNCHANGED todo
  BY <1>1, <1>5 DEF Adds
<1>7. "svar" \in Names /\ "snum" \in Names /\ 1 \in Nat /\ 0 \in Word /\ local[p].num \in Word
      /\ local[p].temp \in Word
  BY <1>1, WordIs DEF Names
<1>8. \A s \in Slot : Owned(s)' <=> Owned(s)
  BY <1>1, RevaluedNames
<1>9. Named("snum")' = Named("snum")
  BY <1>1, RevaluedNames
\* What the other program relies on.
<1>10. ASSUME Past(p) => Past(p)', pc[q] \in {"num", "add", "x"} => Value(1)' = Value(1)
       PROVE  Adds(q)'
  <2>1. pc'[q] = pc[q] /\ local'[q] = local[q]
    BY <1>1, <1>4
  <2>2. One(Past(p)) <= One(Past(p))' /\ One(Past(p)) \in 0 .. 1 /\ One(Past(p))' \in 0 .. 1
    <3>1. Past(p) => Past(p)'
      BY <1>10
    <3>2. CASE Past(p)
      BY <3>1, <3>2, SMT DEF One
    <3>3. CASE ~ Past(p)
      BY <3>3, SMT DEF One
    <3>4. QED
      BY <3>2, <3>3
  <2>3. pc[q] = "enter" => local[q].num <= 1 + One(Past(p))'
    <3>1. PICK k : k = local[q].num
      OBVIOUS
    <3>2. pc[q] = "enter" => k <= 1 + One(Past(p))
      BY <1>4, <1>5, <3>1 DEF Adds
    <3>3. k \in Nat
      BY <1>1, <3>1, WordIs, SMT DEF Word
    <3>4. QED
      BY <2>2, <3>1, <3>2, <3>3, SMT
  <2>4. Other(q)' = p
    BY <1>4 DEF Other
  <2>5. pc[q] = "enter" => local'[q].num <= 1 + One(Past(Other(q)))'
    BY <1>4, <2>1, <2>3
  <2>6. pc[q] \in Behind => Past(Other(q))'
    BY <1>4, <1>5, <1>10 DEF Adds
  <2>7. QED
    BY <1>5, <1>10, <2>1, <2>5, <2>6 DEF Adds
\* snum, unless it is written.
<1>11. ASSUME Past(p) => Past(p)',
              \A s \in Slot : Named("snum") # {} /\ s = Min(Named("snum")) => Value(s)' = Value(s),
              NEW s \in Slot, Named("snum") # {}, s = Min(Named("snum"))
       PROVE  Value(s)' <= One(Past("producer"))' + One(Past("consumer"))'
  <2>1. Past(q)' <=> Past(q)
    BY <1>1, <1>4 DEF Past
  <2>2. \A r \in Process : Past(r) => Past(r)'
    BY <1>4, <1>11, <2>1
  <2>3. (Past("producer") => Past("producer")') /\ (Past("consumer") => Past("consumer")')
    BY <2>2, Both
  <2>4. PICK a, b, c, d : /\ a = One(Past("producer")) /\ b = One(Past("consumer"))
                          /\ c = One(Past("producer"))' /\ d = One(Past("consumer"))'
    OBVIOUS
  <2>5. a \in 0 .. 1 /\ b \in 0 .. 1 /\ c \in 0 .. 1 /\ d \in 0 .. 1
    BY <2>4, SMT DEF One
  <2>6. a <= c /\ b <= d
    <3>1. (a = 1 => c = 1) /\ (b = 1 => d = 1)
      BY <2>3, <2>4, SMT DEF One
    <3>2. QED
      BY <2>5, <3>1, SMT
  <2>7. Value(s) <= a + b /\ Value(s)' = Value(s)
    BY <1>3, <1>11, <2>4 DEF SumPart
  <2>8. Value(s) \in Word
    <3>1. 1 \in 1 .. LengthOf("snum")
      BY SMT DEF LengthOf
    <3>2. Complete(s, "snum")
      BY <1>3, <1>7, <1>11, <3>1, ReadFirst
    <3>3. QED
      BY <3>1, <3>2 DEF Complete, Value
  <2>9. PICK k \in Word : k = Value(s)
    BY <2>8
  <2>10. k <= c + d
    BY <2>5, <2>6, <2>7, <2>9, WordIs, SMT DEF Word
  <2>11. QED
    BY <2>4, <2>7, <2>9, <2>10
<1>12. ASSUME Past(p) => Past(p)',
              \A s \in Slot : Named("snum") # {} /\ s = Min(Named("snum")) => Value(s)' = Value(s),
              pc[q] \in {"num", "add", "x"} => Value(1)' = Value(1), Adds(p)'
       PROVE  SumPart'
  BY <1>4, <1>9, <1>10, <1>11, <1>12 DEF SumPart
<1>13. ASSUME UNCHANGED var PROVE \A s \in Slot : Value(s)' = Value(s)
  BY <1>13 DEF Value
<1>14. ASSUME NEW v \in Word, var' = VarWritten("svar", 1, v)
       PROVE  /\ Value(1)' = v
              /\ \A s \in Slot : Named("snum") # {} /\ s = Min(Named("snum")) => Value(s)' = Value(s)
  <2>1. Value(1)' = v
    BY <1>1, <1>2, <1>7, <1>14, FirstWritten
  <2>2. ASSUME NEW s \in Slot, s = Min(Named("snum")), Named("snum") # {}
        PROVE  Value(s)' = Value(s)
    <3>1. s \in Named("snum")
      BY <2>2, Lowest DEF Named
    <3>2. s # 1 /\ s # Min(Named("svar"))
      BY <1>3, <3>1 DEF Named
    <3>3. var'[s] = var[s]
      BY <1>7, <1>14, <3>2, Written1
    <3>4. QED
      BY <3>3 DEF Value
  <2>3. QED
    BY <2>1, <2>2
<1>15. CASE Tests(p, "test", "reset", "snum", {0})
  <2>1. UNCHANGED var /\ pc[p] = "test" /\ pc'[p] \in {"reset", "snum"}
    BY <1>1, <1>15 DEF Tests, Runs, Goes
  <2>2. ~ Past(p) /\ Adds(p)'
    BY <2>1 DEF Past, Adds, Behind
  <2>3. QED
    BY <1>6, <1>12, <1>13, <1>3, <2>1, <2>2
<1>16. CASE Writes(p, "reset", "snum", "svar", 0)
  <2>1. pc[p] = "reset" /\ pc'[p] = "snum" /\ var' = VarWritten("svar", 1, 0)
    BY <1>1, <1>16 DEF Writes, Runs, Goes
  <2>2. ~ Past(p) /\ Adds(p)'
    BY <2>1 DEF Past, Adds, Behind
  <2>3. pc[q] \notin Behind
    BY <1>4, <1>5, <2>2 DEF Adds
  <2>4. QED
    BY <1>6, <1>7, <1>12, <1>14, <2>1, <2>2, <2>3 DEF Behind
<1>17. CASE Reads(p, "snum", "enter", "snum", "num", 1)
  <2>1. pc[p] = "snum" /\ pc'[p] = "enter" /\ UNCHANGED var
    BY <1>1, <1>17 DEF Reads, Runs, Goes
  <2>2. PICK v \in VarRead("snum", 1) : Sees(p, "num", (v + 1) % W)
    BY <1>17 DEF Reads
  <2>3. v \in Word /\ v <= One(Past("producer")) + One(Past("consumer"))
    BY <1>1, <2>2, SnumIs
  <2>4. v <= One(Past(p)) + One(Past(q))
    <3>1. CASE p = "producer"
      BY <1>4, <2>3, <3>1 DEF Other
    <3>2. CASE p = "consumer"
      <4>1. q = "producer"
        BY <1>4, <3>2 DEF Other
      <4>2. One(Past("producer")) \in Nat /\ One(Past("consumer")) \in Nat
        BY SMT DEF One
      <4>3. PICK a, b : a = One(Past("producer")) /\ b = One(Past("consumer"))
        OBVIOUS
      <4>4. v <= b + a
        BY <2>3, <4>2, <4>3, SMT
      <4>5. QED
        BY <3>2, <4>1, <4>3, <4>4
    <3>3. QED
      BY <3>1, <3>2 DEF Process
  <2>5. ~ Past(p) /\ (Past(q)' <=> Past(q))
    BY <1>1, <1>4, <2>1 DEF Past
  <2>6. PICK b \in 0 .. 1 : b = One(Past(q)) /\ b = One(Past(q))'
    BY <2>5, SMT DEF One
  <2>7. v <= b
    BY <2>4, <2>5, <2>6, SMT DEF One
  <2>8. v + 1 \in Word /\ v + 1 <= 1 + b
    BY <2>3, <2>6, <2>7, WordIs, SMT DEF Word
  <2>9. local'[p].num = v + 1
    <3>1. (v + 1) % W = v + 1
      BY <2>8, Remainders
    <3>2. QED
      BY <2>2, <2>8, <3>1, SeesTyped
  <2>10. Adds(p)'
    <3>1. local'[p].num <= 1 + One(Past(q))'
      BY <2>6, <2>8, <2>9
    <3>2. local'[p].num <= 1 + One(Past(Other(p)))'
      BY <1>4, <3>1
    <3>3. QED
      BY <2>1, <3>2 DEF Adds, Behind
  <2>11. QED
    BY <1>3, <1>6, <1>12, <1>13, <2>1, <2>5, <2>10
<1>18. CASE Writes(p, "enter", "await", "snum", local[p].num)
  <2>1. pc[p] = "enter" /\ pc'[p] = "await" /\ var' = VarWritten("snum", 1, local[p].num)
    BY <1>1, <1>18 DEF Writes, Runs, Goes
  <2>2. ~ Past(p) /\ Past(p)' /\ (Past(q)' <=> Past(q)) /\ Adds(p)'
    BY <1>1, <1>4, <2>1 DEF Past, Adds, Behind
  <2>3. pc[q] \notin Behind
    BY <1>4, <1>5, <2>2 DEF Adds
  <2>4. Adds(q)'
    BY <1>10, <2>2, <2>3 DEF Behind
  <2>5. ASSUME NEW s \in Slot, Named("snum") # {}, s = Min(Named("snum"))
        PROVE  Value(s)' <= One(Past("producer"))' + One(Past("consumer"))'
    <3>1. 1 \in 1 .. LengthOf("snum")
      BY SMT DEF LengthOf
    <3>2. Complete(s, "snum")
      BY <1>3, <1>7, <2>5, <3>1, ReadFirst
    <3>3. Value(s)' = local[p].num
      BY <1>7, <2>1, <2>5, <3>1, <3>2, WrittenFirst DEF Value
    <3>4. PICK b \in 0 .. 1 : b = One(Past(q)) /\ b = One(Past(q))'
      BY <2>2, SMT DEF One
    <3>5. One(Past(p))' = 1
      BY <2>2 DEF One
    <3>6. local[p].num <= 1 + b
      BY <1>4, <1>5, <2>1, <3>4 DEF Adds
    <3>7. 1 + b <= One(Past("producer"))' + One(Past("consumer"))' /\
          1 + b = One(Past("producer"))' + One(Past("consumer"))'
      <4>1. CASE p = "producer"
        <5>1. q = "consumer"
          BY <1>4, <4>1 DEF Other
        <5>2. QED
          BY <3>4, <3>5, <4>1, <5>1, SMT
      <4>2. CASE p = "consumer"
        <5>1. q = "producer"
          BY <1>4, <4>2 DEF Other
        <5>2. QED
          BY <3>4, <3>5, <4>2, <5>1, SMT
      <4>3. QED
        BY <4>1, <4>2 DEF Process
    <3>8. QED
      BY <3>3, <3>6, <3>7
  <2>6. QED
    BY <1>4, <1>6, <1>9, <2>2, <2>4, <2>5 DEF SumPart
<1>19. CASE Tests(p, "await", "lock", "await", 2 .. (W \div 2) - 1)
  <2>1. UNCHANGED var /\ pc[p] = "await" /\ pc'[p] \in {"lock", "await"}
    BY <1>1, <1>19 DEF Tests, Runs, Goes
  <2>2. PICK k \in Word : /\ VarRead("snum", 1) = {k}
                          /\ k <= One(Past("producer")) + One(Past("consumer"))
    BY <1>1, SnumIs
  <2>3. pc'[p] = "lock" => k >= 2
    <3>1. PICK v \in VarRead("snum", 1) :
             Runs(p, "await", IF v \in 2 .. (W \div 2) - 1 THEN "lock" ELSE "await")
      BY <1>19 DEF Tests
    <3>2. pc'[p] = "lock" => v \in 2 .. (W \div 2) - 1
      BY <1>1, <3>1 DEF Runs, Goes
    <3>3. v = k /\ k \in Int /\ W \div 2 \in Int
      BY <2>2, <3>1, WordIs, SMT DEF Word
    <3>4. QED
      BY <3>2, <3>3, SMT
  <2>4. pc'[p] = "lock" => Past("producer") /\ Past("consumer")
    <3>1. k >= 2 => Past("producer") /\ Past("consumer")
      BY <2>2, SMT DEF One, Word
    <3>2. QED
      BY <2>3, <3>1
  <2>5. Past(p) /\ Past(p)' /\ (Past(q)' <=> Past(q))
    BY <1>1, <1>4, <2>1 DEF Past
  <2>6. pc'[p] = "lock" => Past(q)'
    BY <2>4, <2>5 DEF Process
  <2>7. Adds(p)'
    BY <1>4, <2>1, <2>6 DEF Adds, Behind
  <2>8. QED
    BY <1>3, <1>6, <1>12, <1>13, <2>1, <2>5, <2>7
\* From here on p is past, and so is q.
<1>20. ASSUME pc[p] \in Behind, pc'[p] \in Behind
       PROVE  Past(p)' /\ Past(q)' /\ Past(Other(p))'
  <2>1. Past(q) /\ pc'[q] = pc[q]
    BY <1>1, <1>4, <1>5, <1>20 DEF Adds
  <2>2. QED
    BY <1>4, <1>20, <2>1 DEF Past, Behind
<1>21. CASE TestAndSet(p)
  <2>1. pc[p] = "lock" /\ pc'[p] \in {"temp", "lock"} /\ UNCHANGED var
    BY <1>1, <1>21 DEF TestAndSet, Runs, Goes
  <2>2. Past(p)' /\ Past(Other(p))'
    BY <1>20, <2>1 DEF Behind
  <2>3. Adds(p)'
    BY <2>1, <2>2 DEF Adds
  <2>4. QED
    BY <1>3, <1>6, <1>12, <1>13, <2>1, <2>2, <2>3
<1>22. CASE Reads(p, "temp", "num", "svar", "temp", 0)
  <2>1. pc[p] = "temp" /\ pc'[p] = "num" /\ UNCHANGED var
    BY <1>1, <1>22 DEF Reads, Runs, Goes
  <2>2. Past(p)' /\ Past(Other(p))'
    BY <1>20, <2>1 DEF Behind
  <2>3. local'[p].temp = Value(1)
    <3>1. Sees(p, "temp", (Value(1) + 0) % W)
      BY <1>3, <1>22 DEF Reads
    <3>2. (Value(1) + 0) % W = Value(1)
      <4>1. PICK v \in Word : v = Value(1)
        BY <1>3
      <4>2. v + 0 = v
        BY <4>1, SMT DEF Word
      <4>3. v % W = v
        BY Remainders
      <4>4. QED
        BY <4>1, <4>2, <4>3
    <3>3. QED
      BY <1>3, <3>1, <3>2, SeesTyped
  <2>4. Value(1)' = Value(1)
    BY <1>3, <1>13, <2>1
  <2>5. Adds(p)'
    BY <2>1, <2>2, <2>3, <2>4 DEF Adds
  <2>6. QED
    BY <1>3, <1>6, <1>12, <1>13, <2>1, <2>2, <2>5
<1>23. CASE Reads(p, "num", "add", "svar", "num", 1)
  <2>1. pc[p] = "num" /\ pc'[p] = "add" /\ UNCHANGED var
    BY <1>1, <1>23 DEF Reads, Runs, Goes
  <2>2. Past(p)' /\ Past(Other(p))'
    BY <1>20, <2>1 DEF Behind
  <2>3. local'[p].temp = Value(1) /\ local'[p].num = (Value(1) + 1) % W
    <3>1. Sees(p, "num", (Value(1) + 1) % W)
      BY <1>3, <1>23 DEF Reads
    <3>2. (Value(1) + 1) % W \in Word
      <4>1. Value(1) + 1 \in Int
        BY <1>3, SMT DEF Word
      <4>2. QED
        BY <4>1, Remainders
    <3>3. local'[p].num = (Value(1) + 1) % W /\ local'[p].temp = local[p].temp
      BY <3>1, <3>2, SeesTyped
    <3>4. QED
      BY <1>5, <2>1, <3>3 DEF Adds
  <2>4. Value(1)' = Value(1)
    BY <1>3, <1>13, <2>1
  <2>5. Adds(p)'
    BY <2>1, <2>2, <2>3, <2>4 DEF Adds
  <2>6. QED
    BY <1>3, <1>6, <1>12, <1>13, <2>1, <2>2, <2>5
<1>24. CASE Writes(p, "add", "x", "svar", local[p].num)
  <2>1. /\ pc[p] = "add" /\ pc'[p] = "x" /\ UNCHANGED local
        /\ var' = VarWritten("svar", 1, local[p].num)
    BY <1>1, <1>24 DEF Writes, Runs, Goes
  <2>2. Past(p)' /\ Past(Other(p))'
    BY <1>20, <2>1 DEF Behind
  <2>3. Value(1)' = local[p].num
    BY <1>7, <1>14, <2>1
  <2>4. Value(1)' = (local'[p].temp + 1) % W
    BY <1>5, <2>1, <2>3 DEF Adds
  <2>5. Adds(p)'
    BY <2>1, <2>2, <2>4 DEF Adds
  <2>6. pc[q] \notin {"num", "add", "x"}
    <3>1. Locked(p) => ~ Locked(q)
      BY <1>4, Both DEF LockPart
    <3>2. QED
      BY <2>1, <3>1 DEF Locked
  <2>7. QED
    BY <1>6, <1>7, <1>12, <1>14, <2>1, <2>2, <2>5, <2>6
<1>25. CASE Reads(p, "x", "unlock", "svar", "num", 0)
  <2>1. pc[p] = "x" /\ pc'[p] = "unlock" /\ UNCHANGED var
    BY <1>1, <1>25 DEF Reads, Runs, Goes
  <2>2. Past(p)' /\ Past(Other(p))'
    BY <1>20, <2>1 DEF Behind
  <2>3. local'[p].num = Value(1) /\ local'[p].temp = local[p].temp
    <3>1. Sees(p, "num", (Value(1) + 0) % W)
      BY <1>3, <1>25 DEF Reads
    <3>2. (Value(1) + 0) % W = Value(1)
      <4>1. PICK v \in Word : v = Value(1)
        BY <1>3
      <4>2. v + 0 = v
        BY <4>1, SMT DEF Word
      <4>3. v % W = v
        BY Remainders
      <4>4. QED
        BY <4>1, <4>2, <4>3
    <3>3. QED
      BY <1>3, <3>1, <3>2, SeesTyped
  <2>4. local'[p].num = (local'[p].temp + 1) % W
    BY <1>5, <2>1, <2>3 DEF Adds
  <2>5. Adds(p)'
    BY <2>1, <2>2, <2>4 DEF Adds
  <2>6. QED
    BY <1>3, <1>6, <1>12, <1>13, <2>1, <2>2, <2>5
<1>26. CASE Unlock(p)
  <2>1. /\ pc[p] = "unlock" /\ UNCHANGED <<local, var>>
        /\ pc'[p] = IF Grown(p, local[p].num) THEN "depart" ELSE "lock"
    BY <1>1, <1>26 DEF Unlock, Runs, Goes
  <2>2. local[p].num = (local[p].temp + 1) % W
    BY <1>5, <2>1 DEF Adds
  <2>3. ~ Grown(p, local[p].num)
    BY <1>7, <2>2, NotGrown
  <2>4. pc'[p] = "lock"
    BY <2>1, <2>3
  <2>5. Past(p)' /\ Past(Other(p))'
    BY <1>20, <2>1, <2>4 DEF Behind
  <2>6. Adds(p)'
    BY <2>4, <2>5 DEF Adds
  <2>7. QED
    BY <1>3, <1>6, <1>12, <1>13, <2>1, <2>5, <2>6
<1>27. CASE Reads(p, "depart", "departed", "snum", "num", W - 1) \/ Again(p)
  <2>1. pc[p] \in {"depart", "departed"}
    BY <1>27 DEF Reads, Runs, Again, Goes
  <2>2. QED
    BY <1>5, <2>1 DEF Adds
<1>28. QED
  BY <1>15, <1>16, <1>17, <1>18, <1>19, <1>21, <1>22, <1>23, <1>24, <1>25, <1>26, <1>27 DEF Sadd

\* shareadd counts who is in its loop.
LEMMA ShareaddStep ==
  ASSUME PlacePart, SvTypeOK, FlagsAreUp, Holds, AddPart, demo = "shareadd",
         NEW p \in Process, Shareadd(p), LostAfter, UNCHANGED demo
  PROVE  PlacePart' /\ SvTypeOK' /\ FlagsAreUp' /\ Holds' /\ AddPart'
<1>1. /\ pc \in [Process -> Places(demo)] /\ share \in Word /\ sharenum \in 0 .. 2
      /\ local \in [Process -> [num : Word, temp : Word]]
  BY DEF PlacePart, SvTypeOK
<1>2. UNCHANGED <<shared, made, taken, var, name, todo, slot, lock>>
  BY DEF Shareadd
<1>3. DEFINE L == {"test", "reset", "enter", "await", "temp", "add", "x", "depart"}
<1>4. L = Places(demo)
  BY DEF Places
<1>5. \E here \in L, next \in L : Goes(p, here, next)
  BY DEF Shareadd
<1>6. pc' \in [Process -> Places(demo)] /\ \A q \in Process : q # p => pc'[q] = pc[q]
  BY <1>1, <1>4, <1>5 DEF Goes
<1>7. PICK q \in Process : q # p /\ \A r \in Process : r = p \/ r = q
  BY Both
<1>8. sharenum = One(Adding(p)) + One(Adding(q)) /\ (Adding(q)' <=> Adding(q))
  <2>1. Adding(q)' <=> Adding(q)
    BY <1>6, <1>7 DEF Adding
  <2>2. CASE p = "producer"
    BY <1>7, <2>1, <2>2 DEF AddPart, Process
  <2>3. CASE p = "consumer"
    <3>1. q = "producer"
      BY <1>7, <2>3 DEF Process
    <3>2. One(Adding("producer")) \in Int /\ One(Adding("consumer")) \in Int
      BY SMT DEF One
    <3>3. QED
      BY <2>1, <2>3, <3>1, <3>2, SMT DEF AddPart
  <2>4. QED
    BY <2>2, <2>3 DEF Process
<1>9. PICK a, b, c : /\ a = One(Adding(p)) /\ b = One(Adding(q)) /\ c = One(Adding(p))'
                     /\ b = One(Adding(q))'
                     /\ a \in 0 .. 1 /\ b \in 0 .. 1 /\ c \in 0 .. 1
                     /\ (Adding(p) => a = 1) /\ (~ Adding(p) => a = 0)
                     /\ (Adding(p)' => c = 1) /\ (~ Adding(p)' => c = 0)
                     /\ sharenum = a + b
  BY <1>8, SMT DEF One
<1>10. AddPart' <=> sharenum' = c + b
  <2>1. CASE p = "producer"
    BY <1>7, <1>9, <2>1 DEF AddPart, Process
  <2>2. CASE p = "consumer"
    <3>1. q = "producer"
      BY <1>7, <2>2 DEF Process
    <3>2. AddPart' <=> sharenum' = b + c
      BY <1>9, <2>2, <3>1 DEF AddPart
    <3>3. b + c = c + b
      BY <1>9, SMT
    <3>4. QED
      BY <3>2, <3>3
  <2>3. QED
    BY <2>1, <2>2 DEF Process
<1>11. ASSUME UNCHANGED <<share, sharenum>> \/ (share' = 0 /\ UNCHANGED sharenum),
              Adding(p)' <=> Adding(p)
       PROVE  AddPart' /\ share' \in Word /\ sharenum' \in 0 .. 2
  <2>1. a = c
    BY <1>9, <1>11
  <2>2. sharenum' = c + b /\ sharenum' \in 0 .. 2
    BY <1>1, <1>9, <1>11, <2>1
  <2>3. QED
    BY <1>1, <1>10, <1>11, <2>2, WordIs
<1>12. /\ AddPart' /\ share' \in Word /\ sharenum' \in 0 .. 2
       /\ local' \in [Process -> [num : Word, temp : Word]]
  <2>1. CASE Goes(p, "enter", "await") /\ sharenum' = sharenum + 1 /\ UNCHANGED <<share, local>>
    <3>1. ~ Adding(p) /\ Adding(p)'
      BY <1>1, <2>1 DEF Goes, Adding
    <3>2. a = 0 /\ c = 1
      BY <1>9, <3>1
    <3>3. sharenum' = c + b /\ sharenum' \in 0 .. 2
      <4>1. sharenum = 0 + b /\ sharenum' = sharenum + 1 /\ b \in 0 .. 1
        BY <1>9, <2>1, <3>2
      <4>2. sharenum' = 1 + b /\ sharenum' \in 0 .. 2
        BY <4>1, SMT
      <4>3. QED
        BY <3>2, <4>2
    <3>4. QED
      BY <1>1, <1>10, <2>1, <3>3
  <2>2. CASE Goes(p, "depart", "test") /\ sharenum' = sharenum - 1 /\ UNCHANGED <<share, local>>
    <3>1. Adding(p) /\ ~ Adding(p)'
      BY <1>1, <2>2 DEF Goes, Adding
    <3>2. a = 1 /\ c = 0
      BY <1>9, <3>1
    <3>3. sharenum' = c + b /\ sharenum' \in 0 .. 2
      <4>1. sharenum = 1 + b /\ sharenum' = sharenum - 1 /\ b \in 0 .. 1
        BY <1>9, <2>2, <3>2
      <4>2. sharenum' = 0 + b /\ sharenum' \in 0 .. 2
        BY <4>1, SMT
      <4>3. QED
        BY <3>2, <4>2
    <3>4. QED
      BY <1>1, <1>10, <2>2, <3>3
  <2>3. CASE Goes(p, "add", "x") /\ share' = (share + 1) % W /\ UNCHANGED <<sharenum, local>>
    <3>1. Adding(p)' <=> Adding(p)
      BY <1>1, <2>3 DEF Goes, Adding
    <3>2. share' \in Word
      <4>1. share + 1 \in Int
        BY <1>1, SMT DEF Word
      <4>2. QED
        BY <2>3, <4>1, Remainders
    <3>3. sharenum' = c + b
      <4>1. a = c
        BY <1>9, <3>1
      <4>2. QED
        BY <1>9, <2>3, <4>1
    <3>4. QED
      BY <1>1, <1>10, <2>3, <3>2, <3>3
  <2>4. CASE Goes(p, "temp", "add") /\ Sees(p, "temp", share) /\ UNCHANGED <<share, sharenum>>
    <3>1. Adding(p)' <=> Adding(p)
      BY <1>1, <2>4 DEF Goes, Adding
    <3>2. QED
      BY <1>1, <1>11, <2>4, <3>1, SeesTyped
  <2>5. CASE \/ /\ Goes(p, "test", IF sharenum = 0 THEN "reset" ELSE "enter")
                /\ UNCHANGED <<share, sharenum, local>>
             \/ Goes(p, "reset", "enter") /\ share' = 0 /\ UNCHANGED <<sharenum, local>>
             \/ /\ Goes(p, "await", IF sharenum < 2 THEN "await" ELSE "temp")
                /\ UNCHANGED <<share, sharenum, local>>
             \/ /\ Goes(p, "x", IF Grown(p, share) THEN "depart" ELSE "temp")
                /\ UNCHANGED <<share, sharenum, local>>
    <3>1. Adding(p)' <=> Adding(p)
      BY <1>1, <2>5 DEF Goes, Adding
    <3>2. QED
      BY <1>1, <1>11, <2>5, <3>1
  <2>6. QED
    BY <2>1, <2>2, <2>3, <2>4, <2>5 DEF Shareadd
<1>13. lost' \in {"no", "update", "all"}
  BY LostIs
<1>14. SvTypeOK'
  BY <1>2, <1>12, <1>13 DEF SvTypeOK
<1>15. todo'[p] = <<>> /\ \A r \in Process : todo[r] = <<>>
  BY <1>2 DEF PlacePart, Todos
<1>16. PlacePart'
  <2>1. L \cap (Making \cup {"find"}) = {}
    BY DEF Making
  <2>2. HIDE DEF L
  <2>3. QED
    BY <1>2, <1>4, <1>6, <1>15, <2>1 DEF PlacePart, shared
<1>17. L \cap Entered = {} /\ L \cap {"update", "advance", "count", "lower"} = {}
  BY DEF Entered
<1>18. \A r \in Process : pc[r] \notin Entered /\ pc'[r] \notin Entered /\ ~ Critical(r)'
  BY <1>1, <1>4, <1>6, <1>17 DEF Critical
<1>19. FlagsAreUp' /\ Holds'
  BY <1>2, <1>18 DEF FlagsAreUp, Holds, shared
<1>20. QED
  BY <1>12, <1>14, <1>16, <1>19

LEMMA SaddStep ==
  ASSUME DemoIInv, demo = "sadd", NEW p \in Process, Create(p) \/ Sadd(p),
         LostAfter, UNCHANGED demo
  PROVE  DemoIInv'
<1>1. PlacePart /\ SvTypeOK /\ FlagsAreUp /\ Holds /\ LockPart
  BY DEF DemoIInv
<1>2. PlacePart' /\ SvTypeOK' /\ FlagsAreUp' /\ Holds' /\ LockPart'
  BY <1>1, CreateTypes, SaddTypes, SaddLock
<1>3. ASSUME lost' # "all" PROVE TablePart' /\ FirstPart' /\ SumPart'
  <2>1. lost # "all" /\ ~ Overlap'
    BY <1>1, <1>3, LostIs
  <2>2. TablePart /\ FirstPart /\ SumPart /\ demo \in {"applications", "sadd"}
    BY <2>1 DEF DemoIInv
  <2>3. CASE Create(p)
    BY <1>1, <2>1, <2>2, <2>3, CreateTable, CreateFirst, CreateSum
  <2>4. CASE Sadd(p)
    <3>1. Revalued
      BY <1>1, <2>4, SaddFrame
    <3>2. SumPart' /\ UNCHANGED todo
      BY <1>1, <2>2, <2>4, SaddSum
    <3>3. TablePart' /\ FirstPart'
      BY <1>1, <2>1, <2>2, <3>1, <3>2, RevaluedTable, RevaluedFirst
    <3>4. QED
      BY <3>2, <3>3
  <2>5. QED
    BY <2>3, <2>4
<1>4. demo' = "sadd"
  OBVIOUS
<1>5. QED
  BY <1>2, <1>3, <1>4 DEF DemoIInv

LEMMA InitDemoIInv == SvInit => DemoIInv
<1> SUFFICES ASSUME SvInit PROVE DemoIInv
  OBVIOUS
<1>1. /\ Init /\ demo \in Demos
      /\ var = [s \in Slot |-> [flag |-> 0, length |-> 0, content |-> Dangling]]
      /\ name = [s \in Slot |-> "none"]
      /\ todo = [p \in Process |-> Wanted(demo)]
      /\ slot = [p \in Process |-> 1]
      /\ local = [p \in Process |-> [num |-> 0, temp |-> 0]]
      /\ lock = 0 /\ share = 0 /\ sharenum = 0 /\ lost = "no"
  BY DEF SvInit
<1>2. SvTypeOK
  <2>1. local \in [Process -> [num : Word, temp : Word]] /\ share \in Word
    BY <1>1, WordIs
  <2>2. lock \in 0 .. 1 /\ sharenum \in 0 .. 2
    BY <1>1, SMT
  <2>3. [flag |-> 0, length |-> 0, content |-> Dangling] \in Cell
    BY SMT DEF Cell, Contents
  <2>4. var \in [Slot -> Cell]
    BY <1>1, <2>3
  <2>5. slot \in [Process -> Slot]
    BY <1>1, Cells
  <2>6. name \in [Slot -> Names \cup {"none"}]
    BY <1>1
  <2>7. QED
    BY <1>1, <2>1, <2>2, <2>4, <2>5, <2>6 DEF SvTypeOK, Cell, Contents
<1>3. IInv
  BY <1>1, InitIInv
<1>4. pc = [p \in Process |-> "test"] /\ taken = BUFFER_SIZE
  BY <1>1 DEF Init
<1>5. \A p \in Process : pc[p] = "test" /\ todo[p] = Wanted(demo) /\ "test" \notin Making
  BY <1>1, <1>4 DEF Making
<1>6. demo # "commands" => PlacePart /\ FlagsAreUp /\ Holds
  <2>1. taken \in Word
    BY <1>4, WordAssumption, SizeAssumption, SMT DEF Word
  <2>2. demo # "commands" => pc \in [Process -> Places(demo)]
    <3>1. demo # "commands" => "test" \in Places(demo)
      BY <1>1 DEF Demos, Places
    <3>2. QED
      BY <1>4, <3>1
  <2>3. demo # "commands" => todo \in [Process -> Todos(demo)]
    <3>1. demo # "commands" => Wanted(demo) \in Todos(demo)
      BY <1>1 DEF Demos, Wanted, Todos
    <3>2. QED
      BY <1>1, <3>1
  <2>4. /\ flag \in [Process -> 0 .. 1] /\ turn \in Process /\ build \in Builds
        /\ in \in Slots /\ out \in Slots /\ made \in Product
    BY <1>3 DEF IInv, TypeOK
  <2>5. QED
    BY <1>3, <1>5, <2>1, <2>2, <2>3, <2>4 DEF PlacePart, IInv, Making
<1>7. \A s \in Slot : ~ Flagged(s) /\ name[s] = "none"
  BY <1>1 DEF Flagged
<1>8. TablePart
  <2>1. ~ Overlap
    BY <1>5 DEF Overlap
  <2>2. \A p \in Process : Filling(p)
    BY <1>5 DEF Filling, Owns
  <2>3. QED
    BY <1>7, <2>1, <2>2 DEF TablePart
<1>9. FirstPart /\ RangePart
  BY <1>5, <1>7, Cells, Both DEF FirstPart, RangePart, Polled
<1>10. SumPart
  <2>1. Named("snum") = {}
    BY <1>7 DEF Named, Flagged
  <2>2. QED
    BY <1>5, <2>1 DEF SumPart, Adds, Behind
<1>11. LockPart
  BY <1>1, <1>5, Both DEF LockPart, Locked
<1>12. AddPart
  BY <1>1, <1>5, Both, SMT DEF AddPart, Adding, One
<1>13. demo = "applications" => OrderPart
  <2>1. demo = "applications" => \A p \in Process : todo[p] # <<>>
    <3>1. <<"counter", "buffer">> # <<>>
      BY SMT
    <3>2. QED
      BY <1>5, <3>1 DEF Wanted
  <2>2. Count = 0 /\ Stored = 0
    BY <1>5, <1>7, Cells, Both, SMT DEF Count, Stored, One
  <2>3. demo = "applications" => SpareSlots /\ CountIsFresh
    BY <1>5, <1>7, <2>1, Both DEF SpareSlots, CountIsFresh, Polled
  <2>4. in = 0 /\ out = 0 /\ made = 0
    BY <1>1 DEF Init
  <2>5. /\ taken \in Product /\ in = At(out + 0) /\ made = Num(Num(taken + 1) + 0)
    BY <1>4, <2>4, SizeAssumption, SMT DEF Product, At, Num
  <2>6. 0 .. 0 - 1 = {}
    BY SMT
  <2>7. RingPart
    BY <2>2, <2>5, <2>6 DEF RingPart
  <2>8. QED
    BY <2>3, <2>7 DEF OrderPart
<1>14. QED
  BY <1>2, <1>3, <1>6, <1>8, <1>9, <1>10, <1>11, <1>12, <1>13 DEF DemoIInv

LEMMA DemoStutter == DemoIInv /\ UNCHANGED allVars => DemoIInv'
<1> SUFFICES ASSUME DemoIInv, UNCHANGED allVars PROVE DemoIInv'
  OBVIOUS
<1> USE DEF allVars, svVars, vars
<1>1. SvTypeOK => SvTypeOK'
  BY DEF SvTypeOK
<1>2. IInv => IInv'
  BY StepIInv DEF IInv
<1>3. PlacePart /\ FlagsAreUp /\ Holds => PlacePart' /\ FlagsAreUp' /\ Holds'
  BY DEF PlacePart, FlagsAreUp, Holds, Critical
<1>4. /\ \A s : (Flagged(s)' <=> Flagged(s)) /\ (Owned(s)' <=> Owned(s))
      /\ \A s, n : Complete(s, n)' <=> Complete(s, n)
      /\ \A p : Owns(p)' <=> Owns(p)
      /\ Named("snum")' = Named("snum")
  BY DEF Flagged, Owned, Owns, Complete, Named
<1>5. TablePart => TablePart'
  BY <1>4 DEF TablePart, Filling, Overlap
<1>6. FirstPart => FirstPart'
  BY <1>4 DEF FirstPart
<1>7. RangePart => RangePart'
  BY <1>4 DEF RangePart, Value, Running
<1>8. SumPart => SumPart'
  <2>1. \A p : Past(p)' <=> Past(p)
    BY DEF Past
  <2>2. \A p : One(Past(p))' = One(Past(p))
    BY <2>1 DEF One
  <2>3. QED
    BY <1>4, <2>1, <2>2 DEF SumPart, Adds, Value, Other
<1>9. LockPart => LockPart'
  BY DEF LockPart, Locked
<1>10. AddPart => AddPart'
  BY DEF AddPart, Adding, One
<1>11. OrderPart => OrderPart'
  <2>1. \A p \in Process : Claims(p)' = Claims(p)
    BY <1>4 DEF Claims, One
  <2>2. /\ Named("buffer")' = Named("buffer") /\ Count' = Count /\ Stored' = Stored
        /\ \A k : Held(k)' = Held(k)
    BY <1>4 DEF Named, Count, Stored, One, Held, Value
  <2>3. SpareSlots => SpareSlots'
    BY <1>4, <2>1, <2>2, Both DEF SpareSlots
  <2>4. CountIsFresh => CountIsFresh'
    BY <2>2 DEF CountIsFresh
  <2>5. RingPart => RingPart'
    BY <2>2 DEF RingPart, At, Num
  <2>6. QED
    BY <2>3, <2>4, <2>5 DEF OrderPart
<1>12. QED
  BY <1>1, <1>2, <1>3, <1>5, <1>6, <1>7, <1>8, <1>9, <1>10, <1>11 DEF DemoIInv

LEMMA StepDemoIInv == DemoIInv /\ [DemoNext]_allVars => DemoIInv'
<1> SUFFICES ASSUME DemoIInv, [DemoNext]_allVars PROVE DemoIInv'
  OBVIOUS
<1>1. ASSUME NEW p \in Process, DemoStep(p) PROVE DemoIInv'
  <2>1. CASE demo = "commands" /\ Step(p) /\ UNCHANGED svVars
    <3>1. IInv /\ SvTypeOK /\ demo' = "commands"
      BY <2>1 DEF DemoIInv, svVars
    <3>2. IInv'
      BY <2>1, <3>1, StepIInv DEF Next
    <3>3. SvTypeOK'
      BY <2>1, <3>1 DEF SvTypeOK, svVars
    <3>4. QED
      BY <3>1, <3>2, <3>3 DEF DemoIInv
  <2>2. CASE /\ \/ demo \in {"applications", "sadd"} /\ Create(p)
                \/ demo = "applications" /\ Application(p)
                \/ demo = "sadd" /\ Sadd(p)
                \/ demo = "shareadd" /\ Shareadd(p)
             /\ LostAfter
             /\ UNCHANGED demo
    <3>1. CASE demo = "applications"
      BY <2>2, <3>1, ApplicationStep
    <3>2. CASE demo = "sadd"
      BY <2>2, <3>2, SaddStep
    <3>3. CASE demo = "shareadd"
      <4>1. PlacePart /\ SvTypeOK /\ FlagsAreUp /\ Holds /\ AddPart /\ demo' = "shareadd"
        BY <2>2, <3>3 DEF DemoIInv
      <4>2. PlacePart' /\ SvTypeOK' /\ FlagsAreUp' /\ Holds' /\ AddPart'
        BY <2>2, <3>3, <4>1, ShareaddStep
      <4>3. QED
        BY <4>1, <4>2 DEF DemoIInv
    <3>4. QED
      BY <2>2, <3>1, <3>2, <3>3
  <2>3. QED
    BY <1>1, <2>1, <2>2 DEF DemoStep
<1>2. CASE UNCHANGED allVars
  BY <1>2, DemoStutter
<1>3. QED
  BY <1>1, <1>2 DEF DemoNext

LEMMA AddingCount ==
  Cardinality({p \in Process : Adding(p)}) = One(Adding("producer")) + One(Adding("consumer"))
<1>1. DEFINE A == {p \in Process : Adding(p)}
<1>2. CASE Adding("producer") /\ Adding("consumer")
  <2>1. A = {"producer"} \cup {"consumer"}
    BY <1>2 DEF Process
  <2>2. IsFiniteSet({"producer"}) /\ Cardinality({"producer"}) = 1
    BY FS_Singleton
  <2>3. "consumer" \notin {"producer"}
    OBVIOUS
  <2>4. Cardinality(A) = 1 + 1
    BY <2>1, <2>2, <2>3, FS_AddElement
  <2>5. QED
    BY <1>2, <2>4 DEF One
<1>3. CASE Adding("producer") /\ ~ Adding("consumer")
  <2>1. A = {"producer"}
    BY <1>3 DEF Process
  <2>2. Cardinality(A) = 1
    BY <2>1, FS_Singleton
  <2>3. QED
    BY <1>3, <2>2, SMT DEF One
<1>4. CASE ~ Adding("producer") /\ Adding("consumer")
  <2>1. A = {"consumer"}
    BY <1>4 DEF Process
  <2>2. Cardinality(A) = 1
    BY <2>1, FS_Singleton
  <2>3. QED
    BY <1>4, <2>2, SMT DEF One
<1>5. CASE ~ Adding("producer") /\ ~ Adding("consumer")
  <2>1. A = {}
    BY <1>5 DEF Process
  <2>2. Cardinality(A) = 0
    BY <2>1, FS_EmptySet
  <2>3. QED
    BY <1>5, <2>2, SMT DEF One
<1>6. QED
  BY <1>2, <1>3, <1>4, <1>5

LEMMA DemoIInvImplies ==
  ASSUME DemoIInv
  PROVE  SumsAreKept /\ MutualExclusion
<1>1. SvTypeOK
  BY DEF DemoIInv
<1>2. ASSUME demo = "sadd"
      PROVE  /\ ~ (Locked("producer") /\ Locked("consumer"))
             /\ lock = 1 <=> \E p \in Process : Locked(p)
             /\ lost = "no" => \A p \in Process :
                   /\ pc[p] = "unlock" => local[p].num = (local[p].temp + 1) % W
                   /\ pc[p] # "depart"
  BY <1>2 DEF DemoIInv, LockPart, SumPart, Adds
<1>3. demo = "shareadd" => sharenum = Cardinality({p \in Process : Adding(p)})
  BY AddingCount DEF DemoIInv, AddPart
<1>4. ASSUME demo = "applications", lost # "all", todo = [p \in Process |-> <<>>]
      PROVE  VarRead("counter", 1) \subseteq 0 .. BUFFER_SIZE
  <2>1. PlacePart /\ TablePart /\ FirstPart /\ RangePart /\ demo \in {"applications", "sadd"}
    BY <1>4 DEF DemoIInv
  <2>2. "producer" \in Process /\ todo["producer"] = <<>>
    BY <1>4, Both
  <2>3. Head(Wanted(demo)) = "counter"
    <3>1. Head(<<"counter", "buffer">>) = "counter"
      BY SMT
    <3>2. QED
      BY <1>4, <3>1 DEF Wanted
  <2>4. Flagged(1) /\ ~ Owned(1) /\ VarRead("counter", 1) = {Value(1)}
    BY <1>1, <2>1, <2>2, <2>3, FirstIs, Cells
  <2>5. QED
    BY <2>1, <2>4 DEF RangePart
<1>5. MutualExclusion
  <2>1. Holds
    BY <1>1 DEF DemoIInv, IInv, SvTypeOK
  <2>2. QED
    BY <2>1, Both DEF Holds, MutualExclusion
<1>6. QED
  BY <1>1, <1>2, <1>3, <1>4, <1>5 DEF SumsAreKept

-----------------------------------------------------------------------------
(* Whatever the two tasks run: entrance excludes, also when it is called   *)
(* by applications; between Tlock and unTlock a program is alone, and its  *)
(* three system calls add one; the counter of producer.c and consumer.c    *)
(* stays in its range although its updates get lost; shareadd counts who   *)
(* runs it.                                                                *)
THEOREM Demonstrations == DemoSpec => [](SumsAreKept /\ MutualExclusion)
<1>1. DemoIInv => SumsAreKept /\ MutualExclusion
  BY DemoIInvImplies
<1>2. QED
  BY InitDemoIInv, StepDemoIInv, <1>1, PTL DEF DemoSpec

\* A product is taken, and nothing is counted in that step.
LEMMA TakenFollows ==
  ASSUME DemoIInv, [DemoNext]_allVars, VAR_MAX_NUM > 2,
         demo = "applications", taken' # taken, lost = "no"
  PROVE  taken' = Following(taken)
<1>1. PICK p \in Process : Create(p) \/ Application(p)
  BY DEF DemoNext, DemoStep, allVars, vars
<1>2. Application(p)
  BY <1>1 DEF Create
<1>3. p = "consumer" /\ TakeVar
  BY <1>2 DEF Application, Poll, EntranceAndExit, Raise, Yield, Look, ReadTurn, Lower, CountVar,
              FillVar, shared
<1>4. PlacePart /\ SvTypeOK /\ Holds /\ TablePart /\ FirstPart /\ RangePart /\ OrderPart
  BY DEF DemoIInv
<1>5. ~ Stale
  <2>1. pc["consumer"] = "update" /\ pc'["producer"] = pc["producer"]
    BY <1>3 DEF TakeVar, Runs, Goes
  <2>2. QED
    BY <2>1 DEF Stale, Process
<1>6. QED
  BY <1>2, <1>4, <1>5, ApplicationOrder

(* Where memory has three slots to spare, so that both programs can make   *)
(* the counter and one of them the buffer, the consumer of consumer.c      *)
(* takes the products in the order in which they were made, until the      *)
(* first update of the counter is lost.                                    *)
THEOREM OrderUnlessLost ==
  ASSUME VAR_MAX_NUM > 2
  PROVE  DemoSpec => TakenUnlessLost
<1>1. DemoIInv /\ [DemoNext]_allVars =>
         [demo = "applications" /\ taken' # taken /\ lost = "no" =>
             taken' = Following(taken)]_allVars
  BY TakenFollows
<1>2. QED
  BY InitDemoIInv, StepDemoIInv, <1>1, PTL DEF DemoSpec, TakenUnlessLost

=============================================================================
