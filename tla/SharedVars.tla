------------------------------- MODULE SharedVars -------------------------------
(***************************************************************************)
(* svar.c, and the programs that two tasks run on shared variables:        *)
(* producer.c and consumer.c, which enter through system calls the         *)
(* critical section that the commands of ProducerConsumer use, sadd.c with *)
(* the test-and-set lock, and shareadd (console.c) without it.             *)
(*                                                                         *)
(* init_Svar is called nowhere: the table is whatever lies at address 0,   *)
(* and the name of a slot a pointer that nobody has set.  The slots of the *)
(* model are those that seem free there, and their names are assumed to    *)
(* lie apart.  A step is a call of var_read or var_wrt, or a statement of  *)
(* var_create.                                                             *)
(***************************************************************************)
EXTENDS ProducerConsumer, Sequences, FiniteSetsExt

CONSTANTS
    VAR_MAX_NUM,    \* slots that seem free, 100 at most
    W               \* an int has W values, 2^32

ASSUME WordAssumption == VAR_MAX_NUM \in Nat \ {0} /\ W \in Nat /\ W > BUFFER_SIZE + 1

Demos == {"commands", "applications", "sadd", "shareadd"}
Slot == 1 .. VAR_MAX_NUM
Word == 0 .. W - 1
Names == {"counter", "buffer", "svar", "snum"}
Dangling == <<>>
Garbage == {0, W - 1}       \* what memory holds that nobody has written

VARIABLES
    demo,           \* what the two tasks run
    var,            \* flag, length and content of svarctl->var[]
    name,           \* and name
    todo,           \* the variables that a program still has to create
    slot,           \* i in its var_create
    local,          \* its counter or num, and temp
    lock,
    share, sharenum,
    lost            \* "update": of the counter; "all": see LostAfter

svVars == <<demo, var, name, todo, slot, local, lock, share, sharenum, lost>>
allVars == <<vars, svVars>>

Wanted(d) == CASE d = "applications" -> <<"counter", "buffer">>
               [] d = "sadd" -> <<"svar", "snum">>
               [] OTHER -> <<>>
LengthOf(n) == IF n = "buffer" THEN BUFFER_SIZE ELSE 1

SvInit ==
    /\ Init
    /\ demo \in Demos
    /\ var = [s \in Slot |-> [flag |-> 0, length |-> 0, content |-> Dangling]]
    /\ name = [s \in Slot |-> "none"]
    /\ todo = [p \in Process |-> Wanted(demo)]
    /\ slot = [p \in Process |-> 1]
    /\ local = [p \in Process |-> [num |-> 0, temp |-> 0]]
    /\ lock = 0
    /\ share = 0 /\ sharenum = 0
    /\ lost = "no"

-----------------------------------------------------------------------------
(* svar.c *)

Named(n) == {s \in Slot : var[s].flag = 1 /\ name[s] = n}

\* What var_read may return.  A slot may have a length before its content, or
\* the content of another variable.
VarRead(n, i) ==
    LET found == {s \in Named(n) : i <= var[s].length}
    IN  CASE found = {} -> {0}
          [] found # {} /\ i \notin DOMAIN var[Min(found)].content -> Garbage
          [] OTHER -> {var[Min(found)].content[i]}

\* var after var_wrt, which may change nothing or something else.
VarWritten(n, i, v) ==
    IF Named(n) = {} THEN var
    ELSE LET s == Min(Named(n))
         IN  IF i > var[s].length \/ i \notin DOMAIN var[s].content THEN var
             ELSE [var EXCEPT ![s].content[i] = v]

\* var_create for the next variable of p: it is there, or no slot is free.
Done(p) ==
    /\ pc' = [pc EXCEPT ![p] = "test"]
    /\ todo' = [todo EXCEPT ![p] = Tail(@)]

Scan(p) ==
    /\ pc[p] = "test" /\ todo[p] # <<>>
    /\ \/ Named(Head(todo[p])) # {} /\ Done(p)
       \/ Named(Head(todo[p])) = {} /\ Goes(p, "test", "find") /\ UNCHANGED todo
    /\ UNCHANGED <<var, name, slot>>

Find(p) ==
    LET free == {s \in Slot : var[s].flag = 0}
    IN  /\ pc[p] = "find"
        /\ \/ free = {} /\ Done(p) /\ UNCHANGED slot
           \/ /\ free # {} /\ Goes(p, "find", "claim")
              /\ slot' = [slot EXCEPT ![p] = Min(free)]
              /\ UNCHANGED todo
        /\ UNCHANGED <<var, name>>

Claim(p) ==
    /\ Goes(p, "claim", "name")
    /\ var' = [var EXCEPT ![slot[p]].flag = 1]
    /\ UNCHANGED <<name, todo, slot>>

Name(p) ==
    /\ Goes(p, "name", "length")
    /\ name' = [name EXCEPT ![slot[p]] = Head(todo[p])]
    /\ UNCHANGED <<var, todo, slot>>

Length(p) ==
    /\ Goes(p, "length", "content")
    /\ var' = [var EXCEPT ![slot[p]].length = LengthOf(Head(todo[p]))]
    /\ UNCHANGED <<name, todo, slot>>

Content(p) ==
    /\ Goes(p, "content", "clear")
    /\ \E v \in Garbage : var' = [var EXCEPT ![slot[p]].content =
                                  [i \in 1 .. LengthOf(Head(todo[p])) |-> v]]
    /\ UNCHANGED <<name, todo, slot>>

\* The program has created it, and sets it to zero, except the buffer.
Clear(p) ==
    /\ pc[p] = "clear"
    /\ var' = IF Head(todo[p]) = "buffer" THEN var
              ELSE VarWritten(Head(todo[p]), 1, 0)
    /\ Done(p)
    /\ UNCHANGED <<name, slot>>

Making == {"claim", "name", "length", "content", "clear"}
Create(p) ==
    /\ Scan(p) \/ Find(p) \/ Claim(p) \/ Name(p) \/ Length(p) \/ Content(p) \/ Clear(p)
    /\ UNCHANGED <<build, flag, turn, in, out, counter, buffer, made, taken>>
    /\ UNCHANGED <<local, lock, share, sharenum>>

\* p, which has created its variables, goes on, and sees v in an int of its own.
Runs(p, here, next) == todo[p] = <<>> /\ Goes(p, here, next)
Sees(p, of, v) == local' = [local EXCEPT ![p][of] = v]

-----------------------------------------------------------------------------
(* producer.c, consumer.c *)

\* Mutant: the loop waits one product too long.
PollByOne(p) ==
    /\ \E v \in VarRead("counter", 1) :
          /\ Runs(p, "test", IF v = (IF p = "producer" THEN BUFFER_SIZE + 1 ELSE 0)
                             THEN "test" ELSE "raise")
          /\ Sees(p, "num", v)
    /\ UNCHANGED <<shared, made, taken, var>>

\* The counter is read before entrance ...
Poll(p) ==
    /\ \E v \in VarRead("counter", 1) :
          /\ Runs(p, "test", IF v = (IF p = "producer" THEN BUFFER_SIZE ELSE 0)
                             THEN "test" ELSE "raise")
          /\ Sees(p, "num", v)
    /\ UNCHANGED <<shared, made, taken, var>>

EntranceAndExit(p) ==
    /\ Raise(p) \/ Yield(p) \/ Look(p) \/ ReadTurn(p) \/ Lower(p)
    /\ UNCHANGED <<local, var>>

FillVar ==
    /\ Runs("producer", "update", "count")
    /\ var' = VarWritten("buffer", in + 1, made)
    /\ made' = Following(made)
    /\ in' = (in + 1) % BUFFER_SIZE
    /\ UNCHANGED <<build, flag, turn, out, counter, buffer, taken, local>>

TakeVar ==
    /\ Runs("consumer", "update", "count")
    /\ taken' \in VarRead("buffer", out + 1)
    /\ out' = (out + 1) % BUFFER_SIZE
    /\ UNCHANGED <<build, flag, turn, in, counter, buffer, made, local, var>>

\* ... and written inside.
CountVar(p) ==
    /\ Runs(p, "count", "lower")
    /\ var' = VarWritten("counter", 1,
                 (local[p].num + (IF p = "producer" THEN 1 ELSE W - 1)) % W)
    /\ UNCHANGED <<shared, made, taken, local>>

Application(p) ==
    /\ Poll(p) \/ EntranceAndExit(p) \/ CountVar(p)
          \/ (p = "producer" /\ FillVar) \/ (p = "consumer" /\ TakeVar)
    /\ UNCHANGED <<name, todo, slot, lock, share, sharenum>>

-----------------------------------------------------------------------------
(* sadd.c and shareadd *)

Grown(p, x) == LET d == (x + W - local[p].temp) % W IN d > 1 /\ d < W \div 2

\* api_var_read into an int, and api_var_wrt.
Reads(p, here, next, n, of, plus) ==
    /\ Runs(p, here, next)
    /\ \E v \in VarRead(n, 1) : Sees(p, of, (v + plus) % W)
    /\ UNCHANGED <<var, todo, lock>>
Writes(p, here, next, n, v) ==
    /\ Runs(p, here, next)
    /\ var' = VarWritten(n, 1, v)
    /\ UNCHANGED <<local, todo, lock>>

\* Mutant: the lock is taken whether it is free or not.
TestAndSetAnyway(p) ==
    /\ Runs(p, "lock", "temp")
    /\ lock' = 1
    /\ UNCHANGED <<local, var, todo>>

\* Tlock
TestAndSet(p) ==
    /\ Runs(p, "lock", IF lock = 0 THEN "temp" ELSE "lock")
    /\ lock' = 1
    /\ UNCHANGED <<local, var, todo>>

\* unTlock, and the test of outcome.
Unlock(p) ==
    /\ Runs(p, "unlock", IF Grown(p, local[p].num) THEN "depart" ELSE "lock")
    /\ lock' = 0
    /\ UNCHANGED <<local, var, todo>>

\* snum is tested before, and waited for.
Tests(p, here, yes, no, met) ==
    /\ \E v \in VarRead("snum", 1) : Runs(p, here, IF v \in met THEN yes ELSE no)
    /\ UNCHANGED <<local, var, todo, lock>>

\* The user runs it again.
Again(p) ==
    /\ Goes(p, "departed", "test")
    /\ var' = VarWritten("snum", 1, local[p].num)
    /\ todo' = [todo EXCEPT ![p] = Wanted(demo)]
    /\ UNCHANGED <<local, lock>>

Sadd(p) ==
    /\ \/ Tests(p, "test", "reset", "snum", {0})
       \/ Writes(p, "reset", "snum", "svar", 0)
       \/ Reads(p, "snum", "enter", "snum", "num", 1)
       \/ Writes(p, "enter", "await", "snum", local[p].num)
       \/ Tests(p, "await", "lock", "await", 2 .. (W \div 2) - 1)
       \/ TestAndSet(p)
       \/ Reads(p, "temp", "num", "svar", "temp", 0)
       \/ Reads(p, "num", "add", "svar", "num", 1)
       \/ Writes(p, "add", "x", "svar", local[p].num)
       \/ Reads(p, "x", "unlock", "svar", "num", 0)
       \/ Unlock(p)
       \/ Reads(p, "depart", "departed", "snum", "num", W - 1)
       \/ Again(p)
    /\ UNCHANGED <<shared, made, taken, name, slot, share, sharenum>>

Shareadd(p) ==
    /\ \/ /\ Goes(p, "test", IF sharenum = 0 THEN "reset" ELSE "enter")
          /\ UNCHANGED <<share, sharenum, local>>
       \/ Goes(p, "reset", "enter") /\ share' = 0 /\ UNCHANGED <<sharenum, local>>
       \/ /\ Goes(p, "enter", "await") /\ sharenum' = sharenum + 1
          /\ UNCHANGED <<share, local>>
       \/ /\ Goes(p, "await", IF sharenum < 2 THEN "await" ELSE "temp")
          /\ UNCHANGED <<share, sharenum, local>>
       \/ /\ Goes(p, "temp", "add") /\ Sees(p, "temp", share)
          /\ UNCHANGED <<share, sharenum>>
       \/ /\ Goes(p, "add", "x") /\ share' = (share + 1) % W
          /\ UNCHANGED <<sharenum, local>>
       \/ /\ Goes(p, "x", IF Grown(p, share) THEN "depart" ELSE "temp")
          /\ UNCHANGED <<share, sharenum, local>>
       \/ /\ Goes(p, "depart", "test") /\ sharenum' = sharenum - 1
          /\ UNCHANGED <<share, local>>
    /\ UNCHANGED <<shared, made, taken, var, name, todo, slot, lock>>

-----------------------------------------------------------------------------
\* A counter is written that is not the one that was read; one program is in
\* var_create while the other is in it too or uses what it has created.
Stale == \E p \in Process : pc[p] = "count" /\ pc'[p] = "lower"
                               /\ VarRead("counter", 1) # {local[p].num}
Overlap == \E p \in Process :
              pc[p] \in Making /\ (todo[Other(p)] = <<>> \/ pc[Other(p)] \in Making)
LostAfter ==
    lost' = CASE lost = "all" \/ Overlap' -> "all"
              [] lost # "all" /\ ~ Overlap' /\ Stale -> "update"
              [] OTHER -> lost

DemoStep(p) ==
    \/ demo = "commands" /\ Step(p) /\ UNCHANGED svVars
    \/ /\ \/ demo \in {"applications", "sadd"} /\ Create(p)
          \/ demo = "applications" /\ Application(p)
          \/ demo = "sadd" /\ Sadd(p)
          \/ demo = "shareadd" /\ Shareadd(p)
       /\ LostAfter
       /\ UNCHANGED demo

DemoNext == \E p \in Process : DemoStep(p)

\* No program sleeps, so that both tasks get the CPU again and again.
DemoSpec ==
    /\ SvInit
    /\ [][DemoNext]_allVars
    /\ \A p \in Process : WF_allVars(DemoStep(p))

-----------------------------------------------------------------------------
SvTypeOK ==
    /\ demo \in Demos
    /\ var \in [Slot -> [flag : 0 .. 1, length : {0, 1, BUFFER_SIZE},
                         content : {Dangling} \cup [{1} -> Word]
                                   \cup [1 .. BUFFER_SIZE -> Word]]]
    /\ name \in [Slot -> Names \cup {"none"}]
    /\ slot \in [Process -> Slot]
    /\ local \in [Process -> [num : Word, temp : Word]]
    /\ lock \in 0 .. 1 /\ share \in Word /\ sharenum \in 0 .. 2
    /\ lost \in {"no", "update", "all"}

Locked(p) == pc[p] \in {"temp", "num", "add", "x", "unlock"}
Adding(p) == pc[p] \in {"await", "temp", "add", "x", "depart"}

(* sadd.c: between Tlock and unTlock a program is alone, so that what it    *)
(* adds to svar in three system calls is what svar has grown by, and       *)
(* neither program leaves.  producer.c: the updates of the counter that    *)
(* are lost leave it between nothing and full.  shareadd counts who runs   *)
(* it.  All of this unless a variable is used while it is being created.   *)
SumsAreKept ==
    /\ SvTypeOK
    /\ demo = "sadd" =>
          /\ ~ (Locked("producer") /\ Locked("consumer"))
          /\ lock = 1 <=> \E p \in Process : Locked(p)
          /\ lost = "no" => \A p \in Process :
                /\ pc[p] = "unlock" => local[p].num = (local[p].temp + 1) % W
                /\ pc[p] # "depart"
    /\ demo = "shareadd" => sharenum = Cardinality({p \in Process : Adding(p)})
    /\ demo = "applications" /\ lost # "all" /\ todo = [p \in Process |-> <<>>] =>
          VarRead("counter", 1) \subseteq 0 .. BUFFER_SIZE

(* producer.c and consumer.c count outside of what entrance protects; as   *)
(* long as no update of the counter is lost by that, the consumer takes    *)
(* the products in the order in which they were made.                      *)
TakenUnlessLost ==
    [][ demo = "applications" /\ taken' # taken /\ lost = "no" =>
          taken' = Following(taken) ]_allVars
=============================================================================
