-------------------------- MODULE ReadersWritersProofs --------------------------
(***************************************************************************)
(* What holds of the semaphores for every number of readers and writers,   *)
(* and of data that end a wait.                                            *)
(***************************************************************************)
EXTENDS ReadersWriters, FiniteSetTheorems, TLAPS

-----------------------------------------------------------------------------
(* Types and places. *)

ReaderLabels == {"enter", "count", "first", "admit", "read", "leave", "uncount",
                 "last", "end", "done"}
WriterLabels == {"claim", "load", "store", "release", "done"}

LinkTyped ==
    /\ value \in [Semaphore -> Int]
    /\ first \in [Semaphore -> Process \cup {Nil}]
    /\ last \in [Semaphore -> Process \cup {Nil}]
    /\ next \in [Process -> Process \cup {Nil}]
    /\ awake \in [Process -> BOOLEAN]
    /\ fault \in {"none", "null", "gone"}
    /\ data \in 0 .. MaxData
    /\ queue \in [Semaphore -> Seq(Process)]
    /\ disturbed \in BOOLEAN
    /\ relinked \in BOOLEAN

MemoryTyped ==
    /\ readcount \in Int
    /\ share \in Nat
    /\ increments \in Nat
    /\ seen \in [Process -> Nat]

\* Where the readers and the writers are, and that another round is to come.
PlaceTyped ==
    /\ pc \in [Process -> ReaderLabels \cup WriterLabels]
    /\ rounds \in [Process -> 0 .. END]
    /\ \A r \in Readers : pc[r] \in ReaderLabels
    /\ \A w \in Writers : pc[w] \in WriterLabels
    /\ \A p \in Process : pc[p] # "done" => rounds[p] < END

Typed == LinkTyped /\ MemoryTyped /\ PlaceTyped

LEMMA TypesAreOK == Typed => TypeOK
  BY DEF Typed, LinkTyped, MemoryTyped, PlaceTyped, TypeOK, ReaderLabels, WriterLabels

LEMMA Processes ==
  /\ Readers \subseteq Process /\ Writers \subseteq Process
  /\ Process = Readers \cup Writers /\ Readers \cap Writers = {}
  /\ Nil \notin Process
  BY ProcessAssumption DEF Process

\* Only the process that goes on has another place.
LEMMA Moves ==
  ASSUME PlaceTyped, NEW p \in Process, NEW here, NEW there, Goes(p, here, there)
  PROVE  /\ awake[p] /\ pc[p] = here /\ fault = "none"
         /\ pc'[p] = there
         /\ \A q \in Process : q # p => pc'[q] = pc[q]
  BY DEF Goes, PlaceTyped

LEMMA ReaderPlace ==
  ASSUME PlaceTyped, NEW r \in Readers, NEW here, NEW there \in ReaderLabels \ {"done"},
         here # "done", Goes(r, here, there), rounds' = rounds
  PROVE  PlaceTyped'
<1>1. r \in Process /\ r \notin Writers /\ Readers \subseteq Process /\ Writers \subseteq Process
  BY Processes
<1>2. /\ pc[r] = here /\ pc'[r] = there
      /\ \A q \in Process : q # r => pc'[q] = pc[q]
  BY <1>1, Moves
<1>3. pc' \in [Process -> ReaderLabels \cup WriterLabels]
  BY <1>1 DEF Goes, PlaceTyped
<1>4. QED
  BY <1>1, <1>2, <1>3 DEF PlaceTyped

LEMMA WriterPlace ==
  ASSUME PlaceTyped, NEW w \in Writers, NEW here, NEW there \in WriterLabels \ {"done"},
         here # "done", Goes(w, here, there), rounds' = rounds
  PROVE  PlaceTyped'
<1>1. w \in Process /\ w \notin Readers /\ Readers \subseteq Process /\ Writers \subseteq Process
  BY Processes
<1>2. /\ pc[w] = here /\ pc'[w] = there
      /\ \A q \in Process : q # w => pc'[q] = pc[q]
  BY <1>1, Moves
<1>3. pc' \in [Process -> ReaderLabels \cup WriterLabels]
  BY <1>1 DEF Goes, PlaceTyped
<1>4. QED
  BY <1>1, <1>2, <1>3 DEF PlaceTyped

\* The last statement of a round.
LEMMA RoundPlace ==
  ASSUME PlaceTyped, NEW p \in Process, NEW here, here # "done",
         NEW begin, p \in Readers => begin = "enter", p \in Writers => begin = "claim",
         Round(p, here, begin)
  PROVE  PlaceTyped'
<1>1. Readers \subseteq Process /\ Writers \subseteq Process
      /\ (p \in Readers \/ p \in Writers) /\ Readers \cap Writers = {}
  BY Processes
<1>2. PICK there : /\ Goes(p, here, there)
                   /\ there = (IF rounds[p] + 1 = END THEN "done" ELSE begin)
  BY DEF Round
<1>3. /\ pc'[p] = there /\ pc[p] = here
      /\ \A q \in Process : q # p => pc'[q] = pc[q]
  BY <1>2, Moves
<1>4. rounds[p] \in 0 .. END /\ END \in Nat /\ rounds[p] < END
  BY <1>3, EndAssumption DEF PlaceTyped
<1>5. rounds[p] + 1 \in 0 .. END /\ (rounds[p] + 1 # END => rounds[p] + 1 < END)
  BY <1>4, SMT
<1>6. there \in {"enter", "claim", "done"} /\ (p \in Readers => there \in ReaderLabels)
      /\ (p \in Writers => there \in WriterLabels)
  BY <1>1, <1>2 DEF ReaderLabels, WriterLabels
<1>7. pc' \in [Process -> ReaderLabels \cup WriterLabels]
  BY <1>2, <1>6 DEF PlaceTyped, Goes, ReaderLabels, WriterLabels
<1>8. /\ rounds' \in [Process -> 0 .. END]
      /\ rounds'[p] = rounds[p] + 1
      /\ \A q \in Process : q # p => rounds'[q] = rounds[q]
  BY <1>5 DEF PlaceTyped, Round
<1>9. \A q \in Process : pc'[q] # "done" => rounds'[q] < END
  BY <1>2, <1>3, <1>5, <1>8 DEF PlaceTyped
<1>10. QED
  BY <1>1, <1>3, <1>6, <1>7, <1>8, <1>9 DEF PlaceTyped

LEMMA WaitTyped ==
  ASSUME LinkTyped, NEW p \in Process, NEW s \in Semaphore, Wait(s, p)
  PROVE  LinkTyped'
<1>1. value' \in [Semaphore -> Int] /\ data' \in 0 .. MaxData /\ disturbed' \in BOOLEAN
  BY DEF LinkTyped, Wait
<1>2. CASE value[s] > 0
  BY <1>1, <1>2 DEF LinkTyped, Wait, links
<1>3. CASE ~ (value[s] > 0)
  <2>1. Append(queue[s], p) \in Seq(Process)
    BY DEF LinkTyped
  <2>2. /\ queue' \in [Semaphore -> Seq(Process)] /\ awake' \in [Process -> BOOLEAN]
        /\ last' \in [Semaphore -> Process \cup {Nil}] /\ relinked' \in BOOLEAN
    BY <1>3, <2>1 DEF LinkTyped, Wait
  <2>3. CASE last[s] = Nil
    BY <1>1, <1>3, <2>2, <2>3 DEF LinkTyped, Wait
  <2>4. CASE last[s] # Nil
    BY <1>1, <1>3, <2>2, <2>4 DEF LinkTyped, Wait
  <2>5. QED
    BY <2>3, <2>4
<1>4. QED
  BY <1>2, <1>3

LEMMA SignalTyped ==
  ASSUME LinkTyped, NEW s \in Semaphore, Signal(s)
  PROVE  LinkTyped'
<1>1. value' \in [Semaphore -> Int] /\ data' \in 0 .. MaxData
  BY DEF LinkTyped, Signal
<1>2. CASE value[s] >= 0
  BY <1>1, <1>2 DEF LinkTyped, Signal, links
<1>3. CASE ~ (value[s] >= 0)
  <2>1. Unlink(s) /\ Run(first[s], s)
    BY <1>3 DEF Signal
  <2>2. /\ awake' \in [Process -> BOOLEAN] /\ fault' \in {"none", "null", "gone"}
        /\ disturbed' \in BOOLEAN
    BY <2>1 DEF LinkTyped, Run
  <2>3. queue' \in [Semaphore -> Seq(Process)] /\ next' = next /\ relinked' = relinked
    <3>1. queue[s] # <<>> => Tail(queue[s]) \in Seq(Process)
      BY DEF LinkTyped
    <3>2. QED
      BY <2>1, <3>1 DEF LinkTyped, Unlink
  <2>4. CASE first[s] = last[s]
    BY <1>1, <2>1, <2>2, <2>3, <2>4 DEF LinkTyped, Unlink
  <2>5. CASE first[s] # last[s]
    BY <1>1, <2>1, <2>2, <2>3, <2>5 DEF LinkTyped, Unlink
  <2>6. QED
    BY <2>4, <2>5
<1>4. QED
  BY <1>2, <1>3

LEMMA PlainTyped == LinkTyped /\ Plain => LinkTyped'
  BY DEF LinkTyped, Plain, links

LEMMA DatumTyped ==
  ASSUME Typed, NEW p \in Process, Datum(p)
  PROVE  Typed'
<1>1. data' \in 0 .. MaxData
  BY DataAssumption, SMT DEF Typed, LinkTyped, Datum
<1>2. LinkTyped'
  BY <1>1 DEF Typed, LinkTyped, Datum, links
<1>3. MemoryTyped' /\ PlaceTyped'
  BY DEF Typed, MemoryTyped, PlaceTyped, Datum, memory
<1>4. QED
  BY <1>2, <1>3 DEF Typed

-----------------------------------------------------------------------------
(* The lists. *)

\* No process is twice on the lists.
Once ==
    \A s, u \in Semaphore : \A i \in 1 .. Len(queue[s]), j \in 1 .. Len(queue[u]) :
        queue[s][i] = queue[u][j] => s = u /\ i = j

Waiting(s) == IF value[s] < 0 THEN - value[s] ELSE 0

ListPart ==
    ~ relinked =>
        /\ Once
        /\ fault # "null"
        /\ \A s \in Semaphore : Spells(s, queue[s])
        /\ \A s \in Semaphore : Len(queue[s]) = Waiting(s)
        /\ \A s \in Semaphore : \A p \in Process : SleepsOn(p, s) =>
              \E i \in 1 .. Len(queue[s]) : queue[s][i] = p

LEMMA AsideLists ==
  ASSUME Typed, ListPart, NEW p \in Process, NEW here, NEW there,
         Goes(p, here, there), UNCHANGED <<links, awake, fault>>,
         \A s \in Semaphore : Waiting(s)' = Waiting(s)
  PROVE  ListPart'
<1>1. /\ awake' = awake /\ queue' = queue /\ awake[p] /\ fault' = fault
      /\ first' = first /\ last' = last /\ next' = next /\ relinked' = relinked
      /\ \A q \in Process : q # p => pc'[q] = pc[q]
  BY Moves DEF Typed, links
<1>2. \A s \in Semaphore : \A q \in Process : SleepsOn(q, s)' => SleepsOn(q, s)
  BY <1>1 DEF SleepsOn
<1>3. \A s \in Semaphore : Spells(s, queue[s])' <=> Spells(s, queue[s])
  BY <1>1 DEF Spells
<1>4. QED
  BY <1>1, <1>2, <1>3 DEF ListPart, Once

LEMMA EmptyIsZero == Len(<<>>) = 0 /\ \A q \in Seq(Process) : Len(q) = 0 => q = <<>>
  BY SMT

LEMMA SpellsKept ==
  ASSUME NEW u \in Semaphore, queue[u] \in Seq(Process), Spells(u, queue[u]),
         queue'[u] = queue[u], first'[u] = first[u], last'[u] = last[u],
         \A i \in 1 .. Len(queue[u]) : next'[queue[u][i]] = next[queue[u][i]]
  PROVE  Spells(u, queue[u])'
<1>1. queue[u] # <<>> => Len(queue[u]) \in 1 .. Len(queue[u])
  BY SMT
<1>2. \A i \in 1 .. Len(queue[u]) - 1 :
         i \in 1 .. Len(queue[u]) /\ next'[queue[u][i]] = queue[u][i + 1]
  <2>1. ASSUME NEW i \in 1 .. Len(queue[u]) - 1
        PROVE  i \in 1 .. Len(queue[u])
    BY SMT
  <2>2. QED
    BY <2>1 DEF Spells
<1>3. queue[u] # <<>> => next'[queue[u][Len(queue[u])]] = Nil
  BY <1>1 DEF Spells
<1>4. QED
  BY <1>2, <1>3 DEF Spells

LEMMA WaitLists ==
  ASSUME Typed, ListPart, NEW p \in Process, NEW here, NEW s \in Semaphore,
         NEW there \in Behind(s), Goes(p, here, there), Wait(s, p)
  PROVE  ListPart'
<1>1. /\ queue \in [Semaphore -> Seq(Process)] /\ value \in [Semaphore -> Int]
      /\ awake \in [Process -> BOOLEAN] /\ \A u \in Semaphore : Len(queue[u]) \in Nat
      /\ \A u \in Semaphore : \A i \in 1 .. Len(queue[u]) : queue[u][i] \in Process
      /\ relinked \in BOOLEAN /\ Nil \notin Process
      /\ next \in [Process -> Process \cup {Nil}]
      /\ first \in [Semaphore -> Process \cup {Nil}]
      /\ last \in [Semaphore -> Process \cup {Nil}]
  BY Processes DEF Typed, LinkTyped
<1>2. /\ awake[p] /\ pc'[p] = there /\ fault = "none"
      /\ \A q \in Process : q # p => pc'[q] = pc[q]
  BY Moves DEF Typed
<1>3. value'[s] = value[s] - 1 /\ \A u \in Semaphore : u # s => value'[u] = value[u]
  BY <1>1 DEF Wait
<1>4. CASE value[s] > 0
  <2>1. UNCHANGED <<links, awake, fault>>
    BY <1>4 DEF Wait
  <2>2. \A u \in Semaphore : Waiting(u)' = Waiting(u)
    <3>1. Waiting(s)' = Waiting(s)
      BY <1>1, <1>3, <1>4, SMT DEF Waiting
    <3>2. QED
      BY <1>3, <3>1 DEF Waiting
  <2>3. QED
    BY <2>1, <2>2, AsideLists
<1>5. CASE ~ (value[s] > 0)
  <2>0. DEFINE n == Len(queue[s])
  <2>1. SUFFICES ASSUME relinked' = FALSE
                 PROVE  ListPart'
    <3>1. relinked' \in BOOLEAN
      BY WaitTyped DEF Typed, LinkTyped
    <3>2. QED
      BY <3>1 DEF ListPart
  <2>2. /\ relinked = FALSE /\ ~ Queued(p)
        /\ queue' = [queue EXCEPT ![s] = Append(queue[s], p)]
        /\ awake' = [awake EXCEPT ![p] = FALSE]
        /\ last' = [last EXCEPT ![s] = p]
    BY <1>1, <1>5, <2>1 DEF Wait
  <2>3. /\ Once
        /\ \A u \in Semaphore : Spells(u, queue[u])
        /\ \A u \in Semaphore : Len(queue[u]) = Waiting(u)
        /\ \A u \in Semaphore : \A q \in Process : SleepsOn(q, u) =>
              \E i \in 1 .. Len(queue[u]) : queue[u][i] = q
    BY <2>2 DEF ListPart
  <2>4. \A u \in Semaphore : \A i \in 1 .. Len(queue[u]) : queue[u][i] # p
    BY <2>2 DEF Queued
  <2>5. /\ queue'[s] = Append(queue[s], p)
        /\ Len(queue'[s]) = n + 1
        /\ \A i \in 1 .. n : queue'[s][i] = queue[s][i]
        /\ queue'[s][n + 1] = p
        /\ \A i \in 1 .. Len(queue'[s]) : i \in 1 .. n \/ i = n + 1
        /\ \A u \in Semaphore : u # s => queue'[u] = queue[u]
    BY <1>1, <2>2, SMT
  <2>6. Once'
    <3>1. ASSUME NEW u \in Semaphore, NEW v \in Semaphore,
                 NEW i \in 1 .. Len(queue'[u]), NEW j \in 1 .. Len(queue'[v]),
                 queue'[u][i] = queue'[v][j]
          PROVE  u = v /\ i = j
      <4>1. CASE u = s /\ i = n + 1
        <5>1. queue'[v][j] = p
          BY <2>5, <3>1, <4>1
        <5>2. v = s
          BY <2>4, <2>5, <5>1
        <5>3. j = n + 1
          BY <2>4, <2>5, <5>1, <5>2
        <5>4. QED
          BY <4>1, <5>2, <5>3
      <4>2. CASE v = s /\ j = n + 1
        <5>1. queue'[u][i] = p
          BY <2>5, <3>1, <4>2
        <5>2. u = s
          BY <2>4, <2>5, <5>1
        <5>3. i = n + 1
          BY <2>4, <2>5, <5>1, <5>2
        <5>4. QED
          BY <4>2, <5>2, <5>3
      <4>3. CASE ~ (u = s /\ i = n + 1) /\ ~ (v = s /\ j = n + 1)
        <5>1. i \in 1 .. Len(queue[u]) /\ queue'[u][i] = queue[u][i]
          BY <2>5, <4>3
        <5>2. j \in 1 .. Len(queue[v]) /\ queue'[v][j] = queue[v][j]
          BY <2>5, <4>3
        <5>3. queue[u][i] = queue[v][j]
          BY <3>1, <5>1, <5>2
        <5>4. QED
          BY <2>3, <5>1, <5>2, <5>3 DEF Once
      <4>4. QED
        BY <4>1, <4>2, <4>3
    <3>2. QED
      BY <3>1 DEF Once
  <2>7. ASSUME last[s] = Nil
        PROVE  fault' # "null" /\ \A u \in Semaphore : Spells(u, queue[u])'
    <3>1. /\ first' = [first EXCEPT ![s] = p]
          /\ next' = [next EXCEPT ![p] = Nil]
          /\ fault' = fault
      BY <1>5, <2>7 DEF Wait
    <3>2. queue[s] = <<>>
      <4>1. queue[s] # <<>> => n \in 1 .. n
        BY <1>1, SMT
      <4>2. QED
        BY <1>1, <2>3, <2>7, <4>1 DEF Spells
    <3>3. n = 0 /\ queue'[s] = <<p>>
      BY <2>5, <3>2
    <3>4. Spells(s, queue[s])'
      BY <1>1, <2>2, <2>5, <3>1, <3>3 DEF Spells
    <3>5. ASSUME NEW u \in Semaphore, u # s PROVE Spells(u, queue[u])'
      <4>1. queue'[u] = queue[u] /\ first'[u] = first[u] /\ last'[u] = last[u]
        BY <1>1, <2>2, <2>5, <3>1, <3>5
      <4>2. \A i \in 1 .. Len(queue[u]) : next'[queue[u][i]] = next[queue[u][i]]
        BY <1>1, <2>4, <3>1
      <4>3. QED
        BY <1>1, <2>3, <4>1, <4>2, SpellsKept
    <3>6. QED
      BY <3>1, <3>4, <3>5, <1>2
  <2>8. ASSUME last[s] # Nil
        PROVE  fault' # "null" /\ \A u \in Semaphore : Spells(u, queue[u])'
    <3>1. /\ first' = first
          /\ next' = [next EXCEPT ![last[s]] = p, ![p] = Nil]
          /\ fault' \in {fault, "gone"}
      BY <1>5, <2>8 DEF Wait
    <3>2. queue[s] # <<>>
      BY <2>3, <2>8 DEF Spells
    <3>3. n > 0 /\ n \in 1 .. n /\ 1 \in 1 .. n /\ last[s] = queue[s][n] /\ last[s] # p
          /\ first[s] = queue[s][1] /\ last[s] \in Process
      BY <1>1, <2>3, <2>4, <2>8, <3>2, SMT DEF Spells
    <3>4. /\ next'[p] = Nil /\ next'[last[s]] = p
          /\ \A q \in Process : q # p /\ q # last[s] => next'[q] = next[q]
      BY <1>1, <3>1, <3>3
    <3>5. Spells(s, queue[s])'
      <4>1. queue'[s] # <<>> /\ first'[s] = queue'[s][1] /\ last'[s] = queue'[s][Len(queue'[s])]
            /\ next'[queue'[s][Len(queue'[s])]] = Nil
        <5>1. last'[s] = p /\ queue'[s][Len(queue'[s])] = p
          BY <1>1, <2>2, <2>5
        <5>2. first'[s] = queue'[s][1]
          BY <2>5, <3>1, <3>3
        <5>3. queue'[s] # <<>>
          <6>1. n \in Nat /\ n + 1 # 0
            BY <1>1, SMT
          <6>2. QED
            BY <2>5, <6>1, EmptyIsZero
        <5>4. QED
          BY <3>4, <5>1, <5>2, <5>3
      <4>2. ASSUME NEW i \in 1 .. Len(queue'[s]) - 1
            PROVE  next'[queue'[s][i]] = queue'[s][i + 1]
        <5>1. i \in 1 .. n /\ (i # n => i \in 1 .. n - 1 /\ i + 1 \in 1 .. n)
          BY <1>1, <2>5, SMT
        <5>2. CASE i = n
          BY <2>5, <3>3, <3>4, <5>1, <5>2
        <5>3. CASE i # n
          <6>1. queue[s][i] # last[s] /\ queue[s][i] # p /\ queue[s][i] \in Process
            BY <1>1, <2>3, <2>4, <3>3, <5>1, <5>3 DEF Once
          <6>2. next[queue[s][i]] = queue[s][i + 1]
            BY <2>3, <5>1, <5>3 DEF Spells
          <6>3. QED
            BY <2>5, <3>4, <5>1, <5>3, <6>1, <6>2
        <5>4. QED
          BY <5>2, <5>3
      <4>3. QED
        BY <4>1, <4>2 DEF Spells
    <3>6. ASSUME NEW u \in Semaphore, u # s PROVE Spells(u, queue[u])'
      <4>1. queue'[u] = queue[u] /\ first'[u] = first[u] /\ last'[u] = last[u]
        BY <1>1, <2>2, <2>5, <3>1, <3>6
      <4>2. \A i \in 1 .. Len(queue[u]) : next'[queue[u][i]] = next[queue[u][i]]
        BY <1>1, <2>3, <2>4, <3>3, <3>4, <3>6 DEF Once
      <4>3. QED
        BY <1>1, <2>3, <4>1, <4>2, SpellsKept
    <3>7. QED
      BY <1>2, <3>1, <3>5, <3>6
  <2>9. fault' # "null" /\ \A u \in Semaphore : Spells(u, queue[u])'
    BY <2>7, <2>8
  <2>10. \A u \in Semaphore : Len(queue'[u]) = Waiting(u)'
    <3>1. Len(queue'[s]) = Waiting(s)'
      BY <1>1, <1>3, <1>5, <2>3, <2>5, SMT DEF Waiting
    <3>2. QED
      BY <1>3, <2>3, <2>5, <3>1 DEF Waiting
  <2>11. ASSUME NEW u \in Semaphore, NEW q \in Process, SleepsOn(q, u)'
         PROVE  \E i \in 1 .. Len(queue'[u]) : queue'[u][i] = q
    <3>1. CASE q = p
      <4>1. u = s
        BY <1>2, <2>11, <3>1 DEF SleepsOn, Behind, Semaphore
      <4>2. n + 1 \in 1 .. Len(queue'[s])
        BY <1>1, <2>5, SMT
      <4>3. QED
        BY <2>5, <3>1, <4>1, <4>2
    <3>2. CASE q # p
      <4>1. SleepsOn(q, u)
        BY <1>1, <1>2, <2>2, <2>11, <3>2 DEF SleepsOn
      <4>2. PICK i \in 1 .. Len(queue[u]) : queue[u][i] = q
        BY <2>3, <4>1
      <4>3. i \in 1 .. Len(queue'[u]) /\ queue'[u][i] = q
        <5>1. CASE u = s
          <6>1. i \in 1 .. Len(queue'[s])
            BY <1>1, <2>5, <4>2, <5>1, SMT
          <6>2. QED
            BY <2>5, <4>2, <5>1, <6>1
        <5>2. CASE u # s
          BY <2>5, <4>2, <5>2
        <5>3. QED
          BY <5>1, <5>2
      <4>4. QED
        BY <4>3
    <3>3. QED
      BY <3>1, <3>2
  <2>12. QED
    BY <2>6, <2>9, <2>10, <2>11 DEF ListPart
<1>6. QED
  BY <1>4, <1>5

LEMMA OneOrMore ==
  \A k \in Nat : k > 0 =>
     k = 1 \/ /\ k # 1 /\ 1 \in 1 .. k - 1 /\ k - 1 \in 1 .. k - 1
              /\ (k - 1) + 1 = k /\ k - 1 # 0
  BY SMT

LEMMA SignalLists ==
  ASSUME Typed, ListPart, NEW p \in Process, NEW here, NEW there, NEW s \in Semaphore,
         Goes(p, here, there), Signal(s)
  PROVE  ListPart'
<1>1. /\ queue \in [Semaphore -> Seq(Process)] /\ value \in [Semaphore -> Int]
      /\ awake \in [Process -> BOOLEAN] /\ \A u \in Semaphore : Len(queue[u]) \in Nat
      /\ \A u \in Semaphore : \A i \in 1 .. Len(queue[u]) : queue[u][i] \in Process
      /\ relinked \in BOOLEAN /\ Nil \notin Process
      /\ first \in [Semaphore -> Process \cup {Nil}]
      /\ last \in [Semaphore -> Process \cup {Nil}]
  BY Processes DEF Typed, LinkTyped
<1>2. /\ awake[p] /\ pc'[p] = there /\ fault = "none"
      /\ \A q \in Process : q # p => pc'[q] = pc[q]
  BY Moves DEF Typed
<1>3. value'[s] = value[s] + 1 /\ \A u \in Semaphore : u # s => value'[u] = value[u]
  BY <1>1 DEF Signal
<1>4. CASE value[s] >= 0
  <2>1. UNCHANGED <<links, awake, fault>>
    BY <1>4 DEF Signal
  <2>2. \A u \in Semaphore : Waiting(u)' = Waiting(u)
    <3>1. Waiting(s)' = Waiting(s)
      BY <1>1, <1>3, <1>4, SMT DEF Waiting
    <3>2. QED
      BY <1>3, <3>1 DEF Waiting
  <2>3. QED
    BY <2>1, <2>2, AsideLists
<1>5. CASE ~ (value[s] >= 0)
  <2>0. DEFINE n == Len(queue[s])
               h == queue[s][1]
  <2>1. Unlink(s) /\ Run(first[s], s)
    BY <1>5 DEF Signal
  <2>2. SUFFICES ASSUME ~ relinked
                 PROVE  ListPart'
    BY <2>1 DEF ListPart, Unlink
  <2>3. /\ Once
        /\ \A u \in Semaphore : Spells(u, queue[u])
        /\ \A u \in Semaphore : Len(queue[u]) = Waiting(u)
        /\ \A u \in Semaphore : \A q \in Process : SleepsOn(q, u) =>
              \E i \in 1 .. Len(queue[u]) : queue[u][i] = q
    BY <2>2 DEF ListPart
  <2>4. n \in Nat /\ n > 0 /\ 1 \in 1 .. n /\ n \in 1 .. n
    <3>1. n \in Nat /\ n > 0
      BY <1>1, <1>5, <2>3, SMT DEF Waiting
    <3>2. QED
      BY <3>1, SMT
  <2>40. queue[s] # <<>>
    BY <2>4, EmptyIsZero, SMT
  <2>5. h \in Process /\ first[s] = h /\ h # Nil /\ last[s] = queue[s][n]
    BY <1>1, <2>3, <2>4, <2>40 DEF Spells
  <2>6. /\ queue'[s] = Tail(queue[s])
        /\ Len(queue'[s]) = n - 1
        /\ \A i \in 1 .. n - 1 : /\ queue'[s][i] = queue[s][i + 1]
                                 /\ i + 1 \in 1 .. n
        /\ \A u \in Semaphore : u # s => queue'[u] = queue[u]
    <3>1. queue'[s] = Tail(queue[s]) /\ \A u \in Semaphore : u # s => queue'[u] = queue[u]
      BY <1>1, <2>1, <2>40 DEF Unlink
    <3>2. QED
      BY <1>1, <2>4, <2>40, <3>1, SMT
  <2>7. awake'[h] /\ \A q \in Process : q # h => awake'[q] = awake[q]
    BY <1>1, <2>1, <2>5 DEF Run
  <2>8. fault' # "null"
    BY <1>2, <2>1, <2>5 DEF Run
  <2>9. Once'
    <3>1. \A i \in 1 .. Len(queue'[s]) : i + 1 \in 1 .. n /\ queue'[s][i] = queue[s][i + 1]
      BY <2>6
    <3>2. ASSUME NEW u \in Semaphore, NEW v \in Semaphore,
                 NEW i \in 1 .. Len(queue'[u]), NEW j \in 1 .. Len(queue'[v]),
                 queue'[u][i] = queue'[v][j]
          PROVE  u = v /\ i = j
      <4>1. CASE u = s /\ v = s
        <5>1. queue[s][i + 1] = queue[s][j + 1] /\ i + 1 \in 1 .. n /\ j + 1 \in 1 .. n
          BY <3>1, <3>2, <4>1
        <5>2. i + 1 = j + 1
          BY <2>3, <5>1 DEF Once
        <5>3. QED
          BY <4>1, <5>2, SMT
      <4>2. CASE u = s /\ v # s
        <5>1. queue[s][i + 1] = queue[v][j] /\ i + 1 \in 1 .. n /\ j \in 1 .. Len(queue[v])
          BY <2>6, <3>1, <3>2, <4>2
        <5>2. QED
          BY <2>3, <4>2, <5>1 DEF Once
      <4>3. CASE u # s /\ v = s
        <5>1. queue[u][i] = queue[s][j + 1] /\ j + 1 \in 1 .. n /\ i \in 1 .. Len(queue[u])
          BY <2>6, <3>1, <3>2, <4>3
        <5>2. QED
          BY <2>3, <4>3, <5>1 DEF Once
      <4>4. CASE u # s /\ v # s
        <5>1. queue[u][i] = queue[v][j] /\ j \in 1 .. Len(queue[v]) /\ i \in 1 .. Len(queue[u])
          BY <2>6, <3>2, <4>4
        <5>2. QED
          BY <2>3, <5>1 DEF Once
      <4>5. QED
        BY <4>1, <4>2, <4>3, <4>4
    <3>3. QED
      BY <3>2 DEF Once
  <2>10. next' = next
    BY <2>1 DEF Unlink
  <2>11. Spells(s, queue[s])'
    <3>1. CASE n = 1
      <4>1. first[s] = last[s]
        BY <2>5, <3>1
      <4>2. first'[s] = Nil /\ last'[s] = Nil
        BY <1>1, <2>1, <4>1 DEF Unlink
      <4>3. queue'[s] = <<>>
        <5>1. queue'[s] \in Seq(Process) /\ Len(queue'[s]) = 0
          <6>1. queue'[s] \in Seq(Process)
            BY SignalTyped DEF Typed, LinkTyped
          <6>2. QED
            BY <2>6, <3>1, <6>1, SMT
        <5>2. QED
          BY <5>1, EmptyIsZero
      <4>4. 1 .. Len(queue'[s]) - 1 = {}
        BY <4>3, SMT
      <4>5. QED
        BY <4>2, <4>3, <4>4 DEF Spells
    <3>2. CASE n # 1
      <4>1. 1 \in 1 .. n - 1 /\ n - 1 \in 1 .. n - 1 /\ (n - 1) + 1 = n /\ n - 1 # 0
        BY <2>4, <3>2, OneOrMore
      <4>2. first[s] # last[s]
        <5>1. queue[s][1] # queue[s][n]
          <6>1. \A i, j \in 1 .. n : queue[s][i] = queue[s][j] => i = j
            BY <2>3 DEF Once
          <6>2. QED
            BY <2>4, <3>2, <6>1, Zenon
        <5>2. QED
          BY <2>5, <5>1
      <4>3. first'[s] = next[h] /\ last' = last
        BY <1>1, <2>1, <2>5, <4>2 DEF Unlink
      <4>4. first'[s] = queue'[s][1]
        BY <2>3, <2>6, <4>1, <4>3 DEF Spells
      <4>5. /\ last'[s] = queue'[s][Len(queue'[s])]
            /\ next'[queue'[s][Len(queue'[s])]] = Nil
        BY <2>3, <2>40, <2>5, <2>6, <2>10, <4>1, <4>3 DEF Spells
      <4>6. queue'[s] # <<>>
        <5>1. Len(queue'[s]) # 0
          BY <2>6, <4>1
        <5>2. QED
          BY <5>1, EmptyIsZero
      <4>7. ASSUME NEW i \in 1 .. Len(queue'[s]) - 1
            PROVE  next'[queue'[s][i]] = queue'[s][i + 1]
        <5>1. i \in 1 .. n - 1 /\ i + 1 \in 1 .. n - 1
          BY <1>1, <2>6, SMT
        <5>2. queue'[s][i] = queue[s][i + 1] /\ queue'[s][i + 1] = queue[s][(i + 1) + 1]
          BY <2>6, <5>1
        <5>3. QED
          BY <2>3, <2>10, <5>1, <5>2 DEF Spells
      <4>8. QED
        BY <4>4, <4>5, <4>6, <4>7 DEF Spells
    <3>3. QED
      BY <3>1, <3>2
  <2>12. ASSUME NEW u \in Semaphore, u # s PROVE Spells(u, queue[u])'
    <3>1. queue'[u] = queue[u] /\ first'[u] = first[u] /\ last'[u] = last[u]
      BY <1>1, <2>1, <2>6, <2>12 DEF Unlink
    <3>2. QED
      BY <1>1, <2>3, <2>10, <3>1, SpellsKept
  <2>13. \A u \in Semaphore : Len(queue'[u]) = Waiting(u)'
    <3>1. Len(queue'[s]) = Waiting(s)'
      BY <1>1, <1>3, <1>5, <2>3, <2>6, SMT DEF Waiting
    <3>2. QED
      BY <1>3, <2>3, <2>6, <3>1 DEF Waiting
  <2>14. ASSUME NEW u \in Semaphore, NEW q \in Process, SleepsOn(q, u)'
         PROVE  \E i \in 1 .. Len(queue'[u]) : queue'[u][i] = q
    <3>1. q # p /\ q # h
      <4>1. awake'[p]
        BY <1>1, <1>2, <2>7
      <4>2. QED
        BY <2>7, <2>14, <4>1 DEF SleepsOn
    <3>2. SleepsOn(q, u)
      BY <1>2, <2>7, <2>14, <3>1 DEF SleepsOn
    <3>3. PICK i \in 1 .. Len(queue[u]) : queue[u][i] = q
      BY <2>3, <3>2
    <3>4. CASE u = s
      <4>1. i # 1
        BY <3>1, <3>3, <3>4
      <4>2. i - 1 \in 1 .. n - 1 /\ (i - 1) + 1 = i
        BY <1>1, <3>3, <3>4, <4>1, SMT
      <4>3. queue'[s][i - 1] = q
        BY <2>6, <3>3, <3>4, <4>2
      <4>4. QED
        BY <2>6, <3>4, <4>2, <4>3
    <3>5. CASE u # s
      BY <2>6, <3>3, <3>5
    <3>6. QED
      BY <3>4, <3>5
  <2>15. \A u \in Semaphore : Spells(u, queue[u])'
    BY <2>11, <2>12
  <2>16. QED
    BY <2>8, <2>9, <2>13, <2>14, <2>15 DEF ListPart
<1>6. QED
  BY <1>4, <1>5

LEMMA PlainLists ==
  ASSUME Typed, ListPart, NEW p \in Process, NEW here, NEW there,
         Goes(p, here, there), Plain
  PROVE  ListPart'
<1>1. UNCHANGED <<links, awake, fault>> /\ \A s \in Semaphore : Waiting(s)' = Waiting(s)
  BY DEF Plain, Waiting
<1>2. QED
  BY <1>1, AsideLists

LEMMA DatumLists ==
  ASSUME Typed, ListPart, NEW p \in Process, Datum(p)
  PROVE  ListPart'
<1>1. /\ queue' = queue /\ first' = first /\ last' = last /\ next' = next
      /\ relinked' = relinked /\ fault' = fault /\ value' = value /\ pc' = pc
      /\ awake' = [awake EXCEPT ![p] = TRUE] /\ awake \in [Process -> BOOLEAN]
  BY DEF Datum, links, Typed, LinkTyped
<1>2. \A s \in Semaphore : \A q \in Process : SleepsOn(q, s)' => SleepsOn(q, s)
  BY <1>1 DEF SleepsOn
<1>3. \A s \in Semaphore : Spells(s, queue[s])' <=> Spells(s, queue[s])
  BY <1>1 DEF Spells
<1>4. \A s \in Semaphore : Waiting(s)' = Waiting(s)
  BY <1>1 DEF Waiting
<1>5. QED
  BY <1>1, <1>2, <1>3, <1>4 DEF ListPart, Once

-----------------------------------------------------------------------------
(* Who has what. *)

\* The readers that readcount counts, those that have begun a wait for mutex
\* and not signalled, and the writers that have begun one for wrt.
Counted == {r \in Readers : pc[r] \in {"first", "admit", "read", "leave", "uncount"}}
Engaged == {r \in Readers : pc[r] \in {"count", "first", "admit", "uncount", "last", "end"}}
Claimed == {w \in Writers : pc[w] \in {"load", "store", "release"}}

\* A reader has begun a wait for wrt, and none has signalled for it.
Ticket == \E r \in Readers :
    \/ pc[r] \in {"admit", "read", "leave", "uncount"}
    \/ pc[r] = "last" /\ readcount = 0
Tickets == IF Ticket THEN 1 ELSE 0

\* Whatever ends a wait, each wait is counted once.
CountPart ==
    /\ readcount = Cardinality(Counted)
    /\ value["mutex"] = - Cardinality(Engaged)

MutexAlone == \A q, r \in Readers : HasMutex(q) /\ HasMutex(r) => q = r
WrtAlone ==
    /\ \A v, w \in Writers : HasWrt(v) /\ HasWrt(w) => v = w
    /\ \A w \in Writers : HasWrt(w) => ~ ReadersHaveWrt
WrtCount == value["wrt"] = - (Cardinality(Claimed) + Tickets)
SharePart ==
    /\ share = increments
    /\ \A w \in Writers : pc[w] = "store" => seen[w] = share

\* No process that was awakened too early is where it should not be.
HeldPart == ~ disturbed => MutexAlone /\ WrtAlone /\ WrtCount /\ SharePart

IInv == Typed /\ ListPart /\ CountPart /\ HeldPart

LEMMA Finite ==
  /\ IsFiniteSet(Counted) /\ Cardinality(Counted) \in Nat
  /\ IsFiniteSet(Engaged) /\ Cardinality(Engaged) \in Nat
  /\ IsFiniteSet(Claimed) /\ Cardinality(Claimed) \in Nat
<1>1. IsFiniteSet(Process) /\ Readers \subseteq Process /\ Writers \subseteq Process
  BY ProcessAssumption, Processes
<1>2. IsFiniteSet(Readers) /\ IsFiniteSet(Writers)
  BY <1>1, FS_Subset
<1>3. IsFiniteSet(Counted) /\ IsFiniteSet(Engaged) /\ IsFiniteSet(Claimed)
  BY <1>2, FS_Subset DEF Counted, Engaged, Claimed
<1>4. QED
  BY <1>3, FS_CardinalityType

LEMMA Grows ==
  ASSUME NEW S, NEW T, NEW x, IsFiniteSet(S), x \notin S, T = S \cup {x}
  PROVE  Cardinality(T) = Cardinality(S) + 1
  BY FS_AddElement

LEMMA Shrinks ==
  ASSUME NEW S, NEW T, NEW x, IsFiniteSet(S), x \in S, T = S \ {x}
  PROVE  Cardinality(T) = Cardinality(S) - 1
  BY FS_RemoveElement

\* The value is never positive as long as no wait has been disturbed.
LEMMA NotPositive ==
  /\ CountPart => value["mutex"] <= 0
  /\ WrtCount => value["wrt"] <= 0
<1>1. CountPart => value["mutex"] <= 0
  <2>1. \A k \in Nat : - k <= 0
    BY SMT
  <2>2. QED
    BY <2>1, Finite DEF CountPart
<1>2. WrtCount => value["wrt"] <= 0
  <2>1. \A k \in Nat : - (k + 1) <= 0 /\ - (k + 0) <= 0
    BY SMT
  <2>2. QED
    BY <2>1, Finite DEF WrtCount, Tickets
<1>3. QED
  BY <1>1, <1>2

LEMMA WaitEffect ==
  ASSUME Typed, NEW p \in Process, NEW s \in Semaphore, Wait(s, p)
  PROVE  /\ value'[s] = value[s] - 1
         /\ \A u \in Semaphore : u # s => value'[u] = value[u]
         /\ disturbed' = disturbed
         /\ \A q \in Process : q # p => awake'[q] = awake[q]
         /\ value[s] <= 0 => awake'[p] = FALSE
<1>1. value \in [Semaphore -> Int] /\ awake \in [Process -> BOOLEAN]
  BY DEF Typed, LinkTyped
<1>2. /\ value'[s] = value[s] - 1 /\ disturbed' = disturbed
      /\ \A u \in Semaphore : u # s => value'[u] = value[u]
  BY <1>1 DEF Wait
<1>3. CASE value[s] > 0
  <2>1. awake' = awake
    BY <1>3 DEF Wait
  <2>2. ~ (value[s] <= 0)
    BY <1>1, <1>3, SMT
  <2>3. QED
    BY <1>2, <2>1, <2>2
<1>4. CASE ~ (value[s] > 0)
  <2>1. awake' = [awake EXCEPT ![p] = FALSE]
    BY <1>4 DEF Wait
  <2>2. QED
    BY <1>1, <1>2, <2>1
<1>5. QED
  BY <1>3, <1>4

\* At most one process is awakened.
LEMMA SignalEffect ==
  ASSUME Typed, NEW s \in Semaphore, Signal(s)
  PROVE  /\ value'[s] = value[s] + 1
         /\ \A u \in Semaphore : u # s => value'[u] = value[u]
         /\ disturbed' = FALSE =>
              /\ disturbed = FALSE
              /\ \E h \in Process \cup {Nil} :
                    /\ \A q \in Process : q # h => awake'[q] = awake[q]
                    /\ h \in Process => awake'[h] = TRUE
                    /\ h \in Process => \A u \in Semaphore : u # s => ~ Disturbs(h, u)
<1>1. /\ value \in [Semaphore -> Int] /\ awake \in [Process -> BOOLEAN]
      /\ first \in [Semaphore -> Process \cup {Nil}] /\ disturbed \in BOOLEAN
  BY DEF Typed, LinkTyped
<1>2. value'[s] = value[s] + 1 /\ \A u \in Semaphore : u # s => value'[u] = value[u]
  BY <1>1 DEF Signal
<1>3. CASE value[s] >= 0
  <2>1. awake' = awake /\ disturbed' = disturbed
    BY <1>3 DEF Signal
  <2>2. Nil \in Process \cup {Nil} /\ Nil \notin Process
    BY Processes
  <2>3. QED
    BY <1>2, <2>1, <2>2
<1>4. CASE ~ (value[s] >= 0)
  <2>1. Run(first[s], s) /\ first[s] \in Process \cup {Nil} /\ Nil \notin Process
    BY <1>1, <1>4, Processes DEF Signal
  <2>2. \A q \in Process : awake'[q] = (awake[q] \/ q = first[s])
    BY <2>1 DEF Run
  <2>3. /\ \A q \in Process : q # first[s] => awake'[q] = awake[q]
        /\ first[s] \in Process => awake'[first[s]] = TRUE
    BY <1>1, <2>2
  <2>4. disturbed' = FALSE =>
           /\ disturbed = FALSE
           /\ first[s] \in Process => \A u \in Semaphore : u # s => ~ Disturbs(first[s], u)
    BY <1>1, <2>1 DEF Run
  <2>5. QED
    BY <1>2, <2>1, <2>3, <2>4
<1>5. QED
  BY <1>3, <1>4

\* A reader goes on.
LEMMA ReaderMoves ==
  ASSUME Typed, NEW r \in Readers, NEW here, NEW there, Goes(r, here, there)
  PROVE  /\ r \in Process /\ awake[r] /\ pc[r] = here /\ pc'[r] = there
         /\ \A q \in Readers : q # r => pc'[q] = pc[q] /\ q \in Process
         /\ \A w \in Writers : pc'[w] = pc[w] /\ w # r /\ w \in Process
         /\ "mutex" \in Semaphore /\ "wrt" \in Semaphore /\ "mutex" # "wrt"
         /\ \A s \in Semaphore : s # "mutex" => s = "wrt"
  BY Moves, Processes DEF Semaphore, Typed

LEMMA WriterMoves ==
  ASSUME Typed, NEW w \in Writers, NEW here, NEW there, Goes(w, here, there)
  PROVE  /\ w \in Process /\ awake[w] /\ pc[w] = here /\ pc'[w] = there
         /\ \A v \in Writers : v # w => pc'[v] = pc[v] /\ v \in Process
         /\ \A r \in Readers : pc'[r] = pc[r] /\ r # w /\ r \in Process
         /\ "mutex" \in Semaphore /\ "wrt" \in Semaphore /\ "mutex" # "wrt"
  BY Moves, Processes DEF Semaphore, Typed

\* The readers and the writers do not become other ones.
LEMMA Distinct == \A r \in Readers, w \in Writers : r # w
  BY Processes

-----------------------------------------------------------------------------
(* One lemma for each statement of cmd_reader. *)

\* Enter and Leave wait for mutex in the same way.
LEMMA WaitMutexHeld ==
  ASSUME Typed, CountPart, HeldPart, NEW r \in Readers, NEW here, NEW there,
         \/ here = "enter" /\ there = "count"
         \/ here = "leave" /\ there = "uncount",
         Goes(r, here, there), Wait("mutex", r), UNCHANGED memory
  PROVE  CountPart' /\ HeldPart'
<1>1. /\ r \in Process /\ awake[r] /\ pc[r] = here /\ pc'[r] = there
      /\ \A q \in Readers : q # r => pc'[q] = pc[q] /\ q \in Process
      /\ \A w \in Writers : pc'[w] = pc[w] /\ w # r /\ w \in Process
      /\ "mutex" \in Semaphore /\ "wrt" \in Semaphore /\ "mutex" # "wrt"
  BY ReaderMoves
<1>2. /\ value'["mutex"] = value["mutex"] - 1 /\ value'["wrt"] = value["wrt"]
      /\ disturbed' = disturbed
      /\ \A q \in Process : q # r => awake'[q] = awake[q]
      /\ value["mutex"] <= 0 => awake'[r] = FALSE
  BY <1>1, WaitEffect
<1>3. /\ readcount' = readcount /\ share' = share /\ increments' = increments /\ seen' = seen
      /\ value["mutex"] \in Int
  BY <1>1 DEF memory, Typed, LinkTyped
<1>4. CountPart'
  <2>1. Counted' = Counted
    BY <1>1 DEF Counted
  <2>2. Engaged' = Engaged \cup {r} /\ r \notin Engaged
    BY <1>1 DEF Engaged
  <2>3. Cardinality(Engaged') = Cardinality(Engaged) + 1
    BY <2>2, Finite, Grows
  <2>4. value'["mutex"] = - Cardinality(Engaged')
    BY <1>2, <2>3, Finite, SMT DEF CountPart
  <2>5. QED
    BY <1>3, <2>1, <2>4 DEF CountPart
<1>5. ASSUME ~ disturbed' PROVE MutexAlone' /\ WrtAlone' /\ WrtCount' /\ SharePart'
  <2>1. MutexAlone /\ WrtAlone /\ WrtCount /\ SharePart /\ awake'[r] = FALSE
    BY <1>2, <1>5, NotPositive DEF HeldPart
  <2>2. /\ ~ HasMutex(r)'
        /\ \A q \in Readers : q # r => (HasMutex(q)' <=> HasMutex(q))
    BY <1>1, <1>2, <2>1 DEF HasMutex
  <2>3. MutexAlone'
    BY <2>1, <2>2 DEF MutexAlone
  <2>4. (ReadersHaveWrt' <=> ReadersHaveWrt) /\ \A w \in Writers : HasWrt(w)' <=> HasWrt(w)
    BY <1>1, <1>2 DEF ReadersHaveWrt, SharesWrt, HasWrt
  <2>5. WrtAlone'
    BY <2>1, <2>4 DEF WrtAlone
  <2>6. Claimed' = Claimed /\ (Ticket' <=> Ticket)
    BY <1>1, <1>3 DEF Claimed, Ticket
  <2>7. WrtCount'
    BY <1>2, <2>1, <2>6 DEF WrtCount, Tickets
  <2>8. SharePart'
    BY <1>1, <1>3, <2>1 DEF SharePart
  <2>9. QED
    BY <2>3, <2>5, <2>7, <2>8
<1>6. QED
  BY <1>4, <1>5 DEF HeldPart

\* Admit and End give mutex back in the same way.
LEMMA SignalMutexHeld ==
  ASSUME Typed, CountPart, HeldPart, NEW r \in Readers, NEW here, NEW there,
         \/ here = "admit" /\ there = "read"
         \/ here = "end" /\ there \in {"enter", "done"},
         Goes(r, here, there), Signal("mutex"),
         UNCHANGED <<readcount, share, seen, increments>>
  PROVE  CountPart' /\ HeldPart'
<1>1. /\ r \in Process /\ awake[r] /\ pc[r] = here /\ pc'[r] = there
      /\ \A q \in Readers : q # r => pc'[q] = pc[q] /\ q \in Process
      /\ \A w \in Writers : pc'[w] = pc[w] /\ w # r /\ w \in Process
      /\ "mutex" \in Semaphore /\ "wrt" \in Semaphore /\ "mutex" # "wrt"
  BY ReaderMoves
<1>2. /\ value'["mutex"] = value["mutex"] + 1 /\ value'["wrt"] = value["wrt"]
      /\ disturbed' = FALSE =>
           /\ disturbed = FALSE
           /\ \E h \in Process \cup {Nil} :
                 /\ \A q \in Process : q # h => awake'[q] = awake[q]
                 /\ h \in Process => awake'[h] = TRUE
                 /\ h \in Process => ~ Disturbs(h, "wrt")
  BY <1>1, SignalEffect
<1>3. value["mutex"] \in Int /\ awake \in [Process -> BOOLEAN] /\ disturbed' \in BOOLEAN
  BY <1>1, SignalTyped DEF Typed, LinkTyped
<1>4. CountPart'
  <2>1. Counted' = Counted
    BY <1>1 DEF Counted
  <2>2. Engaged' = Engaged \ {r} /\ r \in Engaged
    BY <1>1 DEF Engaged
  <2>3. Cardinality(Engaged') = Cardinality(Engaged) - 1
    BY <2>2, Finite, Shrinks
  <2>4. value'["mutex"] = - Cardinality(Engaged')
    BY <1>2, <2>3, Finite, SMT DEF CountPart
  <2>5. QED
    BY <2>1, <2>4 DEF CountPart
<1>5. ASSUME disturbed' = FALSE PROVE MutexAlone' /\ WrtAlone' /\ WrtCount' /\ SharePart'
  <2>1. PICK h \in Process \cup {Nil} :
           /\ \A q \in Process : q # h => awake'[q] = awake[q]
           /\ h \in Process => awake'[h] = TRUE
           /\ h \in Process => ~ Disturbs(h, "wrt")
    BY <1>2, <1>5
  <2>2. MutexAlone /\ WrtAlone /\ WrtCount /\ SharePart
    BY <1>2, <1>5 DEF HeldPart
  <2>3. HasMutex(r) /\ \A q \in Readers : q # r => ~ HasMutex(q)
    BY <1>1, <2>2 DEF MutexAlone, HasMutex
  <2>4. \A q \in Readers : q # h => ~ HasMutex(q)'
    BY <1>1, <2>1, <2>3 DEF HasMutex
  <2>5. MutexAlone'
    BY <2>4 DEF MutexAlone
  <2>6. WrtAlone'
    <3>1. CASE h \in Process /\ SleepsOn(h, "wrt")
      <4>1. ~ ReadersHaveWrt /\ \A w \in Writers : ~ HasWrt(w)
        BY <1>1, <2>1, <3>1 DEF Disturbs, Held
      <4>2. h # r
        BY <1>1, <3>1 DEF SleepsOn
      <4>3. here # "admit"
        BY <1>1, <4>1 DEF ReadersHaveWrt, SharesWrt
      <4>4. \A w \in Writers : w # h => ~ HasWrt(w)'
        BY <1>1, <2>1, <4>1 DEF HasWrt
      <4>5. \A q \in Readers : q # h => ~ SharesWrt(q)'
        BY <1>1, <2>1, <4>1, <4>3 DEF ReadersHaveWrt, SharesWrt
      <4>6. CASE h \in Readers
        <5>1. \A w \in Writers : ~ HasWrt(w)'
          BY <4>4, <4>6, Distinct
        <5>2. QED
          BY <5>1 DEF WrtAlone
      <4>7. CASE h \notin Readers
        <5>1. ~ ReadersHaveWrt'
          BY <4>5, <4>7 DEF ReadersHaveWrt
        <5>2. QED
          BY <4>4, <5>1 DEF WrtAlone
      <4>8. QED
        BY <4>6, <4>7
    <3>2. CASE ~ (h \in Process /\ SleepsOn(h, "wrt"))
      <4>1. \A w \in Writers : HasWrt(w)' => HasWrt(w)
        <5>1. ASSUME NEW w \in Writers, HasWrt(w)' PROVE HasWrt(w)
          <6>1. CASE w = h
            BY <1>1, <3>2, <5>1, <6>1 DEF HasWrt, SleepsOn, Behind
          <6>2. CASE w # h
            BY <1>1, <2>1, <5>1, <6>2 DEF HasWrt
          <6>3. QED
            BY <6>1, <6>2
        <5>2. QED
          BY <5>1
      <4>2. ReadersHaveWrt' => ReadersHaveWrt
        <5>1. ASSUME NEW q \in Readers, SharesWrt(q)'
              PROVE  ReadersHaveWrt
          <6>1. CASE q = r
            BY <1>1, <5>1, <6>1 DEF ReadersHaveWrt, SharesWrt
          <6>2. CASE q # r /\ q = h
            BY <1>1, <3>2, <5>1, <6>2 DEF ReadersHaveWrt, SharesWrt, SleepsOn, Behind
          <6>3. CASE q # r /\ q # h
            BY <1>1, <2>1, <5>1, <6>3 DEF ReadersHaveWrt, SharesWrt
          <6>4. QED
            BY <6>1, <6>2, <6>3
        <5>2. QED
          BY <5>1 DEF ReadersHaveWrt
      <4>3. QED
        BY <2>2, <4>1, <4>2 DEF WrtAlone
    <3>3. QED
      BY <3>1, <3>2
  <2>7. Claimed' = Claimed /\ (Ticket' <=> Ticket)
    BY <1>1 DEF Claimed, Ticket
  <2>8. WrtCount'
    BY <1>2, <2>2, <2>7 DEF WrtCount, Tickets
  <2>9. SharePart'
    BY <1>1, <2>2 DEF SharePart
  <2>10. QED
    BY <2>5, <2>6, <2>8, <2>9
<1>6. QED
  BY <1>3, <1>4, <1>5 DEF HeldPart

\* Another reader that is counted has wrt, when one that has mutex looks.
LEMMA OthersHaveWrt ==
  ASSUME MutexAlone, CountPart, NEW r \in Readers, HasMutex(r),
         NEW q \in Counted, q # r
  PROVE  pc[q] \in {"read", "leave", "uncount"}
<1>1. q \in Readers /\ pc[q] \in {"first", "admit", "read", "leave", "uncount"}
  BY DEF Counted
<1>2. ~ HasMutex(q)
  BY <1>1 DEF MutexAlone
<1>3. QED
  BY <1>1, <1>2 DEF HasMutex

\* If no counted reader is left, none is in the set.
LEMMA NoneCounted == Cardinality(Counted) = 0 => Counted = {}
  BY Finite, FS_EmptySet

LEMMA ReadHeld ==
  ASSUME Typed, CountPart, HeldPart, NEW r \in Readers, Read(r)
  PROVE  CountPart' /\ HeldPart'
<1>1. /\ Goes(r, "read", "leave")
      /\ UNCHANGED <<value, awake, disturbed, readcount, share, seen, increments>>
  BY DEF Read, Plain, memory
<1>2. /\ r \in Process /\ awake[r] /\ pc[r] = "read" /\ pc'[r] = "leave"
      /\ \A q \in Readers : q # r => pc'[q] = pc[q] /\ q \in Process
      /\ \A w \in Writers : pc'[w] = pc[w] /\ w # r /\ w \in Process
  BY <1>1, ReaderMoves
<1>3. Counted' = Counted /\ Engaged' = Engaged /\ Claimed' = Claimed /\ (Ticket' <=> Ticket)
  BY <1>1, <1>2 DEF Counted, Engaged, Claimed, Ticket
<1>4. /\ \A q \in Readers : (HasMutex(q)' <=> HasMutex(q)) /\ (SharesWrt(q)' <=> SharesWrt(q))
      /\ \A w \in Writers : HasWrt(w)' <=> HasWrt(w)
  BY <1>1, <1>2 DEF HasMutex, SharesWrt, HasWrt
<1>5. CountPart'
  BY <1>1, <1>3 DEF CountPart
<1>6. MutexAlone /\ WrtAlone => MutexAlone' /\ WrtAlone'
  BY <1>4 DEF MutexAlone, WrtAlone, ReadersHaveWrt
<1>7. WrtCount /\ SharePart => WrtCount' /\ SharePart'
  BY <1>1, <1>2, <1>3 DEF WrtCount, Tickets, SharePart
<1>8. QED
  BY <1>1, <1>5, <1>6, <1>7 DEF HeldPart

LEMMA CountHeld ==
  ASSUME Typed, CountPart, HeldPart, NEW r \in Readers, Count(r)
  PROVE  CountPart' /\ HeldPart'
<1>1. /\ Goes(r, "count", "first") /\ readcount' = readcount + 1
      /\ UNCHANGED <<value, awake, disturbed, share, seen, increments>>
  BY DEF Count, Plain
<1>2. /\ r \in Process /\ awake[r] /\ pc[r] = "count" /\ pc'[r] = "first"
      /\ \A q \in Readers : q # r => pc'[q] = pc[q] /\ q \in Process
      /\ \A w \in Writers : pc'[w] = pc[w] /\ w # r /\ w \in Process
  BY <1>1, ReaderMoves
<1>3. CountPart'
  <2>1. Counted' = Counted \cup {r} /\ r \notin Counted /\ Engaged' = Engaged
    BY <1>2 DEF Counted, Engaged
  <2>2. Cardinality(Counted') = Cardinality(Counted) + 1
    BY <2>1, Finite, Grows
  <2>3. QED
    BY <1>1, <2>1, <2>2 DEF CountPart
<1>4. /\ \A q \in Readers : (HasMutex(q)' <=> HasMutex(q)) /\ (SharesWrt(q)' <=> SharesWrt(q))
      /\ \A w \in Writers : HasWrt(w)' <=> HasWrt(w)
  BY <1>1, <1>2 DEF HasMutex, SharesWrt, HasWrt
<1>5. MutexAlone /\ WrtAlone => MutexAlone' /\ WrtAlone'
  BY <1>4 DEF MutexAlone, WrtAlone, ReadersHaveWrt
<1>6. ASSUME MutexAlone, WrtCount, SharePart PROVE WrtCount' /\ SharePart'
  <2>1. HasMutex(r)
    BY <1>2 DEF HasMutex
  <2>2. \A q \in Readers : pc[q] # "last" /\ pc'[q] # "last"
    BY <1>2, <1>6, <2>1 DEF MutexAlone, HasMutex
  <2>3. (Ticket' <=> Ticket) /\ Claimed' = Claimed
    BY <1>2, <2>2 DEF Ticket, Claimed
  <2>4. QED
    BY <1>1, <1>2, <1>6, <2>3 DEF WrtCount, Tickets, SharePart
<1>7. QED
  BY <1>1, <1>3, <1>5, <1>6 DEF HeldPart

LEMMA UncountHeld ==
  ASSUME Typed, CountPart, HeldPart, NEW r \in Readers, Uncount(r)
  PROVE  CountPart' /\ HeldPart'
<1>1. /\ Goes(r, "uncount", "last") /\ readcount' = readcount - 1
      /\ UNCHANGED <<value, awake, disturbed, share, seen, increments>>
  BY DEF Uncount, Plain
<1>2. /\ r \in Process /\ awake[r] /\ pc[r] = "uncount" /\ pc'[r] = "last"
      /\ \A q \in Readers : q # r => pc'[q] = pc[q] /\ q \in Process
      /\ \A w \in Writers : pc'[w] = pc[w] /\ w # r /\ w \in Process
  BY <1>1, ReaderMoves
<1>3. Counted' = Counted \ {r} /\ r \in Counted /\ Engaged' = Engaged
  BY <1>2 DEF Counted, Engaged
<1>4. Cardinality(Counted') = Cardinality(Counted) - 1
  BY <1>3, Finite, Shrinks
<1>5. CountPart'
  BY <1>1, <1>3, <1>4 DEF CountPart
<1>6. /\ \A q \in Readers : (HasMutex(q)' <=> HasMutex(q)) /\ (SharesWrt(q)' <=> SharesWrt(q))
      /\ \A w \in Writers : HasWrt(w)' <=> HasWrt(w)
  BY <1>1, <1>2 DEF HasMutex, SharesWrt, HasWrt
<1>7. MutexAlone /\ WrtAlone => MutexAlone' /\ WrtAlone'
  BY <1>6 DEF MutexAlone, WrtAlone, ReadersHaveWrt
<1>8. ASSUME MutexAlone, WrtCount, SharePart PROVE WrtCount' /\ SharePart'
  <2>1. HasMutex(r) /\ Ticket
    BY <1>2 DEF HasMutex, Ticket
  <2>2. Ticket'
    <3>1. CASE readcount' = 0
      BY <1>2, <3>1 DEF Ticket
    <3>2. CASE readcount' # 0
      <4>1. Counted' # {}
        <5>1. Cardinality({}) = 0
          BY FS_EmptySet
        <5>2. QED
          BY <1>5, <3>2, <5>1 DEF CountPart
      <4>2. PICK q \in Counted : q # r
        BY <1>3, <4>1
      <4>3. pc[q] \in {"read", "leave", "uncount"} /\ q \in Readers
        BY <1>8, <2>1, <4>2, OthersHaveWrt DEF Counted
      <4>4. QED
        BY <1>2, <4>2, <4>3 DEF Ticket
    <3>3. QED
      BY <3>1, <3>2
  <2>3. Claimed' = Claimed
    BY <1>2 DEF Claimed
  <2>4. QED
    BY <1>1, <1>2, <1>8, <2>1, <2>2, <2>3 DEF WrtCount, Tickets, SharePart
<1>9. QED
  BY <1>1, <1>5, <1>7, <1>8 DEF HeldPart

\* The first reader waits for the writers.
LEMMA FirstHeld ==
  ASSUME Typed, CountPart, HeldPart, NEW r \in Readers, First(r)
  PROVE  CountPart' /\ HeldPart'
<1>1. /\ Goes(r, "first", "admit")
      /\ UNCHANGED <<readcount, share, seen, increments>>
      /\ IF readcount = 1 THEN Wait("wrt", r) ELSE Plain
  BY DEF First, memory
<1>2. /\ r \in Process /\ awake[r] /\ pc[r] = "first" /\ pc'[r] = "admit"
      /\ \A q \in Readers : q # r => pc'[q] = pc[q] /\ q \in Process
      /\ \A w \in Writers : pc'[w] = pc[w] /\ w # r /\ w \in Process
      /\ "mutex" \in Semaphore /\ "wrt" \in Semaphore /\ "mutex" # "wrt"
  BY <1>1, ReaderMoves
<1>3. /\ disturbed' = disturbed /\ value'["mutex"] = value["mutex"]
      /\ \A q \in Process : q # r => awake'[q] = awake[q]
  BY <1>1, <1>2, WaitEffect DEF Plain
<1>4. CountPart'
  <2>1. Counted' = Counted /\ Engaged' = Engaged
    BY <1>2 DEF Counted, Engaged
  <2>2. QED
    BY <1>1, <1>3, <2>1 DEF CountPart
<1>5. ASSUME ~ disturbed' PROVE MutexAlone' /\ WrtAlone' /\ WrtCount' /\ SharePart'
  <2>1. MutexAlone /\ WrtAlone /\ WrtCount /\ SharePart
    BY <1>3, <1>5 DEF HeldPart
  <2>2. \A q \in Readers : HasMutex(q)' <=> HasMutex(q)
    BY <1>2, <1>3 DEF HasMutex
  <2>3. MutexAlone'
    BY <2>1, <2>2 DEF MutexAlone
  <2>4. HasMutex(r) /\ r \in Counted
    BY <1>2 DEF HasMutex, Counted
  <2>5. \A q \in Readers : q # r => pc[q] # "last" /\ pc'[q] # "last"
    BY <1>2, <2>1, <2>4 DEF MutexAlone, HasMutex
  <2>6. \A q \in Readers : q # r => (SharesWrt(q)' <=> SharesWrt(q))
    BY <1>2, <1>3 DEF SharesWrt
  <2>7. /\ \A w \in Writers : HasWrt(w)' <=> HasWrt(w)
        /\ Claimed' = Claimed
    BY <1>2, <1>3 DEF HasWrt, Claimed
  <2>8. SharePart'
    BY <1>1, <1>2, <2>1 DEF SharePart
  <2>9. Ticket'
    BY <1>2 DEF Ticket
  <2>10. CASE readcount = 1
    <3>1. /\ value'["wrt"] = value["wrt"] - 1 /\ awake'[r] = FALSE
      BY <1>1, <1>2, <2>1, <2>10, WaitEffect, NotPositive
    <3>2. ~ SharesWrt(r)'
      BY <1>2, <3>1 DEF SharesWrt
    <3>3. WrtAlone'
      BY <2>1, <2>6, <2>7, <3>2 DEF WrtAlone, ReadersHaveWrt
    <3>4. Counted = {r}
      <4>1. PICK x : Counted = {x}
        BY <2>10, Finite, FS_Singleton DEF CountPart
      <4>2. QED
        BY <2>4, <4>1
    <3>5. ~ Ticket
      BY <1>2, <2>5, <3>4 DEF Ticket, Counted
    <3>6. \A k \in Nat : - (k + 1) = - (k + 0) - 1
      BY SMT
    <3>7. WrtCount'
      BY <2>1, <2>7, <2>9, <3>1, <3>5, <3>6, Finite DEF WrtCount, Tickets
    <3>8. QED
      BY <2>3, <2>8, <3>3, <3>7
  <2>11. CASE readcount # 1
    <3>1. value' = value
      BY <1>1, <2>11 DEF Plain
    <3>2. PICK q \in Counted : q # r
      <4>1. Counted # {r}
        <5>1. Cardinality({r}) = 1
          BY FS_Singleton
        <5>2. QED
          BY <2>11, <5>1 DEF CountPart
      <4>2. QED
        BY <2>4, <4>1
    <3>3. q \in Readers /\ pc[q] \in {"read", "leave", "uncount"}
      BY <2>1, <2>4, <3>2, OthersHaveWrt DEF Counted
    <3>4. ReadersHaveWrt /\ Ticket
      BY <3>3 DEF ReadersHaveWrt, SharesWrt, Ticket
    <3>5. WrtAlone'
      BY <2>1, <2>7, <3>4 DEF WrtAlone
    <3>6. WrtCount'
      BY <2>1, <2>7, <2>9, <3>1, <3>4 DEF WrtCount, Tickets
    <3>7. QED
      BY <2>3, <2>8, <3>5, <3>6
  <2>12. QED
    BY <2>10, <2>11
<1>6. QED
  BY <1>4, <1>5 DEF HeldPart

\* The last reader lets the writers in.
LEMMA LastHeld ==
  ASSUME Typed, CountPart, HeldPart, NEW r \in Readers, Last(r)
  PROVE  CountPart' /\ HeldPart'
<1>1. /\ Goes(r, "last", "end")
      /\ UNCHANGED <<readcount, share, seen, increments>>
      /\ IF readcount = 0 THEN Signal("wrt") ELSE Plain
  BY DEF Last, memory
<1>2. /\ r \in Process /\ awake[r] /\ pc[r] = "last" /\ pc'[r] = "end"
      /\ \A q \in Readers : q # r => pc'[q] = pc[q] /\ q \in Process
      /\ \A w \in Writers : pc'[w] = pc[w] /\ w # r /\ w \in Process
      /\ "mutex" \in Semaphore /\ "wrt" \in Semaphore /\ "mutex" # "wrt"
  BY <1>1, ReaderMoves
<1>3. value'["mutex"] = value["mutex"]
  BY <1>1, <1>2, SignalEffect DEF Plain
<1>4. CountPart'
  <2>1. Counted' = Counted /\ Engaged' = Engaged
    BY <1>2 DEF Counted, Engaged
  <2>2. QED
    BY <1>1, <1>3, <2>1 DEF CountPart
<1>5. disturbed' \in BOOLEAN
  BY <1>1, <1>2, SignalTyped, PlainTyped DEF Typed, LinkTyped
<1>6. HasMutex(r) /\ Claimed' = Claimed
  BY <1>2 DEF HasMutex, Claimed
<1>7. ASSUME readcount = 0, disturbed' = FALSE
      PROVE  MutexAlone' /\ WrtAlone' /\ WrtCount' /\ SharePart'
  <2>1. /\ value'["wrt"] = value["wrt"] + 1
        /\ disturbed = FALSE
        /\ \E h \in Process \cup {Nil} :
              /\ \A q \in Process : q # h => awake'[q] = awake[q]
              /\ h \in Process => awake'[h] = TRUE
              /\ h \in Process => ~ Disturbs(h, "mutex")
    BY <1>1, <1>2, <1>7, SignalEffect
  <2>2. PICK h \in Process \cup {Nil} :
           /\ \A q \in Process : q # h => awake'[q] = awake[q]
           /\ h \in Process => awake'[h] = TRUE
           /\ h \in Process => ~ Disturbs(h, "mutex")
    BY <2>1
  <2>3. MutexAlone /\ WrtAlone /\ WrtCount /\ SharePart
    BY <2>1 DEF HeldPart
  <2>4. h \in Process => ~ SleepsOn(h, "mutex")
    BY <1>6, <2>2 DEF Disturbs, Held
  <2>5. \A q \in Readers : HasMutex(q)' => HasMutex(q)
    <3>1. ASSUME NEW q \in Readers, HasMutex(q)' PROVE HasMutex(q)
      <4>1. CASE q = r
        BY <1>6, <4>1
      <4>2. CASE q # r /\ q = h
        BY <1>2, <2>4, <3>1, <4>2 DEF HasMutex, SleepsOn, Behind
      <4>3. CASE q # r /\ q # h
        BY <1>2, <2>2, <3>1, <4>3 DEF HasMutex
      <4>4. QED
        BY <4>1, <4>2, <4>3
    <3>2. QED
      BY <3>1
  <2>6. MutexAlone'
    BY <2>3, <2>5 DEF MutexAlone
  <2>7. Counted = {}
    BY <1>7, NoneCounted DEF CountPart
  <2>8. \A q \in Readers : q # r => /\ pc[q] # "last"
                                    /\ pc[q] \notin {"admit", "read", "leave", "uncount"}
    BY <1>6, <2>3, <2>7 DEF MutexAlone, HasMutex, Counted
  <2>9. ~ ReadersHaveWrt' /\ ~ Ticket' /\ Ticket /\ ReadersHaveWrt
    BY <1>1, <1>2, <1>7, <2>8 DEF ReadersHaveWrt, SharesWrt, Ticket
  <2>10. \A w \in Writers : w # h => ~ HasWrt(w)'
    BY <1>2, <2>2, <2>3, <2>9 DEF WrtAlone, HasWrt
  <2>11. WrtAlone'
    BY <2>9, <2>10 DEF WrtAlone
  <2>12. \A k \in Nat : - (k + 1) + 1 = - (k + 0)
    BY SMT
  <2>13. WrtCount'
    BY <1>6, <2>1, <2>3, <2>9, <2>12, Finite DEF WrtCount, Tickets
  <2>14. SharePart'
    BY <1>1, <1>2, <2>3 DEF SharePart
  <2>15. QED
    BY <2>6, <2>11, <2>13, <2>14
<1>8. ASSUME readcount # 0, disturbed' = FALSE
      PROVE  MutexAlone' /\ WrtAlone' /\ WrtCount' /\ SharePart'
  <2>1. UNCHANGED <<value, awake, disturbed>>
    BY <1>1, <1>8 DEF Plain
  <2>2. MutexAlone /\ WrtAlone /\ WrtCount /\ SharePart
    BY <1>8, <2>1 DEF HeldPart
  <2>3. /\ \A q \in Readers : /\ HasMutex(q)' <=> HasMutex(q)
                              /\ SharesWrt(q)' => SharesWrt(q)
        /\ \A w \in Writers : HasWrt(w)' <=> HasWrt(w)
    BY <1>2, <2>1 DEF HasMutex, SharesWrt, HasWrt
  <2>4. MutexAlone' /\ WrtAlone'
    BY <2>2, <2>3 DEF MutexAlone, WrtAlone, ReadersHaveWrt
  <2>5. Ticket' <=> Ticket
    BY <1>1, <1>2, <1>8 DEF Ticket
  <2>6. WrtCount' /\ SharePart'
    BY <1>1, <1>2, <1>6, <2>1, <2>2, <2>5 DEF WrtCount, Tickets, SharePart
  <2>7. QED
    BY <2>4, <2>6
<1>9. QED
  BY <1>4, <1>5, <1>7, <1>8 DEF HeldPart

-----------------------------------------------------------------------------
(* One lemma for each statement of cmd_writer. *)

LEMMA ReadersAside ==
  ASSUME NEW w \in Writers, \A r \in Readers : pc'[r] = pc[r], readcount' = readcount
  PROVE  Counted' = Counted /\ Engaged' = Engaged /\ (Ticket' <=> Ticket)
  BY DEF Counted, Engaged, Ticket

LEMMA ClaimHeld ==
  ASSUME Typed, CountPart, HeldPart, NEW w \in Writers, Claim(w)
  PROVE  CountPart' /\ HeldPart'
<1>1. /\ Goes(w, "claim", "load") /\ Wait("wrt", w)
      /\ UNCHANGED <<readcount, share, seen, increments>>
  BY DEF Claim, memory
<1>2. /\ w \in Process /\ awake[w] /\ pc[w] = "claim" /\ pc'[w] = "load"
      /\ \A v \in Writers : v # w => pc'[v] = pc[v] /\ v \in Process
      /\ \A r \in Readers : pc'[r] = pc[r] /\ r # w /\ r \in Process
      /\ "mutex" \in Semaphore /\ "wrt" \in Semaphore /\ "mutex" # "wrt"
  BY <1>1, WriterMoves
<1>3. /\ value'["wrt"] = value["wrt"] - 1 /\ value'["mutex"] = value["mutex"]
      /\ disturbed' = disturbed
      /\ \A q \in Process : q # w => awake'[q] = awake[q]
      /\ value["wrt"] <= 0 => awake'[w] = FALSE
  BY <1>1, <1>2, WaitEffect
<1>4. Counted' = Counted /\ Engaged' = Engaged /\ (Ticket' <=> Ticket)
  BY <1>1, <1>2, ReadersAside
<1>5. CountPart'
  BY <1>1, <1>3, <1>4 DEF CountPart
<1>6. ASSUME ~ disturbed' PROVE MutexAlone' /\ WrtAlone' /\ WrtCount' /\ SharePart'
  <2>1. MutexAlone /\ WrtAlone /\ WrtCount /\ SharePart /\ awake'[w] = FALSE
    BY <1>3, <1>6, NotPositive DEF HeldPart
  <2>2. /\ \A q \in Readers : (HasMutex(q)' <=> HasMutex(q)) /\ (SharesWrt(q)' <=> SharesWrt(q))
        /\ \A v \in Writers : v # w => (HasWrt(v)' <=> HasWrt(v))
        /\ ~ HasWrt(w)'
    BY <1>2, <1>3, <2>1 DEF HasMutex, SharesWrt, HasWrt
  <2>3. MutexAlone' /\ WrtAlone'
    BY <2>1, <2>2 DEF MutexAlone, WrtAlone, ReadersHaveWrt
  <2>4. Claimed' = Claimed \cup {w} /\ w \notin Claimed
    BY <1>2 DEF Claimed
  <2>5. Cardinality(Claimed') = Cardinality(Claimed) + 1
    BY <2>4, Finite, Grows
  <2>6. WrtCount'
    <3>1. \A k \in Nat : /\ - ((k + 1) + 1) = - (k + 1) - 1
                         /\ - ((k + 1) + 0) = - (k + 0) - 1
      BY SMT
    <3>2. QED
      BY <1>3, <1>4, <2>1, <2>5, <3>1, Finite DEF WrtCount, Tickets
  <2>7. SharePart'
    BY <1>1, <1>2, <2>1 DEF SharePart
  <2>8. QED
    BY <2>3, <2>6, <2>7
<1>7. QED
  BY <1>5, <1>6 DEF HeldPart

\* The one writer that has wrt loads and stores.
LEMMA LoadHeld ==
  ASSUME Typed, CountPart, HeldPart, NEW w \in Writers, Load(w) \/ Store(w)
  PROVE  CountPart' /\ HeldPart'
<1>1. PICK here, there :
         /\ Goes(w, here, there)
         /\ \/ here = "load" /\ there = "store" /\ seen' = [seen EXCEPT ![w] = share]
               /\ share' = share /\ increments' = increments
            \/ here = "store" /\ there = "release" /\ seen' = seen
               /\ share' = seen[w] + 1 /\ increments' = increments + 1
         /\ UNCHANGED <<value, awake, disturbed, readcount>>
  BY DEF Load, Store, Plain
<1>2. /\ w \in Process /\ awake[w] /\ pc[w] = here /\ pc'[w] = there
      /\ \A v \in Writers : v # w => pc'[v] = pc[v] /\ v \in Process
      /\ \A r \in Readers : pc'[r] = pc[r] /\ r # w /\ r \in Process
  BY <1>1, WriterMoves
<1>3. Counted' = Counted /\ Engaged' = Engaged /\ (Ticket' <=> Ticket) /\ Claimed' = Claimed
  BY <1>1, <1>2, ReadersAside DEF Claimed
<1>4. CountPart'
  BY <1>1, <1>3 DEF CountPart
<1>5. /\ \A q \in Readers : (HasMutex(q)' <=> HasMutex(q)) /\ (SharesWrt(q)' <=> SharesWrt(q))
      /\ \A v \in Writers : HasWrt(v)' <=> HasWrt(v)
      /\ HasWrt(w)
  BY <1>1, <1>2 DEF HasMutex, SharesWrt, HasWrt
<1>6. MutexAlone /\ WrtAlone => MutexAlone' /\ WrtAlone'
  BY <1>5 DEF MutexAlone, WrtAlone, ReadersHaveWrt
<1>7. WrtCount => WrtCount'
  BY <1>1, <1>3 DEF WrtCount, Tickets
<1>8. ASSUME WrtAlone, SharePart PROVE SharePart'
  <2>1. \A v \in Writers : v # w => pc'[v] # "store"
    BY <1>2, <1>5, <1>8 DEF WrtAlone, HasWrt
  <2>2. seen \in [Process -> Nat]
    BY DEF Typed, MemoryTyped
  <2>3. QED
    BY <1>1, <1>2, <1>8, <2>1, <2>2 DEF SharePart
<1>9. QED
  BY <1>1, <1>4, <1>6, <1>7, <1>8 DEF HeldPart

LEMMA ReleaseHeld ==
  ASSUME Typed, CountPart, HeldPart, NEW w \in Writers, Release(w)
  PROVE  CountPart' /\ HeldPart'
<1>1. PICK there :
         /\ Goes(w, "release", there) /\ Signal("wrt")
         /\ there \in {"claim", "done"}
         /\ UNCHANGED <<readcount, share, seen, increments>>
  BY DEF Release, Round
<1>2. /\ w \in Process /\ awake[w] /\ pc[w] = "release" /\ pc'[w] = there
      /\ \A v \in Writers : v # w => pc'[v] = pc[v] /\ v \in Process
      /\ \A r \in Readers : pc'[r] = pc[r] /\ r # w /\ r \in Process
      /\ "mutex" \in Semaphore /\ "wrt" \in Semaphore /\ "mutex" # "wrt"
  BY <1>1, WriterMoves
<1>3. /\ value'["wrt"] = value["wrt"] + 1 /\ value'["mutex"] = value["mutex"]
      /\ disturbed' = FALSE =>
           /\ disturbed = FALSE
           /\ \E h \in Process \cup {Nil} :
                 /\ \A q \in Process : q # h => awake'[q] = awake[q]
                 /\ h \in Process => awake'[h] = TRUE
                 /\ h \in Process => ~ Disturbs(h, "mutex")
  BY <1>1, <1>2, SignalEffect
<1>4. disturbed' \in BOOLEAN
  BY <1>1, <1>2, SignalTyped DEF Typed, LinkTyped
<1>5. Counted' = Counted /\ Engaged' = Engaged /\ (Ticket' <=> Ticket)
  BY <1>1, <1>2, ReadersAside
<1>6. CountPart'
  BY <1>1, <1>3, <1>5 DEF CountPart
<1>7. ASSUME disturbed' = FALSE PROVE MutexAlone' /\ WrtAlone' /\ WrtCount' /\ SharePart'
  <2>1. PICK h \in Process \cup {Nil} :
           /\ \A q \in Process : q # h => awake'[q] = awake[q]
           /\ h \in Process => awake'[h] = TRUE
           /\ h \in Process => ~ Disturbs(h, "mutex")
    BY <1>3, <1>7
  <2>2. MutexAlone /\ WrtAlone /\ WrtCount /\ SharePart
    BY <1>3, <1>7 DEF HeldPart
  <2>3. HasWrt(w) /\ ~ ReadersHaveWrt /\ \A v \in Writers : v # w => ~ HasWrt(v)
    BY <1>2, <2>2 DEF HasWrt, WrtAlone
  <2>4. /\ \A v \in Writers : v # h => ~ HasWrt(v)'
        /\ \A q \in Readers : q # h => ~ SharesWrt(q)'
    BY <1>1, <1>2, <2>1, <2>3 DEF HasWrt, SharesWrt, ReadersHaveWrt
  <2>5. WrtAlone'
    BY <2>4, Distinct DEF WrtAlone, ReadersHaveWrt
  <2>6. MutexAlone'
    <3>1. CASE h \in Process /\ SleepsOn(h, "mutex")
      <4>1. \A q \in Readers : ~ HasMutex(q)
        BY <2>1, <3>1 DEF Disturbs, Held
      <4>2. \A q \in Readers : q # h => ~ HasMutex(q)'
        BY <1>2, <2>1, <4>1 DEF HasMutex
      <4>3. QED
        BY <4>2 DEF MutexAlone
    <3>2. CASE ~ (h \in Process /\ SleepsOn(h, "mutex"))
      <4>1. ASSUME NEW q \in Readers, HasMutex(q)' PROVE HasMutex(q)
        <5>1. CASE q = h
          BY <1>2, <3>2, <4>1, <5>1 DEF HasMutex, SleepsOn, Behind
        <5>2. CASE q # h
          BY <1>2, <2>1, <4>1, <5>2 DEF HasMutex
        <5>3. QED
          BY <5>1, <5>2
      <4>2. QED
        BY <2>2, <4>1 DEF MutexAlone
    <3>3. QED
      BY <3>1, <3>2
  <2>7. Claimed' = Claimed \ {w} /\ w \in Claimed
    BY <1>1, <1>2 DEF Claimed
  <2>8. Cardinality(Claimed') = Cardinality(Claimed) - 1
    BY <2>7, Finite, Shrinks
  <2>9. WrtCount'
    <3>1. \A k \in Nat : /\ - ((k - 1) + 1) = - (k + 1) + 1
                         /\ - ((k - 1) + 0) = - (k + 0) + 1
      BY SMT
    <3>2. QED
      BY <1>3, <1>5, <2>2, <2>8, <3>1, Finite DEF WrtCount, Tickets
  <2>10. SharePart'
    BY <1>1, <1>2, <2>2 DEF SharePart
  <2>11. QED
    BY <2>5, <2>6, <2>9, <2>10
<1>8. QED
  BY <1>4, <1>6, <1>7 DEF HeldPart

\* A datum that disturbs nobody gives a semaphore that no one has.
LEMMA DatumHeld ==
  ASSUME Typed, CountPart, HeldPart, NEW p \in Process, Datum(p)
  PROVE  CountPart' /\ HeldPart'
<1>1. /\ UNCHANGED <<value, pc, readcount, share, seen, increments>>
      /\ awake' = [awake EXCEPT ![p] = TRUE] /\ awake \in [Process -> BOOLEAN]
      /\ awake[p] = FALSE /\ disturbed \in BOOLEAN
      /\ disturbed' = (disturbed \/ \E s \in Semaphore : Disturbs(p, s))
      /\ "mutex" \in Semaphore /\ "wrt" \in Semaphore /\ "mutex" # "wrt"
  BY DEF Datum, memory, Typed, LinkTyped, Semaphore
<1>2. Counted' = Counted /\ Engaged' = Engaged /\ (Ticket' <=> Ticket) /\ Claimed' = Claimed
  BY <1>1 DEF Counted, Engaged, Ticket, Claimed
<1>3. CountPart' /\ (WrtCount => WrtCount') /\ (SharePart => SharePart')
  BY <1>1, <1>2 DEF CountPart, WrtCount, Tickets, SharePart
<1>4. ASSUME ~ disturbed' PROVE MutexAlone' /\ WrtAlone' /\ WrtCount' /\ SharePart'
  <2>1. ~ disturbed /\ ~ Disturbs(p, "mutex") /\ ~ Disturbs(p, "wrt")
    BY <1>1, <1>4
  <2>2. MutexAlone /\ WrtAlone /\ WrtCount /\ SharePart
    BY <2>1 DEF HeldPart
  <2>3. \A q \in Process : q # p => awake'[q] = awake[q]
    BY <1>1
  <2>4. /\ \A q \in Readers : q # p => /\ HasMutex(q)' <=> HasMutex(q)
                                       /\ SharesWrt(q)' <=> SharesWrt(q)
        /\ \A v \in Writers : v # p => (HasWrt(v)' <=> HasWrt(v))
    BY <1>1, <2>3, Processes DEF HasMutex, SharesWrt, HasWrt
  <2>5. MutexAlone'
    <3>1. CASE SleepsOn(p, "mutex")
      BY <2>1, <2>4, <3>1 DEF Disturbs, Held, MutexAlone
    <3>2. CASE ~ SleepsOn(p, "mutex")
      <4>1. p \in Readers => (HasMutex(p)' <=> HasMutex(p))
        BY <1>1, <3>2 DEF HasMutex, SleepsOn, Behind
      <4>2. QED
        BY <2>2, <2>4, <4>1 DEF MutexAlone
    <3>3. QED
      BY <3>1, <3>2
  <2>6. WrtAlone'
    <3>1. CASE SleepsOn(p, "wrt")
      <4>1. ~ ReadersHaveWrt /\ \A w \in Writers : ~ HasWrt(w)
        BY <1>1, <2>1, <3>1 DEF Disturbs, Held
      <4>2. /\ \A w \in Writers : w # p => ~ HasWrt(w)'
            /\ \A r \in Readers : r # p => ~ SharesWrt(r)'
        BY <2>4, <4>1 DEF ReadersHaveWrt
      <4>3. QED
        BY <4>2, Distinct DEF WrtAlone, ReadersHaveWrt
    <3>2. CASE ~ SleepsOn(p, "wrt")
      <4>1. /\ p \in Readers => (SharesWrt(p)' <=> SharesWrt(p))
            /\ p \in Writers => (HasWrt(p)' <=> HasWrt(p))
        BY <1>1, <3>2 DEF SharesWrt, HasWrt, SleepsOn, Behind
      <4>2. QED
        BY <2>2, <2>4, <4>1 DEF WrtAlone, ReadersHaveWrt
    <3>3. QED
      BY <3>1, <3>2
  <2>7. QED
    BY <1>3, <2>2, <2>5, <2>6
<1>5. QED
  BY <1>3, <1>4 DEF HeldPart

-----------------------------------------------------------------------------
(* The invariant holds. *)

LEMMA InitIInv == Init => IInv
<1> SUFFICES ASSUME Init PROVE IInv
  OBVIOUS
<1>1. Readers \subseteq Process /\ Writers \subseteq Process /\ Readers \cap Writers = {}
      /\ Process = Readers \cup Writers
  BY Processes
<1>2. LinkTyped
  <2>1. queue \in [Semaphore -> Seq(Process)]
    <3>1. <<>> \in Seq(Process)
      OBVIOUS
    <3>2. QED
      BY <3>1 DEF Init
  <2>2. data \in 0 .. MaxData
    BY DataAssumption, SMT DEF Init
  <2>3. value \in [Semaphore -> Int] /\ awake \in [Process -> BOOLEAN]
    BY DEF Init
  <2>4. /\ first \in [Semaphore -> Process \cup {Nil}]
        /\ last \in [Semaphore -> Process \cup {Nil}]
        /\ next \in [Process -> Process \cup {Nil}]
    BY DEF Init
  <2>5. fault = "none" /\ disturbed = FALSE /\ relinked = FALSE
    BY DEF Init
  <2>6. QED
    BY <2>1, <2>2, <2>3, <2>4, <2>5 DEF LinkTyped
<1>3. MemoryTyped
  BY DEF Init, MemoryTyped
<1>4. PlaceTyped
  <2>1. 0 \in 0 .. END /\ 0 < END
    BY EndAssumption, SMT
  <2>2. QED
    BY <1>1, <2>1 DEF Init, PlaceTyped, ReaderLabels, WriterLabels
<1>5. ListPart
  <2>1. \A s \in Semaphore : queue[s] = <<>> /\ Len(queue[s]) = 0 /\ value[s] = 0
    BY DEF Init
  <2>2. 1 .. 0 = {} /\ 1 .. 0 - 1 = {}
    BY SMT
  <2>3. Once
    BY <2>1, <2>2 DEF Once
  <2>4. \A s \in Semaphore : Spells(s, queue[s])
    BY <2>1, <2>2 DEF Init, Spells
  <2>5. \A s \in Semaphore : Len(queue[s]) = Waiting(s)
    BY <2>1, SMT DEF Waiting
  <2>6. \A s \in Semaphore : \A p \in Process : ~ SleepsOn(p, s)
    BY DEF Init, SleepsOn
  <2>7. QED
    BY <2>3, <2>4, <2>5, <2>6 DEF ListPart, Init
<1>6. \A r \in Readers : pc[r] = "enter"
  BY <1>1 DEF Init
<1>7. \A w \in Writers : pc[w] = "claim"
  BY <1>1 DEF Init
<1>8. Counted = {} /\ Engaged = {} /\ Claimed = {} /\ ~ Ticket
  BY <1>6, <1>7 DEF Counted, Engaged, Claimed, Ticket
<1>9. value["mutex"] = 0 /\ value["wrt"] = 0
  BY DEF Init, Semaphore
<1>10. CountPart
  BY <1>8, <1>9, FS_EmptySet, SMT DEF CountPart, Init
<1>11. MutexAlone /\ WrtAlone
  BY <1>6, <1>7 DEF MutexAlone, WrtAlone, HasMutex, HasWrt
<1>12. WrtCount
  <2>1. Cardinality(Claimed) = 0
    BY <1>8, FS_EmptySet
  <2>2. Tickets = 0
    BY <1>8 DEF Tickets
  <2>3. Cardinality(Claimed) + Tickets = 0
    BY <2>1, <2>2, SMT
  <2>4. QED
    BY <1>9, <2>3, SMT DEF WrtCount
<1>13. SharePart
  BY <1>7 DEF SharePart, Init
<1>14. QED
  BY <1>2, <1>3, <1>4, <1>5, <1>10, <1>11, <1>12, <1>13 DEF IInv, Typed, HeldPart

LEMMA ReaderStep ==
  ASSUME IInv, NEW r \in Readers, Reader(r)
  PROVE  IInv'
<1>0. /\ Typed /\ LinkTyped /\ MemoryTyped /\ PlaceTyped /\ ListPart
      /\ CountPart /\ HeldPart
      /\ r \in Process /\ "mutex" \in Semaphore /\ "wrt" \in Semaphore
      /\ readcount \in Int /\ r \notin Writers
  BY Processes DEF IInv, Typed, Semaphore, MemoryTyped
<1>1. ASSUME NEW here, NEW there, Goes(r, here, there), Wait("mutex", r),
             \/ here = "enter" /\ there = "count"
             \/ here = "leave" /\ there = "uncount",
             UNCHANGED memory
      PROVE  IInv'
  <2>1. there \in Behind("mutex") /\ there \in ReaderLabels \ {"done"} /\ here # "done"
    BY <1>1 DEF Behind, ReaderLabels
  <2>2. ListPart'
    BY <1>0, <1>1, <2>1, WaitLists
  <2>3. CountPart' /\ HeldPart'
    BY <1>0, <1>1, WaitMutexHeld
  <2>4. LinkTyped'
    BY <1>0, <1>1, WaitTyped
  <2>5. rounds' = rounds /\ MemoryTyped'
    BY <1>0, <1>1 DEF memory, MemoryTyped
  <2>6. PlaceTyped'
    BY <1>0, <1>1, <2>1, <2>5, ReaderPlace
  <2>7. QED
    BY <2>2, <2>3, <2>4, <2>5, <2>6 DEF IInv, Typed
<1>2. ASSUME NEW here, NEW there, Goes(r, here, there), Plain,
             there \in ReaderLabels \ {"done"}, here # "done",
             readcount' \in Int, UNCHANGED <<share, seen, rounds, increments>>,
             CountPart' /\ HeldPart'
      PROVE  IInv'
  <2>1. ListPart'
    BY <1>0, <1>2, PlainLists
  <2>2. LinkTyped'
    BY <1>0, <1>2, PlainTyped
  <2>3. MemoryTyped'
    BY <1>0, <1>2 DEF MemoryTyped
  <2>4. PlaceTyped'
    BY <1>0, <1>2, ReaderPlace
  <2>5. QED
    BY <1>2, <2>1, <2>2, <2>3, <2>4 DEF IInv, Typed
<1>3. CASE Enter(r)
  BY <1>1, <1>3 DEF Enter
<1>4. CASE Leave(r)
  BY <1>1, <1>4 DEF Leave
<1>5. CASE Read(r)
  <2>1. CountPart' /\ HeldPart'
    BY <1>0, <1>5, ReadHeld
  <2>2. "leave" \in ReaderLabels \ {"done"} /\ "read" # "done"
    BY DEF ReaderLabels
  <2>3. /\ Goes(r, "read", "leave") /\ Plain
        /\ readcount' \in Int /\ UNCHANGED <<share, seen, rounds, increments>>
    BY <1>0, <1>5 DEF Read, memory
  <2>4. QED
    BY <1>2, <2>1, <2>2, <2>3
<1>6. CASE Count(r)
  <2>1. CountPart' /\ HeldPart'
    BY <1>0, <1>6, CountHeld
  <2>2. "first" \in ReaderLabels \ {"done"} /\ "count" # "done"
    BY DEF ReaderLabels
  <2>3. /\ Goes(r, "count", "first") /\ Plain
        /\ readcount' \in Int /\ UNCHANGED <<share, seen, rounds, increments>>
    BY <1>0, <1>6 DEF Count
  <2>4. QED
    BY <1>2, <2>1, <2>2, <2>3
<1>7. CASE Uncount(r)
  <2>1. CountPart' /\ HeldPart'
    BY <1>0, <1>7, UncountHeld
  <2>2. "last" \in ReaderLabels \ {"done"} /\ "uncount" # "done"
    BY DEF ReaderLabels
  <2>3. /\ Goes(r, "uncount", "last") /\ Plain
        /\ readcount' \in Int /\ UNCHANGED <<share, seen, rounds, increments>>
    BY <1>0, <1>7 DEF Uncount
  <2>4. QED
    BY <1>2, <2>1, <2>2, <2>3
<1>8. CASE First(r)
  <2>1. CountPart' /\ HeldPart'
    BY <1>0, <1>8, FirstHeld
  <2>2. "admit" \in ReaderLabels \ {"done"} /\ "first" # "done" /\ "admit" \in Behind("wrt")
    BY DEF ReaderLabels, Behind
  <2>3. /\ Goes(r, "first", "admit") /\ readcount' = readcount
        /\ UNCHANGED <<share, seen, rounds, increments>>
    BY <1>8 DEF First, memory
  <2>4. CASE readcount = 1
    <3>1. Wait("wrt", r)
      BY <1>8, <2>4 DEF First
    <3>2. ListPart'
      BY <1>0, <2>2, <2>3, <3>1, WaitLists
    <3>3. LinkTyped'
      BY <1>0, <3>1, WaitTyped
    <3>4. MemoryTyped'
      BY <1>0, <2>3 DEF MemoryTyped
    <3>5. PlaceTyped'
      BY <1>0, <2>2, <2>3, ReaderPlace
    <3>6. QED
      BY <2>1, <3>2, <3>3, <3>4, <3>5 DEF IInv, Typed
  <2>5. CASE readcount # 1
    <3>1. Plain
      BY <1>8, <2>5 DEF First
    <3>2. QED
      BY <1>0, <1>2, <2>1, <2>2, <2>3, <3>1
  <2>6. QED
    BY <2>4, <2>5
<1>9. CASE Admit(r)
  <2>1. /\ Goes(r, "admit", "read") /\ Signal("mutex") /\ rounds' = rounds
        /\ UNCHANGED <<readcount, share, seen, increments>>
    BY <1>9 DEF Admit, memory
  <2>2. CountPart' /\ HeldPart'
    BY <1>0, <2>1, SignalMutexHeld
  <2>3. ListPart'
    BY <1>0, <2>1, SignalLists
  <2>4. LinkTyped'
    BY <1>0, <2>1, SignalTyped
  <2>5. MemoryTyped'
    BY <1>0, <2>1 DEF MemoryTyped
  <2>6. "read" \in ReaderLabels \ {"done"} /\ "admit" # "done"
    BY DEF ReaderLabels
  <2>7. PlaceTyped'
    BY <1>0, <2>1, <2>6, ReaderPlace
  <2>8. QED
    BY <2>2, <2>3, <2>4, <2>5, <2>7 DEF IInv, Typed
<1>10. CASE Last(r)
  <2>1. CountPart' /\ HeldPart'
    BY <1>0, <1>10, LastHeld
  <2>2. "end" \in ReaderLabels \ {"done"} /\ "last" # "done"
    BY DEF ReaderLabels
  <2>3. /\ Goes(r, "last", "end") /\ readcount' = readcount
        /\ UNCHANGED <<share, seen, rounds, increments>>
    BY <1>10 DEF Last, memory
  <2>4. CASE readcount = 0
    <3>1. Signal("wrt")
      BY <1>10, <2>4 DEF Last
    <3>2. ListPart'
      BY <1>0, <2>3, <3>1, SignalLists
    <3>3. LinkTyped'
      BY <1>0, <3>1, SignalTyped
    <3>4. MemoryTyped'
      BY <1>0, <2>3 DEF MemoryTyped
    <3>5. PlaceTyped'
      BY <1>0, <2>2, <2>3, ReaderPlace
    <3>6. QED
      BY <2>1, <3>2, <3>3, <3>4, <3>5 DEF IInv, Typed
  <2>5. CASE readcount # 0
    <3>1. Plain
      BY <1>10, <2>5 DEF Last
    <3>2. QED
      BY <1>0, <1>2, <2>1, <2>2, <2>3, <3>1
  <2>6. QED
    BY <2>4, <2>5
<1>11. CASE End(r)
  <2>1. PICK there :
           /\ Goes(r, "end", there) /\ there \in {"enter", "done"}
           /\ Signal("mutex") /\ UNCHANGED <<readcount, share, seen, increments>>
    BY <1>11 DEF End, Round
  <2>2. CountPart' /\ HeldPart'
    BY <1>0, <2>1, SignalMutexHeld
  <2>3. ListPart'
    BY <1>0, <2>1, SignalLists
  <2>4. LinkTyped'
    BY <1>0, <2>1, SignalTyped
  <2>5. MemoryTyped'
    BY <1>0, <2>1 DEF MemoryTyped
  <2>6. PlaceTyped'
    BY <1>0, <1>11, RoundPlace DEF End
  <2>7. QED
    BY <2>2, <2>3, <2>4, <2>5, <2>6 DEF IInv, Typed
<1>12. QED
  BY <1>3, <1>4, <1>5, <1>6, <1>7, <1>8, <1>9, <1>10, <1>11 DEF Reader

LEMMA WriterStep ==
  ASSUME IInv, NEW w \in Writers, Writer(w)
  PROVE  IInv'
<1>0. /\ Typed /\ LinkTyped /\ MemoryTyped /\ PlaceTyped /\ ListPart
      /\ CountPart /\ HeldPart
      /\ w \in Process /\ "mutex" \in Semaphore /\ "wrt" \in Semaphore
      /\ w \notin Readers
  BY Processes DEF IInv, Typed, Semaphore
<1>1. CASE Claim(w)
  <2>1. /\ Goes(w, "claim", "load") /\ Wait("wrt", w) /\ rounds' = rounds
        /\ UNCHANGED <<readcount, share, seen, increments>>
    BY <1>1 DEF Claim, memory
  <2>2. "load" \in WriterLabels \ {"done"} /\ "claim" # "done" /\ "load" \in Behind("wrt")
    BY DEF WriterLabels, Behind
  <2>3. CountPart' /\ HeldPart'
    BY <1>0, <1>1, ClaimHeld
  <2>4. ListPart'
    BY <1>0, <2>1, <2>2, WaitLists
  <2>5. LinkTyped'
    BY <1>0, <2>1, WaitTyped
  <2>6. MemoryTyped'
    BY <1>0, <2>1 DEF MemoryTyped
  <2>7. PlaceTyped'
    BY <1>0, <2>1, <2>2, WriterPlace
  <2>8. QED
    BY <2>3, <2>4, <2>5, <2>6, <2>7 DEF IInv, Typed
<1>2. CASE Load(w) \/ Store(w)
  <2>1. PICK here, there :
           /\ Goes(w, here, there) /\ Plain /\ rounds' = rounds
           /\ there \in {"store", "release"} /\ here # "done"
    BY <1>2 DEF Load, Store
  <2>2. there \in WriterLabels \ {"done"}
    BY <2>1 DEF WriterLabels
  <2>3. CountPart' /\ HeldPart'
    BY <1>0, <1>2, LoadHeld
  <2>4. ListPart'
    BY <1>0, <2>1, PlainLists
  <2>5. LinkTyped'
    BY <1>0, <2>1, PlainTyped
  <2>6. MemoryTyped'
    <3>1. CASE Load(w)
      BY <1>0, <3>1 DEF Load, MemoryTyped
    <3>2. CASE Store(w)
      BY <1>0, <3>2 DEF Store, MemoryTyped
    <3>3. QED
      BY <1>2, <3>1, <3>2
  <2>7. PlaceTyped'
    BY <1>0, <2>1, <2>2, WriterPlace
  <2>8. QED
    BY <2>3, <2>4, <2>5, <2>6, <2>7 DEF IInv, Typed
<1>3. CASE Release(w)
  <2>1. PICK there :
           /\ Goes(w, "release", there) /\ Signal("wrt")
           /\ UNCHANGED <<readcount, share, seen, increments>>
    BY <1>3 DEF Release, Round
  <2>2. CountPart' /\ HeldPart'
    BY <1>0, <1>3, ReleaseHeld
  <2>3. ListPart'
    BY <1>0, <2>1, SignalLists
  <2>4. LinkTyped'
    BY <1>0, <2>1, SignalTyped
  <2>5. MemoryTyped'
    BY <1>0, <2>1 DEF MemoryTyped
  <2>6. PlaceTyped'
    BY <1>0, <1>3, RoundPlace DEF Release
  <2>7. QED
    BY <2>2, <2>3, <2>4, <2>5, <2>6 DEF IInv, Typed
<1>4. QED
  BY <1>1, <1>2, <1>3 DEF Writer

LEMMA NextIInv == IInv /\ [Next]_vars => IInv'
<1> SUFFICES ASSUME IInv, [Next]_vars PROVE IInv'
  OBVIOUS
<1>1. ASSUME NEW r \in Readers, Reader(r) PROVE IInv'
  BY <1>1, ReaderStep
<1>2. ASSUME NEW w \in Writers, Writer(w) PROVE IInv'
  BY <1>2, WriterStep
<1>3. ASSUME NEW p \in Process, Datum(p) PROVE IInv'
  BY <1>3, DatumTyped, DatumLists, DatumHeld DEF IInv
<1>4. CASE UNCHANGED vars
  <2>1. /\ UNCHANGED <<value, first, last, next, queue, relinked, readcount, share, seen>>
        /\ UNCHANGED <<rounds, increments, pc, awake, fault, data, disturbed>>
    BY <1>4 DEF vars, links, memory
  <2>2. Typed'
    BY <2>1 DEF IInv, Typed, LinkTyped, MemoryTyped, PlaceTyped
  <2>3. ListPart'
    BY <2>1 DEF IInv, ListPart, Once, Spells, Waiting, SleepsOn
  <2>4. CountPart' /\ HeldPart'
    BY <2>1 DEF IInv, CountPart, HeldPart, Counted, Engaged, MutexAlone, WrtAlone, WrtCount,
                SharePart, HasMutex, HasWrt, ReadersHaveWrt, SharesWrt, Claimed, Ticket, Tickets
  <2>5. QED
    BY <2>2, <2>3, <2>4 DEF IInv
<1>5. QED
  BY <1>1, <1>2, <1>3, <1>4 DEF Next

(* The invariant of the semaphores, for any number of readers and writers. *)
THEOREM Inductive == Spec => []IInv
  BY InitIInv, NextIInv, PTL DEF Spec

-----------------------------------------------------------------------------
(* For any number of readers, writers, rounds and data: as long as no wait   *)
(* for a semaphore that was held has ended without its signal, nobody else   *)
(* accesses the share while a writer has it.                                 *)
THEOREM WritersAlone == Spec => []Exclusion
<1>1. IInv => Exclusion
  <2>1. SUFFICES ASSUME IInv, ~ disturbed,
                        NEW w \in At({"load", "store", "release"}),
                        NEW q \in At({"load", "store", "release", "read"})
                 PROVE  q = w
    BY DEF Exclusion, At
  <2>2. /\ w \in Process /\ pc[w] \in {"load", "store", "release"} /\ awake[w]
        /\ q \in Process /\ pc[q] \in {"load", "store", "release", "read"} /\ awake[q]
    BY DEF At
  <2>3. w \in Writers /\ HasWrt(w)
    BY <2>1, <2>2, Processes DEF IInv, Typed, PlaceTyped, ReaderLabels, HasWrt
  <2>4. WrtAlone
    BY <2>1 DEF IInv, HeldPart
  <2>5. CASE q \in Writers
    <3>1. HasWrt(q)
      BY <2>1, <2>2, <2>5 DEF IInv, Typed, PlaceTyped, WriterLabels, HasWrt
    <3>2. QED
      BY <2>3, <2>4, <2>5, <3>1 DEF WrtAlone
  <2>6. CASE q \in Readers
    <3>1. SharesWrt(q)
      BY <2>1, <2>2, <2>6 DEF IInv, Typed, PlaceTyped, ReaderLabels, SharesWrt
    <3>2. QED
      BY <2>3, <2>4, <2>6, <3>1 DEF WrtAlone, ReadersHaveWrt
  <2>7. QED
    BY <2>2, <2>5, <2>6, Processes
<1>2. QED
  BY <1>1, Inductive, PTL

(* Types, and for any number of processes and data: as long as nobody has    *)
(* waited while on a list, the pointers lead through those that waited, in   *)
(* order, as many as the values say, and signal always finds one.            *)
THEOREM ListsMatchValues == Spec => []ListsAreQueues
<1>1. IInv => ListsAreQueues
  BY TypesAreOK DEF IInv, ListPart, ListsAreQueues, Waiting
<1>2. QED
  BY <1>1, Inductive, PTL

(* For any number of processes and data: as long as no wait for a semaphore  *)
(* that was held has ended without its signal, share_bupt counts every       *)
(* increment.                                                                *)
THEOREM NoLostIncrement == Spec => []NoIncrementLost
<1>1. IInv => NoIncrementLost
  BY DEF IInv, HeldPart, SharePart, NoIncrementLost
<1>2. QED
  BY <1>1, Inductive, PTL

=============================================================================
