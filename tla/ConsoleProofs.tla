----------------------------- MODULE ConsoleProofs ----------------------------
(***************************************************************************)
(* What holds of a console for every size of its window, its lines and its *)
(* queue: of the FIFO it is sent keys through (Fifo), and of the editor    *)
(* that makes a line of them (Shell).                                      *)
(***************************************************************************)
EXTENDS Fifo, Shell, WellFoundedInduction, TLAPS

-----------------------------------------------------------------------------
(* The FIFO. *)

(* The three facts that put, get and sleep preserve together: the fields   *)
(* are in range, the cursors agree with the counter, and a sleeping owner  *)
(* has nothing to read.                                                    *)
FifoIInv == FifoTypeOK /\ CursorsAgree /\ NoLostWakeup

LEMMA InitFifoIInv == FifoInit => FifoIInv
<1> SUFFICES ASSUME FifoInit PROVE FifoIInv
  OBVIOUS
<1> USE SizeAssumption DEF FifoInit, Slots
<1>1. FifoTypeOK
  <2>1. 0 \in Slots /\ Size \in 0 .. Size
    BY SMT
  <2>2. buf \in [Slots -> Data] /\ overrun \in BOOLEAN
    OBVIOUS
  <2>3. owner \in {"none", "asleep", "runnable"}
    OBVIOUS
  <2>4. QED
    BY <2>1, <2>2, <2>3 DEF FifoTypeOK
<1>2. CursorsAgree
  BY SMT DEF CursorsAgree, Wrap, Status
<1>3. NoLostWakeup
  BY DEF NoLostWakeup
<1>4. QED
  BY <1>1, <1>2, <1>3 DEF FifoIInv

LEMMA StepFifoIInv == FifoIInv /\ [FifoNext]_fifoVars => FifoIInv'
<1> SUFFICES ASSUME FifoIInv, [FifoNext]_fifoVars PROVE FifoIInv'
  OBVIOUS
<1> USE SizeAssumption
    DEF FifoIInv, FifoTypeOK, CursorsAgree, NoLostWakeup, Slots, Status, Wrap
<1>1. ASSUME NEW d \in Data, Put(d) PROVE FifoIInv'
  BY <1>1, SMT DEF Put, Succ, Woken
<1>2. CASE PutFull
  BY <1>2, SMT DEF PutFull
<1>3. CASE Get
  BY <1>3, SMT DEF Get, Succ
<1>4. CASE Sleep
  BY <1>4, SMT DEF Sleep, ring
<1>5. CASE Wake
  BY <1>5, SMT DEF Wake, ring
<1>6. CASE UNCHANGED fifoVars
  BY <1>6, SMT DEF fifoVars
<1>7. QED
  BY <1>1, <1>2, <1>3, <1>4, <1>5, <1>6 DEF FifoNext

(* A task that sleeps on its FIFO has nothing to read: fifo32_put's        *)
(* task_run and the owner's test with interrupts off are enough, for every *)
(* size.                                                                   *)
THEOREM RingInvariants == FifoSpec => [](FifoTypeOK /\ CursorsAgree /\ NoLostWakeup)
<1>1. FifoInit => FifoIInv
  BY InitFifoIInv
<1>2. FifoIInv /\ [FifoNext]_fifoVars => FifoIInv'
  BY StepFifoIInv
<1>3. FifoIInv => FifoTypeOK /\ CursorsAgree /\ NoLostWakeup
  BY DEF FifoIInv
<1>4. QED
  BY <1>1, <1>2, <1>3, PTL DEF FifoSpec

(* The ring stays well formed: the cursors, which the code never compares, *)
(* agree with the counter from which it derives full and empty.            *)
THEOREM RingInvariance == FifoSpec => []RingIsExact
<1>1. FifoTypeOK /\ CursorsAgree /\ NoLostWakeup => RingIsExact
  BY DEF RingIsExact
<1>2. QED
  BY <1>1, RingInvariants, PTL

-----------------------------------------------------------------------------
(* The contents of the ring, as the bounded queue sees them. *)

LEMMA ContentsType ==
  ASSUME FifoIInv
  PROVE  /\ Contents \in Seq(Data)
         /\ Len(Contents) = Status
         /\ Status \in 0 .. Size
         /\ \A i \in 1 .. Status : Contents[i] = buf[Wrap(q + i - 1)]
<1>1. Status \in 0 .. Size
  BY SizeAssumption, SMT DEF FifoIInv, FifoTypeOK, Status, Slots
<1>2. \A i \in 1 .. Status : Wrap(q + i - 1) \in Slots
  BY <1>1, SizeAssumption, SMT DEF FifoIInv, FifoTypeOK, Slots, Wrap
<1>3. \A i \in 1 .. Status : buf[Wrap(q + i - 1)] \in Data
  BY <1>2, SMT DEF FifoIInv, FifoTypeOK
<1>4. Contents \in [1 .. Status -> Data]
  BY <1>3 DEF Contents
<1>5. QED
  BY <1>1, <1>4, SMT DEF Contents

(* A put appends: the slot at p is none of those between q and p.          *)
LEMMA PutAppends ==
  ASSUME FifoIInv, NEW d \in Data, Put(d)
  PROVE  /\ Len(Contents) < Size
         /\ Contents' = Append(Contents, d)
<1> USE SizeAssumption
<1>1. FifoIInv'
  BY StepFifoIInv DEF FifoNext
<1>2. Status' = Status + 1 /\ q' = q /\ Status < Size /\ Status \in Nat
  BY SMT DEF Put, Status, FifoIInv, FifoTypeOK, Slots
<1>3. ASSUME NEW i \in 1 .. Status'
      PROVE  Contents'[i] = Append(Contents, d)[i]
  <2>1. Contents'[i] = buf'[Wrap(q + i - 1)]
    BY <1>1, <1>2, <1>3 DEF Contents, Wrap
  <2>2. CASE i = Status + 1
    <3>1. Wrap(q + i - 1) = p
      BY <2>2, <1>2, SMT DEF FifoIInv, CursorsAgree, FifoTypeOK, Slots
    <3>2. buf'[p] = d
      BY SMT DEF Put, FifoIInv, FifoTypeOK
    <3>3. Append(Contents, d)[i] = d
      BY <2>2, ContentsType, SMT
    <3>4. QED
      BY <2>1, <3>1, <3>2, <3>3
  <2>3. CASE i \in 1 .. Status
    <3>1. Wrap(q + i - 1) # p /\ Wrap(q + i - 1) \in Slots
      BY <2>3, <1>2, SMT
      DEF FifoIInv, CursorsAgree, FifoTypeOK, Slots, Wrap, Status
    <3>2. buf'[Wrap(q + i - 1)] = buf[Wrap(q + i - 1)]
      BY <3>1, SMT DEF Put, FifoIInv, FifoTypeOK
    <3>3. Append(Contents, d)[i] = Contents[i]
      BY <2>3, ContentsType, SMT
    <3>4. QED
      BY <2>1, <2>3, <3>2, <3>3, ContentsType
  <2>4. i = Status + 1 \/ i \in 1 .. Status
    BY <1>2, <1>3, SMT
  <2>5. QED
    BY <2>2, <2>3, <2>4
<1>4. Contents' \in Seq(Data) /\ Len(Contents') = Status + 1
  <2>1. (FifoIInv => /\ Contents \in Seq(Data)
                 /\ Len(Contents) = Status)'
    BY ContentsType, PTL
  <2>2. QED
    BY <1>1, <1>2, <2>1
<1>5. Append(Contents, d) \in Seq(Data) /\ Len(Append(Contents, d)) = Status + 1
  BY ContentsType, SMT
<1>6. QED
  BY <1>2, <1>3, <1>4, <1>5, ContentsType, SMT

(* A get of a FIFO that is not empty removes the oldest datum.             *)
LEMMA GetTakes ==
  ASSUME FifoIInv, Get, free # Size
  PROVE  /\ Contents # <<>>
         /\ last' = Head(Contents)
         /\ Contents' = Tail(Contents)
<1> USE SizeAssumption
<1>1. FifoIInv'
  BY StepFifoIInv DEF FifoNext
<1>2. Status' = Status - 1 /\ Status \in 1 .. Size /\ buf' = buf
  BY SMT DEF Get, Status, FifoIInv, FifoTypeOK, Slots
<1>3. last' = buf[q] /\ q' = Succ(q)
  BY DEF Get
<1>4. Contents # <<>> /\ Contents[1] = buf[q]
  <2>1. Wrap(q + 1 - 1) = q
    BY SMT DEF Wrap, FifoIInv, FifoTypeOK, Slots
  <2>2. Contents[1] = buf[Wrap(q + 1 - 1)]
    BY <1>2, ContentsType, SMT
  <2>3. QED
    BY <1>2, <2>1, <2>2, ContentsType, SMT
<1>5. Contents' \in Seq(Data) /\ Len(Contents') = Status - 1
  <2>1. (FifoIInv => /\ Contents \in Seq(Data)
                 /\ Len(Contents) = Status)'
    BY ContentsType, PTL
  <2>2. QED
    BY <1>1, <1>2, <2>1
<1>6. ASSUME NEW i \in 1 .. Status - 1
      PROVE  Contents'[i] = Contents[i + 1]
  <2>1. Contents'[i] = buf[Wrap(Succ(q) + i - 1)]
    BY <1>2, <1>3, <1>6 DEF Contents, Wrap
  <2>2. Wrap(Succ(q) + i - 1) = Wrap(q + (i + 1) - 1)
    BY <1>2, <1>6, SMT DEF Wrap, Succ, FifoIInv, FifoTypeOK, Slots
  <2>3. i + 1 \in 1 .. Status
    BY <1>2, <1>6, SMT
  <2>4. QED
    BY <2>1, <2>2, <2>3, ContentsType
<1>7. Tail(Contents) \in Seq(Data) /\ Len(Tail(Contents)) = Status - 1
  BY <1>2, <1>4, ContentsType, SMT
<1>8. ASSUME NEW i \in 1 .. Status - 1
      PROVE  Tail(Contents)[i] = Contents[i + 1]
  BY <1>2, <1>4, <1>8, ContentsType, SMT
<1>9. Contents' = Tail(Contents)
  <2>1. \A i \in 1 .. Status - 1 : Contents'[i] = Tail(Contents)[i]
    BY <1>6, <1>8
  <2>2. QED
    BY <1>2, <1>5, <1>7, <2>1, SMT
<1>10. QED
  BY <1>3, <1>4, <1>9, ContentsType, SMT

LEMMA ContentsUnchanged ==
  ASSUME UNCHANGED <<buf, q, free>>
  PROVE  Contents' = Contents
  BY DEF Contents, Status, Wrap

(* Every step of the ring is a step of the bounded queue, or leaves it.    *)
LEMMA StepQueue == FifoIInv /\ [FifoNext]_fifoVars => [Queue!Next]_(Queue!vars)
<1> SUFFICES ASSUME FifoIInv, [FifoNext]_fifoVars PROVE [Queue!Next]_(Queue!vars)
  OBVIOUS
<1> USE SizeAssumption DEF Queue!Next, Queue!vars
<1>1. ASSUME NEW d \in Data, Put(d) PROVE Queue!Offer(d)
  <2>1. owner' # "asleep" /\ UNCHANGED <<overrun, last>>
    BY <1>1 DEF Put, Woken, FifoIInv, FifoTypeOK
  <2>2. QED
    BY <1>1, <2>1, PutAppends DEF Queue!Offer
<1>2. CASE PutFull
  <2>1. Len(Contents) = Size
    BY <1>2, ContentsType, SMT DEF PutFull, Status
  <2>2. Contents' = Contents
    BY <1>2, ContentsUnchanged DEF PutFull
  <2>3. QED
    BY <1>2, <2>1, <2>2 DEF PutFull, Queue!Refuse
<1>3. CASE Get
  <2>1. CASE free = Size
    <3>1. Contents = <<>>
      BY <2>1, ContentsType, SMT DEF Status
    <3>2. Contents' = Contents
      BY <1>3, <2>1, ContentsUnchanged DEF Get
    <3>3. QED
      BY <1>3, <2>1, <3>1, <3>2 DEF Get, Queue!Take
  <2>2. CASE free # Size
    BY <1>3, <2>2, GetTakes DEF Get, Queue!Take
  <2>3. QED
    BY <2>1, <2>2
<1>4. CASE Sleep
  <2>1. Contents = <<>>
    BY <1>4, ContentsType, SMT DEF Sleep
  <2>2. Contents' = Contents
    BY <1>4, ContentsUnchanged DEF Sleep, ring
  <2>3. QED
    BY <1>4, <2>1, <2>2 DEF Sleep, ring, Queue!Block
<1>5. CASE Wake
  <2>1. Contents' = Contents
    BY <1>5, ContentsUnchanged DEF Wake, ring
  <2>2. QED
    BY <1>5, <2>1 DEF Wake, ring, Queue!Release
<1>6. CASE UNCHANGED fifoVars
  <2>1. Contents' = Contents
    BY <1>6, ContentsUnchanged DEF fifoVars
  <2>2. QED
    BY <1>6, <2>1 DEF fifoVars
<1>7. QED
  BY <1>1, <1>2, <1>3, <1>4, <1>5, <1>6 DEF FifoNext

(* The ring buffer implements the bounded queue: whatever the size, no     *)
(* datum that was accepted is lost, repeated or overtaken, a datum is      *)
(* refused only when the FIFO is full, and the owner waits only when it is *)
(* empty.                                                                  *)
THEOREM Refinement == FifoSpec => IsBoundedQueue
<1>1. FifoInit => Queue!Init
  <2> SUFFICES ASSUME FifoInit PROVE Queue!Init
    OBVIOUS
  <2>1. FifoIInv
    BY InitFifoIInv
  <2>2. Contents = <<>>
    BY <2>1, ContentsType, SizeAssumption, SMT DEF FifoInit, Status
  <2>3. QED
    BY <2>2 DEF FifoInit, Queue!Init
<1>2. FifoIInv /\ [FifoNext]_fifoVars => [Queue!Next]_(Queue!vars)
  BY StepQueue
<1>3. QED
  BY <1>1, <1>2, InitFifoIInv, StepFifoIInv, PTL DEF FifoSpec, IsBoundedQueue, Queue!Spec

-----------------------------------------------------------------------------
(* The line editor. *)

(* Sequence t starts with s, cell by cell.                                  *)
StartsWith(t, s) == Len(s) <= Len(t) /\ \A i \in 1 .. Len(s) : t[i] = s[i]

Recalls(c) == pc[c] \in {"show", "copy"}
Runs(c) == pc[c] \in {"note", "run"}

(* The row of a console that runs a line is cleared, and the line can be    *)
(* recalled without wrapping; what is recalled stands behind two cells at   *)
(* most; a console that edits has not gone further than the limit, unless   *)
(* its prompt has.                                                          *)
RowFits(c) ==
    /\ Runs(c) => row[c] = <<>>
    /\ pc[c] = "note" => line[c] # <<>> /\ Len(line[c]) <= EditLimit - 2
    /\ pc[c] = "show" => Len(row[c]) <= 2
    /\ pc[c] = "copy" => Len(row[c]) <= EditLimit
    /\ pc[c] = "key" /\ ~ InGame(c) => Len(row[c]) <= EditLimit \/ Len(row[c]) <= path[c] + 1

(* In the root directory the prompt stays at the head of the row.           *)
RootStays(c) ==
    dir[c] = 0 /\ ~ InGame(c) /\ pc[c] \in {"key", "show", "copy"} =>
        StartsWith(row[c], Prompt(0))

(* Behind the prompt stands the line.                                       *)
LineFollows(c) ==
    pc[c] = "key" /\ c \notin mixed /\ StartsWith(row[c], Prompt(dir[c])) =>
        /\ Index(c) <= Len(line[c])
        /\ \A i \in 1 .. Index(c) : row[c][2 * dir[c] + 2 + i] = line[c][i]

(* What was shown of the history is at the end of the row.                  *)
ShownIsLast(c) ==
    pc[c] = "copy" /\ c \notin mixed =>
        /\ Len(hist) <= Len(row[c]) /\ Len(row[c]) <= Len(hist) + 2
        /\ \A i \in 1 .. Len(hist) : row[c][Len(row[c]) - Len(hist) + i] = hist[i]

(* The cursor of a game is in the window if the console's is.               *)
GameIsBeside(c) ==
    InGame(c) => ~ Recalls(c) /\ ~ Runs(c) /\ (y[c] >= Height <=> game[c] >= Height)

HistoryFits ==
    /\ hist # NoHistory => Len(hist) <= EditLimit - 2
    /\ \A c \in Consoles : Recalls(c) /\ c \notin mixed => hist # NoEntry

Edits(c) ==
    /\ path[c] = PathLength(dir[c])
    /\ RowFits(c)
    /\ RootStays(c)
    /\ LineFollows(c)
    /\ ShownIsLast(c)

ConsoleFits(c) == Edits(c) /\ GameIsBeside(c)

ShellIInv ==
    /\ ShellTypeOK
    /\ HistoryFits
    /\ \A c \in Consoles : ConsoleFits(c)
    /\ FaultsAreKnown

-----------------------------------------------------------------------------
(* Rows and prompts. *)

\* Every set of numbers that has one has a least one.
LEMMA Least ==
  ASSUME NEW T \in SUBSET Nat, T # {}
  PROVE  \E x \in T : \A z \in T : x <= z
<1>1. DEFINE R == {ss \in Nat \X Nat : ss[1] < ss[2]}
<1>2. IsWellFoundedOn(R, Nat)
  BY NatLessThanWellFounded, Zenon DEF OpToRel
<1>3. HIDE DEF R
<1>4. PICK x \in T : \A z \in T : ~ (<<z, x>> \in R)
  BY <1>2, WFMin
<1>5. ASSUME NEW z \in T PROVE x <= z
  <2>1. ~ (z < x)
    BY <1>4 DEF R
  <2>2. QED
    BY <2>1, SMT
<1>6. QED
  BY <1>5

\* A set of numbers that has 0 and with a number the next one has them all.
LEMMA AllNumbers ==
  ASSUME NEW T, T \subseteq Nat, 0 \in T, \A n \in T : n + 1 \in T
  PROVE  \A n \in Nat : n \in T
<1> DEFINE B == Nat \ T
<1>1. SUFFICES ASSUME B # {} PROVE FALSE
  OBVIOUS
<1>2. PICK x \in B : \A z \in B : x <= z
  BY <1>1, Least
<1>3. x \in Nat /\ x \notin T /\ x # 0
  BY <1>2
<1>4. x - 1 \in Nat /\ (x - 1) + 1 = x /\ ~ (x <= x - 1)
  BY <1>3
<1>5. x - 1 \in T
  BY <1>2, <1>4
<1>6. QED
  BY <1>3, <1>4, <1>5

LEMMA PrefixIs ==
  ASSUME NEW C, NEW s \in Seq(C), NEW t \in Seq(C)
  PROVE  IsPrefix(s, t) <=> StartsWith(t, s)
<1>1. ASSUME IsPrefix(s, t) PROVE StartsWith(t, s)
  <2>1. Len(s) <= Len(t) /\ SubSeq(s, 1, Len(s)) = SubSeq(t, 1, Len(s))
    BY <1>1 DEF IsPrefix
  <2>2. ASSUME NEW i \in 1 .. Len(s) PROVE t[i] = s[i]
    <3>1. SubSeq(s, 1, Len(s))[i] = s[i] /\ SubSeq(t, 1, Len(s))[i] = t[i]
      BY <2>1, SMT
    <3>2. QED
      BY <2>1, <3>1
  <2>3. QED
    BY <2>1, <2>2 DEF StartsWith
<1>2. ASSUME StartsWith(t, s) PROVE IsPrefix(s, t)
  <2>1. Len(s) <= Len(t) /\ \A i \in 1 .. Len(s) : t[i] = s[i]
    BY <1>2 DEF StartsWith
  <2>2. SubSeq(s, 1, Len(s)) = SubSeq(t, 1, Len(s))
    BY <2>1, SMT
  <2>3. QED
    BY <2>1, <2>2 DEF IsPrefix
<1>3. QED
  BY <1>1, <1>2

LEMMA PromptIs ==
  ASSUME NEW d \in Nat
  PROVE  /\ PathLength(d) = 2 * d + 1 /\ PathLength(d) \in Nat
         /\ Prompt(d) \in Seq(Cells) /\ Len(Prompt(d)) = 2 * d + 2
         /\ \A i \in 1 .. 2 * d + 1 : Prompt(d)[i] = "/"
         /\ Prompt(d)[2 * d + 2] = ">"
<1>1. PathLength(d) = 2 * d + 1 /\ 2 * d + 1 \in Nat
  BY DEF PathLength
<1>2. PICK n \in Nat : n = 2 * d + 1
  BY <1>1
<1>3. "/" \in Cells /\ ">" \in Cells
  BY DEF Cells
<1>4. PICK s : s = [i \in 1 .. n |-> "/"]
  OBVIOUS
<1>5. s \in Seq(Cells) /\ Len(s) = n /\ \A i \in 1 .. n : s[i] = "/"
  BY <1>3, <1>4, SMT
<1>6. Prompt(d) = Append(s, ">")
  BY <1>1, <1>2, <1>4 DEF Prompt
<1>7. /\ Append(s, ">") \in Seq(Cells) /\ Len(Append(s, ">")) = n + 1
      /\ \A i \in 1 .. n : Append(s, ">")[i] = "/"
      /\ Append(s, ">")[n + 1] = ">"
  BY <1>3, <1>5, SMT
<1>8. n + 1 = 2 * d + 2
  BY <1>2
<1>9. QED
  BY <1>1, <1>2, <1>6, <1>7, <1>8

\* A cursor on a row that does not fill the window.
Cursors == [row : Seq(Cells), y : Nat]
OnRow(s) == s \in Cursors /\ Len(s.row) < Width
\* What is written leaves a cursor in the window, or where it is below it.
Keeps(s, t) ==
    /\ s.y < Height => t.y < Height
    /\ s.y >= Height => t.y = s.y

LEMMA NewlineIs ==
  ASSUME NEW s \in Cursors
  PROVE  OnRow(Newline(s)) /\ Keeps(s, Newline(s)) /\ Newline(s).row = <<>>
<1>1. s.y \in Nat /\ Height \in Nat /\ Height # 0 /\ Width > 0 /\ Width \in Nat
  BY WidthAssumption DEF Cursors
<1>2. PICK t : t = Newline(s)
  OBVIOUS
<1>3. t = [row |-> <<>>, y |-> IF s.y < Height - 1 THEN s.y + 1 ELSE s.y]
  BY <1>2 DEF Newline
<1>4. t.row = <<>> /\ t.y = (IF s.y < Height - 1 THEN s.y + 1 ELSE s.y)
  BY <1>3
<1>5. t.y \in Nat /\ Keeps(s, t)
  BY <1>1, <1>4 DEF Keeps
<1>6. t \in Cursors
  BY <1>3, <1>4, <1>5 DEF Cursors
<1>7. Len(t.row) = 0
  BY <1>4
<1>8. QED
  BY <1>1, <1>2, <1>4, <1>5, <1>6, <1>7 DEF OnRow

LEMMA PutcharIs ==
  ASSUME NEW s, OnRow(s), NEW k \in Cells
  PROVE  /\ OnRow(Putchar(s, k)) /\ Keeps(s, Putchar(s, k))
         /\ Len(s.row) + 1 < Width => Putchar(s, k).row = Append(s.row, k)
         /\ Len(s.row) + 1 >= Width => Putchar(s, k).row = <<>>
<1>1. s \in Cursors /\ s.row \in Seq(Cells) /\ s.y \in Nat /\ Len(s.row) < Width
  BY DEF OnRow, Cursors
<1>2. PICK t : t = [s EXCEPT !.row = Append(@, k)]
  OBVIOUS
<1>3. t.row = Append(s.row, k) /\ t.y = s.y /\ t \in Cursors
  BY <1>1, <1>2 DEF Cursors
<1>4. Len(t.row) = Len(s.row) + 1 /\ Len(s.row) \in Nat
  BY <1>1, <1>3
<1>5. Putchar(s, k) = IF Len(t.row) = Width THEN Newline(t) ELSE t
  BY <1>2 DEF Putchar
<1>6. CASE Len(t.row) = Width
  <2>1. Putchar(s, k) = Newline(t) /\ ~ (Len(s.row) + 1 < Width)
    BY <1>4, <1>5, <1>6, WidthAssumption
  <2>2. OnRow(Newline(t)) /\ Keeps(t, Newline(t)) /\ Newline(t).row = <<>>
    BY <1>3, NewlineIs
  <2>3. Keeps(s, Newline(t))
    BY <1>3, <2>2 DEF Keeps
  <2>4. QED
    BY <2>1, <2>2, <2>3
<1>7. CASE Len(t.row) # Width
  <2>1. Putchar(s, k) = t
    BY <1>5, <1>7
  <2>2. Len(t.row) < Width /\ Len(s.row) + 1 < Width
    BY <1>1, <1>4, <1>7, WidthAssumption
  <2>3. Keeps(s, t)
    BY <1>1, <1>3 DEF Keeps
  <2>4. QED
    BY <1>3, <2>1, <2>2, <2>3, WidthAssumption, <1>4 DEF OnRow
<1>8. QED
  BY <1>6, <1>7

\* The place n of the characters that are put.
PutAt(f, s, text, n) == IF n = 0 THEN s ELSE Putchar(f[n - 1], text[n])

Puts(s, text, n) == \E f : f = [m \in 0 .. n |-> PutAt(f, s, text, m)]

\* One more character can be put, and so there are all of them.
LEMMA PutsExist ==
  ASSUME NEW s, NEW text, NEW n \in Nat
  PROVE  Puts(s, text, n)
<1> DEFINE Some(x) == \E f : f = [m \in 0 .. x |-> PutAt(f, s, text, m)]
<1>1. Some(0)
  <2> DEFINE f == [m \in 0 .. 0 |-> s]
  <2>1. ASSUME NEW m \in 0 .. 0 PROVE PutAt(f, s, text, m) = s
    <3>1. m = 0
      OBVIOUS
    <3>2. QED
      BY <3>1 DEF PutAt
  <2>2. f = [m \in 0 .. 0 |-> PutAt(f, s, text, m)]
    BY <2>1, Zenon
  <2>3. QED
    BY <2>2, Zenon
<1>2. ASSUME NEW x \in Nat, Some(x) PROVE Some(x + 1)
  <2>1. PICK f : f = [m \in 0 .. x |-> PutAt(f, s, text, m)]
    BY <1>2, Zenon
  <2> DEFINE g == [m \in 0 .. x + 1 |-> PutAt(f, s, text, m)]
  <2>2. \A m \in 0 .. x : f[m] = PutAt(f, s, text, m)
    BY <2>1, Zenon
  <2>3. \A m \in 0 .. x + 1 : g[m] = PutAt(f, s, text, m)
    BY Zenon
  <2>4. \A m \in 0 .. x : m \in 0 .. x + 1
    OBVIOUS
  <2>5. \A m \in 0 .. x : f[m] = g[m]
    BY <2>2, <2>3, <2>4, Zenon
  <2> HIDE DEF g
  <2>6. ASSUME NEW m \in 0 .. x + 1 PROVE PutAt(f, s, text, m) = PutAt(g, s, text, m)
    <3>1. CASE m = 0
      BY <3>1, Zenon DEF PutAt
    <3>2. CASE m # 0
      <4>1. m - 1 \in 0 .. x
        BY <3>2
      <4>2. f[m - 1] = g[m - 1]
        BY <2>5, <4>1, Zenon
      <4>3. QED
        BY <4>2, Zenon DEF PutAt
    <3>3. QED
      BY <3>1, <3>2
  <2>7. g = [m \in 0 .. x + 1 |-> PutAt(g, s, text, m)]
    <3>1. g = [m \in 0 .. x + 1 |-> PutAt(f, s, text, m)]
      BY Zenon DEF g
    <3>2. QED
      BY <2>6, <3>1, Zenon
  <2>8. QED
    BY <2>7, Zenon
<1> HIDE DEF Some
<1>3. PICK T : T = {x \in Nat : Some(x)}
  OBVIOUS
<1>4. T \subseteq Nat /\ 0 \in T /\ \A x \in T : x + 1 \in T
  BY <1>1, <1>2, <1>3
<1>5. \A x \in Nat : x \in T
  BY <1>4, AllNumbers
<1>6. Some(n)
  BY <1>3, <1>5
<1>7. QED
  BY <1>6, Zenon DEF Some, Puts

\* The first m characters of text follow, on the row of t, those of s.
Follows(s, text, m, t) ==
    /\ Len(t.row) = Len(s.row) + m
    /\ \A i \in 1 .. Len(s.row) : t.row[i] = s.row[i]
    /\ \A i \in 1 .. m : t.row[Len(s.row) + i] = text[i]

LEMMA PutstrIs ==
  ASSUME NEW s, OnRow(s), NEW text \in Seq(Cells)
  PROVE  /\ OnRow(Putstr(s, text)) /\ Keeps(s, Putstr(s, text))
         /\ Len(s.row) + Len(text) < Width => Follows(s, text, Len(text), Putstr(s, text))
<1>1. PICK n \in Nat : n = Len(text)
  OBVIOUS
<1>2. \E f : f = [m \in 0 .. n |-> PutAt(f, s, text, m)]
  <2>1. Puts(s, text, n)
    BY PutsExist
  <2>2. QED
    BY <2>1, Zenon DEF Puts
<1>3. PICK put : put = [m \in 0 .. n |-> PutAt(put, s, text, m)] /\ Putstr(s, text) = put[n]
  <2> DEFINE P(f) == f = [m \in 0 .. n |-> PutAt(f, s, text, m)]
  <2>1. PICK put : put = CHOOSE f : P(f)
    OBVIOUS
  <2>2. P(put)
    BY <1>2, <2>1, Zenon
  <2>3. Putstr(s, text) = put[n]
    BY <1>1, <2>1, Zenon DEF Putstr, PutAt
  <2>4. QED
    BY <2>2, <2>3, Zenon
<1>4. put[0] = s
  <2>1. 0 \in 0 .. n
    OBVIOUS
  <2>2. put[0] = PutAt(put, s, text, 0)
    BY <1>3, <2>1, Zenon
  <2>3. QED
    BY <2>2 DEF PutAt
<1>5. ASSUME NEW m \in Nat, m + 1 <= n PROVE put[m + 1] = Putchar(put[m], text[m + 1])
  <2>1. m + 1 \in 0 .. n /\ m + 1 # 0 /\ (m + 1) - 1 = m
    BY <1>5
  <2>2. put[m + 1] = PutAt(put, s, text, m + 1)
    BY <1>3, <2>1, Zenon
  <2>3. PutAt(put, s, text, m + 1) = Putchar(put[(m + 1) - 1], text[m + 1])
    BY <2>1, Zenon DEF PutAt
  <2>4. QED
    BY <2>1, <2>2, <2>3
<1>6. PICK w \in Nat : w = Len(s.row)
  BY DEF OnRow, Cursors
<1> DEFINE Good(m) == m <= n =>
              /\ OnRow(put[m]) /\ Keeps(s, put[m])
              /\ w + m < Width => Follows(s, text, m, put[m])
<1>7. Good(0)
  <2>1. Keeps(s, s)
    BY DEF Keeps
  <2>2. Follows(s, text, 0, s)
    BY <1>6 DEF Follows
  <2>3. QED
    BY <1>4, <2>1, <2>2
<1>8. ASSUME NEW m \in Nat, Good(m) PROVE Good(m + 1)
  <2>1. SUFFICES ASSUME m + 1 <= n
                 PROVE  /\ OnRow(put[m + 1]) /\ Keeps(s, put[m + 1])
                        /\ w + (m + 1) < Width => Follows(s, text, m + 1, put[m + 1])
    BY DEF Good
  <2>2. PICK t : t = put[m]
    OBVIOUS
  <2>3. m <= n
    BY <2>1
  <2>4. OnRow(t) /\ Keeps(s, t) /\ (w + m < Width => Follows(s, text, m, t))
    BY <1>8, <2>2, <2>3
  <2>5. PICK k \in Cells : k = text[m + 1]
    BY <1>1, <2>1
  <2>6. PICK u : u = put[m + 1]
    OBVIOUS
  <2>7. u = Putchar(t, k)
    BY <1>5, <2>1, <2>2, <2>5, <2>6
  <2>8. OnRow(u) /\ Keeps(t, u)
    BY <2>4, <2>7, PutcharIs
  <2>9. Keeps(s, u)
    <3>1. s.y \in Nat /\ t.y \in Nat /\ u.y \in Nat /\ Height \in Nat
      BY <2>4, <2>8, WidthAssumption DEF OnRow, Cursors
    <3>2. QED
      BY <2>4, <2>8, <3>1 DEF Keeps
  <2>10. ASSUME w + (m + 1) < Width PROVE Follows(s, text, m + 1, u)
    <3>1. w + m < Width
      BY <2>10, WidthAssumption
    <3>2. /\ Len(t.row) = w + m
          /\ \A i \in 1 .. w : t.row[i] = s.row[i]
          /\ \A i \in 1 .. m : t.row[w + i] = text[i]
      BY <1>6, <2>4, <3>1 DEF Follows
    <3>3. u.row = Append(t.row, k)
      <4>1. Len(t.row) + 1 < Width
        BY <2>10, <3>2, WidthAssumption
      <4>2. QED
        BY <2>4, <2>7, <4>1, PutcharIs
    <3>4. t.row \in Seq(Cells)
      BY <2>4 DEF OnRow, Cursors
    <3>5. Len(u.row) = w + (m + 1)
      BY <3>2, <3>3, <3>4
    <3>6. \A i \in 1 .. w + m : u.row[i] = t.row[i]
      BY <3>2, <3>3, <3>4
    <3>7. u.row[w + (m + 1)] = k
      BY <3>2, <3>3, <3>4
    <3>8. \A i \in 1 .. w : u.row[i] = s.row[i]
      BY <3>2, <3>6
    <3>9. \A i \in 1 .. m : u.row[w + i] = text[i]
      BY <3>2, <3>6
    <3>10. ASSUME NEW i \in 1 .. m + 1 PROVE u.row[w + i] = text[i]
      <4>1. i \in 1 .. m \/ i = m + 1
        OBVIOUS
      <4>2. QED
        BY <2>5, <3>7, <3>9, <4>1
    <3>11. QED
      BY <1>6, <3>5, <3>8, <3>10 DEF Follows
  <2>11. QED
    BY <2>6, <2>8, <2>9, <2>10
<1> HIDE DEF Good
<1>9. PICK T : T = {m \in Nat : Good(m)}
  OBVIOUS
<1>10. T \subseteq Nat /\ 0 \in T /\ \A m \in T : m + 1 \in T
  BY <1>7, <1>8, <1>9
<1>11. \A m \in Nat : m \in T
  BY <1>10, AllNumbers
<1>12. Good(n)
  BY <1>9, <1>11
<1>13. QED
  BY <1>1, <1>3, <1>6, <1>12 DEF Good

-----------------------------------------------------------------------------
(* What a step of one console leaves of the others. *)

Same(x) ==
    /\ dir'[x] = dir[x] /\ row'[x] = row[x] /\ y'[x] = y[x] /\ line'[x] = line[x]
    /\ path'[x] = path[x] /\ game'[x] = game[x] /\ pc'[x] = pc[x]

\* The history stays, or the consoles that recall it are marked.
Marked(x) ==
    \/ hist' = hist /\ (x \in mixed' <=> x \in mixed)
    \/ mixed' = mixed \cup Recalling

LEMMA OthersStay ==
  ASSUME NEW x \in Consoles, ConsoleFits(x), Same(x), Marked(x)
  PROVE  ConsoleFits(x)'
<1> USE DEF Same
<1>1. x \notin mixed' => x \notin mixed /\ (Recalls(x) => hist' = hist)
  BY DEF Marked, Recalling, Recalls
<1>2. (path[x] = PathLength(dir[x]))'
  BY DEF ConsoleFits, Edits
<1>3. RowFits(x)'
  BY DEF ConsoleFits, Edits, RowFits, Runs, InGame
<1>4. RootStays(x)'
  BY DEF ConsoleFits, Edits, RootStays, InGame
<1>5. LineFollows(x)'
  <2>1. LineFollows(x) /\ Index(x)' = Index(x)
    BY DEF ConsoleFits, Edits, Index
  <2>2. QED
    BY <1>1, <2>1, Zenon DEF LineFollows
<1>6. ShownIsLast(x)'
  <2>1. ShownIsLast(x)
    BY DEF ConsoleFits, Edits
  <2>2. pc[x] = "copy" => Recalls(x)
    BY DEF Recalls
  <2>3. QED
    BY <1>1, <2>1, <2>2, Zenon DEF ShownIsLast
<1>7. GameIsBeside(x)'
  BY DEF ConsoleFits, GameIsBeside, InGame, Recalls, Runs
<1>8. QED
  BY <1>2, <1>3, <1>4, <1>5, <1>6, <1>7 DEF ConsoleFits, Edits

\* Below: as far down as a cursor may be.
Below(s) == s.y <= Height - 1 + MaxBelow

LEMMA CursorIs ==
  ASSUME ShellTypeOK, NEW c \in Consoles
  PROVE  /\ OnRow(Cursor(c)) /\ Below(Cursor(c))
         /\ Cursor(c).row = row[c] /\ Cursor(c).y = y[c]
<1>1. row[c] \in Seq(Cells) /\ Len(row[c]) < Width /\ y[c] \in 0 .. Height - 1 + MaxBelow
  BY DEF ShellTypeOK
<1>2. y[c] \in Nat /\ y[c] <= Height - 1 + MaxBelow
  BY <1>1, WidthAssumption, BoundAssumption
<1>3. QED
  BY <1>1, <1>2 DEF Cursor, Cursors, OnRow, Below

LEMMA KeepsBelow ==
  ASSUME NEW s, NEW t, OnRow(s), OnRow(t), Below(s), Keeps(s, t)
  PROVE  Below(t)
<1>1. s.y \in Nat /\ t.y \in Nat /\ Height \in Nat /\ MaxBelow \in Nat
  BY WidthAssumption, BoundAssumption DEF OnRow, Cursors
<1>2. QED
  BY <1>1 DEF Below, Keeps

LEMMA AtIs ==
  ASSUME ShellTypeOK, NEW c \in Consoles, NEW s, OnRow(s), Below(s), At(c, s)
  PROVE  /\ row' \in [Consoles -> Seq(Cells)] /\ y' \in [Consoles -> 0 .. Height - 1 + MaxBelow]
         /\ \A x \in Consoles : Len(row'[x]) < Width
         /\ row'[c] = s.row /\ y'[c] = s.y
         /\ \A x \in Consoles \ {c} : row'[x] = row[x] /\ y'[x] = y[x]
<1>1. s.row \in Seq(Cells) /\ Len(s.row) < Width /\ s.y \in 0 .. Height - 1 + MaxBelow
  BY WidthAssumption, BoundAssumption DEF OnRow, Cursors, Below
<1>2. row' = [row EXCEPT ![c] = s.row] /\ y' = [y EXCEPT ![c] = s.y]
  BY DEF At
<1>3. /\ row \in [Consoles -> Seq(Cells)] /\ y \in [Consoles -> 0 .. Height - 1 + MaxBelow]
      /\ \A x \in Consoles : Len(row[x]) < Width
  BY DEF ShellTypeOK
<1>4. row'[c] = s.row /\ y'[c] = s.y /\ \A x \in Consoles \ {c} : row'[x] = row[x] /\ y'[x] = y[x]
  BY <1>2, <1>3
<1>5. row' \in [Consoles -> Seq(Cells)] /\ y' \in [Consoles -> 0 .. Height - 1 + MaxBelow]
  BY <1>1, <1>2, <1>3
<1>6. ASSUME NEW x \in Consoles PROVE Len(row'[x]) < Width
  BY <1>1, <1>3, <1>4
<1>7. QED
  BY <1>4, <1>5, <1>6

\* What a step does to the cursor of a console that leaves or enters its window.
WindowOf(x) ==
    /\ Leaves(x) => game[x] # None /\ game'[x] = None
    /\ Returns(x) => line[x] = ClsLine
Window == \A x \in Consoles : WindowOf(x)

LEMMA StepOfOne ==
  ASSUME ShellIInv, NEW c \in Consoles,
         ShellTypeOK', HistoryFits', FaultsAreKnown', ConsoleFits(c)', WindowOf(c),
         \A x \in Consoles \ {c} : Same(x) /\ Marked(x)
  PROVE  ShellIInv' /\ Window
<1>1. ASSUME NEW x \in Consoles PROVE ConsoleFits(x)' /\ WindowOf(x)
  <2>1. CASE x = c
    BY <2>1
  <2>2. CASE x # c
    <3>1. Same(x) /\ Marked(x) /\ ConsoleFits(x)
      BY <2>2 DEF ShellIInv
    <3>2. ConsoleFits(x)'
      BY <3>1, OthersStay
    <3>3. ~ Leaves(x) /\ ~ Returns(x)
      <4>1. y'[x] = y[x] /\ y[x] \in Int /\ Height \in Int
        BY <3>1, WidthAssumption, BoundAssumption DEF Same, ShellIInv, ShellTypeOK
      <4>2. QED
        BY <4>1 DEF Leaves, Returns
    <3>4. QED
      BY <3>2, <3>3 DEF WindowOf
  <2>3. QED
    BY <2>1, <2>2
<1>2. (\A x \in Consoles : ConsoleFits(x))'
  BY <1>1
<1>3. QED
  BY <1>1, <1>2 DEF ShellIInv, Window

\* The numbers that the leaves below compute with.
LEMMA Numbers ==
  ASSUME ShellTypeOK, NEW c \in Consoles
  PROVE  /\ dir[c] \in Nat /\ dir[c] <= MaxDepth /\ path[c] \in Nat
         /\ row[c] \in Seq(Cells) /\ Len(row[c]) \in Nat /\ Len(row[c]) < Width
         /\ line[c] \in Seq(Keys) /\ Len(line[c]) \in Nat /\ Len(line[c]) < GameLimit
         /\ y[c] \in Nat /\ game[c] \in Int /\ game[c] >= -1
         /\ Index(c) \in Int /\ Index(c) = Len(row[c]) - path[c] - 1
         /\ Width \in Nat /\ Height \in Nat /\ Height # 0 /\ EditLimit \in Nat /\ GameLimit \in Nat
         /\ 2 < EditLimit /\ EditLimit < Width /\ Width < GameLimit
<1>1. dir[c] \in Nat /\ dir[c] <= MaxDepth
  BY BoundAssumption DEF ShellTypeOK
<1>2. PICK d \in 0 .. MaxDepth : path[c] = PathLength(d)
  BY DEF ShellTypeOK
<1>3. path[c] \in Nat
  BY <1>2, BoundAssumption DEF PathLength
<1>4. /\ row[c] \in Seq(Cells) /\ Len(row[c]) < Width
      /\ line[c] \in Seq(Keys) /\ Len(line[c]) < GameLimit
      /\ y[c] \in 0 .. Height - 1 + MaxBelow /\ game[c] \in None .. Height - 1 + MaxBelow
  BY DEF ShellTypeOK
<1>5. Len(row[c]) \in Nat /\ Len(line[c]) \in Nat
  BY <1>4
<1>6. y[c] \in Nat /\ game[c] \in Int /\ game[c] >= -1
  BY <1>4, WidthAssumption, BoundAssumption DEF None
<1>7. Index(c) = Len(row[c]) - path[c] - 1 /\ Index(c) \in Int
  BY <1>3, <1>5 DEF Index
<1>8. QED
  BY <1>1, <1>3, <1>4, <1>5, <1>6, <1>7, WidthAssumption

LEMMA AstrayStep ==
  ASSUME ShellIInv, NEW c \in Consoles, Astray(c), pc[c] = "key"
  PROVE  ShellIInv' /\ Window
<1> USE DEF Astray
<1>1. ShellTypeOK' /\ HistoryFits'
  <2>1. ShellTypeOK /\ HistoryFits
    BY DEF ShellIInv
  <2>2. QED
    BY <2>1 DEF ShellTypeOK, HistoryFits, Recalls
<1>2. dir[c] > 0 \/ InGame(c)
  <2>1. SUFFICES ASSUME dir[c] = 0, ~ InGame(c) PROVE FALSE
    BY Numbers DEF ShellIInv
  <2>2. StartsWith(row[c], Prompt(0)) /\ path[c] = PathLength(0)
    BY <2>1 DEF ShellIInv, ConsoleFits, Edits, RootStays
  <2>3. Len(Prompt(0)) = 2 /\ PathLength(0) = 1
    <3>1. 0 \in Nat /\ 2 * 0 + 1 = 1 /\ 2 * 0 + 2 = 2
      OBVIOUS
    <3>2. QED
      BY <3>1, PromptIs
  <2>4. Len(row[c]) >= 2 /\ path[c] = 1
    BY <2>2, <2>3, Numbers DEF StartsWith, ShellIInv
  <2>5. Index(c) >= 0
    BY <2>4, Numbers DEF ShellIInv
  <2>6. QED
    BY <2>5, Numbers DEF ShellIInv
<1>3. FaultsAreKnown'
  <2>1. Index(c)' < 0 /\ (dir'[c] > 0 \/ InGame(c)')
    BY <1>2 DEF Index, InGame
  <2>2. fault' = "stack"
    OBVIOUS
  <2>3. QED
    BY <2>1, <2>2 DEF FaultsAreKnown
<1>4. \A x \in Consoles : Same(x) /\ Marked(x)
  BY DEF Same, Marked
<1>5. ConsoleFits(c)'
  BY <1>4, OthersStay DEF ShellIInv
<1>6. WindowOf(c)
  <2>1. y'[c] = y[c] /\ y[c] \in Nat /\ Height \in Nat
    BY Numbers DEF ShellIInv
  <2>2. QED
    BY <2>1 DEF WindowOf, Leaves, Returns
<1>7. QED
  BY <1>1, <1>3, <1>4, <1>5, <1>6, StepOfOne

LEMMA DanglingStep ==
  ASSUME ShellIInv, NEW c \in Consoles, Dangling(c), Recalls(c)
  PROVE  ShellIInv' /\ Window
<1> USE DEF Dangling
<1>1. ShellTypeOK' /\ HistoryFits'
  <2>1. ShellTypeOK /\ HistoryFits
    BY DEF ShellIInv
  <2>2. QED
    BY <2>1 DEF ShellTypeOK, HistoryFits, Recalls
<1>2. hist = NoHistory \/ mixed # {}
  BY DEF ShellIInv, HistoryFits
<1>3. FaultsAreKnown'
  BY <1>2 DEF FaultsAreKnown
<1>4. \A x \in Consoles : Same(x) /\ Marked(x)
  BY DEF Same, Marked
<1>5. ConsoleFits(c)'
  BY <1>4, OthersStay DEF ShellIInv
<1>6. WindowOf(c)
  <2>1. y'[c] = y[c] /\ y[c] \in Nat /\ Height \in Nat
    BY Numbers DEF ShellIInv
  <2>2. QED
    BY <2>1 DEF WindowOf, Leaves, Returns
<1>7. QED
  BY <1>1, <1>3, <1>4, <1>5, <1>6, StepOfOne

\* A step that is no fault makes none known.
LEMMA NoFault ==
  ASSUME fault = "none", fault' = fault
  PROVE  FaultsAreKnown'
  BY DEF FaultsAreKnown

-----------------------------------------------------------------------------
(* The keys. *)

\* A prompt at the head of a row: "/" up to a ">".
LEMMA StartIs ==
  ASSUME NEW d \in Nat, NEW t
  PROVE  StartsWith(t, Prompt(d)) <=>
           /\ 2 * d + 2 <= Len(t)
           /\ \A i \in 1 .. 2 * d + 1 : t[i] = "/"
           /\ t[2 * d + 2] = ">"
<1>1. PICK n \in Nat : n = 2 * d + 1
  OBVIOUS
<1>2. 2 * d + 2 = n + 1
  BY <1>1
<1>3. /\ Len(Prompt(d)) = n + 1
      /\ \A i \in 1 .. n : Prompt(d)[i] = "/"
      /\ Prompt(d)[n + 1] = ">"
  BY <1>1, <1>2, PromptIs
<1>4. \A i \in 1 .. n + 1 : i \in 1 .. n \/ i = n + 1
  OBVIOUS
<1>5. n + 1 \in 1 .. n + 1 /\ \A i \in 1 .. n : i \in 1 .. n + 1
  OBVIOUS
<1>6. (\A i \in 1 .. n + 1 : t[i] = Prompt(d)[i]) <=>
        (\A i \in 1 .. n : t[i] = "/") /\ t[n + 1] = ">"
  BY <1>3, <1>4, <1>5, Zenon
<1>7. QED
  BY <1>1, <1>2, <1>3, <1>6 DEF StartsWith

\* What is typed on a row does not make a prompt.
LEMMA StartStays ==
  ASSUME NEW d \in Nat, NEW t \in Seq(Cells), NEW k \in Keys
  PROVE  StartsWith(Append(t, k), Prompt(d)) <=> StartsWith(t, Prompt(d))
<1>1. PICK n \in Nat : n = 2 * d + 1
  OBVIOUS
<1>2. 2 * d + 2 = n + 1
  BY <1>1
<1>3. PICK u : u = Append(t, k)
  OBVIOUS
<1>4. /\ Len(t) \in Nat /\ Len(u) = Len(t) + 1
      /\ \A i \in 1 .. Len(t) : u[i] = t[i]
      /\ u[Len(t) + 1] = k
  BY <1>3
<1>5. k # ">"
  BY KeysAssumption
<1>6. ASSUME StartsWith(u, Prompt(d)) PROVE StartsWith(t, Prompt(d))
  <2>1. n + 1 <= Len(u) /\ (\A i \in 1 .. n : u[i] = "/") /\ u[n + 1] = ">"
    BY <1>1, <1>2, <1>6, StartIs
  <2>2. n + 1 <= Len(t)
    <3>1. n + 1 # Len(t) + 1
      BY <1>4, <1>5, <2>1
    <3>2. QED
      BY <1>4, <2>1, <3>1
  <2>3. (\A i \in 1 .. n : t[i] = "/") /\ t[n + 1] = ">"
    BY <1>4, <2>1, <2>2
  <2>4. QED
    BY <1>1, <1>2, <2>2, <2>3, StartIs
<1>7. ASSUME StartsWith(t, Prompt(d)) PROVE StartsWith(u, Prompt(d))
  <2>1. n + 1 <= Len(t) /\ (\A i \in 1 .. n : t[i] = "/") /\ t[n + 1] = ">"
    BY <1>1, <1>2, <1>7, StartIs
  <2>2. n + 1 <= Len(u) /\ (\A i \in 1 .. n : u[i] = "/") /\ u[n + 1] = ">"
    BY <1>4, <2>1
  <2>3. QED
    BY <1>1, <1>2, <2>2, StartIs
<1>8. QED
  BY <1>3, <1>6, <1>7

LEMMA TypedIs ==
  ASSUME ShellTypeOK, NEW c \in Consoles, Index(c) >= 0
  PROVE  /\ Typed(c) \in Seq(Keys)
         /\ Len(Typed(c)) <= Index(c) /\ Len(Typed(c)) <= Len(line[c])
         /\ Index(c) <= Len(line[c]) => Len(Typed(c)) = Index(c)
         /\ \A i \in 1 .. Len(Typed(c)) : Typed(c)[i] = line[c][i]
<1>1. PICK x \in Int : x = Index(c)
  BY Numbers
<1>2. PICK n \in Int : n = Len(line[c])
  BY Numbers
<1>3. PICK m \in Nat : m = Min({x, n}) /\ m <= x /\ m <= n /\ (x <= n => m = x)
  <2>1. n \in Nat /\ x >= 0
    BY <1>1, <1>2, Numbers
  <2>2. x <= n => Min({x, n}) = x
    BY <1>1, <1>2 DEF Min
  <2>3. ~ (x <= n) => Min({x, n}) = n
    BY <1>1, <1>2 DEF Min
  <2>4. CASE x <= n
    BY <2>1, <2>2, <2>4
  <2>5. CASE ~ (x <= n)
    BY <2>1, <2>3, <2>5
  <2>6. QED
    BY <2>4, <2>5
<1>4. Typed(c) = SubSeq(line[c], 1, m)
  BY <1>1, <1>2, <1>3 DEF Typed
<1>5. PICK l \in Seq(Keys) : l = line[c]
  BY Numbers
<1>6. m <= Len(l)
  BY <1>2, <1>3, <1>5
<1>7. SubSeq(l, 1, m) \in Seq(Keys) /\ Len(SubSeq(l, 1, m)) = m
      /\ \A i \in 1 .. m : SubSeq(l, 1, m)[i] = l[i]
  BY <1>6
<1>8. QED
  BY <1>1, <1>2, <1>3, <1>4, <1>5, <1>7

LEMMA TypeStep ==
  ASSUME ShellIInv, NEW c \in Consoles, NEW k \in Keys, Type(c, k)
  PROVE  ShellIInv' /\ Window
<1>1. CASE Astray(c)
  BY <1>1, AstrayStep DEF Type, Goes
<1>2. CASE /\ Index(c) >= 0
           /\ line' = [line EXCEPT ![c] = IF Index(c) > Len(@) THEN @
                                          ELSE Append(Typed(c), k)]
           /\ At(c, Putchar(Cursor(c), k))
           /\ UNCHANGED <<dir, path, game, pc, hist, mixed, fault>>
  <2>1. ShellTypeOK /\ HistoryFits /\ ConsoleFits(c)
    BY DEF ShellIInv
  <2>2. pc[c] = "key" /\ fault = "none" /\ Len(row[c]) < Limit(c)
    BY DEF Type, Goes
  <2>3. PICK s : s = Cursor(c)
    OBVIOUS
  <2>4. OnRow(s) /\ Below(s) /\ s.row = row[c] /\ s.y = y[c]
    BY <2>1, <2>3, CursorIs
  <2>5. PICK t : t = Putchar(s, k)
    OBVIOUS
  <2>6. /\ OnRow(t) /\ Keeps(s, t)
        /\ Len(s.row) + 1 < Width => t.row = Append(s.row, k)
        /\ Len(s.row) + 1 >= Width => t.row = <<>>
    BY <2>4, <2>5, PutcharIs DEF Cells
  <2>7. /\ row' \in [Consoles -> Seq(Cells)] /\ y' \in [Consoles -> 0 .. Height - 1 + MaxBelow]
        /\ \A x \in Consoles : Len(row'[x]) < Width
        /\ row'[c] = t.row /\ y'[c] = t.y
        /\ \A x \in Consoles \ {c} : row'[x] = row[x] /\ y'[x] = y[x]
    <3>1. Below(t) /\ At(c, t)
      BY <1>2, <2>3, <2>4, <2>5, <2>6, KeepsBelow
    <3>2. QED
      BY <2>1, <2>6, <3>1, AtIs
  <2>8. PICK l : l = IF Index(c) > Len(line[c]) THEN line[c] ELSE Append(Typed(c), k)
    OBVIOUS
  <2>9. line' = [line EXCEPT ![c] = l] /\ line \in [Consoles -> Seq(Keys)]
    BY <1>2, <2>1, <2>8 DEF ShellTypeOK
  <2>10. l \in Seq(Keys) /\ Len(l) < GameLimit
    <3>1. Typed(c) \in Seq(Keys) /\ Len(Typed(c)) <= Index(c)
      BY <1>2, <2>1, TypedIs
    <3>2. Append(Typed(c), k) \in Seq(Keys) /\ Len(Append(Typed(c), k)) = Len(Typed(c)) + 1
      BY <3>1
    <3>3. Len(Typed(c)) + 1 < GameLimit
      BY <2>1, <3>1, Numbers
    <3>4. QED
      BY <2>1, <2>8, <3>2, <3>3, Numbers
  <2>11. line' \in [Consoles -> Seq(Keys)] /\ line'[c] = l
         /\ \A x \in Consoles \ {c} : line'[x] = line[x]
    BY <2>9, <2>10
  <2>12. ShellTypeOK'
    <3>1. \A x \in Consoles : Len(line'[x]) < GameLimit
      BY <2>1, <2>10, <2>11 DEF ShellTypeOK
    <3>2. QED
      BY <1>2, <2>1, <2>7, <2>11, <3>1 DEF ShellTypeOK
  <2>13. HistoryFits'
    BY <1>2, <2>1 DEF HistoryFits, Recalls
  <2>14. FaultsAreKnown'
    BY <1>2, <2>2, NoFault
  <2>15. \A x \in Consoles \ {c} : Same(x) /\ Marked(x)
    BY <1>2, <2>7, <2>11 DEF Same, Marked
  <2>16. /\ dir'[c] = dir[c] /\ path'[c] = path[c] /\ game'[c] = game[c] /\ pc'[c] = "key"
         /\ mixed' = mixed /\ hist' = hist
    BY <1>2, <2>2
  <2>17. PICK r \in Seq(Cells) : r = row[c] /\ Len(r) < Width
    BY <2>1, Numbers
  <2>18. PICK u \in Seq(Cells) : /\ u = row'[c]
                                 /\ Len(r) + 1 < Width => u = Append(r, k)
                                 /\ Len(r) + 1 >= Width => u = <<>>
    BY <2>4, <2>6, <2>7, <2>17
  <2>19. k \in Cells /\ Len(r) \in Nat /\ Len(Append(r, k)) = Len(r) + 1
    BY <2>17 DEF Cells
  <2>20. RowFits(c)'
    <3>1. ASSUME ~ InGame(c) PROVE Len(u) <= EditLimit
      <4>1. Len(r) < EditLimit
        BY <2>2, <2>17, <3>1 DEF Limit
      <4>2. Len(r) + 1 < Width /\ Len(r) + 1 <= EditLimit
        BY <2>1, <2>19, <4>1, Numbers
      <4>3. QED
        BY <2>18, <2>19, <4>2
    <3>2. QED
      BY <2>16, <2>18, <3>1 DEF RowFits, Runs, InGame
  <2>21. RootStays(c)'
    <3>1. SUFFICES ASSUME dir[c] = 0, ~ InGame(c) PROVE StartsWith(u, Prompt(0))
      BY <2>16, <2>18 DEF RootStays, InGame
    <3>2. Len(r) < EditLimit
      BY <2>2, <2>17, <3>1 DEF Limit
    <3>3. u = Append(r, k)
      BY <2>1, <2>18, <2>19, <3>2, Numbers
    <3>4. StartsWith(r, Prompt(0))
      BY <2>1, <2>2, <2>17, <3>1 DEF ConsoleFits, Edits, RootStays
    <3>5. QED
      BY <2>17, <3>3, <3>4, StartStays
  <2>22. LineFollows(c)'
    <3>1. PICK d \in Nat : d = dir[c] /\ path[c] = 2 * d + 1
      BY <2>1, Numbers, PromptIs DEF ConsoleFits, Edits
    <3>2. SUFFICES ASSUME c \notin mixed, StartsWith(u, Prompt(d))
                   PROVE  /\ Index(c)' <= Len(l)
                          /\ \A i \in 1 .. Index(c)' : u[2 * d + 2 + i] = l[i]
      BY <2>11, <2>16, <2>18, <3>1 DEF LineFollows
    <3>3. 2 * d + 2 <= Len(u)
      BY <3>2, StartIs
    <3>4. u = Append(r, k)
      <4>1. Len(<<>>) = 0 /\ ~ (2 * d + 2 <= 0)
        OBVIOUS
      <4>2. u # <<>>
        BY <3>3, <4>1
      <4>3. QED
        BY <2>1, <2>18, <2>19, <4>2, Numbers
    <3>5. StartsWith(r, Prompt(d))
      BY <2>17, <3>2, <3>4, StartStays
    <3>6. PICK x \in Nat : x = Index(c) /\ Len(r) = x + 2 * d + 2
      <4>1. PICK x \in Int : x = Index(c) /\ x >= 0 /\ x = Len(r) - path[c] - 1
        BY <1>2, <2>1, <2>17, Numbers
      <4>2. Len(r) = x + 2 * d + 2
        <5>1. PICK n \in Nat : n = 2 * d
          BY <3>1
        <5>2. PICK e \in Nat : e = Len(r)
          BY <2>19
        <5>3. path[c] = n + 1
          BY <3>1, <5>1
        <5>4. x = e - (n + 1) - 1
          BY <4>1, <5>2, <5>3
        <5>5. QED
          BY <5>1, <5>2, <5>4
      <4>3. QED
        BY <4>1, <4>2
    <3>7. x <= Len(line[c]) /\ \A i \in 1 .. x : r[2 * d + 2 + i] = line[c][i]
      BY <2>1, <2>2, <2>17, <3>1, <3>2, <3>5, <3>6 DEF ConsoleFits, Edits, LineFollows
    <3>8. PICK w \in Seq(Keys) : w = Typed(c) /\ Len(w) = x /\ \A i \in 1 .. x : w[i] = line[c][i]
      BY <1>2, <2>1, <3>6, <3>7, TypedIs
    <3>9. l = Append(w, k)
      BY <2>1, <2>8, <3>6, <3>7, <3>8, Numbers
    <3>10. /\ Len(l) = x + 1 /\ l[x + 1] = k /\ \A i \in 1 .. x : l[i] = w[i]
      BY <3>8, <3>9
    <3>11. Len(u) = x + 1 + 2 * d + 2
      BY <2>19, <3>4, <3>6
    <3>12. Index(c)' = x + 1
      BY <2>16, <2>18, <3>1, <3>11 DEF Index
    <3>13. ASSUME NEW i \in 1 .. x + 1 PROVE u[2 * d + 2 + i] = l[i]
      <4>1. CASE i = x + 1
        <5>1. 2 * d + 2 + i = Len(r) + 1
          BY <3>6, <4>1
        <5>2. u[Len(r) + 1] = k
          BY <2>19, <3>4
        <5>3. QED
          BY <3>10, <4>1, <5>1, <5>2
      <4>2. CASE i \in 1 .. x
        <5>1. 2 * d + 2 + i \in 1 .. Len(r)
          BY <3>6, <4>2
        <5>2. u[2 * d + 2 + i] = r[2 * d + 2 + i]
          BY <2>19, <3>4, <5>1
        <5>3. QED
          BY <3>7, <3>8, <3>10, <4>2, <5>2
      <4>3. QED
        BY <4>1, <4>2
    <3>14. QED
      BY <3>10, <3>12, <3>13
  <2>23. ShownIsLast(c)'
    BY <2>16 DEF ShownIsLast
  <2>24. GameIsBeside(c)' /\ WindowOf(c)
    <3>1. Keeps(s, t) /\ s.y = y[c] /\ t.y = y'[c] /\ s.y \in Nat /\ t.y \in Nat /\ Height \in Nat
      BY <2>4, <2>6, <2>7, WidthAssumption DEF OnRow, Cursors
    <3>2. (y[c] >= Height <=> y'[c] >= Height) /\ ~ Leaves(c) /\ ~ Returns(c)
      BY <3>1 DEF Keeps, Leaves, Returns
    <3>3. QED
      BY <2>1, <2>2, <2>16, <3>2 DEF ConsoleFits, GameIsBeside, InGame, Recalls, Runs, WindowOf
  <2>25. ConsoleFits(c)'
    <3>1. (path[c] = PathLength(dir[c]))'
      BY <2>1, <2>16 DEF ConsoleFits, Edits
    <3>2. QED
      BY <2>20, <2>21, <2>22, <2>23, <2>24, <3>1 DEF ConsoleFits, Edits
  <2>26. QED
    BY <2>12, <2>13, <2>14, <2>15, <2>24, <2>25, StepOfOne
<1>3. QED
  BY <1>1, <1>2 DEF Type

LEMMA EraseStep ==
  ASSUME ShellIInv, NEW c \in Consoles, Erase(c)
  PROVE  ShellIInv' /\ Window
<1>1. ShellTypeOK /\ HistoryFits /\ ConsoleFits(c)
  BY DEF ShellIInv
<1>2. pc[c] = "key" /\ fault = "none" /\ Len(row[c]) > path[c] + 1
  BY DEF Erase, Goes
<1>3. PICK r \in Seq(Cells) : r = row[c] /\ Len(r) < Width /\ Len(r) \in Nat
  BY <1>1, Numbers
<1>4. PICK u : u = Front(r)
  OBVIOUS
<1>5. PICK x \in Int : x = Index(c) - 1 /\ x = Len(r) - path[c] - 2
  BY <1>1, <1>3, Numbers
<1>6. x \in Nat /\ Len(r) > 0 /\ path[c] \in Nat
  BY <1>1, <1>2, <1>3, <1>5, Numbers
<1>7. u \in Seq(Cells) /\ Len(u) = Len(r) - 1 /\ \A i \in 1 .. Len(u) : u[i] = r[i]
  BY <1>3, <1>4, <1>6 DEF Front
<1>8. PICK l : l = SubSeq(line[c], 1, Min({x, Len(line[c])}))
  OBVIOUS
<1>9. /\ l \in Seq(Keys) /\ Len(l) <= Len(line[c]) /\ (x <= Len(line[c]) => Len(l) = x)
      /\ \A i \in 1 .. Len(l) : l[i] = line[c][i]
  <2>1. PICK n \in Nat : n = Len(line[c])
    BY <1>1, Numbers
  <2>2. PICK m \in Nat : m = Min({x, n}) /\ m <= n /\ (x <= n => m = x)
    <3>1. x <= n => Min({x, n}) = x
      BY <1>6 DEF Min
    <3>2. ~ (x <= n) => Min({x, n}) = n
      BY <1>6 DEF Min
    <3>3. CASE x <= n
      BY <1>6, <3>1, <3>3
    <3>4. CASE ~ (x <= n)
      BY <3>2, <3>4
    <3>5. QED
      BY <3>3, <3>4
  <2>3. PICK e \in Seq(Keys) : e = line[c] /\ Len(e) = n
    BY <1>1, <2>1, Numbers
  <2>4. l = SubSeq(e, 1, m)
    BY <1>8, <2>1, <2>2, <2>3
  <2>5. /\ l \in Seq(Keys) /\ Len(l) = m /\ \A i \in 1 .. m : l[i] = e[i]
    <3>1. m <= Len(e)
      BY <2>2, <2>3
    <3>2. QED
      BY <2>4, <3>1
  <2>6. QED
    BY <2>1, <2>2, <2>3, <2>5
<1>10. row' = [row EXCEPT ![c] = u] /\ line' = [line EXCEPT ![c] = l]
  BY <1>3, <1>4, <1>5, <1>8 DEF Erase
<1>11. row \in [Consoles -> Seq(Cells)] /\ line \in [Consoles -> Seq(Keys)]
  BY <1>1 DEF ShellTypeOK
<1>12. /\ row' \in [Consoles -> Seq(Cells)] /\ line' \in [Consoles -> Seq(Keys)]
       /\ row'[c] = u /\ line'[c] = l
       /\ \A z \in Consoles \ {c} : row'[z] = row[z] /\ line'[z] = line[z]
  BY <1>7, <1>9, <1>10, <1>11
<1>13. UNCHANGED <<dir, y, path, game, pc, hist, mixed, fault>>
  BY DEF Erase
<1>14. ShellTypeOK'
  <2>1. \A z \in Consoles : Len(row'[z]) < Width /\ Len(line'[z]) < GameLimit
    <3>1. Len(u) < Width
      BY <1>1, <1>3, <1>7, Numbers
    <3>2. Len(l) < GameLimit
      BY <1>1, <1>9, Numbers
    <3>3. QED
      BY <1>1, <1>12, <3>1, <3>2 DEF ShellTypeOK
  <2>2. QED
    BY <1>1, <1>12, <1>13, <2>1 DEF ShellTypeOK
<1>15. HistoryFits' /\ FaultsAreKnown'
  BY <1>1, <1>2, <1>13, NoFault DEF HistoryFits, Recalls
<1>16. \A z \in Consoles \ {c} : Same(z) /\ Marked(z)
  BY <1>12, <1>13 DEF Same, Marked
<1>17. PICK d \in Nat : d = dir[c] /\ path[c] = 2 * d + 1
  BY <1>1, Numbers, PromptIs DEF ConsoleFits, Edits
<1>18. PICK n \in Nat : n = 2 * d + 1
  OBVIOUS
<1>19. 2 * d + 2 = n + 1 /\ path[c] = n /\ Len(r) = x + n + 2 /\ Len(u) = x + n + 1
  <2>1. 2 * d + 2 = n + 1 /\ path[c] = n
    BY <1>17, <1>18
  <2>2. PICK e \in Nat : e = Len(r)
    BY <1>3
  <2>3. x = e - n - 2 /\ Len(u) = e - 1
    BY <1>5, <1>7, <2>1, <2>2
  <2>4. e = x + n + 2 /\ Len(u) = x + n + 1
    BY <2>3
  <2>5. QED
    BY <2>1, <2>2, <2>4
<1>20. StartsWith(u, Prompt(d)) <=> StartsWith(r, Prompt(d))
  <2>1. n + 1 <= Len(u) /\ n + 1 <= Len(r)
    BY <1>6, <1>19
  <2>2. \A i \in 1 .. n + 1 : u[i] = r[i]
    BY <1>7, <2>1
  <2>3. Len(Prompt(d)) = n + 1
    BY <1>19, PromptIs
  <2>4. QED
    BY <2>1, <2>2, <2>3 DEF StartsWith
<1>21. RowFits(c)'
  <2>1. ~ InGame(c) => Len(u) <= EditLimit \/ Len(u) <= path[c] + 1
    <3>1. ~ InGame(c) => Len(r) <= EditLimit \/ Len(r) <= path[c] + 1
      BY <1>1, <1>2, <1>3 DEF ConsoleFits, Edits, RowFits
    <3>2. QED
      BY <1>1, <1>3, <1>6, <1>7, <3>1, Numbers
  <2>2. QED
    BY <1>2, <1>12, <1>13, <2>1 DEF RowFits, Runs, InGame
<1>22. RootStays(c)'
  <2>1. SUFFICES ASSUME d = 0, ~ InGame(c) PROVE StartsWith(u, Prompt(0))
    BY <1>12, <1>13, <1>17 DEF RootStays, InGame
  <2>2. StartsWith(r, Prompt(0))
    BY <1>1, <1>2, <1>3, <1>17, <2>1 DEF ConsoleFits, Edits, RootStays
  <2>3. QED
    BY <1>20, <2>1, <2>2
<1>23. LineFollows(c)'
  <2>1. SUFFICES ASSUME c \notin mixed, StartsWith(u, Prompt(d))
                 PROVE  /\ Index(c)' <= Len(l)
                        /\ \A i \in 1 .. Index(c)' : u[2 * d + 2 + i] = l[i]
    BY <1>12, <1>13, <1>17 DEF LineFollows
  <2>2. Index(c) = x + 1 /\ Index(c)' = x
    <3>1. Index(c)' = Len(u) - n - 1
      BY <1>12, <1>13, <1>19 DEF Index
    <3>2. Index(c) = Len(r) - n - 1
      BY <1>3, <1>19 DEF Index
    <3>3. QED
      BY <1>6, <1>19, <3>1, <3>2
  <2>3. x + 1 <= Len(line[c]) /\ \A i \in 1 .. x + 1 : r[2 * d + 2 + i] = line[c][i]
    BY <1>1, <1>2, <1>3, <1>17, <1>20, <2>1, <2>2 DEF ConsoleFits, Edits, LineFollows
  <2>4. Len(l) = x
    BY <1>1, <1>6, <1>9, <2>3, Numbers
  <2>5. ASSUME NEW i \in 1 .. x PROVE u[2 * d + 2 + i] = l[i]
    <3>1. PICK j \in Nat : j = 2 * d + 2 + i /\ j \in 1 .. Len(u)
      BY <1>6, <1>19, <2>5
    <3>2. u[j] = r[j]
      BY <1>7, <3>1
    <3>3. i \in 1 .. x + 1 /\ i \in 1 .. Len(l)
      BY <1>6, <2>4, <2>5
    <3>4. QED
      BY <1>9, <2>3, <3>1, <3>2, <3>3
  <2>6. QED
    BY <1>6, <2>2, <2>4, <2>5
<1>24. ShownIsLast(c)'
  BY <1>2, <1>13 DEF ShownIsLast
<1>25. GameIsBeside(c)' /\ WindowOf(c)
  <2>1. GameIsBeside(c)'
    BY <1>1, <1>13 DEF ConsoleFits, GameIsBeside, InGame, Recalls, Runs
  <2>2. ~ Leaves(c) /\ ~ Returns(c)
    BY <1>1, <1>13, Numbers DEF Leaves, Returns
  <2>3. QED
    BY <2>1, <2>2 DEF WindowOf
<1>26. ConsoleFits(c)'
  <2>1. (path[c] = PathLength(dir[c]))'
    BY <1>1, <1>13 DEF ConsoleFits, Edits
  <2>2. QED
    BY <1>21, <1>22, <1>23, <1>24, <1>25, <2>1 DEF ConsoleFits, Edits
<1>27. QED
  BY <1>14, <1>15, <1>16, <1>25, <1>26, StepOfOne

\* Consoles that recall a history that changes are marked.
LEMMA HistoryChanges ==
  ASSUME ShellTypeOK, NEW c \in Consoles, ~ Recalls(c)',
         \A x \in Consoles \ {c} : pc'[x] = pc[x], mixed' = mixed \cup Recalling,
         hist' \in Seq(Keys), Len(hist') <= EditLimit - 2
  PROVE  HistoryFits'
<1>1. ASSUME NEW x \in Consoles, Recalls(x)' PROVE x \in mixed'
  <2>1. x # c
    BY <1>1
  <2>2. Recalls(x)
    BY <1>1, <2>1 DEF Recalls
  <2>3. QED
    BY <2>2 DEF Recalls, Recalling
<1>2. (\A x \in Consoles : Recalls(x) /\ x \notin mixed => hist # NoEntry)'
  BY <1>1
<1>3. QED
  BY <1>2 DEF HistoryFits

LEMMA EnterStep ==
  ASSUME ShellIInv, NEW c \in Consoles, Enter(c)
  PROVE  ShellIInv' /\ Window
<1>1. CASE Astray(c)
  BY <1>1, AstrayStep DEF Enter, Goes
<1>2. CASE /\ Index(c) >= 0
           /\ line' = [line EXCEPT ![c] = Typed(c)]
           /\ At(c, Newline(Cursor(c)))
           /\ hist' = NoEntry
           /\ mixed' = mixed \cup Recalling
           /\ Then(c, IF Typed(c) = <<>> THEN "run" ELSE "note")
           /\ UNCHANGED <<dir, path, game, fault>>
  <2>1. ShellTypeOK /\ HistoryFits /\ ConsoleFits(c)
    BY DEF ShellIInv
  <2>2. pc[c] = "key" /\ fault = "none" /\ ~ InGame(c)
    BY DEF Enter, Goes
  <2>3. PICK s : s = Cursor(c)
    OBVIOUS
  <2>4. OnRow(s) /\ Below(s) /\ s.row = row[c] /\ s.y = y[c]
    BY <2>1, <2>3, CursorIs
  <2>5. PICK t : t = Newline(s)
    OBVIOUS
  <2>6. OnRow(t) /\ Keeps(s, t) /\ t.row = <<>>
    BY <2>4, <2>5, NewlineIs DEF OnRow
  <2>7. /\ row' \in [Consoles -> Seq(Cells)] /\ y' \in [Consoles -> 0 .. Height - 1 + MaxBelow]
        /\ \A x \in Consoles : Len(row'[x]) < Width
        /\ row'[c] = t.row /\ y'[c] = t.y
        /\ \A x \in Consoles \ {c} : row'[x] = row[x] /\ y'[x] = y[x]
    <3>1. Below(t) /\ At(c, t)
      BY <1>2, <2>3, <2>4, <2>5, <2>6, KeepsBelow
    <3>2. QED
      BY <2>1, <2>6, <3>1, AtIs
  <2>8. PICK l : l = Typed(c)
    OBVIOUS
  <2>9. l \in Seq(Keys) /\ Len(l) <= Index(c) /\ Len(l) < GameLimit
    BY <1>2, <2>1, <2>8, TypedIs, Numbers
  <2>10. PICK n \in {"run", "note"} : n = IF l = <<>> THEN "run" ELSE "note"
    OBVIOUS
  <2>11. line' = [line EXCEPT ![c] = l] /\ pc' = [pc EXCEPT ![c] = n]
    BY <1>2, <2>8, <2>10 DEF Then
  <2>12. /\ line \in [Consoles -> Seq(Keys)]
         /\ pc \in [Consoles -> {"key", "note", "run", "show", "copy"}]
    BY <2>1 DEF ShellTypeOK
  <2>13. /\ line' \in [Consoles -> Seq(Keys)] /\ line'[c] = l
         /\ pc' \in [Consoles -> {"key", "note", "run", "show", "copy"}] /\ pc'[c] = n
         /\ \A x \in Consoles \ {c} : line'[x] = line[x] /\ pc'[x] = pc[x]
    BY <2>9, <2>11, <2>12
  <2>14. hist' = <<>> /\ hist' \in Seq(Keys) /\ Len(hist') = 0
    BY <1>2 DEF NoEntry
  <2>15. ShellTypeOK'
    <3>1. \A x \in Consoles : Len(line'[x]) < GameLimit
      BY <2>1, <2>9, <2>13 DEF ShellTypeOK
    <3>2. mixed' \subseteq Consoles
      BY <1>2, <2>1 DEF ShellTypeOK, Recalling
    <3>3. QED
      BY <1>2, <2>1, <2>7, <2>13, <2>14, <3>1, <3>2 DEF ShellTypeOK
  <2>16. HistoryFits'
    <3>1. ~ Recalls(c)'
      BY <2>10, <2>13 DEF Recalls
    <3>2. Len(hist') <= EditLimit - 2
      BY <2>14, WidthAssumption
    <3>3. QED
      BY <1>2, <2>1, <2>13, <2>14, <3>1, <3>2, HistoryChanges
  <2>17. FaultsAreKnown'
    BY <1>2, <2>2, NoFault
  <2>18. \A x \in Consoles \ {c} : Same(x) /\ Marked(x)
    BY <1>2, <2>7, <2>13 DEF Same, Marked
  <2>19. RowFits(c)'
    <3>1. l # <<>> => Len(l) <= EditLimit - 2
      <4>1. SUFFICES ASSUME l # <<>> PROVE Len(l) <= EditLimit - 2
        OBVIOUS
      <4>2. Len(l) \in Nat /\ Len(l) > 0
        BY <2>9, <4>1
      <4>3. PICK e \in Nat : e = Len(row[c]) /\ Index(c) = e - path[c] - 1
        BY <2>1, Numbers
      <4>4. path[c] \in Nat /\ path[c] >= 1
        <5>1. PICK d \in Nat : d = dir[c] /\ path[c] = 2 * d + 1
          BY <2>1, Numbers, PromptIs DEF ConsoleFits, Edits
        <5>2. QED
          BY <5>1
      <4>5. e > path[c] + 1
        BY <2>9, <4>2, <4>3, <4>4
      <4>6. e <= EditLimit
        BY <2>1, <2>2, <4>3, <4>4, <4>5 DEF ConsoleFits, Edits, RowFits
      <4>7. QED
        BY <2>9, <4>2, <4>3, <4>4, <4>6, WidthAssumption
    <3>2. pc'[c] \in {"run", "note"} /\ (pc'[c] = "note" => l # <<>>)
      BY <2>10, <2>13
    <3>3. row'[c] = <<>> /\ line'[c] = l
      BY <2>6, <2>7, <2>13
    <3>4. QED
      BY <3>1, <3>2, <3>3 DEF RowFits
  <2>20. RootStays(c)' /\ LineFollows(c)' /\ ShownIsLast(c)'
    <3>1. pc'[c] \notin {"key", "show", "copy"}
      BY <2>10, <2>13
    <3>2. QED
      BY <3>1 DEF RootStays, LineFollows, ShownIsLast
  <2>21. GameIsBeside(c)' /\ WindowOf(c)
    <3>1. Keeps(s, t) /\ s.y = y[c] /\ t.y = y'[c] /\ s.y \in Nat /\ t.y \in Nat /\ Height \in Nat
      BY <2>4, <2>6, <2>7, WidthAssumption DEF OnRow, Cursors
    <3>2. ~ Leaves(c) /\ ~ Returns(c)
      BY <3>1 DEF Keeps, Leaves, Returns
    <3>3. QED
      BY <1>2, <2>2, <3>2 DEF GameIsBeside, InGame, WindowOf
  <2>22. ConsoleFits(c)'
    <3>1. (path[c] = PathLength(dir[c]))'
      BY <1>2, <2>1 DEF ConsoleFits, Edits
    <3>2. QED
      BY <2>19, <2>20, <2>21, <3>1 DEF ConsoleFits, Edits
  <2>23. QED
    BY <2>15, <2>16, <2>17, <2>18, <2>21, <2>22, StepOfOne
<1>3. QED
  BY <1>1, <1>2 DEF Enter

LEMMA NoteStep ==
  ASSUME ShellIInv, NEW c \in Consoles, Note(c)
  PROVE  ShellIInv' /\ Window
<1>1. ShellTypeOK /\ HistoryFits /\ ConsoleFits(c)
  BY DEF ShellIInv
<1>2. pc[c] = "note" /\ fault = "none"
  BY DEF Note, Goes
<1>3. /\ hist' = line[c] /\ mixed' = mixed \cup Recalling /\ pc' = [pc EXCEPT ![c] = "run"]
      /\ UNCHANGED <<dir, row, y, line, path, game, fault>>
  BY DEF Note, Then
<1>4. line[c] \in Seq(Keys) /\ Len(line[c]) <= EditLimit - 2 /\ row[c] = <<>>
  BY <1>1, <1>2, Numbers DEF ConsoleFits, Edits, RowFits, Runs
<1>5. pc \in [Consoles -> {"key", "note", "run", "show", "copy"}]
  BY <1>1 DEF ShellTypeOK
<1>6. /\ pc' \in [Consoles -> {"key", "note", "run", "show", "copy"}] /\ pc'[c] = "run"
      /\ \A x \in Consoles \ {c} : pc'[x] = pc[x]
  BY <1>3, <1>5
<1>7. ShellTypeOK'
  <2>1. mixed' \subseteq Consoles
    BY <1>1, <1>3 DEF ShellTypeOK, Recalling
  <2>2. QED
    BY <1>1, <1>3, <1>4, <1>6, <2>1 DEF ShellTypeOK
<1>8. HistoryFits'
  <2>1. ~ Recalls(c)'
    BY <1>6 DEF Recalls
  <2>2. QED
    BY <1>1, <1>3, <1>4, <1>6, <2>1, HistoryChanges
<1>9. FaultsAreKnown'
  BY <1>2, <1>3, NoFault
<1>10. \A x \in Consoles \ {c} : Same(x) /\ Marked(x)
  BY <1>3, <1>6 DEF Same, Marked
<1>11. ConsoleFits(c)'
  <2>1. (path[c] = PathLength(dir[c]))'
    BY <1>1, <1>3 DEF ConsoleFits, Edits
  <2>2. RowFits(c)' /\ RootStays(c)' /\ LineFollows(c)' /\ ShownIsLast(c)'
    BY <1>3, <1>4, <1>6 DEF RowFits, RootStays, LineFollows, ShownIsLast
  <2>3. GameIsBeside(c)'
    BY <1>1, <1>2, <1>3 DEF ConsoleFits, GameIsBeside, InGame, Runs
  <2>4. QED
    BY <2>1, <2>2, <2>3 DEF ConsoleFits, Edits
<1>12. WindowOf(c)
  BY <1>1, <1>3, Numbers DEF WindowOf, Leaves, Returns
<1>13. QED
  BY <1>7, <1>8, <1>9, <1>10, <1>11, <1>12, StepOfOne

-----------------------------------------------------------------------------
(* The arrow keys. *)

LEMMA RecallStep ==
  ASSUME ShellIInv, NEW c \in Consoles, Recall(c)
  PROVE  ShellIInv' /\ Window
<1>1. ShellTypeOK /\ HistoryFits /\ ConsoleFits(c)
  BY DEF ShellIInv
<1>2. pc[c] = "key" /\ fault = "none" /\ ~ InGame(c) /\ hist # NoEntry
  BY DEF Recall, Goes
<1>3. PICK r \in Seq(Cells) : r = row[c] /\ Len(r) < Width /\ Len(r) \in Nat
  BY <1>1, Numbers
<1>4. PICK m \in Nat : m = (IF Len(r) > 2 THEN 2 ELSE Len(r)) /\ m <= Len(r) /\ m <= 2
                       /\ (Len(r) >= 2 => m = 2)
  BY <1>3
<1>5. PICK u : u = SubSeq(r, 1, m)
  OBVIOUS
<1>6. u \in Seq(Cells) /\ Len(u) = m /\ \A i \in 1 .. m : u[i] = r[i]
  BY <1>3, <1>4, <1>5
<1>7. row' = [row EXCEPT ![c] = u] /\ pc' = [pc EXCEPT ![c] = "show"]
  BY <1>3, <1>4, <1>5 DEF Recall, Then
<1>8. row \in [Consoles -> Seq(Cells)] /\ pc \in [Consoles -> {"key", "note", "run", "show", "copy"}]
  BY <1>1 DEF ShellTypeOK
<1>9. /\ row' \in [Consoles -> Seq(Cells)] /\ row'[c] = u
      /\ pc' \in [Consoles -> {"key", "note", "run", "show", "copy"}] /\ pc'[c] = "show"
      /\ \A x \in Consoles \ {c} : row'[x] = row[x] /\ pc'[x] = pc[x]
  BY <1>6, <1>7, <1>8
<1>10. UNCHANGED <<dir, y, line, path, game, hist, mixed, fault>>
  BY DEF Recall
<1>11. ShellTypeOK'
  <2>1. Len(u) < Width
    BY <1>4, <1>6, WidthAssumption
  <2>2. \A x \in Consoles : Len(row'[x]) < Width
    BY <1>1, <1>9, <2>1 DEF ShellTypeOK
  <2>3. QED
    BY <1>1, <1>9, <1>10, <2>2 DEF ShellTypeOK
<1>12. HistoryFits' /\ FaultsAreKnown'
  <2>1. \A x \in Consoles \ {c} : Recalls(x)' <=> Recalls(x)
    BY <1>9 DEF Recalls
  <2>2. (\A x \in Consoles : Recalls(x) /\ x \notin mixed => hist # NoEntry)'
    BY <1>1, <1>2, <1>10, <2>1 DEF HistoryFits
  <2>3. QED
    BY <1>1, <1>2, <1>10, <2>2, NoFault DEF HistoryFits
<1>13. \A x \in Consoles \ {c} : Same(x) /\ Marked(x)
  BY <1>9, <1>10 DEF Same, Marked
<1>14. ConsoleFits(c)'
  <2>1. (path[c] = PathLength(dir[c]))'
    BY <1>1, <1>10 DEF ConsoleFits, Edits
  <2>2. RowFits(c)'
    BY <1>4, <1>6, <1>9 DEF RowFits, Runs
  <2>3. RootStays(c)'
    <3>1. SUFFICES ASSUME dir[c] = 0 PROVE StartsWith(u, Prompt(0))
      BY <1>9, <1>10 DEF RootStays
    <3>2. StartsWith(r, Prompt(0))
      BY <1>1, <1>2, <1>3, <3>1 DEF ConsoleFits, Edits, RootStays
    <3>3. Len(Prompt(0)) = 2
      <4>1. 0 \in Nat /\ 2 * 0 + 2 = 2
        OBVIOUS
      <4>2. QED
        BY <4>1, PromptIs
    <3>4. QED
      BY <1>4, <1>6, <3>2, <3>3 DEF StartsWith
  <2>4. LineFollows(c)' /\ ShownIsLast(c)'
    BY <1>9 DEF LineFollows, ShownIsLast
  <2>5. GameIsBeside(c)'
    BY <1>2, <1>10 DEF GameIsBeside, InGame
  <2>6. QED
    BY <2>1, <2>2, <2>3, <2>4, <2>5 DEF ConsoleFits, Edits
<1>15. WindowOf(c)
  BY <1>1, <1>10, Numbers DEF WindowOf, Leaves, Returns
<1>16. QED
  BY <1>11, <1>12, <1>13, <1>14, <1>15, StepOfOne

\* The history stays what it is, and no console begins to recall it.
LEMMA HistoryStays ==
  ASSUME HistoryFits, hist' = hist, \A x \in Consoles : x \notin mixed' => x \notin mixed \/ ~ Recalls(x)',
         \A x \in Consoles : Recalls(x)' => Recalls(x)
  PROVE  HistoryFits'
<1>1. (\A x \in Consoles : Recalls(x) /\ x \notin mixed => hist # NoEntry)'
  BY DEF HistoryFits
<1>2. QED
  BY <1>1 DEF HistoryFits

LEMMA ShowStep ==
  ASSUME ShellIInv, NEW c \in Consoles, Show(c)
  PROVE  ShellIInv' /\ Window
<1>1. CASE Dangling(c)
  BY <1>1, DanglingStep DEF Show, Goes, Recalls
<1>2. CASE /\ hist \notin {NoHistory, NoEntry}
           /\ At(c, Putstr(Cursor(c), hist))
           /\ Then(c, "copy")
           /\ UNCHANGED <<dir, line, path, game, hist, mixed, fault>>
  <2>1. ShellTypeOK /\ HistoryFits /\ ConsoleFits(c)
    BY DEF ShellIInv
  <2>2. pc[c] = "show" /\ fault = "none"
    BY DEF Show, Goes
  <2>3. ~ InGame(c)
    BY <2>1, <2>2 DEF ConsoleFits, GameIsBeside, Recalls
  <2>4. PICK h \in Seq(Keys) : h = hist /\ Len(h) <= EditLimit - 2 /\ Len(h) \in Nat
    BY <1>2, <2>1 DEF ShellTypeOK, HistoryFits
  <2>5. h \in Seq(Cells)
    BY <2>4 DEF Cells
  <2>6. PICK s : s = Cursor(c)
    OBVIOUS
  <2>7. OnRow(s) /\ Below(s) /\ s.row = row[c] /\ s.y = y[c]
    BY <2>1, <2>6, CursorIs
  <2>8. Len(s.row) <= 2 /\ Len(s.row) \in Nat /\ s.row \in Seq(Cells)
    BY <2>1, <2>2, <2>7, Numbers DEF ConsoleFits, Edits, RowFits
  <2>9. PICK t : t = Putstr(s, h)
    OBVIOUS
  <2>10. /\ OnRow(t) /\ Keeps(s, t)
         /\ Len(s.row) + Len(h) < Width => Follows(s, h, Len(h), t)
    BY <2>5, <2>7, <2>9, PutstrIs
  <2>11. Follows(s, h, Len(h), t)
    BY <2>4, <2>8, <2>10, WidthAssumption
  <2>12. /\ row' \in [Consoles -> Seq(Cells)] /\ y' \in [Consoles -> 0 .. Height - 1 + MaxBelow]
         /\ \A x \in Consoles : Len(row'[x]) < Width
         /\ row'[c] = t.row /\ y'[c] = t.y
         /\ \A x \in Consoles \ {c} : row'[x] = row[x] /\ y'[x] = y[x]
    <3>1. Below(t) /\ At(c, t)
      BY <1>2, <2>4, <2>6, <2>7, <2>9, <2>10, KeepsBelow
    <3>2. QED
      BY <2>1, <2>10, <3>1, AtIs
  <2>13. /\ pc' \in [Consoles -> {"key", "note", "run", "show", "copy"}] /\ pc'[c] = "copy"
         /\ \A x \in Consoles \ {c} : pc'[x] = pc[x]
    BY <1>2, <2>1 DEF Then, ShellTypeOK
  <2>14. ShellTypeOK'
    BY <1>2, <2>1, <2>12, <2>13 DEF ShellTypeOK
  <2>15. HistoryFits'
    <3>1. \A x \in Consoles : Recalls(x)' => Recalls(x)
      BY <2>2, <2>13 DEF Recalls
    <3>2. QED
      BY <1>2, <2>1, <3>1, HistoryStays
  <2>16. FaultsAreKnown'
    BY <1>2, <2>2, NoFault
  <2>17. \A x \in Consoles \ {c} : Same(x) /\ Marked(x)
    BY <1>2, <2>12, <2>13 DEF Same, Marked
  <2>18. PICK w \in Nat : w = Len(s.row) /\ w <= 2
    BY <2>8
  <2>19. PICK u \in Seq(Cells) : u = row'[c] /\ u = t.row /\ Len(u) \in Nat
    BY <2>12
  <2>20. /\ Len(u) = w + Len(h)
         /\ \A i \in 1 .. w : u[i] = row[c][i]
         /\ \A i \in 1 .. Len(h) : u[w + i] = h[i]
    BY <2>7, <2>11, <2>18, <2>19 DEF Follows
  <2>21. RowFits(c)'
    <3>1. Len(u) <= EditLimit
      BY <2>4, <2>18, <2>20, WidthAssumption
    <3>2. QED
      BY <2>13, <2>19, <3>1 DEF RowFits, Runs
  <2>22. RootStays(c)'
    <3>1. SUFFICES ASSUME dir[c] = 0 PROVE StartsWith(u, Prompt(0))
      BY <1>2, <2>13, <2>19 DEF RootStays
    <3>2. StartsWith(row[c], Prompt(0))
      BY <2>1, <2>2, <2>3, <3>1 DEF ConsoleFits, Edits, RootStays
    <3>3. Len(Prompt(0)) = 2
      <4>1. 0 \in Nat /\ 2 * 0 + 2 = 2
        OBVIOUS
      <4>2. QED
        BY <4>1, PromptIs
    <3>4. w = 2
      <4>1. 2 <= Len(row[c])
        BY <3>2, <3>3 DEF StartsWith
      <4>2. w = Len(row[c])
        BY <2>7, <2>18
      <4>3. 2 <= w
        BY <4>1, <4>2, Zenon
      <4>4. w <= 2
        BY <2>18, Zenon
      <4>5. QED
        BY <4>3, <4>4
    <3>5. Len(u) >= 2
      BY <2>4, <2>20, <3>4
    <3>6. QED
      BY <2>20, <3>2, <3>3, <3>4, <3>5 DEF StartsWith
  <2>23. ShownIsLast(c)'
    <3>1. /\ Len(h) <= Len(u) /\ Len(u) <= Len(h) + 2
          /\ \A i \in 1 .. Len(h) : u[Len(u) - Len(h) + i] = h[i]
      <4>1. Len(u) - Len(h) = w
        BY <2>4, <2>20
      <4>2. QED
        BY <2>4, <2>18, <2>20, <4>1
    <3>2. hist' = h
      BY <1>2, <2>4
    <3>3. QED
      BY <2>19, <3>1, <3>2 DEF ShownIsLast
  <2>24. LineFollows(c)'
    BY <2>13 DEF LineFollows
  <2>25. GameIsBeside(c)' /\ WindowOf(c)
    <3>1. Keeps(s, t) /\ s.y = y[c] /\ t.y = y'[c] /\ s.y \in Nat /\ t.y \in Nat /\ Height \in Nat
      BY <2>7, <2>10, <2>12, WidthAssumption DEF OnRow, Cursors
    <3>2. ~ Leaves(c) /\ ~ Returns(c)
      BY <3>1 DEF Keeps, Leaves, Returns
    <3>3. QED
      BY <1>2, <2>3, <3>2 DEF GameIsBeside, InGame, WindowOf
  <2>26. ConsoleFits(c)'
    <3>1. (path[c] = PathLength(dir[c]))'
      BY <1>2, <2>1 DEF ConsoleFits, Edits
    <3>2. QED
      BY <2>21, <2>22, <2>23, <2>24, <2>25, <3>1 DEF ConsoleFits, Edits
  <2>27. QED
    BY <2>14, <2>15, <2>16, <2>17, <2>25, <2>26, StepOfOne
<1>3. QED
  BY <1>1, <1>2 DEF Show

LEMMA CopyStep ==
  ASSUME ShellIInv, NEW c \in Consoles, Copy(c)
  PROVE  ShellIInv' /\ Window
<1>1. CASE Dangling(c)
  BY <1>1, DanglingStep DEF Copy, Goes, Recalls
<1>2. CASE /\ hist \notin {NoHistory, NoEntry}
           /\ line' = [line EXCEPT ![c] = hist]
           /\ Then(c, "key")
           /\ UNCHANGED <<dir, row, y, path, game, hist, mixed, fault>>
  <2>1. ShellTypeOK /\ HistoryFits /\ ConsoleFits(c)
    BY DEF ShellIInv
  <2>2. pc[c] = "copy" /\ fault = "none"
    BY DEF Copy, Goes
  <2>3. ~ InGame(c)
    BY <2>1, <2>2 DEF ConsoleFits, GameIsBeside, Recalls
  <2>4. PICK h \in Seq(Keys) : h = hist /\ Len(h) <= EditLimit - 2 /\ Len(h) \in Nat
    BY <1>2, <2>1 DEF ShellTypeOK, HistoryFits
  <2>5. /\ line' \in [Consoles -> Seq(Keys)] /\ line'[c] = h
        /\ pc' \in [Consoles -> {"key", "note", "run", "show", "copy"}] /\ pc'[c] = "key"
        /\ \A x \in Consoles \ {c} : line'[x] = line[x] /\ pc'[x] = pc[x]
    BY <1>2, <2>1, <2>4 DEF Then, ShellTypeOK
  <2>6. ShellTypeOK'
    <3>1. Len(h) < GameLimit
      BY <2>4, WidthAssumption
    <3>2. \A x \in Consoles : Len(line'[x]) < GameLimit
      BY <2>1, <2>5, <3>1 DEF ShellTypeOK
    <3>3. QED
      BY <1>2, <2>1, <2>5, <3>2 DEF ShellTypeOK
  <2>7. HistoryFits'
    <3>1. \A x \in Consoles : Recalls(x)' => Recalls(x)
      BY <2>5 DEF Recalls
    <3>2. QED
      BY <1>2, <2>1, <3>1, HistoryStays
  <2>8. FaultsAreKnown'
    BY <1>2, <2>2, NoFault
  <2>9. \A x \in Consoles \ {c} : Same(x) /\ Marked(x)
    BY <1>2, <2>5 DEF Same, Marked
  <2>10. PICK r \in Seq(Cells) : r = row[c] /\ Len(r) \in Nat
    BY <2>1, Numbers
  <2>11. RowFits(c)'
    <3>1. Len(r) <= EditLimit
      BY <2>1, <2>2, <2>10 DEF ConsoleFits, Edits, RowFits
    <3>2. QED
      BY <1>2, <2>5, <2>10, <3>1 DEF RowFits, Runs
  <2>12. RootStays(c)'
    BY <1>2, <2>1, <2>2, <2>3, <2>5 DEF ConsoleFits, Edits, RootStays, InGame
  <2>13. LineFollows(c)'
    <3>1. PICK d \in Nat : d = dir[c] /\ path[c] = 2 * d + 1
      BY <2>1, Numbers, PromptIs DEF ConsoleFits, Edits
    <3>2. SUFFICES ASSUME c \notin mixed, StartsWith(r, Prompt(d))
                   PROVE  /\ Index(c)' <= Len(h)
                          /\ \A i \in 1 .. Index(c)' : r[2 * d + 2 + i] = h[i]
      BY <1>2, <2>5, <2>10, <3>1 DEF LineFollows
    <3>3. /\ Len(h) <= Len(r) /\ Len(r) <= Len(h) + 2
          /\ \A i \in 1 .. Len(h) : r[Len(r) - Len(h) + i] = h[i]
      BY <2>1, <2>2, <2>4, <2>10, <3>2 DEF ConsoleFits, Edits, ShownIsLast
    <3>4. PICK w \in 0 .. 2 : Len(r) = w + Len(h)
      <4>1. Len(r) - Len(h) \in 0 .. 2 /\ Len(r) = (Len(r) - Len(h)) + Len(h)
        BY <2>4, <2>10, <3>3
      <4>2. QED
        BY <4>1
    <3>5. \A i \in 1 .. Len(h) : r[w + i] = h[i] /\ h[i] \in Keys
      BY <2>4, <3>3, <3>4
    <3>6. 2 * d + 2 <= Len(r) /\ (\A i \in 1 .. 2 * d + 1 : r[i] = "/") /\ r[2 * d + 2] = ">"
      BY <3>2, StartIs
    <3>7. ASSUME NEW i \in Nat, i > w, i <= Len(r) PROVE r[i] \in Keys
      <4>1. i - w \in 1 .. Len(h) /\ w + (i - w) = i
        BY <2>4, <3>4, <3>7
      <4>2. QED
        BY <3>5, <4>1
    <3>8. ~ (2 * d + 2 > w)
      <4>1. SUFFICES ASSUME 2 * d + 2 > w PROVE FALSE
        OBVIOUS
      <4>2. 2 * d + 2 \in Nat
        OBVIOUS
      <4>3. r[2 * d + 2] \in Keys
        BY <3>6, <3>7, <4>1, <4>2
      <4>4. QED
        BY <3>6, <4>3, KeysAssumption
    <3>9. d = 0 /\ w = 2
      BY <3>4, <3>8
    <3>10. Index(c)' = Len(h)
      <4>1. Index(c)' = Len(r) - path[c] - 1
        BY <1>2, <2>10 DEF Index
      <4>2. path[c] = 1
        BY <3>1, <3>9
      <4>3. QED
        BY <2>4, <3>4, <3>9, <4>1, <4>2
    <3>11. ASSUME NEW i \in 1 .. Len(h) PROVE r[2 * d + 2 + i] = h[i]
      <4>1. 2 * d + 2 + i = w + i
        BY <3>9
      <4>2. QED
        BY <3>5, <4>1
    <3>12. QED
      BY <2>4, <3>10, <3>11
  <2>14. ShownIsLast(c)'
    BY <2>5 DEF ShownIsLast
  <2>15. GameIsBeside(c)' /\ WindowOf(c)
    <3>1. ~ Leaves(c) /\ ~ Returns(c)
      BY <1>2, <2>1, Numbers DEF Leaves, Returns
    <3>2. QED
      BY <1>2, <2>3, <3>1 DEF GameIsBeside, InGame, WindowOf
  <2>16. ConsoleFits(c)'
    <3>1. (path[c] = PathLength(dir[c]))'
      BY <1>2, <2>1 DEF ConsoleFits, Edits
    <3>2. QED
      BY <2>11, <2>12, <2>13, <2>14, <2>15, <3>1 DEF ConsoleFits, Edits
  <2>17. QED
    BY <2>6, <2>7, <2>8, <2>9, <2>15, <2>16, StepOfOne
<1>3. QED
  BY <1>1, <1>2 DEF Copy

-----------------------------------------------------------------------------
(* The commands, each of which ends in a prompt. *)

\* The prompt of d is shown from s on, and s is in the window if the console's
\* cursor is, but for the end of a game and for cls.
ShowsPrompt(c, s, d) ==
    /\ OnRow(s) /\ Below(s) /\ s.row = <<>> /\ d \in 0 .. MaxDepth
    /\ Prompted(c, s, d)
    /\ dir' \in [Consoles -> 0 .. MaxDepth] /\ dir'[c] = d
    /\ game' \in [Consoles -> None .. Height - 1 + MaxBelow]
    /\ \A x \in Consoles \ {c} : dir'[x] = dir[x] /\ game'[x] = game[x]
    /\ fault = "none" /\ UNCHANGED <<hist, fault>>
    /\ game'[c] # None => (s.y >= Height <=> game'[c] >= Height)
    /\ y[c] < Height /\ s.y >= Height => game[c] # None /\ game'[c] = None
    /\ y[c] >= Height /\ s.y < Height => line[c] = ClsLine

LEMMA PromptedStep ==
  ASSUME ShellIInv, NEW c \in Consoles, NEW s, NEW d, ShowsPrompt(c, s, d)
  PROVE  ShellIInv' /\ Window
<1>1. ShellTypeOK /\ HistoryFits /\ ConsoleFits(c)
  BY DEF ShellIInv
<1>2. OnRow(s) /\ Below(s) /\ s.row = <<>> /\ d \in 0 .. MaxDepth /\ d \in Nat
  BY BoundAssumption DEF ShowsPrompt
<1>3. /\ At(c, Putstr(s, Prompt(d))) /\ path' = [path EXCEPT ![c] = PathLength(d)]
      /\ line' = [line EXCEPT ![c] = <<>>] /\ mixed' = mixed \ {c}
      /\ pc' = [pc EXCEPT ![c] = "key"]
  BY DEF ShowsPrompt, Prompted, Then
<1>4. /\ dir' \in [Consoles -> 0 .. MaxDepth] /\ dir'[c] = d
      /\ game' \in [Consoles -> None .. Height - 1 + MaxBelow]
      /\ \A x \in Consoles \ {c} : dir'[x] = dir[x] /\ game'[x] = game[x]
      /\ fault = "none" /\ UNCHANGED <<hist, fault>>
  BY DEF ShowsPrompt
<1>5. PICK n \in Nat : n = 2 * d + 1
  BY <1>2
<1>6. 2 * d + 2 = n + 1
  BY <1>2, <1>5
<1>7. /\ PathLength(d) = n /\ Prompt(d) \in Seq(Cells) /\ Len(Prompt(d)) = n + 1
  BY <1>2, <1>5, <1>6, PromptIs
<1>8. PICK t : t = Putstr(s, Prompt(d))
  OBVIOUS
<1>9. /\ OnRow(t) /\ Keeps(s, t)
      /\ Len(s.row) + Len(Prompt(d)) < Width => Follows(s, Prompt(d), Len(Prompt(d)), t)
  BY <1>2, <1>7, <1>8, PutstrIs
<1>10. Len(s.row) = 0 /\ Len(s.row) + Len(Prompt(d)) = n + 1
  BY <1>2, <1>7
<1>11. PICK u \in Seq(Cells) : u = t.row /\ Len(u) \in Nat /\ Len(u) < Width
  BY <1>9 DEF OnRow, Cursors
<1>12. n + 1 < Width => Len(u) = n + 1 /\ StartsWith(u, Prompt(d))
  <2>1. SUFFICES ASSUME n + 1 < Width PROVE Len(u) = n + 1 /\ StartsWith(u, Prompt(d))
    OBVIOUS
  <2>2. Follows(s, Prompt(d), n + 1, t)
    BY <1>7, <1>9, <1>10, <2>1
  <2>3. Len(u) = 0 + (n + 1) /\ \A i \in 1 .. n + 1 : u[0 + i] = Prompt(d)[i]
    BY <1>10, <1>11, <2>2 DEF Follows
  <2>4. \A i \in 1 .. n + 1 : 0 + i = i
    OBVIOUS
  <2>5. QED
    BY <1>7, <2>3, <2>4 DEF StartsWith
<1>13. Len(u) <= n + 1
  BY <1>11, <1>12, WidthAssumption
<1>14. /\ row' \in [Consoles -> Seq(Cells)] /\ y' \in [Consoles -> 0 .. Height - 1 + MaxBelow]
       /\ \A x \in Consoles : Len(row'[x]) < Width
       /\ row'[c] = u /\ y'[c] = t.y
       /\ \A x \in Consoles \ {c} : row'[x] = row[x] /\ y'[x] = y[x]
  <2>1. Below(t) /\ At(c, t)
    BY <1>2, <1>3, <1>8, <1>9, KeepsBelow
  <2>2. QED
    BY <1>1, <1>9, <1>11, <2>1, AtIs
<1>15. /\ line' \in [Consoles -> Seq(Keys)] /\ line'[c] = <<>>
       /\ path' \in [Consoles -> {PathLength(e) : e \in 0 .. MaxDepth}] /\ path'[c] = PathLength(d)
       /\ pc' \in [Consoles -> {"key", "note", "run", "show", "copy"}] /\ pc'[c] = "key"
       /\ \A x \in Consoles \ {c} : line'[x] = line[x] /\ path'[x] = path[x] /\ pc'[x] = pc[x]
  <2>1. /\ line \in [Consoles -> Seq(Keys)] /\ path \in [Consoles -> {PathLength(e) : e \in 0 .. MaxDepth}]
        /\ pc \in [Consoles -> {"key", "note", "run", "show", "copy"}]
    BY <1>1 DEF ShellTypeOK
  <2>2. <<>> \in Seq(Keys) /\ PathLength(d) \in {PathLength(e) : e \in 0 .. MaxDepth}
    BY <1>2
  <2>3. QED
    BY <1>3, <2>1, <2>2
<1>16. ShellTypeOK'
  <2>1. \A x \in Consoles : Len(line'[x]) < GameLimit
    <3>1. Len(<<>>) < GameLimit
      BY WidthAssumption
    <3>2. QED
      BY <1>1, <1>15, <3>1 DEF ShellTypeOK
  <2>2. mixed' \subseteq Consoles
    BY <1>1, <1>3 DEF ShellTypeOK
  <2>3. QED
    BY <1>1, <1>4, <1>14, <1>15, <2>1, <2>2 DEF ShellTypeOK
<1>17. HistoryFits'
  <2>1. ~ Recalls(c)'
    BY <1>15 DEF Recalls
  <2>2. \A x \in Consoles : Recalls(x)' => Recalls(x)
    BY <1>15 DEF Recalls
  <2>3. \A x \in Consoles : x \notin mixed' => x \notin mixed \/ ~ Recalls(x)'
    BY <1>3, <2>1
  <2>4. QED
    BY <1>1, <1>4, <2>2, <2>3, HistoryStays
<1>18. FaultsAreKnown'
  BY <1>4, NoFault
<1>19. \A x \in Consoles \ {c} : Same(x) /\ Marked(x)
  BY <1>3, <1>4, <1>14, <1>15 DEF Same, Marked
<1>20. (path[c] = PathLength(dir[c]))' /\ RowFits(c)'
  <2>1. Len(u) <= path'[c] + 1
    BY <1>7, <1>13, <1>15
  <2>2. QED
    BY <1>4, <1>14, <1>15, <2>1 DEF RowFits, Runs
<1>21. RootStays(c)'
  <2>1. SUFFICES ASSUME d = 0 PROVE StartsWith(u, Prompt(0))
    BY <1>4, <1>14 DEF RootStays
  <2>2. n + 1 < Width
    BY <1>5, <2>1, WidthAssumption
  <2>3. QED
    BY <1>12, <2>1, <2>2
<1>22. LineFollows(c)'
  <2>1. SUFFICES ASSUME StartsWith(u, Prompt(d))
                 PROVE  /\ Index(c)' <= Len(<<>>)
                        /\ \A i \in 1 .. Index(c)' : u[2 * d + 2 + i] = <<>>[i]
    BY <1>4, <1>14, <1>15 DEF LineFollows
  <2>2. n + 1 <= Len(u)
    BY <1>7, <2>1 DEF StartsWith
  <2>3. Index(c)' = Len(u) - n - 1
    BY <1>7, <1>14, <1>15 DEF Index
  <2>4. Index(c)' = 0
    BY <1>11, <1>13, <2>2, <2>3
  <2>5. QED
    BY <2>4
<1>23. ShownIsLast(c)'
  BY <1>15 DEF ShownIsLast
<1>24. GameIsBeside(c)' /\ WindowOf(c)
  <2>1. s.y \in Nat /\ t.y \in Nat /\ Height \in Nat /\ y[c] \in Nat
    BY <1>1, <1>2, <1>9, Numbers DEF OnRow, Cursors
  <2>2. s.y >= Height <=> y'[c] >= Height
    BY <1>9, <1>14, <2>1 DEF Keeps
  <2>3. y'[c] \in Nat /\ (y'[c] < Height <=> s.y < Height)
    BY <1>14, <2>1, <2>2
  <2>4. GameIsBeside(c)'
    BY <1>15, <2>2 DEF ShowsPrompt, GameIsBeside, InGame, Recalls, Runs
  <2>5. WindowOf(c)
    BY <2>2, <2>3 DEF ShowsPrompt, WindowOf, Leaves, Returns
  <2>6. QED
    BY <2>4, <2>5
<1>25. ConsoleFits(c)'
  BY <1>20, <1>21, <1>22, <1>23, <1>24 DEF ConsoleFits, Edits
<1>26. QED
  BY <1>16, <1>17, <1>18, <1>19, <1>24, <1>25, StepOfOne

\* A console that runs a line: its row is cleared and it is in no game.
LEMMA RunIs ==
  ASSUME ShellIInv, NEW c \in Consoles, Goes(c, "run")
  PROVE  /\ fault = "none" /\ game[c] = None /\ row[c] = <<>>
         /\ OnRow(Cursor(c)) /\ Below(Cursor(c)) /\ Cursor(c).row = <<>> /\ Cursor(c).y = y[c]
         /\ y[c] \in Nat /\ Height \in Nat /\ dir[c] \in 0 .. MaxDepth
         /\ dir \in [Consoles -> 0 .. MaxDepth] /\ game \in [Consoles -> None .. Height - 1 + MaxBelow]
<1>1. ShellTypeOK /\ ConsoleFits(c)
  BY DEF ShellIInv
<1>2. fault = "none" /\ pc[c] = "run"
  BY DEF Goes
<1>3. row[c] = <<>> /\ game[c] = None
  BY <1>1, <1>2 DEF ConsoleFits, Edits, RowFits, GameIsBeside, Runs, InGame
<1>4. QED
  BY <1>1, <1>2, <1>3, CursorIs, WidthAssumption, Numbers DEF ShellTypeOK

LEMMA RunCdStep ==
  ASSUME ShellIInv, NEW c \in Consoles, RunCd(c)
  PROVE  ShellIInv' /\ Window
<1>1. PICK d \in 0 .. MaxDepth : dir' = [dir EXCEPT ![c] = d] /\ Prompted(c, Cursor(c), d)
  BY DEF RunCd
<1>2. Goes(c, "run") /\ UNCHANGED <<game, hist, fault>>
  BY DEF RunCd
<1>3. ShowsPrompt(c, Cursor(c), d)
  BY <1>1, <1>2, RunIs DEF ShowsPrompt
<1>4. QED
  BY <1>3, PromptedStep

LEMMA RunClsStep ==
  ASSUME ShellIInv, NEW c \in Consoles, RunCls(c)
  PROVE  ShellIInv' /\ Window
<1>1. PICK s : s = [row |-> row[c], y |-> 0]
  OBVIOUS
<1>2. /\ Goes(c, "run") /\ line[c] = ClsLine /\ Prompted(c, s, dir[c])
      /\ UNCHANGED <<dir, game, hist, fault>>
  BY <1>1 DEF RunCls
<1>3. s.row = <<>> /\ s.y = 0 /\ row[c] = <<>> /\ row[c] \in Seq(Cells)
  BY <1>1, <1>2, RunIs, Numbers DEF ShellIInv
<1>4. OnRow(s) /\ Below(s)
  <2>1. s \in Cursors
    BY <1>1, <1>3 DEF Cursors
  <2>2. Len(s.row) = 0 /\ 0 < Width /\ 0 <= Height - 1 + MaxBelow
    BY <1>3, WidthAssumption, BoundAssumption
  <2>3. QED
    BY <1>3, <2>1, <2>2 DEF OnRow, Below
<1>5. ~ (s.y >= Height)
  BY <1>3, WidthAssumption
<1>6. ShowsPrompt(c, s, dir[c])
  BY <1>2, <1>3, <1>4, <1>5, RunIs DEF ShowsPrompt
<1>7. QED
  BY <1>6, PromptedStep

LEMMA RunOtherStep ==
  ASSUME ShellIInv, NEW c \in Consoles, RunOther(c)
  PROVE  ShellIInv' /\ Window
<1>1. PICK s : s = IF line[c] = <<>> THEN Cursor(c) ELSE Newline(Newline(Cursor(c)))
  OBVIOUS
<1>2. /\ Goes(c, "run") /\ Prompted(c, s, dir[c])
      /\ UNCHANGED <<dir, game, hist, fault>>
  BY <1>1 DEF RunOther
<1>3. PICK t : t = Cursor(c) /\ OnRow(t) /\ Below(t) /\ t.row = <<>> /\ t.y = y[c]
  BY <1>2, RunIs
<1>4. OnRow(s) /\ Below(s) /\ s.row = <<>> /\ (s.y >= Height <=> y[c] >= Height)
  <2>1. CASE line[c] = <<>>
    BY <1>1, <1>3, <2>1
  <2>2. CASE line[c] # <<>>
    <3>1. PICK u : u = Newline(t)
      OBVIOUS
    <3>2. OnRow(u) /\ Keeps(t, u)
      BY <1>3, <3>1, NewlineIs DEF OnRow
    <3>3. s = Newline(u)
      BY <1>1, <1>3, <2>2, <3>1
    <3>4. OnRow(s) /\ Keeps(u, s) /\ s.row = <<>>
      BY <3>2, <3>3, NewlineIs DEF OnRow
    <3>5. Below(u) /\ Below(s)
      BY <1>3, <3>2, <3>4, KeepsBelow
    <3>6. t.y \in Nat /\ u.y \in Nat /\ s.y \in Nat /\ Height \in Nat
      BY <1>3, <3>2, <3>4, WidthAssumption DEF OnRow, Cursors
    <3>7. s.y >= Height <=> t.y >= Height
      BY <3>2, <3>4, <3>6 DEF Keeps
    <3>8. QED
      BY <1>3, <3>4, <3>5, <3>7
  <2>3. QED
    BY <2>1, <2>2
<1>5. (y[c] < Height <=> ~ (y[c] >= Height)) /\ (s.y < Height <=> ~ (s.y >= Height))
  <2>1. y[c] \in Nat /\ s.y \in Nat /\ Height \in Nat
    BY <1>2, <1>4, RunIs DEF OnRow, Cursors
  <2>2. QED
    BY <2>1
<1>6. ShowsPrompt(c, s, dir[c])
  BY <1>2, <1>4, <1>5, RunIs DEF ShowsPrompt
<1>7. QED
  BY <1>6, PromptedStep

LEMMA RunStampStep ==
  ASSUME ShellIInv, NEW c \in Consoles, RunStamp(c)
  PROVE  ShellIInv' /\ Window
<1>1. PICK s : s = Newline(Cursor(c))
  OBVIOUS
<1>2. /\ Goes(c, "run") /\ Prompted(c, s, dir[c]) /\ game' = [game EXCEPT ![c] = s.y]
      /\ UNCHANGED <<dir, hist, fault>>
  BY <1>1 DEF RunStamp
<1>3. PICK t : t = Cursor(c) /\ OnRow(t) /\ Below(t) /\ t.y = y[c]
  BY <1>2, RunIs
<1>4. OnRow(s) /\ Keeps(t, s) /\ s.row = <<>>
  BY <1>1, <1>3, NewlineIs DEF OnRow
<1>5. Below(s)
  BY <1>3, <1>4, KeepsBelow
<1>6. s.y \in Nat /\ t.y \in Nat /\ Height \in Nat /\ MaxBelow \in Nat
  BY <1>3, <1>4, WidthAssumption, BoundAssumption DEF OnRow, Cursors
<1>7. (s.y >= Height <=> y[c] >= Height) /\ (y[c] < Height <=> ~ (y[c] >= Height))
      /\ (s.y < Height <=> ~ (s.y >= Height))
  BY <1>3, <1>4, <1>6 DEF Keeps
<1>8. s.y \in None .. Height - 1 + MaxBelow
  BY <1>5, <1>6 DEF None, Below
<1>9. game' \in [Consoles -> None .. Height - 1 + MaxBelow] /\ game'[c] = s.y
      /\ \A x \in Consoles \ {c} : game'[x] = game[x]
  BY <1>2, <1>8, RunIs
<1>10. ShowsPrompt(c, s, dir[c])
  BY <1>2, <1>4, <1>5, <1>7, <1>9, RunIs DEF ShowsPrompt
<1>11. QED
  BY <1>10, PromptedStep

LEMMA EndGameStep ==
  ASSUME ShellIInv, NEW c \in Consoles, EndGame(c)
  PROVE  ShellIInv' /\ Window
<1>1. CASE Astray(c)
  BY <1>1, AstrayStep DEF EndGame, Goes
<1>2. CASE /\ Index(c) >= 0
           /\ game[c] < Height - 1 + MaxBelow
           /\ game' = [game EXCEPT ![c] = None]
           /\ Prompted(c, Newline([row |-> <<>>, y |-> game[c] + 1]), dir[c])
           /\ UNCHANGED <<dir, hist, fault>>
  <2>1. ShellTypeOK /\ ConsoleFits(c)
    BY DEF ShellIInv
  <2>2. fault = "none" /\ InGame(c)
    BY DEF EndGame, Goes
  <2>3. PICK g \in Nat : g = game[c] /\ g < Height - 1 + MaxBelow
    <3>1. game[c] \in Int /\ game[c] >= -1 /\ game[c] # -1
      BY <2>1, <2>2, Numbers DEF InGame, None
    <3>2. QED
      BY <1>2, <3>1
  <2>4. PICK t : t = [row |-> <<>>, y |-> g + 1]
    OBVIOUS
  <2>5. t.row = <<>> /\ t.y = g + 1 /\ t.y \in Nat /\ t.row \in Seq(Cells)
    BY <2>4
  <2>6. OnRow(t) /\ Below(t)
    <3>1. t \in Cursors
      BY <2>4, <2>5 DEF Cursors
    <3>2. Len(t.row) = 0 /\ 0 < Width
      BY <2>5, WidthAssumption
    <3>3. t.y <= Height - 1 + MaxBelow
      BY <2>3, <2>5, WidthAssumption, BoundAssumption
    <3>4. QED
      BY <3>1, <3>2, <3>3 DEF OnRow, Below
  <2>7. PICK s : s = Newline(t)
    OBVIOUS
  <2>8. OnRow(s) /\ Keeps(t, s) /\ s.row = <<>>
    BY <2>6, <2>7, NewlineIs DEF OnRow
  <2>9. Below(s)
    BY <2>6, <2>8, KeepsBelow
  <2>10. game' \in [Consoles -> None .. Height - 1 + MaxBelow] /\ game'[c] = None
         /\ \A x \in Consoles \ {c} : game'[x] = game[x]
    <3>1. game \in [Consoles -> None .. Height - 1 + MaxBelow]
      BY <2>1 DEF ShellTypeOK
    <3>2. None \in None .. Height - 1 + MaxBelow
      BY WidthAssumption, BoundAssumption DEF None
    <3>3. QED
      BY <1>2, <3>1, <3>2
  <2>11. y[c] >= Height => ~ (s.y < Height)
    <3>1. y[c] >= Height => g >= Height
      BY <2>1, <2>2, <2>3 DEF ConsoleFits, GameIsBeside
    <3>2. s.y \in Nat /\ Height \in Nat
      BY <2>8, WidthAssumption DEF OnRow, Cursors
    <3>3. g >= Height => ~ (s.y < Height)
      BY <2>3, <2>5, <2>8, <3>2 DEF Keeps
    <3>4. QED
      BY <3>1, <3>3
  <2>12. dir \in [Consoles -> 0 .. MaxDepth] /\ dir[c] \in 0 .. MaxDepth
    BY <2>1 DEF ShellTypeOK
  <2>13. Prompted(c, s, dir[c])
    BY <1>2, <2>3, <2>4, <2>7
  <2>14. ShowsPrompt(c, s, dir[c])
    BY <1>2, <2>2, <2>8, <2>9, <2>10, <2>11, <2>12, <2>13 DEF ShowsPrompt, InGame
  <2>15. QED
    BY <2>14, PromptedStep
<1>3. QED
  BY <1>1, <1>2 DEF EndGame

-----------------------------------------------------------------------------
(* The theorems about the line editor. *)

LEMMA InitShellIInv == ShellInit => ShellIInv
<1> SUFFICES ASSUME ShellInit PROVE ShellIInv
  OBVIOUS
<1> USE DEF ShellInit
<1>1. 0 \in Nat /\ 2 * 0 + 1 = 1 /\ 2 * 0 + 2 = 2
  OBVIOUS
<1>2. PathLength(0) = 1 /\ Prompt(0) \in Seq(Cells) /\ Len(Prompt(0)) = 2
  BY <1>1, PromptIs
<1>3. 0 \in 0 .. MaxDepth /\ 0 \in 0 .. Height - 1 + MaxBelow /\ None \in None .. Height - 1 + MaxBelow
  BY WidthAssumption, BoundAssumption DEF None
<1>4. Len(<<>>) < GameLimit /\ 2 < Width /\ 2 <= EditLimit
  BY WidthAssumption
<1>5. ShellTypeOK
  <2>1. dir \in [Consoles -> 0 .. MaxDepth] /\ y \in [Consoles -> 0 .. Height - 1 + MaxBelow]
        /\ game \in [Consoles -> None .. Height - 1 + MaxBelow]
    BY <1>3
  <2>2. row \in [Consoles -> Seq(Cells)]
    BY <1>2
  <2>3. line \in [Consoles -> Seq(Keys)]
    OBVIOUS
  <2>4. ASSUME NEW c \in Consoles PROVE Len(row[c]) < Width /\ Len(line[c]) < GameLimit
    <3>1. row[c] = Prompt(0) /\ line[c] = <<>>
      OBVIOUS
    <3>2. QED
      BY <1>2, <1>4, <3>1
  <2>5. path \in [Consoles -> {PathLength(d) : d \in 0 .. MaxDepth}]
    BY <1>3
  <2>6. pc \in [Consoles -> {"key", "note", "run", "show", "copy"}]
    OBVIOUS
  <2>7. hist \in Seq(Keys) \cup {NoHistory} /\ mixed \subseteq Consoles
        /\ fault \in {"none", "stack", "pointer"}
    OBVIOUS
  <2>8. QED
    BY <2>1, <2>2, <2>3, <2>4, <2>5, <2>6, <2>7, Zenon DEF ShellTypeOK
<1>6. HistoryFits
  BY DEF HistoryFits, Recalls
<1>7. FaultsAreKnown
  BY DEF FaultsAreKnown
<1>8. ASSUME NEW c \in Consoles PROVE ConsoleFits(c)
  <2>1. RowFits(c)
    BY <1>2, <1>4 DEF RowFits, Runs
  <2>2. RootStays(c)
    <3>1. StartsWith(Prompt(0), Prompt(0))
      BY <1>2 DEF StartsWith
    <3>2. QED
      BY <3>1 DEF RootStays
  <2>3. LineFollows(c)
    <3>0. Len(row[c]) = 2 /\ path[c] = 1
      BY <1>2
    <3>1. Index(c) = 0
      <4>1. Len(row[c]) - path[c] - 1 = 2 - 1 - 1
        BY <3>0
      <4>2. QED
        BY <4>1 DEF Index
    <3>2. QED
      BY <3>1 DEF LineFollows
  <2>4. ShownIsLast(c) /\ GameIsBeside(c)
    BY DEF ShownIsLast, GameIsBeside, InGame
  <2>5. QED
    BY <2>1, <2>2, <2>3, <2>4 DEF ConsoleFits, Edits
<1>9. QED
  BY <1>5, <1>6, <1>7, <1>8 DEF ShellIInv

LEMMA NextShellIInv == ShellIInv /\ ShellNext => ShellIInv' /\ Window
<1> SUFFICES ASSUME ShellIInv, ShellNext PROVE ShellIInv' /\ Window
  OBVIOUS
<1>1. PICK c \in Consoles :
         \/ \E k \in Keys : Type(c, k)
         \/ Erase(c) \/ Enter(c) \/ Note(c)
         \/ RunCd(c) \/ RunCls(c) \/ RunOther(c) \/ RunStamp(c) \/ EndGame(c)
         \/ Recall(c) \/ Show(c) \/ Copy(c)
  BY DEF ShellNext
<1>2. CASE \E k \in Keys : Type(c, k)
  BY <1>2, TypeStep
<1>3. CASE Erase(c) \/ Enter(c) \/ Note(c)
  BY <1>3, EraseStep, EnterStep, NoteStep
<1>4. CASE RunCd(c) \/ RunCls(c) \/ RunOther(c) \/ RunStamp(c) \/ EndGame(c)
  BY <1>4, RunCdStep, RunClsStep, RunOtherStep, RunStampStep, EndGameStep
<1>5. CASE Recall(c) \/ Show(c) \/ Copy(c)
  BY <1>5, RecallStep, ShowStep, CopyStep
<1>6. QED
  BY <1>1, <1>2, <1>3, <1>4, <1>5

LEMMA IdleShellIInv == ShellIInv /\ UNCHANGED shellVars => ShellIInv'
<1> SUFFICES ASSUME ShellIInv, UNCHANGED shellVars PROVE ShellIInv'
  OBVIOUS
<1> USE DEF shellVars
<1>1. ShellTypeOK'
  BY DEF ShellIInv, ShellTypeOK
<1>2. HistoryFits'
  BY DEF ShellIInv, HistoryFits, Recalls
<1>3. FaultsAreKnown'
  BY DEF ShellIInv, FaultsAreKnown, Index, InGame
<1>4. \A x \in Consoles : Same(x) /\ Marked(x)
  BY DEF Same, Marked
<1>5. (\A x \in Consoles : ConsoleFits(x))'
  BY <1>4, OthersStay DEF ShellIInv
<1>6. QED
  BY <1>1, <1>2, <1>3, <1>5 DEF ShellIInv

LEMMA ShellInvariance == ShellSpec => []ShellIInv
<1>1. ShellInit => ShellIInv
  BY InitShellIInv
<1>2. ShellIInv /\ [ShellNext]_shellVars => ShellIInv'
  BY NextShellIInv, IdleShellIInv
<1>3. QED
  BY <1>1, <1>2, PTL DEF ShellSpec

LEMMA IInvShown == ShellIInv => LineIsShown
<1> SUFFICES ASSUME ShellIInv PROVE LineIsShown
  OBVIOUS
<1>1. ShellTypeOK
  BY DEF ShellIInv
<1>2. ASSUME NEW c \in Consoles, pc[c] = "key", c \notin mixed
      PROVE  /\ IsPrefix(Prompt(dir[c]), row[c]) => row[c] = Prompt(dir[c]) \o Typed(c)
             /\ dir[c] = 0 /\ ~ InGame(c) => IsPrefix(Prompt(0), row[c])
  <2>1. Edits(c)
    BY DEF ShellIInv, ConsoleFits
  <2>2. PICK d \in Nat : d = dir[c] /\ path[c] = 2 * d + 1
    BY <1>1, <2>1, Numbers, PromptIs DEF Edits
  <2>3. PICK n \in Nat : n = 2 * d + 1
    OBVIOUS
  <2>4. 2 * d + 2 = n + 1
    BY <2>3
  <2>5. PICK p0 \in Seq(Cells) : p0 = Prompt(d) /\ Len(p0) = n + 1
    BY <2>4, PromptIs
  <2>6. PICK r \in Seq(Cells) : r = row[c] /\ Len(r) \in Nat
    BY <1>1, Numbers
  <2>7. IsPrefix(p0, r) <=> StartsWith(r, p0)
    BY PrefixIs
  <2>8. ASSUME StartsWith(r, p0) PROVE r = p0 \o Typed(c)
    <3>1. n + 1 <= Len(r) /\ \A i \in 1 .. n + 1 : r[i] = p0[i]
      BY <2>5, <2>8 DEF StartsWith
    <3>2. PICK x \in Nat : x = Index(c) /\ Len(r) = (n + 1) + x
      <4>1. PICK e \in Nat : e = Len(r)
        BY <2>6
      <4>2. n + 1 <= e
        BY <3>1, <4>1
      <4>3. PICK x \in Nat : x = e - n - 1
        BY <4>2
      <4>4. e = (n + 1) + x
        BY <4>3
      <4>5. Len(row[c]) = e /\ path[c] = n
        BY <2>2, <2>3, <2>6, <4>1
      <4>6. x = Index(c)
        BY <4>3, <4>5 DEF Index
      <4>7. QED
        BY <4>1, <4>4, <4>6
    <3>3. x <= Len(line[c]) /\ \A i \in 1 .. x : r[2 * d + 2 + i] = line[c][i]
      BY <1>2, <2>1, <2>2, <2>5, <2>6, <2>8, <3>2 DEF Edits, LineFollows
    <3>4. PICK w \in Seq(Keys) : w = Typed(c) /\ Len(w) = x /\ \A i \in 1 .. x : w[i] = line[c][i]
      BY <1>1, <3>2, <3>3, TypedIs
    <3>5. \A i \in 1 .. x : r[(n + 1) + i] = w[i]
      BY <2>4, <3>3, <3>4
    <3>6. w \in Seq(Cells)
      BY <3>4 DEF Cells
    <3>7. r = p0 \o w
      <4>1. p0 \o w \in Seq(Cells) /\ Len(p0 \o w) = (n + 1) + x
        BY <2>5, <3>4, <3>6
      <4>2. ASSUME NEW i \in 1 .. (n + 1) + x PROVE r[i] = (p0 \o w)[i]
        <5>1. CASE i <= n + 1
          <6>1. i \in 1 .. n + 1 /\ r[i] = p0[i]
            BY <3>1, <5>1
          <6>2. (p0 \o w)[i] = p0[i]
            BY <2>5, <3>4, <3>6, <5>1
          <6>3. QED
            BY <6>1, <6>2
        <5>2. CASE ~ (i <= n + 1)
          <6>1. PICK z \in 1 .. x : i = (n + 1) + z
            BY <5>2
          <6>2. r[i] = w[z]
            BY <3>5, <6>1
          <6>3. (p0 \o w)[i] = w[z]
            BY <2>5, <3>4, <3>6, <6>1, <5>2
          <6>4. QED
            BY <6>2, <6>3
        <5>3. QED
          BY <5>1, <5>2
      <4>3. Len(r) = (n + 1) + x
        BY <3>2
      <4>4. PICK v \in Seq(Cells) : v = p0 \o w
        BY <4>1
      <4>5. Len(v) = Len(r) /\ \A i \in 1 .. Len(r) : r[i] = v[i]
        BY <4>1, <4>2, <4>3, <4>4
      <4>6. v = r
        BY <4>5
      <4>7. QED
        BY <4>4, <4>6
    <3>8. QED
      BY <3>4, <3>7
  <2>9. ASSUME dir[c] = 0, ~ InGame(c) PROVE IsPrefix(Prompt(0), row[c])
    <3>1. StartsWith(r, Prompt(0))
      BY <1>2, <2>1, <2>6, <2>9 DEF Edits, RootStays
    <3>2. QED
      BY <2>2, <2>5, <2>6, <2>7, <2>9, <3>1
  <2>10. QED
    BY <2>2, <2>5, <2>6, <2>7, <2>8, <2>9
<1>3. QED
  BY <1>1, <1>2 DEF LineIsShown

(* What the user sees behind the prompt is what Enter runs, whatever is     *)
(* typed, erased, recalled and run by any number of consoles that share     *)
(* the history, although the code finds the line by the cursor's column     *)
(* alone; in the root directory the prompt always stands.                   *)
THEOREM ShownIsRun == ShellSpec => []LineIsShown
  BY ShellInvariance, IInvShown, PTL

(* A console that stays in the root directory and in no game addresses      *)
(* nothing left of its line, and the history is followed into nothing only  *)
(* before the first Enter or when another console has pressed it in the     *)
(* middle of a recall.                                                      *)
THEOREM OnlyKnownFaults == ShellSpec => []FaultsAreKnown
<1>1. ShellIInv => FaultsAreKnown
  BY DEF ShellIInv
<1>2. QED
  BY <1>1, ShellInvariance, PTL

(* No step but the end of a game moves a cursor out of its window, whatever *)
(* the sizes of windows, prompts and lines; and only cls brings it back.    *)
THEOREM OnlyGamesLeave == ShellSpec => WindowLeftByGames
<1>1. ShellIInv /\ [ShellNext]_shellVars =>
        [\A c \in Consoles : /\ Leaves(c) => game[c] # None /\ game'[c] = None
                             /\ Returns(c) => line[c] = ClsLine]_shellVars
  BY NextShellIInv DEF Window, WindowOf
<1>2. QED
  BY <1>1, ShellInvariance, PTL DEF ShellSpec, WindowLeftByGames
=============================================================================
