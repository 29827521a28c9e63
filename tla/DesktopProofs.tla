----------------------------- MODULE DesktopProofs -----------------------------
(***************************************************************************)
(* Windows have owners that are there, nothing is freed twice, and only    *)
(* the PIN opens the desktop, for every number of windows and tasks.       *)
(***************************************************************************)
EXTENDS Desktop, SequenceTheorems, WellFoundedInduction, TLAPS

-----------------------------------------------------------------------------
(* The inductive invariant. *)

States == {"free", "prompt", "run", "wait", "openwin", "end", "start", "gone"}

\* The background at the bottom, the mouse on the top, no sheet twice.
IsStack(k) ==
    /\ k \in Seq(Sheet) /\ Len(k) >= 2
    /\ \A i, j \in 1 .. Len(k) : k[i] = k[j] => i = j
    /\ k[1] = Back /\ k[Len(k)] = Mouse
Contents(k) == {k[i] : i \in 1 .. Len(k)}
OnScreen == Contents(stack)

TypePart ==
    /\ kind \in [Sheet -> {"free", "used", "app", "console", "menu", "negated"}]
    /\ owner \in [Window -> Task \cup {NoTask}]
    /\ buffer \in [Window -> {0, ConsoleSize, LogSize}]
    /\ focus \in Sheet \cup {NoSheet}
    /\ state \in [Task -> States]
    /\ cons \in [Task -> Window \cup {NoSheet}]
    /\ fifo \in [Task -> Seq({"key", "close"})]
    /\ opening \in [Task -> Window \cup {NoSheet}]
    /\ fault \in {"none", "task", "index", "full", "focus", "again", "win",
                  "stale", "covered", "timer"}

Request == [what : {"console", "window"}, of : Window] \cup [what : {"task"}, of : Task]
AsksIn(m, what, x) == \E i \in 1 .. Len(m) : m[i] = [what |-> what, of |-> x]
Once(m) == \A i, j \in 1 .. Len(m) : m[i] = m[j] => i = j
\* The request for a window stands before that for the task that owns it.
WindowFirst(m, own) ==
    \A w \in Window : \A i, j \in 1 .. Len(m) :
        m[i] = [what |-> "window", of |-> w] /\ m[j] = [what |-> "task", of |-> own[w]] => i < j
Asks(what, x) == AsksIn(messages, what, x)

\* What is on the screen belongs to someone.
WindowPart ==
    /\ \A s \in Sheet : kind[s] \in {"app", "console"} => s \in Window
    /\ \A w \in Window :
        /\ kind[w] \in {"free", "used", "app", "console"}
        /\ kind[w] \in {"free", "used"} => w \notin OnScreen /\ owner[w] = NoTask
        /\ kind[w] = "app" => owner[w] \in Task /\ Working(owner[w]) /\ w \in OnScreen
        /\ kind[w] = "console" =>
              /\ owner[w] \in Task /\ state[owner[w]] # "free"
              /\ cons[owner[w]] = w \/ Asks("window", w)
              /\ buffer[w] \in {ConsoleSize, LogSize}

\* What a console has as its window, and from when on.
ConsPart ==
    /\ \A t \in Task : cons[t] # NoSheet =>
        /\ state[t] # "free"
        /\ \/ kind[cons[t]] = "console" /\ owner[cons[t]] = t
           \/ kind[cons[t]] = "used" /\ Unborn(t)
    /\ \A t, u \in Task : cons[t] = cons[u] /\ cons[t] # NoSheet => t = u

\* A sheet that is allocated and not yet shown.
OpeningPart ==
    /\ \A t \in Task :
        /\ state[t] \in {"start", "openwin"} <=> opening[t] # NoSheet
        /\ opening[t] # NoSheet => kind[opening[t]] = "used"
        /\ state[t] = "openwin" => \A u \in Task : cons[u] # opening[t]
        /\ state[t] = "start" =>
              /\ buffer[opening[t]] = ConsoleSize
              /\ \E u \in Task \ {t} : cons[u] = opening[t]
        /\ Unborn(t) => state[t] = "prompt"
    /\ \A t, u \in Task : opening[t] = opening[u] /\ opening[t] # NoSheet => t = u

\* The close button is pressed once, and takes the window off the screen.
HasClose(q) == \E i \in 1 .. Len(q) : q[i] = "close"
OneClose(q) == \A i, j \in 1 .. Len(q) : q[i] = "close" /\ q[j] = "close" => i = j
FifoPart ==
    \A t \in Task :
        /\ OneClose(fifo[t])
        /\ HasClose(fifo[t]) => cons[t] # NoSheet /\ cons[t] \notin OnScreen

\* What waits for task_a is about consoles that are as it was asked.
RequestPart ==
    /\ messages \in Seq(Request) /\ Once(messages) /\ WindowFirst(messages, owner)
    /\ \A w \in Window : Asks("console", w) =>
          \E t \in Task : cons[t] = w /\ state[t] = "gone"
    /\ \A w \in Window : Asks("window", w) =>
          kind[w] = "console" /\ w \notin OnScreen /\ cons[owner[w]] = NoSheet
    /\ \A t \in Task : Asks("task", t) => state[t] = "gone" /\ cons[t] = NoSheet

FocusPart == focus \in Window /\ kind[focus] \in {"app", "console"} => focus \in OnScreen

FaultPart ==
    /\ fault # "none" => focus = NoSheet
    /\ fault \notin {"none", "full", "stale", "timer"} => opened

\* Which flags of the PIN say what is shown.
LoginPart ==
    /\ shown \in Seq(BOOLEAN) /\ Len(shown) <= Cells
    /\ flag_mima \in [0 .. PinLength -> BOOLEAN]
    /\ wrong \in 0 .. 2 /\ opened \in BOOLEAN /\ timer4 \in BOOLEAN
    /\ \A p \in 0 .. PinLength - 1 :
          /\ p < Len(shown) => flag_mima[p] = shown[p + 1]
          /\ p > Len(shown) => ~ flag_mima[p]
    /\ flag_mima[PinLength] => Len(shown) <= PinLength

IInv ==
    /\ IsStack(stack) /\ TypePart /\ WindowPart /\ ConsPart /\ OpeningPart
    /\ FifoPart /\ RequestPart /\ FocusPart /\ FaultPart /\ LoginPart

-----------------------------------------------------------------------------
(* Sequences of sheets. *)

\* Every non-empty set of natural numbers has a least element.
LEMMA Least ==
  ASSUME NEW T, T \subseteq Nat, T # {}
  PROVE  \E x \in T : \A y \in T : x <= y
<1>1. DEFINE R == {ss \in Nat \X Nat : ss[1] < ss[2]}
<1>2. IsWellFoundedOn(R, Nat)
  BY NatLessThanWellFounded, Zenon DEF OpToRel
<1>3. HIDE DEF R
<1>4. PICK x \in T : \A y \in T : ~ (<<y, x>> \in R)
  BY <1>2, WFMin
<1>5. ASSUME NEW y \in T PROVE x <= y
  <2>1. x \in Nat /\ y \in Nat /\ ~ (<<y, x>> \in R)
    BY <1>4
  <2>2. ~ (y < x)
    BY <2>1 DEF R
  <2>3. QED
    BY <2>1, <2>2, SMT
<1>6. QED
  BY <1>5

\* One entry is removed: those after it move up by one.
LEMMA Removed ==
  ASSUME NEW t \in Seq(Sheet), NEW i \in 1 .. Len(t)
  PROVE  LET r == RemoveAt(t, i)
         IN  /\ r \in Seq(Sheet) /\ Len(r) = Len(t) - 1
             /\ \A j \in 1 .. Len(t) - 1 : j < i => r[j] = t[j]
             /\ \A j \in 1 .. Len(t) - 1 : j >= i => r[j] = t[j + 1]
<1>1. Len(t) \in Nat /\ i \in Int /\ i >= 1 /\ i <= Len(t) /\ \A j \in 1 .. Len(t) : t[j] \in Sheet
  OBVIOUS
<1>2. DEFINE s1 == SubSeq(t, 1, i - 1)
             s2 == SubSeq(t, i + 1, Len(t))
<1>3. \A j \in 1 .. i - 1 : t[j] \in Sheet
  BY <1>1
<1>4. s1 \in Seq(Sheet) /\ Len(s1) = i - 1 /\ \A j \in 1 .. i - 1 : s1[j] = t[j]
  <2>1. i - 1 \in Int /\ 1 \in Int
    BY <1>1
  <2>2. /\ s1 \in Seq(Sheet)
        /\ Len(s1) = IF 1 <= i - 1 THEN (i - 1) - 1 + 1 ELSE 0
        /\ \A j \in 1 .. (i - 1) - 1 + 1 : s1[j] = t[1 + j - 1]
    BY <2>1, <1>3, SubSeqProperties
  <2>3. \A j \in 1 .. i - 1 : s1[j] = t[j]
    <3>1. \A j \in 1 .. i - 1 : 1 + j - 1 = j /\ j \in 1 .. (i - 1) - 1 + 1
      BY <1>1
    <3>2. QED
      BY <3>1, <2>2
  <2>4. QED
    BY <2>2, <2>3, <1>1
<1>5. s2 \in Seq(Sheet) /\ Len(s2) = Len(t) - i /\ \A j \in 1 .. Len(t) - i : s2[j] = t[i + j]
  <2>1. i + 1 \in Int /\ Len(t) \in Int /\ \A j \in i + 1 .. Len(t) : t[j] \in Sheet
    BY <1>1
  <2>2. /\ s2 \in Seq(Sheet)
        /\ Len(s2) = IF i + 1 <= Len(t) THEN Len(t) - (i + 1) + 1 ELSE 0
        /\ \A j \in 1 .. Len(t) - (i + 1) + 1 : s2[j] = t[i + 1 + j - 1]
    BY <2>1, SubSeqProperties
  <2>3. \A j \in 1 .. Len(t) - i : s2[j] = t[i + j]
    <3>1. \A j \in 1 .. Len(t) - i : i + 1 + j - 1 = i + j /\ j \in 1 .. Len(t) - (i + 1) + 1
      BY <1>1
    <3>2. QED
      BY <3>1, <2>2
  <2>4. QED
    BY <2>2, <2>3, <1>1
<1>6. RemoveAt(t, i) = s1 \o s2
  BY DEF RemoveAt
<1>7. HIDE DEF s1, s2
<1>8. /\ s1 \o s2 \in Seq(Sheet)
      /\ Len(s1 \o s2) = Len(s1) + Len(s2)
      /\ \A j \in 1 .. Len(s1) + Len(s2) :
            (s1 \o s2)[j] = IF j <= Len(s1) THEN s1[j] ELSE s2[j - Len(s1)]
  BY <1>4, <1>5, ConcatProperties
<1>9. Len(s1) + Len(s2) = Len(t) - 1
  BY <1>1, <1>4, <1>5
<1>10. ASSUME NEW j \in 1 .. Len(t) - 1, j < i
       PROVE  (s1 \o s2)[j] = t[j]
  <2>1. j <= Len(s1) /\ j \in 1 .. Len(s1) + Len(s2) /\ j \in 1 .. i - 1
    BY <1>1, <1>4, <1>9, <1>10
  <2>2. QED
    BY <2>1, <1>4, <1>8
<1>11. ASSUME NEW j \in 1 .. Len(t) - 1, j >= i
       PROVE  (s1 \o s2)[j] = t[j + 1]
  <2>1. /\ ~ (j <= Len(s1)) /\ j \in 1 .. Len(s1) + Len(s2)
        /\ j - Len(s1) \in 1 .. Len(t) - i /\ i + (j - Len(s1)) = j + 1
    BY <1>1, <1>4, <1>9, <1>11
  <2>2. QED
    BY <2>1, <1>5, <1>8
<1>12. QED
  BY <1>6, <1>8, <1>9, <1>10, <1>11

\* One entry is inserted: those from its place on move down by one.
LEMMA Inserted ==
  ASSUME NEW t \in Seq(Sheet), NEW i \in 1 .. Len(t) + 1, NEW b \in Sheet
  PROVE  LET r == InsertAt(t, i, b)
         IN  /\ r \in Seq(Sheet) /\ Len(r) = Len(t) + 1
             /\ \A j \in 1 .. Len(t) + 1 : j < i => r[j] = t[j]
             /\ r[i] = b
             /\ \A j \in 1 .. Len(t) + 1 : j > i => r[j] = t[j - 1]
<1>1. Len(t) \in Nat /\ i \in Int /\ i >= 1 /\ i <= Len(t) + 1 /\ \A j \in 1 .. Len(t) : t[j] \in Sheet
  OBVIOUS
<1>2. DEFINE s1 == SubSeq(t, 1, i - 1)
             s2 == SubSeq(t, i, Len(t))
<1>4. s1 \in Seq(Sheet) /\ Len(s1) = i - 1 /\ \A j \in 1 .. i - 1 : s1[j] = t[j]
  <2>1. i - 1 \in Int /\ 1 \in Int /\ \A j \in 1 .. i - 1 : t[j] \in Sheet
    BY <1>1
  <2>2. /\ s1 \in Seq(Sheet)
        /\ Len(s1) = IF 1 <= i - 1 THEN (i - 1) - 1 + 1 ELSE 0
        /\ \A j \in 1 .. (i - 1) - 1 + 1 : s1[j] = t[1 + j - 1]
    BY <2>1, SubSeqProperties
  <2>3. \A j \in 1 .. i - 1 : s1[j] = t[j]
    <3>1. \A j \in 1 .. i - 1 : 1 + j - 1 = j /\ j \in 1 .. (i - 1) - 1 + 1
      BY <1>1
    <3>2. QED
      BY <3>1, <2>2
  <2>4. QED
    BY <2>2, <2>3, <1>1
<1>5. s2 \in Seq(Sheet) /\ Len(s2) = Len(t) - i + 1 /\ \A j \in 1 .. Len(t) - i + 1 : s2[j] = t[i + j - 1]
  <2>1. i \in Int /\ Len(t) \in Int /\ \A j \in i .. Len(t) : t[j] \in Sheet
    BY <1>1
  <2>2. /\ s2 \in Seq(Sheet)
        /\ Len(s2) = IF i <= Len(t) THEN Len(t) - i + 1 ELSE 0
        /\ \A j \in 1 .. Len(t) - i + 1 : s2[j] = t[i + j - 1]
    BY <2>1, SubSeqProperties
  <2>4. QED
    BY <2>2, <1>1
<1>6. InsertAt(t, i, b) = (s1 \o <<b>>) \o s2
  BY DEF InsertAt
<1>7. <<b>> \in Seq(Sheet) /\ Len(<<b>>) = 1 /\ <<b>>[1] = b
  OBVIOUS
<1>8. HIDE DEF s1, s2
<1>9. DEFINE m == s1 \o <<b>>
<1>10. /\ m \in Seq(Sheet) /\ Len(m) = i
       /\ \A j \in 1 .. i - 1 : m[j] = t[j]
       /\ m[i] = b
  <2>1. DEFINE e == <<b>>
  <2>2. e \in Seq(Sheet) /\ Len(e) = 1 /\ e[1] = b
    BY <1>7
  <2>3. HIDE DEF e
  <2>4. /\ s1 \o e \in Seq(Sheet)
        /\ Len(s1 \o e) = Len(s1) + Len(e)
        /\ \A j \in 1 .. Len(s1) + Len(e) :
              (s1 \o e)[j] = IF j <= Len(s1) THEN s1[j] ELSE e[j - Len(s1)]
    BY <1>4, <2>2, ConcatProperties
  <2>5. Len(s1) + Len(e) = i
    BY <1>1, <1>4, <2>2
  <2>6. ASSUME NEW j \in 1 .. i - 1 PROVE (s1 \o e)[j] = t[j]
    <3>1. j <= Len(s1) /\ j \in 1 .. Len(s1) + Len(e)
      BY <1>1, <1>4, <2>5, <2>6
    <3>2. QED
      BY <3>1, <2>4, <1>4
  <2>7. (s1 \o e)[i] = b
    <3>1. ~ (i <= Len(s1)) /\ i - Len(s1) = 1 /\ i \in 1 .. Len(s1) + Len(e)
      BY <1>1, <1>4, <2>5
    <3>2. QED
      BY <3>1, <2>2, <2>4
  <2>8. m = s1 \o e
    BY DEF e
  <2>9. QED
    BY <2>4, <2>5, <2>6, <2>7, <2>8
<1>11. HIDE DEF m
<1>12. /\ m \o s2 \in Seq(Sheet)
       /\ Len(m \o s2) = Len(m) + Len(s2)
       /\ \A j \in 1 .. Len(m) + Len(s2) :
             (m \o s2)[j] = IF j <= Len(m) THEN m[j] ELSE s2[j - Len(m)]
  BY <1>5, <1>10, ConcatProperties
<1>13. Len(m) + Len(s2) = Len(t) + 1
  BY <1>1, <1>5, <1>10
<1>14. ASSUME NEW j \in 1 .. Len(t) + 1, j <= i PROVE (m \o s2)[j] = m[j]
  BY <1>1, <1>10, <1>12, <1>13, <1>14
<1>15. ASSUME NEW j \in 1 .. Len(t) + 1, j > i PROVE (m \o s2)[j] = t[j - 1]
  <2>1. /\ ~ (j <= Len(m)) /\ j - Len(m) \in 1 .. Len(t) - i + 1
        /\ i + (j - Len(m)) - 1 = j - 1 /\ j \in 1 .. Len(m) + Len(s2)
    BY <1>1, <1>10, <1>13, <1>15
  <2>2. QED
    BY <2>1, <1>5, <1>12
<1>16. ASSUME NEW j \in 1 .. Len(t) + 1, j < i PROVE (m \o s2)[j] = t[j]
  <2>1. j \in 1 .. i - 1 /\ j <= i
    BY <1>1, <1>16
  <2>2. QED
    BY <2>1, <1>10, <1>14
<1>17. (m \o s2)[i] = b
  BY <1>1, <1>10, <1>14
<1>18. InsertAt(t, i, b) = m \o s2
  BY <1>6 DEF m
<1>19. QED
  BY <1>12, <1>13, <1>15, <1>16, <1>17, <1>18


-----------------------------------------------------------------------------
(* The stack. *)

LEMMA Sheets ==
  /\ Back \in Sheet /\ Mouse \in Sheet /\ Menu \in Sheet /\ Window \subseteq Sheet
  /\ Back # Mouse /\ Menu # Back /\ Menu # Mouse
  /\ Back \notin Window /\ Mouse \notin Window /\ Menu \notin Window
  /\ NoSheet \notin Sheet /\ NoSheet \notin Window
  /\ \A s \in Sheet : s \in Window \/ s = Back \/ s = Mouse \/ s = Menu
<1>1. NoSheet \notin Window
  BY SizesAssumption DEF Window, NoSheet
<1>2. QED
  BY <1>1, SheetsAssumption DEF Sheet

LEMMA Places ==
  ASSUME NEW k, IsStack(k)
  PROVE  /\ k \in Seq(Sheet) /\ Len(k) \in Nat /\ Len(k) >= 2 /\ DOMAIN k = 1 .. Len(k)
         /\ \A i \in 1 .. Len(k) : k[i] \in Sheet /\ k[i] \in Contents(k)
         /\ \A s : s \in Contents(k) <=> \E i \in 1 .. Len(k) : k[i] = s
         /\ Contents(k) \subseteq Sheet /\ Back \in Contents(k) /\ Mouse \in Contents(k)
         /\ \A i \in 1 .. Len(k) : (k[i] = Back => i = 1) /\ (k[i] = Mouse => i = Len(k))
<1>1. k \in Seq(Sheet) /\ Len(k) \in Nat /\ Len(k) >= 2 /\ DOMAIN k = 1 .. Len(k)
  BY DEF IsStack
<1>2. \A i \in 1 .. Len(k) : k[i] \in Sheet
  BY <1>1
<1>3. \A s : s \in Contents(k) <=> \E i \in 1 .. Len(k) : k[i] = s
  BY DEF Contents
<1>4. 1 \in 1 .. Len(k) /\ Len(k) \in 1 .. Len(k)
  BY <1>1
<1>5. \A i \in 1 .. Len(k) : (k[i] = Back => i = 1) /\ (k[i] = Mouse => i = Len(k))
  BY <1>4 DEF IsStack
<1>6. k[1] = Back /\ k[Len(k)] = Mouse
  BY DEF IsStack
<1>7. Back \in Contents(k) /\ Mouse \in Contents(k)
  BY <1>3, <1>4, <1>6
<1>8. Contents(k) \subseteq Sheet
  BY <1>2, <1>3
<1>9. \A i \in 1 .. Len(k) : k[i] \in Contents(k)
  BY <1>3
<1>10. QED
  BY <1>1, <1>2, <1>3, <1>5, <1>7, <1>8, <1>9

\* A sheet is taken out of a stack.
LEMMA Without ==
  ASSUME NEW k, IsStack(k), NEW s \in Sheet, s # Back, s # Mouse
  PROVE  LET r == RemoveFirst(k, s)
         IN  /\ IsStack(r) /\ s \notin Contents(r)
             /\ Contents(r) = Contents(k) \ {s}
             /\ s \in Contents(k) => Len(r) = Len(k) - 1
             /\ s \notin Contents(k) => r = k
<1>. DEFINE r == RemoveFirst(k, s)
<1>1. CASE s \notin Contents(k)
  <2>1. ~ \E i \in 1 .. Len(k) : k[i] = s
    BY <1>1, Places
  <2>2. r = k
    BY <2>1 DEF RemoveFirst
  <2>3. QED
    BY <2>2, <1>1
<1>2. CASE s \in Contents(k)
  <2>1. PICK i \in 1 .. Len(k) : k[i] = s
    BY <1>2, Places
  <2>2. {j \in 1 .. Len(k) : k[j] = s} = {i}
    BY <2>1 DEF IsStack
  <2>3. Min({i}) = i
    BY <2>1 DEF Min
  <2>4. SelectInSeq(k, LAMBDA v : v = s) = i
    BY <2>2, <2>3 DEF SelectInSeq
  <2>5. r = RemoveAt(k, i)
    BY <2>1, <2>4 DEF RemoveFirst
  <2>6. i \in Nat /\ i > 1 /\ i < Len(k)
    <3>1. i # 1 /\ i # Len(k)
      BY <2>1 DEF IsStack
    <3>2. QED
      BY <3>1, Places
  <2>7. /\ r \in Seq(Sheet) /\ Len(r) = Len(k) - 1
        /\ \A j \in 1 .. Len(k) - 1 : j < i => r[j] = k[j]
        /\ \A j \in 1 .. Len(k) - 1 : j >= i => r[j] = k[j + 1]
    BY <2>5, Places, Removed
  <2>8. HIDE DEF r
  <2>9. Len(k) \in Nat /\ Len(k) > 2
    BY <2>6, Places
  <2>10. r[1] = Back /\ r[Len(r)] = Mouse
    <3>1. 1 \in 1 .. Len(k) - 1 /\ 1 < i /\ Len(k) - 1 \in 1 .. Len(k) - 1 /\ Len(k) - 1 >= i
          /\ Len(k) - 1 + 1 = Len(k)
      BY <2>6, <2>9
    <3>2. QED
      BY <2>7, <3>1 DEF IsStack
  <2>11. ASSUME NEW a \in 1 .. Len(r)
         PROVE  \E b \in 1 .. Len(k) : r[a] = k[b] /\ b # i /\ b = IF a < i THEN a ELSE a + 1
    <3>1. CASE a < i
      BY <2>7, <2>9, <3>1
    <3>2. CASE a >= i
      BY <2>6, <2>7, <2>9, <3>2
    <3>3. QED
      BY <2>6, <2>9, <3>1, <3>2
  <2>12. ASSUME NEW a \in 1 .. Len(r), NEW b \in 1 .. Len(r), r[a] = r[b] PROVE a = b
    <3>1. PICK a2 \in 1 .. Len(k) : r[a] = k[a2] /\ a2 = IF a < i THEN a ELSE a + 1
      BY <2>11
    <3>2. PICK b2 \in 1 .. Len(k) : r[b] = k[b2] /\ b2 = IF b < i THEN b ELSE b + 1
      BY <2>11
    <3>3. a2 = b2
      BY <2>12, <3>1, <3>2 DEF IsStack
    <3>4. QED
      BY <3>1, <3>2, <3>3, <2>6, <2>7, <2>9
  <2>13. IsStack(r)
    BY <2>7, <2>9, <2>10, <2>12 DEF IsStack
  <2>14. ASSUME NEW x PROVE x \in Contents(r) <=> x \in Contents(k) /\ x # s
    <3>1. ASSUME x \in Contents(r) PROVE x \in Contents(k) /\ x # s
      <4>1. PICK a \in 1 .. Len(r) : r[a] = x
        BY <2>13, <3>1, Places
      <4>2. PICK b \in 1 .. Len(k) : r[a] = k[b] /\ b # i
        BY <2>11
      <4>3. k[b] # s
        BY <2>1, <4>2 DEF IsStack
      <4>4. QED
        BY <4>1, <4>2, <4>3, Places
    <3>2. ASSUME x \in Contents(k), x # s PROVE x \in Contents(r)
      <4>1. PICK b \in 1 .. Len(k) : k[b] = x
        BY <3>2, Places
      <4>2. b # i
        BY <2>1, <3>2, <4>1
      <4>3. PICK a \in 1 .. Len(k) - 1 : r[a] = k[b]
        <5>1. CASE b < i
          <6>1. b \in 1 .. Len(k) - 1
            BY <2>6, <2>9, <5>1
          <6>2. QED
            BY <2>7, <5>1, <6>1
        <5>2. CASE b > i
          <6>1. b - 1 \in 1 .. Len(k) - 1 /\ b - 1 >= i /\ b - 1 + 1 = b
            BY <2>6, <2>9, <5>2
          <6>2. QED
            BY <2>7, <6>1
        <5>3. QED
          BY <2>6, <4>2, <5>1, <5>2
      <4>4. QED
        BY <2>7, <2>13, <4>1, <4>3, Places
    <3>3. QED
      BY <3>1, <3>2
  <2>15. QED
    BY <1>2, <2>7, <2>13, <2>14 DEF r
<1>3. QED
  BY <1>1, <1>2

\* sheet_updown with a negative height.
LEMMA TakenOff ==
  ASSUME NEW k, IsStack(k), NEW s \in Sheet, s # Back, s # Mouse
  PROVE  IsStack(UpDown(k, s, -1)) /\ Contents(UpDown(k, s, -1)) = Contents(k) \ {s}
<1>1. UpDown(k, s, -1) = RemoveFirst(k, s)
  BY DEF UpDown
<1>2. QED
  BY <1>1, Without

\* sheet_updown with a height below the mouse's.
LEMMA PutOn ==
  ASSUME NEW k, IsStack(k), NEW s \in Sheet, s # Back, s # Mouse,
         NEW h \in Int, h >= 1,
         s \in Contents(k) => h < Len(k) - 1,
         s \notin Contents(k) => h < Len(k)
  PROVE  IsStack(UpDown(k, s, h)) /\ Contents(UpDown(k, s, h)) = Contents(k) \cup {s}
<1>. DEFINE t == RemoveFirst(k, s)
            r == InsertAt(t, h + 1, s)
<1>1. UpDown(k, s, h) = r
  BY DEF UpDown
<1>2. IsStack(t) /\ s \notin Contents(t) /\ Contents(t) = Contents(k) \ {s} /\ h < Len(t)
  BY Without
<1>3. HIDE DEF t
<1>4. Len(t) \in Nat /\ h + 1 \in 1 .. Len(t) /\ h + 1 \in 1 .. Len(t) + 1 /\ t \in Seq(Sheet)
  BY <1>2, Places
<1>5. /\ r \in Seq(Sheet) /\ Len(r) = Len(t) + 1
      /\ \A j \in 1 .. Len(t) + 1 : j < h + 1 => r[j] = t[j]
      /\ r[h + 1] = s
      /\ \A j \in 1 .. Len(t) + 1 : j > h + 1 => r[j] = t[j - 1]
  BY <1>4, Inserted
<1>6. HIDE DEF r
<1>7. r[1] = Back /\ r[Len(r)] = Mouse
  <2>1. 1 \in 1 .. Len(t) + 1 /\ 1 < h + 1 /\ Len(t) + 1 \in 1 .. Len(t) + 1
        /\ Len(t) + 1 > h + 1 /\ Len(t) + 1 - 1 = Len(t)
    BY <1>2, <1>4
  <2>2. QED
    BY <1>2, <1>5, <2>1 DEF IsStack
<1>8. ASSUME NEW a \in 1 .. Len(r), a # h + 1
      PROVE  \E b \in 1 .. Len(t) : r[a] = t[b] /\ b = IF a < h + 1 THEN a ELSE a - 1
  <2>1. CASE a < h + 1
    BY <1>4, <1>5, <2>1
  <2>2. CASE a > h + 1
    BY <1>4, <1>5, <2>2
  <2>3. QED
    BY <1>4, <1>5, <1>8, <2>1, <2>2
<1>9. ASSUME NEW a \in 1 .. Len(r), NEW b \in 1 .. Len(r), r[a] = r[b] PROVE a = b
  <2>1. CASE a = h + 1 \/ b = h + 1
    <3>1. \A c \in 1 .. Len(r) : c # h + 1 => r[c] # s
      BY <1>2, <1>8, Places
    <3>2. QED
      BY <1>5, <1>9, <2>1, <3>1
  <2>2. CASE a # h + 1 /\ b # h + 1
    <3>1. PICK a2 \in 1 .. Len(t) : r[a] = t[a2] /\ a2 = IF a < h + 1 THEN a ELSE a - 1
      BY <2>2, <1>8
    <3>2. PICK b2 \in 1 .. Len(t) : r[b] = t[b2] /\ b2 = IF b < h + 1 THEN b ELSE b - 1
      BY <2>2, <1>8
    <3>3. a2 = b2
      BY <1>2, <1>9, <3>1, <3>2 DEF IsStack
    <3>4. QED
      BY <3>1, <3>2, <3>3, <1>4, <1>5, <2>2
  <2>3. QED
    BY <2>1, <2>2
<1>10. IsStack(r)
  <2>1. Len(r) >= 2
    BY <1>2, <1>4, <1>5, Places
  <2>2. QED
    BY <1>5, <1>7, <1>9, <2>1 DEF IsStack
<1>11. ASSUME NEW x PROVE x \in Contents(r) <=> x \in Contents(t) \/ x = s
  <2>1. ASSUME x \in Contents(r) PROVE x \in Contents(t) \/ x = s
    <3>1. PICK a \in 1 .. Len(r) : r[a] = x
      BY <1>10, <2>1, Places
    <3>2. CASE a = h + 1
      BY <1>5, <3>1, <3>2
    <3>3. CASE a # h + 1
      BY <1>2, <1>8, <3>1, <3>3, Places
    <3>4. QED
      BY <3>2, <3>3
  <2>2. ASSUME x \in Contents(t) PROVE x \in Contents(r)
    <3>1. PICK b \in 1 .. Len(t) : t[b] = x
      BY <1>2, <2>2, Places
    <3>2. PICK a \in 1 .. Len(t) + 1 : r[a] = t[b]
      <4>1. CASE b < h + 1
        <5>1. b \in 1 .. Len(t) + 1
          BY <1>4
        <5>2. QED
          BY <1>5, <4>1, <5>1
      <4>2. CASE b >= h + 1
        <5>1. b + 1 \in 1 .. Len(t) + 1 /\ b + 1 > h + 1 /\ b + 1 - 1 = b
          BY <1>4, <4>2
        <5>. DEFINE c == b + 1
        <5>3. c \in 1 .. Len(t) + 1 /\ r[c] = t[c - 1] /\ c - 1 = b
          BY <1>5, <5>1
        <5>2. QED
          BY <5>3
      <4>3. QED
        BY <1>4, <4>1, <4>2
    <3>3. QED
      BY <1>5, <1>10, <3>1, <3>2, Places
  <2>3. h + 1 \in 1 .. Len(r)
    BY <1>4, <1>5
  <2>4. s \in Contents(r)
    BY <1>5, <1>10, <2>3, Places
  <2>5. QED
    BY <2>1, <2>2, <2>4
<1>12. Contents(r) = Contents(k) \cup {s}
  BY <1>2, <1>11
<1>13. QED
  BY <1>1, <1>10, <1>12


-----------------------------------------------------------------------------
(* What the operators of Desktop choose. *)

\* The focus names nothing free: it is where it was, or on the sheet below the mouse.
LEMMA FocusedIs ==
  ASSUME IInv
  PROVE  /\ Focused \in Sheet \cup {NoSheet}
         /\ Focused \in Window /\ kind[Focused] \in {"app", "console"} => Focused \in OnScreen
         /\ Focused \in Window => kind[Focused] # "free"
         /\ focus = NoSheet => Focused = NoSheet
<1>1. IsStack(stack) /\ TypePart /\ WindowPart /\ FocusPart
  BY DEF IInv
<1>2. Len(stack) \in Nat /\ Len(stack) >= 2
  BY <1>1, Places
<1>3. CASE Focused = focus
  <2>2. focus \in Window => kind[focus] # "free" \/ focus = stack[top]
    BY <1>3, Sheets DEF Focused
  <2>3. CASE focus \in Window /\ focus = stack[top]
    <3>1. top \in 1 .. Len(stack)
      BY <1>2 DEF top
    <3>2. focus \in OnScreen
      BY <1>1, <2>3, <3>1, Places DEF OnScreen
    <3>3. kind[focus] # "free"
      BY <1>1, <2>3, <3>2 DEF WindowPart
    <3>4. QED
      BY <1>1, <1>3, <3>2, <3>3 DEF TypePart
  <2>4. CASE ~ (focus \in Window /\ focus = stack[top])
    BY <1>1, <1>3, <2>2, <2>4 DEF TypePart, FocusPart
  <2>5. QED
    BY <2>3, <2>4
<1>4. CASE Focused # focus
  <2>1. focus # NoSheet /\ Focused = IF top = 1 THEN NoSheet ELSE stack[top]
    BY <1>4 DEF Focused
  <2>2. CASE top = 1
    BY <2>1, <2>2, Sheets
  <2>3. CASE top # 1
    <3>1. top \in 1 .. Len(stack)
      BY <1>2 DEF top
    <3>2. Focused \in OnScreen /\ Focused \in Sheet
      BY <1>1, <2>1, <2>3, <3>1, Places DEF OnScreen
    <3>3. Focused \in Window => kind[Focused] # "free"
      BY <1>1, <3>2 DEF WindowPart
    <3>4. QED
      BY <2>1, <3>2, <3>3
  <2>4. QED
    BY <2>2, <2>3
<1>5. QED
  BY <1>3, <1>4

\* sheet_alloc and task_alloc.
LEMMA Allocated ==
  /\ FreeWindows # {} => NewWindow \in Window /\ kind[NewWindow] = "free"
  /\ FreeTasks # {} => NewTask \in Task /\ state[NewTask] = "free"
<1>1. FreeWindows \subseteq Nat /\ FreeTasks \subseteq Nat
  BY SizesAssumption DEF FreeWindows, FreeTasks, Window, Task
<1>2. ASSUME FreeWindows # {} PROVE NewWindow \in FreeWindows
  <2>1. PICK x \in FreeWindows : \A y \in FreeWindows : x <= y
    BY <1>1, <1>2, Least
  <2>2. QED
    BY <2>1 DEF NewWindow, Min
<1>3. ASSUME FreeTasks # {} PROVE NewTask \in FreeTasks
  <2>1. PICK x \in FreeTasks : \A y \in FreeTasks : x <= y
    BY <1>1, <1>3, Least
  <2>2. QED
    BY <2>1 DEF NewTask, Min
<1>4. QED
  BY <1>2, <1>3 DEF FreeWindows, FreeTasks

\* The window of the application that cmd_app frees first.
LEMMA FirstWindow ==
  ASSUME NEW t, AppWindows(t) # {}
  PROVE  Min(AppWindows(t)) \in AppWindows(t)
<1>1. AppWindows(t) \subseteq Nat
  BY SizesAssumption DEF AppWindows, Window
<1>2. PICK x \in AppWindows(t) : \A y \in AppWindows(t) : x <= y
  BY <1>1, Least
<1>3. QED
  BY <1>2 DEF Min

\* A click names a sheet between the background and the mouse.
LEMMA Clicks ==
  ASSUME IInv, NEW s \in Clickable
  PROVE  s \in Sheet /\ s \in OnScreen /\ s # Back /\ s # Mouse
<1>1. IsStack(stack)
  BY DEF IInv
<1>2. PICK i \in 2 .. top : s = stack[i]
  BY DEF Clickable
<1>3. i \in 1 .. Len(stack) /\ i # 1 /\ i # Len(stack)
  BY <1>1, <1>2, Places DEF top
<1>4. QED
  BY <1>1, <1>2, <1>3, Places DEF OnScreen

\* Raising a sheet of the screen: a click, or F11.
LEMMA Raises ==
  ASSUME IInv, NEW s \in Sheet, s \in OnScreen, s # Back, s # Mouse
  PROVE  IsStack(UpDown(stack, s, top - 1)) /\ Contents(UpDown(stack, s, top - 1)) = OnScreen
<1>1. IsStack(stack)
  BY DEF IInv
<1>2. Len(stack) \in Nat /\ Len(stack) > 2
  <2>1. PICK i \in 1 .. Len(stack) : stack[i] = s
    BY <1>1, Places DEF OnScreen
  <2>2. i # 1 /\ i # Len(stack)
    BY <1>1, <2>1 DEF IsStack
  <2>3. QED
    BY <1>1, <2>1, <2>2, Places
<1>. DEFINE h == top - 1
<1>3. h \in Int /\ h >= 1 /\ h < Len(stack) - 1
  BY <1>2 DEF top
<1>4. HIDE DEF h
<1>5. IsStack(UpDown(stack, s, h)) /\ Contents(UpDown(stack, s, h)) = Contents(stack) \cup {s}
  BY <1>1, <1>3, PutOn DEF OnScreen
<1>6. QED
  BY <1>5 DEF OnScreen, h

\* A window that was not on the screen is put under the mouse.
LEMMA Shows ==
  ASSUME NEW k, IsStack(k), NEW w \in Window, w \notin Contents(k)
  PROVE  /\ IsStack(UpDown(k, w, Len(k) - 1))
         /\ Contents(UpDown(k, w, Len(k) - 1)) = Contents(k) \cup {w}
<1>1. w \in Sheet /\ w # Back /\ w # Mouse
  BY Sheets
<1>2. Len(k) - 1 \in Int /\ Len(k) - 1 >= 1 /\ Len(k) - 1 < Len(k)
  BY Places
<1>3. QED
  BY <1>1, <1>2, PutOn

LEMMA ShownIs == \A s : IsStack(stack) => (Shown(s) <=> s \in OnScreen)
<1>1. SUFFICES ASSUME NEW s, IsStack(stack) PROVE Shown(s) <=> s \in OnScreen
  OBVIOUS
<1>2. DOMAIN stack = 1 .. Len(stack)
  BY <1>1, Places
<1>3. QED
  BY <1>1, <1>2, Places DEF Shown, OnScreen


-----------------------------------------------------------------------------
(* Queues. *)

LEMMA KeyAppended ==
  ASSUME NEW q \in Seq({"key", "close"}), OneClose(q)
  PROVE  /\ Append(q, "key") \in Seq({"key", "close"}) /\ OneClose(Append(q, "key"))
         /\ HasClose(Append(q, "key")) => HasClose(q)
<1>. DEFINE r == Append(q, "key")
<1>1. /\ r \in Seq({"key", "close"}) /\ Len(r) = Len(q) + 1 /\ Len(q) \in Nat
      /\ \A i \in 1 .. Len(q) : r[i] = q[i]
      /\ r[Len(q) + 1] = "key"
  OBVIOUS
<1>2. HIDE DEF r
<1>3. \A i \in 1 .. Len(r) : r[i] = "close" => i \in 1 .. Len(q) /\ q[i] = "close"
  <2>1. \A i \in 1 .. Len(r) : i \in 1 .. Len(q) \/ i = Len(q) + 1
    BY <1>1
  <2>2. QED
    BY <1>1, <2>1
<1>4. QED
  BY <1>1, <1>3 DEF OneClose, HasClose, r

LEMMA CloseAppended ==
  ASSUME NEW q \in Seq({"key", "close"}), ~ HasClose(q)
  PROVE  Append(q, "close") \in Seq({"key", "close"}) /\ OneClose(Append(q, "close"))
<1>. DEFINE r == Append(q, "close")
<1>1. /\ r \in Seq({"key", "close"}) /\ Len(r) = Len(q) + 1 /\ Len(q) \in Nat
      /\ \A i \in 1 .. Len(q) : r[i] = q[i]
  OBVIOUS
<1>2. HIDE DEF r
<1>3. \A i \in 1 .. Len(r) : r[i] = "close" => i = Len(q) + 1
  <2>1. \A i \in 1 .. Len(r) : i \in 1 .. Len(q) \/ i = Len(q) + 1
    BY <1>1
  <2>2. \A i \in 1 .. Len(q) : q[i] # "close"
    BY DEF HasClose
  <2>3. QED
    BY <1>1, <2>1, <2>2
<1>4. QED
  BY <1>1, <1>3 DEF OneClose, r

LEMMA TailTaken ==
  ASSUME NEW q \in Seq({"key", "close"}), OneClose(q), q # <<>>
  PROVE  /\ Tail(q) \in Seq({"key", "close"}) /\ OneClose(Tail(q))
         /\ HasClose(Tail(q)) => HasClose(q) /\ Head(q) # "close"
         /\ Head(q) = "close" => HasClose(q)
<1>. DEFINE r == Tail(q)
<1>1. /\ r \in Seq({"key", "close"}) /\ Len(r) = Len(q) - 1 /\ Len(q) \in Nat /\ Len(q) > 0
      /\ \A i \in 1 .. Len(q) - 1 : r[i] = q[i + 1]
      /\ Head(q) = q[1]
  OBVIOUS
<1>2. HIDE DEF r
<1>3. \A i \in 1 .. Len(r) : i + 1 \in 1 .. Len(q) /\ r[i] = q[i + 1] /\ i + 1 # 1
  BY <1>1
<1>4. 1 \in 1 .. Len(q)
  BY <1>1
<1>5. OneClose(r)
  <2>1. ASSUME NEW i \in 1 .. Len(r), NEW j \in 1 .. Len(r), r[i] = "close", r[j] = "close"
        PROVE  i = j
    <3>1. i + 1 = j + 1
      BY <1>3, <2>1 DEF OneClose
    <3>2. QED
      BY <3>1
  <2>2. QED
    BY <2>1 DEF OneClose
<1>6. ASSUME HasClose(r) PROVE HasClose(q) /\ Head(q) # "close"
  <2>1. PICK i \in 1 .. Len(r) : r[i] = "close"
    BY <1>6 DEF HasClose
  <2>2. i + 1 \in 1 .. Len(q) /\ q[i + 1] = "close" /\ i + 1 # 1
    BY <1>3, <2>1
  <2>3. q[1] # "close"
    BY <1>4, <2>2 DEF OneClose
  <2>4. QED
    BY <1>1, <2>2, <2>3 DEF HasClose
<1>7. Head(q) = "close" => HasClose(q)
  BY <1>1, <1>4 DEF HasClose
<1>8. QED
  BY <1>1, <1>5, <1>6, <1>7 DEF r

LEMMA NothingAsked ==
  /\ <<>> \in Seq({"key", "close"}) /\ <<"key">> \in Seq({"key", "close"})
  /\ ~ HasClose(<<>>) /\ ~ HasClose(<<"key">>)
  /\ OneClose(<<>>) /\ OneClose(<<"key">>)
<1>1. \A i \in 1 .. Len(<<"key">>) : <<"key">>[i] = "key"
  OBVIOUS
<1>2. QED
  BY <1>1 DEF HasClose, OneClose

\* A request is added behind the others.
LEMMA Appended ==
  ASSUME NEW m \in Seq(Request), Once(m), NEW what, NEW x,
         [what |-> what, of |-> x] \in Request, ~ AsksIn(m, what, x)
  PROVE  LET r == Append(m, [what |-> what, of |-> x])
         IN  /\ r \in Seq(Request) /\ Once(r)
             /\ \A y, z : AsksIn(r, y, z) <=> AsksIn(m, y, z) \/ (y = what /\ z = x)
             /\ \A own : /\ WindowFirst(m, own)
                         /\ what = "window" => ~ AsksIn(m, "task", own[x])
                         => WindowFirst(r, own)
<1>. DEFINE d == [what |-> what, of |-> x]
            r == Append(m, d)
<1>1. /\ r \in Seq(Request) /\ Len(r) = Len(m) + 1 /\ Len(m) \in Nat
      /\ \A i \in 1 .. Len(m) : r[i] = m[i]
      /\ r[Len(m) + 1] = d
  OBVIOUS
<1>2. \A y, z : [what |-> y, of |-> z] = d <=> y = what /\ z = x
  OBVIOUS
<1>3. \A i \in 1 .. Len(m) : m[i] # d
  BY DEF AsksIn
<1>4. HIDE DEF r, d
<1>5. \A i \in 1 .. Len(r) : i \in 1 .. Len(m) \/ i = Len(m) + 1
  BY <1>1
<1>6. Len(m) + 1 \in 1 .. Len(r) /\ \A i \in 1 .. Len(m) : i \in 1 .. Len(r) /\ i < Len(m) + 1
  BY <1>1
<1>7. Once(r)
  BY <1>1, <1>3, <1>5 DEF Once
<1>8. \A y, z : AsksIn(r, y, z) <=> AsksIn(m, y, z) \/ (y = what /\ z = x)
  BY <1>1, <1>2, <1>5, <1>6 DEF AsksIn
<1>9. ASSUME NEW own, WindowFirst(m, own), what = "window" => ~ AsksIn(m, "task", own[x])
      PROVE  WindowFirst(r, own)
  <2>1. SUFFICES ASSUME NEW w \in Window, NEW i \in 1 .. Len(r), NEW j \in 1 .. Len(r),
                        r[i] = [what |-> "window", of |-> w],
                        r[j] = [what |-> "task", of |-> own[w]]
                 PROVE  i < j
    BY DEF WindowFirst
  <2>2. CASE i \in 1 .. Len(m) /\ j \in 1 .. Len(m)
    BY <1>1, <1>9, <2>1, <2>2 DEF WindowFirst
  <2>3. CASE i = Len(m) + 1
    <3>1. what = "window" /\ w = x
      BY <1>1, <1>2, <2>1, <2>3
    <3>2. j # Len(m) + 1
      BY <1>1, <1>2, <2>1, <3>1
    <3>3. QED
      BY <1>1, <1>5, <1>9, <2>1, <3>1, <3>2 DEF AsksIn
  <2>4. CASE i \in 1 .. Len(m) /\ j = Len(m) + 1
    BY <1>6, <2>4
  <2>5. QED
    BY <1>5, <2>2, <2>3, <2>4
<1>10. QED
  BY <1>1, <1>7, <1>8, <1>9 DEF r, d

\* The first request is taken.
LEMMA Served ==
  ASSUME NEW m \in Seq(Request), Once(m), m # <<>>
  PROVE  LET r == Tail(m)
         IN  /\ Head(m) \in Request
             /\ r \in Seq(Request) /\ Once(r)
             /\ \A y, z : AsksIn(r, y, z)
                            <=> AsksIn(m, y, z) /\ Head(m) # [what |-> y, of |-> z]
             /\ \A y, z : Head(m) = [what |-> y, of |-> z] => AsksIn(m, y, z)
             /\ \A own : WindowFirst(m, own) =>
                   /\ WindowFirst(r, own)
                   /\ \A w \in Window : Head(m) = [what |-> "task", of |-> own[w]]
                         => ~ AsksIn(m, "window", w)
<1>. DEFINE r == Tail(m)
<1>1. /\ r \in Seq(Request) /\ Len(r) = Len(m) - 1 /\ Len(m) \in Nat /\ Len(m) > 0
      /\ \A i \in 1 .. Len(m) - 1 : r[i] = m[i + 1]
      /\ Head(m) = m[1] /\ m[1] \in Request
  OBVIOUS
<1>2. HIDE DEF r
<1>3. \A i \in 1 .. Len(r) : i + 1 \in 1 .. Len(m) /\ r[i] = m[i + 1] /\ i + 1 # 1
  BY <1>1
<1>4. 1 \in 1 .. Len(m)
  BY <1>1
<1>5. \A i \in 1 .. Len(m) : i = 1 \/ \E k \in 1 .. Len(r) : k + 1 = i
  <2>1. \A i \in 1 .. Len(m) : i # 1 => i - 1 \in 1 .. Len(r) /\ (i - 1) + 1 = i
    BY <1>1
  <2>2. QED
    BY <2>1
<1>6. Once(r)
  <2>1. ASSUME NEW i \in 1 .. Len(r), NEW j \in 1 .. Len(r), r[i] = r[j] PROVE i = j
    <3>1. i + 1 = j + 1
      BY <1>3, <2>1 DEF Once
    <3>2. QED
      BY <3>1
  <2>2. QED
    BY <2>1 DEF Once
<1>7. ASSUME NEW y, NEW z
      PROVE  AsksIn(r, y, z) <=> AsksIn(m, y, z) /\ Head(m) # [what |-> y, of |-> z]
  <2>. DEFINE d == [what |-> y, of |-> z]
  <2>1. AsksIn(r, y, z) <=> \E i \in 1 .. Len(r) : r[i] = d
    BY DEF AsksIn
  <2>2. AsksIn(m, y, z) <=> \E i \in 1 .. Len(m) : m[i] = d
    BY DEF AsksIn
  <2>3. HIDE DEF d
  <2>4. (\E i \in 1 .. Len(r) : r[i] = d) => m[1] # d /\ \E i \in 1 .. Len(m) : m[i] = d
    BY <1>3, <1>4 DEF Once
  <2>5. m[1] # d /\ (\E i \in 1 .. Len(m) : m[i] = d) => \E i \in 1 .. Len(r) : r[i] = d
    BY <1>3, <1>5
  <2>6. QED
    BY <1>1, <2>1, <2>2, <2>4, <2>5 DEF d
<1>8. \A y, z : Head(m) = [what |-> y, of |-> z] => AsksIn(m, y, z)
  BY <1>1, <1>4 DEF AsksIn
<1>9. ASSUME NEW own, WindowFirst(m, own)
      PROVE  /\ WindowFirst(r, own)
             /\ \A w \in Window : Head(m) = [what |-> "task", of |-> own[w]]
                   => ~ AsksIn(m, "window", w)
  <2>1. ASSUME NEW w \in Window, NEW i \in 1 .. Len(r), NEW j \in 1 .. Len(r),
               r[i] = [what |-> "window", of |-> w], r[j] = [what |-> "task", of |-> own[w]]
        PROVE  i < j
    <3>1. i + 1 < j + 1
      BY <1>3, <1>9, <2>1 DEF WindowFirst
    <3>2. QED
      BY <3>1
  <2>2. ASSUME NEW w \in Window, Head(m) = [what |-> "task", of |-> own[w]],
               AsksIn(m, "window", w)
        PROVE  FALSE
    <3>1. PICK i \in 1 .. Len(m) : m[i] = [what |-> "window", of |-> w]
      BY <2>2 DEF AsksIn
    <3>2. i < 1
      BY <1>1, <1>4, <1>9, <2>2, <3>1 DEF WindowFirst
    <3>3. QED
      BY <3>2
  <2>3. QED
    BY <2>1, <2>2 DEF WindowFirst
<1>10. QED
  BY <1>1, <1>6, <1>7, <1>8, <1>9 DEF r


-----------------------------------------------------------------------------
(* The steps. *)

LEMMA NoTaskIsNone == NoTask \notin Task /\ \A w \in Window : w # NoSheet
  BY SizesAssumption, Sheets DEF NoTask, Task

\* A fault leaves nothing that could be wrong.
LEMMA FaultsStep ==
  ASSUME IInv, NEW what, Faults(what), UNCHANGED loginVars,
         what \in {"task", "index", "full", "focus", "again", "win", "stale", "covered", "timer"},
         what \in {"full", "stale", "timer"} \/ opened
  PROVE  IInv'
<1>1. /\ fault' = what /\ kind' = [s \in Sheet |-> "free"] /\ stack' = <<Back, Mouse>>
      /\ owner' = [w \in Window |-> NoTask] /\ buffer' = [w \in Window |-> 0]
      /\ focus' = NoSheet /\ state' = [t \in Task |-> "free"]
      /\ cons' = [t \in Task |-> NoSheet] /\ fifo' = [t \in Task |-> <<>>]
      /\ opening' = [t \in Task |-> NoSheet] /\ messages' = <<>>
  BY DEF Faults
<1>2. IsStack(stack') /\ OnScreen' = {Back, Mouse}
  <2>. DEFINE k == <<Back, Mouse>>
  <2>1. k \in Seq(Sheet) /\ Len(k) = 2 /\ k[1] = Back /\ k[2] = Mouse
    BY Sheets
  <2>2. HIDE DEF k
  <2>3. \A i \in 1 .. Len(k) : i = 1 \/ i = 2
    BY <2>1
  <2>4. IsStack(k)
    BY <2>1, <2>3, Sheets DEF IsStack
  <2>5. Contents(k) = {Back, Mouse}
    BY <2>1, <2>3, 1 \in 1 .. 2, 2 \in 1 .. 2 DEF Contents
  <2>6. QED
    BY <1>1, <2>4, <2>5 DEF OnScreen, k
<1>3. TypePart'
  BY <1>1, NothingAsked DEF TypePart, States
<1>4. WindowPart'
  BY <1>1, <1>2, Sheets DEF WindowPart
<1>5. ConsPart' /\ OpeningPart'
  BY <1>1 DEF ConsPart, OpeningPart, Unborn
<1>6. FifoPart'
  BY <1>1, NothingAsked DEF FifoPart
<1>7. RequestPart'
  <2>1. messages' \in Seq(Request) /\ \A i \in 1 .. Len(messages') : FALSE
    BY <1>1
  <2>2. QED
    BY <2>1 DEF RequestPart, Once, WindowFirst, Asks, AsksIn
<1>8. FocusPart' /\ FaultPart'
  BY <1>1, Sheets DEF FocusPart, FaultPart, loginVars
<1>9. LoginPart'
  BY DEF IInv, LoginPart, loginVars
<1>10. QED
  BY <1>2, <1>3, <1>4, <1>5, <1>6, <1>7, <1>8, <1>9 DEF IInv

\* Windows, consoles and requests: what the steps of many operations keep.
Core == WindowPart /\ ConsPart /\ OpeningPart /\ RequestPart

\* A step that changes the order of the sheets, the menu or the focus alone.
LEMMA ScreenKeeps ==
  ASSUME IInv, UNCHANGED <<owner, buffer, state, cons, opening, messages>>,
         \A w \in Window : kind'[w] = kind[w],
         \A s \in Sheet : kind'[s] \in {"app", "console"} => s \in Window,
         \A w \in Window : w \in OnScreen' <=> w \in OnScreen
  PROVE  Core'
<1>1. TypePart /\ WindowPart /\ ConsPart /\ OpeningPart /\ RequestPart
  BY DEF IInv
<1>2. \A what, x : Asks(what, x)' <=> Asks(what, x)
  BY DEF Asks
<1>3. \A t \in Task : Unborn(t)' <=> Unborn(t)
  BY DEF Unborn
<1>4. /\ \A t \in Task : cons[t] # NoSheet => cons[t] \in Window
      /\ \A t \in Task : opening[t] # NoSheet => opening[t] \in Window
  BY <1>1 DEF TypePart
<1>5. WindowPart'
  BY <1>1, <1>2 DEF WindowPart, Working
<1>6. ConsPart'
  BY <1>1, <1>3, <1>4 DEF ConsPart
<1>7. OpeningPart'
  BY <1>1, <1>3, <1>4 DEF OpeningPart
<1>8. RequestPart'
  BY <1>1, <1>2 DEF RequestPart
<1>9. QED
  BY <1>5, <1>6, <1>7, <1>8 DEF Core

\* An application starts, waits, goes on or ends, or its console goes on.
LEMMA TurnKeeps ==
  ASSUME IInv, NEW t \in Task, NEW n \in {"prompt", "run", "wait", "end"},
         state[t] \in {"prompt", "run", "wait", "openwin", "end"}, ~ Unborn(t),
         n = "prompt" => AppWindows(t) = {},
         state' = [state EXCEPT ![t] = n],
         opening' = [opening EXCEPT ![t] = NoSheet],
         UNCHANGED <<kind, owner, buffer, cons, messages>>,
         \A w \in Window : w \in OnScreen' <=> w \in OnScreen
  PROVE  Core'
<1>1. TypePart /\ WindowPart /\ ConsPart /\ OpeningPart /\ RequestPart
  BY DEF IInv
<1>2. \A what, x : Asks(what, x)' <=> Asks(what, x)
  BY DEF Asks
<1>3. /\ \A u \in Task : state'[u] = IF u = t THEN n ELSE state[u]
      /\ \A u \in Task : opening'[u] = IF u = t THEN NoSheet ELSE opening[u]
  BY <1>1 DEF TypePart
<1>4. \A u \in Task : Unborn(u)' <=> Unborn(u)
  BY <1>3 DEF Unborn
<1>5. WindowPart'
  <2>1. ASSUME NEW w \in Window, kind[w] = "app" PROVE Working(owner[w])'
    <3>1. owner[w] \in Task /\ Working(owner[w])
      BY <1>1, <2>1 DEF WindowPart
    <3>2. CASE owner[w] = t
      <4>1. n # "prompt"
        BY <2>1, <3>2 DEF AppWindows
      <4>2. QED
        BY <1>3, <3>1, <3>2, <4>1 DEF Working
    <3>3. CASE owner[w] # t
      BY <1>3, <3>1, <3>3 DEF Working
    <3>4. QED
      BY <3>2, <3>3
  <2>2. \A u \in Task : state[u] # "free" => state'[u] # "free"
    BY <1>3
  <2>3. QED
    BY <1>1, <1>2, <2>1, <2>2 DEF WindowPart
<1>6. ConsPart'
  <2>1. \A u \in Task : state[u] # "free" => state'[u] # "free"
    BY <1>3
  <2>2. QED
    BY <1>1, <1>4, <2>1 DEF ConsPart
<1>7. OpeningPart'
  <2>1. ASSUME NEW u \in Task
        PROVE  /\ state'[u] \in {"start", "openwin"} <=> opening'[u] # NoSheet
               /\ opening'[u] # NoSheet => kind'[opening'[u]] = "used"
               /\ state'[u] = "openwin" => \A v \in Task : cons'[v] # opening'[u]
               /\ state'[u] = "start" =>
                     /\ buffer'[opening'[u]] = ConsoleSize
                     /\ \E v \in Task \ {u} : cons'[v] = opening'[u]
    BY <1>1, <1>3 DEF OpeningPart
  <2>2. \A u \in Task : Unborn(u)' => state'[u] = "prompt"
    BY <1>1, <1>3, <1>4 DEF OpeningPart
  <2>3. \A u, v \in Task : opening'[u] = opening'[v] /\ opening'[u] # NoSheet => u = v
    BY <1>1, <1>3 DEF OpeningPart
  <2>4. QED
    BY <2>1, <2>2, <2>3 DEF OpeningPart
<1>8. RequestPart'
  <2>1. \A u \in Task : state[u] = "gone" => state'[u] = "gone"
    BY <1>3
  <2>2. QED
    BY <1>1, <1>2, <2>1 DEF RequestPart
<1>9. QED
  BY <1>5, <1>6, <1>7, <1>8 DEF Core


\* Data are taken or typed; a queue that holds a request to close stays with
\* its console, whose window stays off the screen.
LEMMA FifoKeeps ==
  ASSUME IInv, fifo' \in [Task -> Seq({"key", "close"})],
         \A t \in Task :
            \/ fifo'[t] \in {<<>>, <<"key">>}
            \/ /\ \/ fifo'[t] = fifo[t]
                  \/ fifo[t] # <<>> /\ fifo'[t] = Tail(fifo[t])
                  \/ fifo'[t] = Append(fifo[t], "key")
               /\ HasClose(fifo'[t]) =>
                     cons'[t] = cons[t] /\ (cons[t] \in OnScreen' => cons[t] \in OnScreen)
  PROVE  FifoPart'
<1>1. TypePart /\ FifoPart
  BY DEF IInv
<1>2. SUFFICES ASSUME NEW t \in Task
               PROVE  /\ OneClose(fifo'[t])
                      /\ HasClose(fifo'[t]) => cons'[t] # NoSheet /\ cons'[t] \notin OnScreen'
  BY DEF FifoPart
<1>3. fifo[t] \in Seq({"key", "close"}) /\ OneClose(fifo[t])
  BY <1>1 DEF TypePart, FifoPart
<1>4. OneClose(fifo'[t]) /\ (HasClose(fifo'[t]) => HasClose(fifo[t]))
  <2>1. CASE fifo'[t] \in {<<>>, <<"key">>}
    BY <2>1, NothingAsked
  <2>2. CASE fifo'[t] = fifo[t]
    BY <1>3, <2>2
  <2>3. CASE fifo[t] # <<>> /\ fifo'[t] = Tail(fifo[t])
    BY <1>3, <2>3, TailTaken
  <2>4. CASE fifo'[t] = Append(fifo[t], "key")
    BY <1>3, <2>4, KeyAppended
  <2>5. QED
    BY <2>1, <2>2, <2>3, <2>4
<1>5. ASSUME HasClose(fifo'[t]) PROVE cons'[t] # NoSheet /\ cons'[t] \notin OnScreen'
  <2>1. cons[t] # NoSheet /\ cons[t] \notin OnScreen
    BY <1>1, <1>4, <1>5 DEF FifoPart
  <2>2. cons'[t] = cons[t] /\ (cons[t] \in OnScreen' => cons[t] \in OnScreen)
    BY <1>5, NothingAsked
  <2>3. QED
    BY <2>1, <2>2
<1>6. QED
  BY <1>4, <1>5

\* cmd_exit: what it asks for has not been asked for.
LEMMA ExitKeeps ==
  ASSUME IInv, NEW t \in Task, state[t] \in {"prompt", "end"}, ~ Unborn(t),
         AppWindows(t) = {}, Exit(t),
         UNCHANGED <<kind, owner, buffer, cons, opening>>,
         \A w \in Window : w \in OnScreen' <=> w \in OnScreen
  PROVE  Core'
<1>1. TypePart /\ WindowPart /\ ConsPart /\ OpeningPart /\ RequestPart
  BY DEF IInv
<1>. DEFINE what == IF cons[t] # NoSheet THEN "console" ELSE "task"
            x == IF cons[t] # NoSheet THEN cons[t] ELSE t
<1>2. /\ messages' = Append(messages, [what |-> what, of |-> x])
      /\ state' = [state EXCEPT ![t] = "gone"]
  BY DEF Exit, Becomes
<1>3. \A u \in Task : state'[u] = IF u = t THEN "gone" ELSE state[u]
  BY <1>1, <1>2 DEF TypePart
<1>4. /\ what \in {"console", "task"}
      /\ what = "console" => x = cons[t] /\ x \in Window /\ cons[t] # NoSheet
      /\ what = "task" => x = t /\ cons[t] = NoSheet
  BY <1>1 DEF TypePart
<1>5. HIDE DEF what, x
<1>6. [what |-> what, of |-> x] \in Request
  BY <1>4 DEF Request
<1>7. ~ AsksIn(messages, what, x)
  <2>1. ASSUME what = "console", Asks("console", x) PROVE FALSE
    <3>1. PICK u \in Task : cons[u] = x /\ state[u] = "gone"
      BY <1>1, <1>4, <2>1 DEF RequestPart
    <3>2. u = t
      BY <1>1, <1>4, <2>1, <3>1 DEF ConsPart
    <3>3. QED
      BY <3>1, <3>2
  <2>2. ASSUME what = "task", Asks("task", x) PROVE FALSE
    BY <1>1, <1>4, <2>2 DEF RequestPart
  <2>3. QED
    BY <1>4, <2>1, <2>2 DEF Asks
<1>8. /\ messages' \in Seq(Request) /\ Once(messages')
      /\ \A y, z : AsksIn(messages', y, z) <=> AsksIn(messages, y, z) \/ (y = what /\ z = x)
      /\ WindowFirst(messages', owner)
  <2>1. messages \in Seq(Request) /\ Once(messages) /\ WindowFirst(messages, owner)
    BY <1>1 DEF RequestPart
  <2>2. QED
    BY <1>2, <1>4, <1>6, <1>7, <2>1, Appended
<1>9. \A y, z : Asks(y, z)' <=> Asks(y, z) \/ (y = what /\ z = x)
  BY <1>8 DEF Asks
<1>10. \A u \in Task : Unborn(u)' <=> Unborn(u)
  BY <1>3 DEF Unborn
<1>11. WindowPart'
  <2>1. ASSUME NEW w \in Window, kind[w] = "app" PROVE Working(owner[w])'
    <3>1. owner[w] \in Task /\ Working(owner[w]) /\ owner[w] # t
      BY <1>1, <2>1 DEF WindowPart, AppWindows
    <3>2. QED
      BY <1>3, <3>1 DEF Working
  <2>2. \A u \in Task : state[u] # "free" => state'[u] # "free"
    BY <1>3
  <2>3. QED
    BY <1>1, <1>9, <2>1, <2>2 DEF WindowPart
<1>12. ConsPart'
  <2>1. \A u \in Task : state[u] # "free" => state'[u] # "free"
    BY <1>3
  <2>2. QED
    BY <1>1, <1>10, <2>1 DEF ConsPart
<1>13. OpeningPart'
  <2>1. \A u \in Task : state'[u] \in {"start", "openwin"} <=> state[u] \in {"start", "openwin"}
    BY <1>3
  <2>2. \A u \in Task : (state'[u] = "start" <=> state[u] = "start")
                        /\ (state'[u] = "openwin" <=> state[u] = "openwin")
    BY <1>3
  <2>3. \A u \in Task : Unborn(u)' => state'[u] = "prompt"
    BY <1>1, <1>3, <1>10 DEF OpeningPart
  <2>4. QED
    BY <1>1, <2>1, <2>2, <2>3 DEF OpeningPart
<1>14. RequestPart'
  <2>1. ASSUME NEW w \in Window, Asks("console", w)'
        PROVE  \E u \in Task : cons'[u] = w /\ state'[u] = "gone"
    <3>1. CASE Asks("console", w)
      BY <1>1, <1>3, <3>1 DEF RequestPart
    <3>2. CASE what = "console" /\ w = x
      BY <1>3, <1>4, <3>2
    <3>3. QED
      BY <1>9, <2>1, <3>1, <3>2
  <2>2. ASSUME NEW w \in Window, Asks("window", w)'
        PROVE  kind'[w] = "console" /\ w \notin OnScreen' /\ cons'[owner'[w]] = NoSheet
    BY <1>1, <1>4, <1>9, <2>2 DEF RequestPart
  <2>3. ASSUME NEW u \in Task, Asks("task", u)' PROVE state'[u] = "gone" /\ cons'[u] = NoSheet
    <3>1. CASE Asks("task", u)
      BY <1>1, <1>3, <3>1 DEF RequestPart
    <3>2. CASE what = "task" /\ u = x
      BY <1>3, <1>4, <3>2
    <3>3. QED
      BY <1>9, <2>3, <3>1, <3>2
  <2>4. QED
    BY <1>8, <2>1, <2>2, <2>3 DEF RequestPart
<1>15. QED
  BY <1>11, <1>12, <1>13, <1>14 DEF Core

\* open_console and open_log in task_a.
LEMMA OpenedKeeps ==
  ASSUME IInv, NEW k, IsStack(k), \A w \in Window : w \in Contents(k) <=> w \in OnScreen,
         NEW size \in {ConsoleSize, LogSize}, ~ Full, Opened(k, size),
         \A w \in Window : kind'[w] = IF w = NewWindow THEN "console" ELSE kind[w],
         \A s \in Sheet : kind'[s] \in {"app", "console"} => s \in Window,
         UNCHANGED <<opening, messages>>
  PROVE  /\ Core' /\ FifoPart' /\ FocusPart' /\ IsStack(stack')
         /\ NewWindow \in Window /\ NewTask \in Task
         /\ fifo' \in [Task -> Seq({"key", "close"})]
<1>0. PICK w, t : w = NewWindow /\ t = NewTask
  OBVIOUS
<1>1. TypePart /\ WindowPart /\ ConsPart /\ OpeningPart /\ FifoPart /\ RequestPart
  BY DEF IInv
<1>2. w \in Window /\ kind[w] = "free" /\ t \in Task /\ state[t] = "free"
  BY <1>0, Allocated DEF Full
<1>3. /\ stack' = UpDown(k, w, Len(k) - 1)
      /\ owner' = [owner EXCEPT ![w] = t] /\ buffer' = [buffer EXCEPT ![w] = size]
      /\ focus' = w /\ state' = [state EXCEPT ![t] = "prompt"]
      /\ cons' = [cons EXCEPT ![t] = w] /\ fifo' = [fifo EXCEPT ![t] = <<>>]
  BY <1>0 DEF Opened
<1>5. /\ \A v \in Window : owner'[v] = IF v = w THEN t ELSE owner[v]
      /\ \A v \in Window : buffer'[v] = IF v = w THEN size ELSE buffer[v]
      /\ \A v \in Window : kind'[v] = IF v = w THEN "console" ELSE kind[v]
      /\ \A u \in Task : state'[u] = IF u = t THEN "prompt" ELSE state[u]
      /\ \A u \in Task : cons'[u] = IF u = t THEN w ELSE cons[u]
      /\ \A u \in Task : fifo'[u] = IF u = t THEN <<>> ELSE fifo[u]
      /\ fifo' \in [Task -> Seq({"key", "close"})]
  BY <1>1, <1>3, <1>0, NothingAsked DEF TypePart
<1>6. IsStack(stack') /\ \A v \in Window : v \in OnScreen' <=> v \in OnScreen \/ v = w
  <2>1. w \notin Contents(k)
    BY <1>1, <1>2 DEF WindowPart
  <2>2. IsStack(stack') /\ Contents(stack') = Contents(k) \cup {w}
    BY <1>2, <1>3, <2>1, Shows
  <2>3. QED
    BY <2>2 DEF OnScreen
\* Nobody had the sheet or the task.
<1>7. /\ \A u \in Task : cons[u] # w
      /\ \A u \in Task : opening[u] # w
      /\ cons[t] = NoSheet /\ opening[t] = NoSheet
      /\ \A v \in Window : kind[v] \in {"app", "console"} => owner[v] # t
      /\ ~ Asks("window", w) /\ ~ Asks("console", w) /\ ~ Asks("task", t)
  <2>1. \A u \in Task : cons[u] # w /\ opening[u] # w
    BY <1>1, <1>2, NoTaskIsNone DEF ConsPart, OpeningPart
  <2>2. cons[t] = NoSheet /\ opening[t] = NoSheet
    BY <1>1, <1>2 DEF ConsPart, OpeningPart
  <2>3. \A v \in Window : kind[v] \in {"app", "console"} => owner[v] # t
    BY <1>1, <1>2 DEF WindowPart, Working
  <2>4. ~ Asks("window", w) /\ ~ Asks("console", w) /\ ~ Asks("task", t)
    BY <1>1, <1>2, <2>1 DEF RequestPart
  <2>5. QED
    BY <2>1, <2>2, <2>3, <2>4
<1>8. \A y, z : Asks(y, z)' <=> Asks(y, z)
  BY DEF Asks
<1>9. \A u \in Task : u # t => (Unborn(u)' <=> Unborn(u))
  BY <1>2, <1>5 DEF Unborn
<1>10. ~ Unborn(t)'
  BY <1>2, <1>5, <1>7 DEF Unborn
<1>11. WindowPart'
  <2>1. ASSUME NEW v \in Window, v # w, kind[v] = "app"
        PROVE  owner'[v] \in Task /\ Working(owner[v])' /\ v \in OnScreen'
    <3>1. owner[v] \in Task /\ Working(owner[v]) /\ v \in OnScreen /\ owner[v] # t
      BY <1>1, <1>7, <2>1 DEF WindowPart
    <3>2. QED
      BY <1>5, <1>6, <2>1, <3>1 DEF Working
  <2>2. ASSUME NEW v \in Window, v # w, kind[v] = "console"
        PROVE  /\ owner'[v] \in Task /\ state'[owner'[v]] # "free"
               /\ cons'[owner'[v]] = v \/ Asks("window", v)'
               /\ buffer'[v] \in {ConsoleSize, LogSize}
    <3>1. /\ owner[v] \in Task /\ state[owner[v]] # "free" /\ owner[v] # t
          /\ cons[owner[v]] = v \/ Asks("window", v)
          /\ buffer[v] \in {ConsoleSize, LogSize}
      BY <1>1, <1>7, <2>2 DEF WindowPart
    <3>2. QED
      BY <1>5, <1>8, <2>2, <3>1
  <2>3. /\ owner'[w] \in Task /\ state'[owner'[w]] # "free" /\ cons'[owner'[w]] = w
        /\ buffer'[w] \in {ConsoleSize, LogSize} /\ kind'[w] = "console"
    BY <1>2, <1>5
  <2>4. ASSUME NEW v \in Window, v # w, kind[v] \in {"free", "used"}
        PROVE  v \notin OnScreen' /\ owner'[v] = NoTask
    BY <1>1, <1>5, <1>6, <2>4 DEF WindowPart
  <2>5. \A v \in Window : v # w => kind[v] \in {"free", "used", "app", "console"}
    BY <1>1 DEF WindowPart
  <2>6. QED
    BY <1>5, <2>1, <2>2, <2>3, <2>4, <2>5 DEF WindowPart
<1>12. ConsPart'
  <2>1. ASSUME NEW u \in Task, u # t, cons[u] # NoSheet
        PROVE  /\ state'[u] # "free"
               /\ \/ kind'[cons[u]] = "console" /\ owner'[cons[u]] = u
                  \/ kind'[cons[u]] = "used" /\ Unborn(u)'
    <3>1. cons[u] \in Window /\ cons[u] # w
      BY <1>1, <1>7, <2>1 DEF TypePart
    <3>2. QED
      BY <1>1, <1>5, <1>9, <2>1, <3>1 DEF ConsPart
  <2>2. ASSUME NEW u \in Task, NEW v \in Task, cons'[u] = cons'[v], cons'[u] # NoSheet
        PROVE  u = v
    BY <1>1, <1>5, <1>7, <2>2 DEF ConsPart
  <2>3. QED
    BY <1>2, <1>5, <2>1, <2>2 DEF ConsPart
<1>13. OpeningPart'
  <2>1. ASSUME NEW u \in Task
        PROVE  /\ state'[u] \in {"start", "openwin"} <=> opening[u] # NoSheet
               /\ state'[u] = "openwin" => state[u] = "openwin"
               /\ state'[u] = "start" => state[u] = "start" /\ u # t
    BY <1>1, <1>2, <1>5, <1>7 DEF OpeningPart
  <2>2. ASSUME NEW u \in Task, opening[u] # NoSheet
        PROVE  kind'[opening[u]] = "used" /\ buffer'[opening[u]] = buffer[opening[u]]
    <3>1. opening[u] \in Window /\ opening[u] # w
      BY <1>1, <1>7, <2>2 DEF TypePart
    <3>2. QED
      BY <1>1, <1>5, <2>2, <3>1 DEF OpeningPart
  <2>3. ASSUME NEW u \in Task, state'[u] = "openwin" PROVE \A v \in Task : cons'[v] # opening[u]
    BY <1>1, <1>5, <1>7, <2>1, <2>3 DEF OpeningPart
  <2>4. ASSUME NEW u \in Task, state'[u] = "start"
        PROVE  /\ buffer'[opening[u]] = ConsoleSize
               /\ \E v \in Task \ {u} : cons'[v] = opening[u]
    <3>1. state[u] = "start" /\ opening[u] # NoSheet
      BY <1>1, <2>1, <2>4 DEF OpeningPart
    <3>2. PICK v \in Task \ {u} : cons[v] = opening[u]
      BY <1>1, <3>1 DEF OpeningPart
    <3>3. v # t
      BY <1>7, <3>1, <3>2
    <3>4. QED
      BY <1>1, <1>5, <2>2, <3>1, <3>2, <3>3 DEF OpeningPart
  <2>5. ASSUME NEW u \in Task, Unborn(u)' PROVE state'[u] = "prompt"
    BY <1>1, <1>5, <1>9, <1>10, <2>5 DEF OpeningPart
  <2>6. QED
    BY <1>1, <2>1, <2>2, <2>3, <2>4, <2>5 DEF OpeningPart
<1>14. FifoPart'
  <2>1. ASSUME NEW u \in Task
        PROVE  \/ fifo'[u] \in {<<>>, <<"key">>}
               \/ fifo'[u] = fifo[u] /\ cons'[u] = cons[u]
                    /\ (cons[u] \in OnScreen' => cons[u] \in OnScreen)
    <3>1. u # t /\ cons[u] \in OnScreen' => cons[u] \in OnScreen
      BY <1>1, <1>6, <1>7, Sheets, Places DEF TypePart, OnScreen
    <3>2. QED
      BY <1>5, <3>1
  <2>2. QED
    BY <1>5, <2>1, FifoKeeps
<1>15. RequestPart'
  <2>1. ASSUME NEW v \in Window, Asks("console", v)
        PROVE  \E u \in Task : cons'[u] = v /\ state'[u] = "gone"
    <3>1. PICK u \in Task : cons[u] = v /\ state[u] = "gone"
      BY <1>1, <2>1 DEF RequestPart
    <3>2. QED
      BY <1>2, <1>5, <3>1
  <2>2. ASSUME NEW v \in Window, Asks("window", v)
        PROVE  kind'[v] = "console" /\ v \notin OnScreen' /\ cons'[owner'[v]] = NoSheet
    <3>1. kind[v] = "console" /\ v \notin OnScreen /\ cons[owner[v]] = NoSheet /\ v # w
      BY <1>1, <1>7, <2>2 DEF RequestPart
    <3>2. owner[v] \in Task /\ owner[v] # t
      BY <1>1, <1>7, <3>1 DEF WindowPart
    <3>3. QED
      BY <1>5, <1>6, <3>1, <3>2
  <2>3. ASSUME NEW u \in Task, Asks("task", u) PROVE state'[u] = "gone" /\ cons'[u] = NoSheet
    BY <1>1, <1>2, <1>5, <2>3 DEF RequestPart
  <2>4. WindowFirst(messages', owner')
    <3>1. SUFFICES ASSUME NEW v \in Window, NEW i \in 1 .. Len(messages), NEW j \in 1 .. Len(messages),
                          messages[i] = [what |-> "window", of |-> v],
                          messages[j] = [what |-> "task", of |-> owner'[v]]
                   PROVE  i < j
      BY DEF WindowFirst
    <3>2. v # w
      BY <1>7, <3>1 DEF Asks, AsksIn
    <3>3. QED
      BY <1>1, <1>5, <3>1, <3>2 DEF RequestPart, WindowFirst
  <2>5. QED
    BY <1>1, <1>8, <2>1, <2>2, <2>3, <2>4 DEF RequestPart
<1>16. FocusPart'
  BY <1>2, <1>3, <1>6 DEF FocusPart
<1>17. QED
  BY <1>0, <1>2, <1>5, <1>6, <1>11, <1>12, <1>13, <1>14, <1>15, <1>16 DEF Core


\* cmd_start up to task_run: a task that has no FIFO yet, and a sheet that
\* has no task yet.
Starts(t, w, u) ==
    /\ kind' = [kind EXCEPT ![w] = "used"]
    /\ owner' = [owner EXCEPT ![w] = NoTask]
    /\ buffer' = [buffer EXCEPT ![w] = ConsoleSize]
    /\ opening' = [opening EXCEPT ![t] = w]
    /\ state' = [state EXCEPT ![t] = "start", ![u] = "prompt"]
    /\ cons' = [cons EXCEPT ![u] = w]

LEMMA StartKeeps ==
  ASSUME IInv, NEW t \in Task, state[t] = "prompt", ~ Unborn(t), ~ Full, NEW w, NEW u,
         w = NewWindow, u = NewTask, Starts(t, w, u), UNCHANGED <<stack, messages>>
  PROVE  /\ Core' /\ w \in Window /\ u \in Task /\ u # t /\ kind[w] = "free"
         /\ ~ HasClose(fifo[u])
<1>1. TypePart /\ WindowPart /\ ConsPart /\ OpeningPart /\ FifoPart /\ RequestPart
  BY DEF IInv
<1>2. w \in Window /\ kind[w] = "free" /\ u \in Task /\ state[u] = "free" /\ u # t
  BY Allocated DEF Full
<1>3. /\ \A v \in Window : owner'[v] = IF v = w THEN NoTask ELSE owner[v]
      /\ \A v \in Window : buffer'[v] = IF v = w THEN ConsoleSize ELSE buffer[v]
      /\ \A v \in Sheet : kind'[v] = IF v = w THEN "used" ELSE kind[v]
      /\ state'[u] = "prompt" /\ state'[t] = "start"
      /\ \A x \in Task : x # u /\ x # t => state'[x] = state[x]
      /\ \A x \in Task : cons'[x] = IF x = u THEN w ELSE cons[x]
      /\ \A x \in Task : opening'[x] = IF x = t THEN w ELSE opening[x]
  BY <1>1, <1>2, Sheets DEF TypePart, Starts
<1>4. OnScreen' = OnScreen
  BY DEF OnScreen
<1>5. /\ \A x \in Task : cons[x] # w
      /\ \A x \in Task : opening[x] # w
      /\ cons[u] = NoSheet /\ opening[u] = NoSheet /\ opening[t] = NoSheet
      /\ \A v \in Window : kind[v] \in {"app", "console"} => owner[v] # u
      /\ ~ Asks("window", w) /\ ~ Asks("console", w) /\ ~ Asks("task", u)
  <2>1. \A x \in Task : cons[x] # w /\ opening[x] # w
    BY <1>1, <1>2, NoTaskIsNone DEF ConsPart, OpeningPart
  <2>2. cons[u] = NoSheet /\ opening[u] = NoSheet /\ opening[t] = NoSheet
    BY <1>1, <1>2 DEF ConsPart, OpeningPart
  <2>3. \A v \in Window : kind[v] \in {"app", "console"} => owner[v] # u
    BY <1>1, <1>2 DEF WindowPart, Working
  <2>4. ~ Asks("window", w) /\ ~ Asks("console", w) /\ ~ Asks("task", u)
    BY <1>1, <1>2, <2>1 DEF RequestPart
  <2>5. QED
    BY <2>1, <2>2, <2>3, <2>4
<1>6. \A y, z : Asks(y, z)' <=> Asks(y, z)
  BY DEF Asks
<1>7. Unborn(u)'
  BY <1>2, <1>3 DEF Unborn
<1>8. \A x \in Task : x # u => (Unborn(x)' <=> Unborn(x))
  BY <1>2, <1>3, <1>5 DEF Unborn
<1>9. WindowPart'
  <2>1. ASSUME NEW v \in Window, v # w, kind[v] = "app"
        PROVE  owner'[v] \in Task /\ Working(owner[v])' /\ v \in OnScreen'
    <3>1. owner[v] \in Task /\ Working(owner[v]) /\ v \in OnScreen /\ owner[v] # u /\ owner[v] # t
      BY <1>1, <1>5, <2>1 DEF WindowPart, Working
    <3>2. QED
      BY <1>3, <1>4, <2>1, <3>1 DEF Working
  <2>2. ASSUME NEW v \in Window, v # w, kind[v] = "console"
        PROVE  /\ owner'[v] \in Task /\ state'[owner'[v]] # "free"
               /\ cons'[owner'[v]] = v \/ Asks("window", v)'
               /\ buffer'[v] \in {ConsoleSize, LogSize}
    <3>1. /\ owner[v] \in Task /\ state[owner[v]] # "free" /\ owner[v] # u
          /\ cons[owner[v]] = v \/ Asks("window", v)
          /\ buffer[v] \in {ConsoleSize, LogSize}
      BY <1>1, <1>5, <2>2 DEF WindowPart
    <3>2. QED
      BY <1>3, <1>6, <2>2, <3>1
  <2>3. kind'[w] = "used" /\ w \notin OnScreen' /\ owner'[w] = NoTask
    BY <1>1, <1>2, <1>3, <1>4, Sheets DEF WindowPart
  <2>4. ASSUME NEW v \in Window, v # w
        PROVE  /\ kind'[v] = kind[v] /\ kind[v] \in {"free", "used", "app", "console"}
               /\ kind[v] \in {"free", "used"} => v \notin OnScreen' /\ owner'[v] = NoTask
    BY <1>1, <1>3, <1>4, <2>4, Sheets DEF WindowPart
  <2>5. \A s \in Sheet : kind'[s] \in {"app", "console"} => s \in Window
    BY <1>1, <1>3 DEF WindowPart
  <2>6. QED
    BY <2>1, <2>2, <2>3, <2>4, <2>5 DEF WindowPart
<1>10. ConsPart'
  <2>1. ASSUME NEW x \in Task, x # u, cons[x] # NoSheet
        PROVE  /\ state'[x] # "free"
               /\ \/ kind'[cons[x]] = "console" /\ owner'[cons[x]] = x
                  \/ kind'[cons[x]] = "used" /\ Unborn(x)'
    <3>1. cons[x] \in Window /\ cons[x] # w
      BY <1>1, <1>5, <2>1 DEF TypePart
    <3>2. QED
      BY <1>1, <1>3, <1>8, <2>1, <3>1, Sheets DEF ConsPart
  <2>2. ASSUME NEW x \in Task, NEW v \in Task, cons'[x] = cons'[v], cons'[x] # NoSheet
        PROVE  x = v
    BY <1>1, <1>3, <1>5, <2>2 DEF ConsPart
  <2>3. state'[u] # "free" /\ kind'[cons'[u]] = "used"
    BY <1>2, <1>3, Sheets
  <2>4. QED
    BY <1>3, <1>7, <2>1, <2>2, <2>3 DEF ConsPart
<1>11. OpeningPart'
  <2>1. ASSUME NEW x \in Task
        PROVE  /\ state'[x] \in {"start", "openwin"} <=> opening'[x] # NoSheet
               /\ state'[x] = "openwin" => state[x] = "openwin" /\ opening'[x] = opening[x]
               /\ state'[x] = "start" => x = t \/ (state[x] = "start" /\ x # u)
    BY <1>1, <1>2, <1>3, <1>5, NoTaskIsNone DEF OpeningPart
  <2>2. ASSUME NEW x \in Task, x # t, opening[x] # NoSheet
        PROVE  kind'[opening[x]] = "used" /\ buffer'[opening[x]] = buffer[opening[x]]
    <3>1. opening[x] \in Window /\ opening[x] # w
      BY <1>1, <1>5, <2>2 DEF TypePart
    <3>2. QED
      BY <1>1, <1>3, <2>2, <3>1, Sheets DEF OpeningPart
  <2>3. kind'[w] = "used" /\ buffer'[w] = ConsoleSize
    BY <1>2, <1>3, Sheets
  <2>4. ASSUME NEW x \in Task, state'[x] = "openwin"
        PROVE  \A v \in Task : cons'[v] # opening'[x]
    BY <1>1, <1>3, <1>5, <2>1, <2>4 DEF OpeningPart
  <2>5. ASSUME NEW x \in Task, state'[x] = "start"
        PROVE  /\ buffer'[opening'[x]] = ConsoleSize
               /\ \E v \in Task \ {x} : cons'[v] = opening'[x]
    <3>1. CASE x = t
      BY <1>2, <1>3, <2>3, <3>1
    <3>2. CASE x # t
      <4>1. state[x] = "start" /\ opening[x] # NoSheet /\ opening'[x] = opening[x]
        BY <1>1, <1>3, <2>1, <2>5, <3>2 DEF OpeningPart
      <4>2. PICK v \in Task \ {x} : cons[v] = opening[x]
        BY <1>1, <4>1 DEF OpeningPart
      <4>3. v # u
        BY <1>5, <4>1, <4>2
      <4>4. QED
        BY <1>1, <1>3, <2>2, <3>2, <4>1, <4>2, <4>3 DEF OpeningPart
    <3>3. QED
      BY <3>1, <3>2
  <2>6. ASSUME NEW x \in Task, Unborn(x)' PROVE state'[x] = "prompt"
    <3>1. CASE x = u
      BY <1>3, <3>1
    <3>2. CASE x # u
      BY <1>1, <1>3, <1>8, <2>6, <3>2 DEF OpeningPart
    <3>3. QED
      BY <3>1, <3>2
  <2>7. ASSUME NEW x \in Task, NEW v \in Task, opening'[x] = opening'[v], opening'[x] # NoSheet
        PROVE  x = v
    BY <1>1, <1>3, <1>5, <2>7 DEF OpeningPart
  <2>8. \A x \in Task : opening'[x] # NoSheet => kind'[opening'[x]] = "used"
    BY <1>3, <2>2, <2>3
  <2>9. QED
    BY <2>1, <2>4, <2>5, <2>6, <2>7, <2>8 DEF OpeningPart
<1>12. RequestPart'
  <2>1. ASSUME NEW v \in Window, Asks("console", v)
        PROVE  \E x \in Task : cons'[x] = v /\ state'[x] = "gone"
    <3>1. PICK x \in Task : cons[x] = v /\ state[x] = "gone"
      BY <1>1, <2>1 DEF RequestPart
    <3>2. QED
      BY <1>2, <1>3, <3>1
  <2>2. ASSUME NEW v \in Window, Asks("window", v)
        PROVE  kind'[v] = "console" /\ v \notin OnScreen' /\ cons'[owner'[v]] = NoSheet
    <3>1. kind[v] = "console" /\ v \notin OnScreen /\ cons[owner[v]] = NoSheet /\ v # w
      BY <1>1, <1>5, <2>2 DEF RequestPart
    <3>2. owner[v] \in Task /\ owner[v] # u
      BY <1>1, <1>5, <3>1 DEF WindowPart
    <3>3. QED
      BY <1>3, <1>4, <3>1, <3>2, Sheets
  <2>3. ASSUME NEW x \in Task, Asks("task", x) PROVE state'[x] = "gone" /\ cons'[x] = NoSheet
    BY <1>1, <1>2, <1>3, <2>3 DEF RequestPart
  <2>4. WindowFirst(messages', owner')
    <3>1. SUFFICES ASSUME NEW v \in Window, NEW i \in 1 .. Len(messages), NEW j \in 1 .. Len(messages),
                          messages[i] = [what |-> "window", of |-> v],
                          messages[j] = [what |-> "task", of |-> owner'[v]]
                   PROVE  i < j
      BY DEF WindowFirst
    <3>2. v # w
      BY <1>5, <3>1 DEF Asks, AsksIn
    <3>3. QED
      BY <1>1, <1>3, <3>1, <3>2 DEF RequestPart, WindowFirst
  <2>5. QED
    BY <1>1, <1>6, <2>1, <2>2, <2>3, <2>4 DEF RequestPart
<1>13. ~ HasClose(fifo[u])
  BY <1>1, <1>2, <1>5 DEF FifoPart
<1>14. QED
  BY <1>2, <1>9, <1>10, <1>11, <1>12, <1>13 DEF Core

\* The rest of cmd_start: the sheet is its task's and is shown.
LEMMA StartedKeeps ==
  ASSUME IInv, NEW t \in Task, state[t] = "start", NEW w, NEW u,
         w = opening[t], u = CHOOSE x \in Task \ {t} : state[x] # "free" /\ cons[x] = w,
         kind' = [kind EXCEPT ![w] = "console"],
         owner' = [owner EXCEPT ![w] = u],
         stack' = UpDown(stack, w, top),
         opening' = [opening EXCEPT ![t] = NoSheet],
         state' = [state EXCEPT ![t] = "prompt"],
         UNCHANGED <<buffer, cons, messages>>
  PROVE  /\ Core' /\ w \in Window /\ u \in Task /\ cons[u] = w /\ IsStack(stack')
         /\ \A v \in Sheet : v \in OnScreen' <=> v \in OnScreen \/ v = w
<1>1. TypePart /\ WindowPart /\ ConsPart /\ OpeningPart /\ FifoPart /\ RequestPart
  BY DEF IInv
<1>2. w # NoSheet /\ w \in Window /\ kind[w] = "used" /\ buffer[w] = ConsoleSize
  BY <1>1 DEF OpeningPart, TypePart
<1>3. u \in Task /\ u # t /\ state[u] = "prompt" /\ cons[u] = w
  <2>1. \E x \in Task \ {t} : state[x] # "free" /\ cons[x] = w
    BY <1>1, <1>2 DEF OpeningPart, ConsPart
  <2>2. u \in Task /\ u # t /\ state[u] # "free" /\ cons[u] = w
    BY <2>1
  <2>3. Unborn(u)
    BY <2>2 DEF Unborn
  <2>4. QED
    BY <1>1, <2>2, <2>3 DEF OpeningPart
<1>4. /\ \A v \in Window : owner'[v] = IF v = w THEN u ELSE owner[v]
      /\ \A v \in Sheet : kind'[v] = IF v = w THEN "console" ELSE kind[v]
      /\ \A x \in Task : state'[x] = IF x = t THEN "prompt" ELSE state[x]
      /\ \A x \in Task : opening'[x] = IF x = t THEN NoSheet ELSE opening[x]
  BY <1>1, <1>2, Sheets DEF TypePart
<1>5. IsStack(stack') /\ \A v \in Sheet : v \in OnScreen' <=> v \in OnScreen \/ v = w
  <2>1. IsStack(stack) /\ w \notin Contents(stack)
    BY <1>1, <1>2 DEF IInv, WindowPart, OnScreen
  <2>2. stack' = UpDown(stack, w, Len(stack) - 1)
    BY DEF top
  <2>3. IsStack(stack') /\ Contents(stack') = Contents(stack) \cup {w}
    BY <1>2, <2>1, <2>2, Shows
  <2>4. QED
    BY <2>3 DEF OnScreen
<1>6. /\ \A x \in Task : x # u => cons[x] # w
      /\ \A x \in Task : x # t => opening[x] # w
      /\ ~ Asks("window", w) /\ ~ Unborn(t)
  <2>1. \A x \in Task : x # u => cons[x] # w
    BY <1>1, <1>2, <1>3 DEF ConsPart
  <2>2. \A x \in Task : x # t => opening[x] # w
    BY <1>1, <1>2 DEF OpeningPart
  <2>3. ~ Asks("window", w) /\ ~ Unborn(t)
    BY <1>1, <1>2 DEF RequestPart, OpeningPart
  <2>4. QED
    BY <2>1, <2>2, <2>3
<1>7. \A y, z : Asks(y, z)' <=> Asks(y, z)
  BY DEF Asks
<1>8. \A x \in Task : Unborn(x)' <=> Unborn(x) /\ x # u
  <2>1. ASSUME NEW x \in Task, Unborn(x)' PROVE Unborn(x) /\ x # u
    BY <1>2, <1>3, <1>4, <1>6, <2>1 DEF Unborn
  <2>2. ASSUME NEW x \in Task, Unborn(x), x # u PROVE Unborn(x)'
    BY <1>4, <1>6, <2>2 DEF Unborn
  <2>3. QED
    BY <2>1, <2>2
<1>9. WindowPart'
  <2>1. ASSUME NEW v \in Window, v # w, kind[v] = "app"
        PROVE  owner'[v] \in Task /\ Working(owner[v])' /\ v \in OnScreen'
    <3>1. owner[v] \in Task /\ Working(owner[v]) /\ v \in OnScreen /\ owner[v] # t
      BY <1>1, <2>1 DEF WindowPart, Working
    <3>2. QED
      BY <1>4, <1>5, <2>1, <3>1, Sheets DEF Working
  <2>2. ASSUME NEW v \in Window, v # w, kind[v] = "console"
        PROVE  /\ owner'[v] \in Task /\ state'[owner'[v]] # "free"
               /\ cons'[owner'[v]] = v \/ Asks("window", v)'
               /\ buffer'[v] \in {ConsoleSize, LogSize}
    BY <1>1, <1>4, <1>7, <2>2 DEF WindowPart
  <2>3. /\ kind'[w] = "console" /\ owner'[w] \in Task /\ state'[owner'[w]] # "free"
        /\ cons'[owner'[w]] = w /\ buffer'[w] \in {ConsoleSize, LogSize}
    BY <1>2, <1>3, <1>4, Sheets
  <2>4. ASSUME NEW v \in Window, v # w
        PROVE  /\ kind'[v] = kind[v] /\ kind[v] \in {"free", "used", "app", "console"}
               /\ kind[v] \in {"free", "used"} => v \notin OnScreen' /\ owner'[v] = NoTask
    BY <1>1, <1>4, <1>5, <2>4, Sheets DEF WindowPart
  <2>5. \A s \in Sheet : kind'[s] \in {"app", "console"} => s \in Window
    BY <1>1, <1>2, <1>4 DEF WindowPart
  <2>6. QED
    BY <2>1, <2>2, <2>3, <2>4, <2>5 DEF WindowPart
<1>10. ConsPart'
  <2>1. ASSUME NEW x \in Task, x # u, cons[x] # NoSheet
        PROVE  /\ state'[x] # "free"
               /\ \/ kind'[cons[x]] = "console" /\ owner'[cons[x]] = x
                  \/ kind'[cons[x]] = "used" /\ Unborn(x)'
    <3>1. cons[x] \in Window /\ cons[x] # w
      BY <1>1, <1>6, <2>1 DEF TypePart
    <3>2. QED
      BY <1>1, <1>4, <1>8, <2>1, <3>1, Sheets DEF ConsPart
  <2>2. state'[u] # "free" /\ kind'[cons'[u]] = "console" /\ owner'[cons'[u]] = u
    BY <1>2, <1>3, <1>4, Sheets
  <2>3. QED
    BY <1>1, <2>1, <2>2 DEF ConsPart
<1>11. OpeningPart'
  <2>1. ASSUME NEW x \in Task
        PROVE  /\ state'[x] \in {"start", "openwin"} <=> opening'[x] # NoSheet
               /\ state'[x] = "openwin" => state[x] = "openwin" /\ x # t
               /\ state'[x] = "start" => state[x] = "start" /\ x # t
               /\ opening'[x] # NoSheet => opening'[x] = opening[x] /\ x # t
    BY <1>1, <1>4 DEF OpeningPart
  <2>2. ASSUME NEW x \in Task, opening'[x] # NoSheet
        PROVE  kind'[opening'[x]] = "used" /\ buffer'[opening'[x]] = buffer[opening[x]]
    <3>1. opening[x] \in Window /\ opening[x] # w /\ opening'[x] = opening[x]
      BY <1>1, <1>6, <2>1, <2>2 DEF TypePart
    <3>2. QED
      BY <1>1, <1>4, <2>2, <3>1, Sheets DEF OpeningPart
  <2>3. ASSUME NEW x \in Task, state'[x] = "openwin"
        PROVE  \A v \in Task : cons'[v] # opening'[x]
    BY <1>1, <1>4, <2>1, <2>3 DEF OpeningPart
  <2>4. ASSUME NEW x \in Task, state'[x] = "start"
        PROVE  /\ buffer'[opening'[x]] = ConsoleSize
               /\ \E v \in Task \ {x} : cons'[v] = opening'[x]
    BY <1>1, <1>4, <2>1, <2>4 DEF OpeningPart
  <2>5. ASSUME NEW x \in Task, Unborn(x)' PROVE state'[x] = "prompt"
    BY <1>1, <1>4, <1>8, <2>5 DEF OpeningPart
  <2>6. ASSUME NEW x \in Task, NEW v \in Task, opening'[x] = opening'[v], opening'[x] # NoSheet
        PROVE  x = v
    BY <1>1, <1>4, <2>6 DEF OpeningPart
  <2>7. QED
    BY <2>1, <2>2, <2>3, <2>4, <2>5, <2>6 DEF OpeningPart
<1>12. RequestPart'
  <2>1. ASSUME NEW v \in Window, Asks("console", v)
        PROVE  \E x \in Task : cons'[x] = v /\ state'[x] = "gone"
    BY <1>1, <1>4, <2>1 DEF RequestPart
  <2>2. ASSUME NEW v \in Window, Asks("window", v)
        PROVE  kind'[v] = "console" /\ v \notin OnScreen' /\ cons'[owner'[v]] = NoSheet
    <3>1. kind[v] = "console" /\ v \notin OnScreen /\ cons[owner[v]] = NoSheet /\ v # w
      BY <1>1, <1>6, <2>2 DEF RequestPart
    <3>2. QED
      BY <1>4, <1>5, <3>1, Sheets
  <2>3. ASSUME NEW x \in Task, Asks("task", x) PROVE state'[x] = "gone" /\ cons'[x] = NoSheet
    BY <1>1, <1>4, <2>3 DEF RequestPart
  <2>4. WindowFirst(messages', owner')
    <3>1. SUFFICES ASSUME NEW v \in Window, NEW i \in 1 .. Len(messages), NEW j \in 1 .. Len(messages),
                          messages[i] = [what |-> "window", of |-> v],
                          messages[j] = [what |-> "task", of |-> owner'[v]]
                   PROVE  i < j
      BY DEF WindowFirst
    <3>2. v # w
      BY <1>6, <3>1 DEF Asks, AsksIn
    <3>3. QED
      BY <1>1, <1>4, <3>1, <3>2 DEF RequestPart, WindowFirst
  <2>5. QED
    BY <1>1, <1>7, <2>1, <2>2, <2>3, <2>4 DEF RequestPart
<1>13. QED
  BY <1>2, <1>3, <1>5, <1>9, <1>10, <1>11, <1>12 DEF Core


\* openwin up to sheet_alloc: a sheet that nobody knows but its application.
LEMMA OpenWinKeeps ==
  ASSUME IInv, NEW t \in Task, OpenWin(t), FreeWindows # {}
  PROVE  Core' /\ TypePart'
<1>0. PICK w : w = NewWindow
  OBVIOUS
<1>1. TypePart /\ WindowPart /\ ConsPart /\ OpeningPart /\ RequestPart
  BY DEF IInv
<1>2. w \in Window /\ kind[w] = "free" /\ state[t] = "run"
  BY <1>0, Allocated DEF OpenWin, Runs
<1>3. /\ kind' = [kind EXCEPT ![w] = "used"] /\ owner' = [owner EXCEPT ![w] = NoTask]
      /\ buffer' = [buffer EXCEPT ![w] = 0] /\ opening' = [opening EXCEPT ![t] = w]
      /\ state' = [state EXCEPT ![t] = "openwin"]
      /\ UNCHANGED <<stack, focus, cons, fifo, messages, fault>>
  BY <1>0 DEF OpenWin, Becomes
<1>4. /\ \A v \in Window : owner'[v] = IF v = w THEN NoTask ELSE owner[v]
      /\ \A v \in Window : v # w => buffer'[v] = buffer[v]
      /\ \A v \in Sheet : kind'[v] = IF v = w THEN "used" ELSE kind[v]
      /\ \A x \in Task : state'[x] = IF x = t THEN "openwin" ELSE state[x]
      /\ \A x \in Task : opening'[x] = IF x = t THEN w ELSE opening[x]
  BY <1>1, <1>2, <1>3, Sheets DEF TypePart
<1>5. OnScreen' = OnScreen /\ cons' = cons /\ messages' = messages
  BY <1>3 DEF OnScreen
<1>6. /\ \A x \in Task : cons[x] # w /\ opening[x] # w
      /\ opening[t] = NoSheet /\ ~ Asks("window", w) /\ ~ Unborn(t)
  <2>1. \A x \in Task : cons[x] # w /\ opening[x] # w
    BY <1>1, <1>2, NoTaskIsNone DEF ConsPart, OpeningPart
  <2>2. opening[t] = NoSheet /\ ~ Unborn(t) /\ ~ Asks("window", w)
    BY <1>1, <1>2 DEF OpeningPart, RequestPart
  <2>3. QED
    BY <2>1, <2>2
<1>7. \A y, z : Asks(y, z)' <=> Asks(y, z)
  BY <1>5 DEF Asks
<1>8. \A x \in Task : Unborn(x)' <=> Unborn(x)
  BY <1>2, <1>4, <1>5 DEF Unborn
<1>9. WindowPart'
  <2>1. ASSUME NEW v \in Window, v # w, kind[v] = "app"
        PROVE  owner'[v] \in Task /\ Working(owner[v])' /\ v \in OnScreen'
    <3>1. owner[v] \in Task /\ Working(owner[v]) /\ v \in OnScreen
      BY <1>1, <2>1 DEF WindowPart
    <3>2. QED
      BY <1>4, <1>5, <2>1, <3>1 DEF Working
  <2>2. ASSUME NEW v \in Window, v # w, kind[v] = "console"
        PROVE  /\ owner'[v] \in Task /\ state'[owner'[v]] # "free"
               /\ cons'[owner'[v]] = v \/ Asks("window", v)'
               /\ buffer'[v] \in {ConsoleSize, LogSize}
    BY <1>1, <1>4, <1>5, <1>7, <2>2 DEF WindowPart
  <2>3. kind'[w] = "used" /\ w \notin OnScreen' /\ owner'[w] = NoTask
    BY <1>1, <1>2, <1>4, <1>5, Sheets DEF WindowPart
  <2>4. ASSUME NEW v \in Window, v # w
        PROVE  /\ kind'[v] = kind[v] /\ kind[v] \in {"free", "used", "app", "console"}
               /\ kind[v] \in {"free", "used"} => v \notin OnScreen' /\ owner'[v] = NoTask
    BY <1>1, <1>4, <1>5, <2>4, Sheets DEF WindowPart
  <2>5. \A s \in Sheet : kind'[s] \in {"app", "console"} => s \in Window
    BY <1>1, <1>4 DEF WindowPart
  <2>6. QED
    BY <2>1, <2>2, <2>3, <2>4, <2>5 DEF WindowPart
<1>10. ConsPart'
  <2>1. ASSUME NEW x \in Task, cons[x] # NoSheet
        PROVE  /\ state'[x] # "free"
               /\ \/ kind'[cons[x]] = "console" /\ owner'[cons[x]] = x
                  \/ kind'[cons[x]] = "used" /\ Unborn(x)'
    <3>1. cons[x] \in Window /\ cons[x] # w
      BY <1>1, <1>6, <2>1 DEF TypePart
    <3>2. QED
      BY <1>1, <1>4, <1>8, <2>1, <3>1, Sheets DEF ConsPart
  <2>2. QED
    BY <1>1, <1>5, <2>1 DEF ConsPart
<1>11. OpeningPart'
  <2>1. ASSUME NEW x \in Task, x # t
        PROVE  state'[x] = state[x] /\ opening'[x] = opening[x]
    BY <1>4, <2>1
  <2>2. ASSUME NEW x \in Task, x # t, opening[x] # NoSheet
        PROVE  kind'[opening[x]] = "used" /\ buffer'[opening[x]] = buffer[opening[x]]
    <3>1. opening[x] \in Window /\ opening[x] # w
      BY <1>1, <1>6, <2>2 DEF TypePart
    <3>2. QED
      BY <1>1, <1>4, <2>2, <3>1, Sheets DEF OpeningPart
  <2>3. kind'[w] = "used" /\ state'[t] = "openwin" /\ opening'[t] = w /\ w # NoSheet
    BY <1>2, <1>4, Sheets, NoTaskIsNone
  <2>4. ASSUME NEW x \in Task
        PROVE  /\ state'[x] \in {"start", "openwin"} <=> opening'[x] # NoSheet
               /\ opening'[x] # NoSheet => kind'[opening'[x]] = "used"
               /\ state'[x] = "openwin" => \A v \in Task : cons'[v] # opening'[x]
    BY <1>1, <1>5, <1>6, <2>1, <2>2, <2>3 DEF OpeningPart
  <2>5. ASSUME NEW x \in Task, state'[x] = "start"
        PROVE  /\ buffer'[opening'[x]] = ConsoleSize
               /\ \E v \in Task \ {x} : cons'[v] = opening'[x]
    <3>1. x # t /\ state[x] = "start" /\ opening'[x] = opening[x] /\ opening[x] # NoSheet
      BY <1>1, <2>1, <2>3, <2>5 DEF OpeningPart
    <3>2. QED
      BY <1>1, <1>5, <2>2, <3>1 DEF OpeningPart
  <2>6. ASSUME NEW x \in Task, Unborn(x)' PROVE state'[x] = "prompt"
    BY <1>1, <1>6, <1>8, <2>1, <2>6 DEF OpeningPart
  <2>7. ASSUME NEW x \in Task, NEW v \in Task, opening'[x] = opening'[v], opening'[x] # NoSheet
        PROVE  x = v
    BY <1>1, <1>4, <1>6, <2>7 DEF OpeningPart
  <2>8. QED
    BY <2>4, <2>5, <2>6, <2>7 DEF OpeningPart
<1>12. RequestPart'
  <2>1. \A x \in Task : state[x] = "gone" <=> state'[x] = "gone"
    BY <1>2, <1>4
  <2>2. ASSUME NEW v \in Window, Asks("window", v)
        PROVE  kind'[v] = "console" /\ v \notin OnScreen' /\ cons'[owner'[v]] = NoSheet
    <3>1. kind[v] = "console" /\ v \notin OnScreen /\ cons[owner[v]] = NoSheet /\ v # w
      BY <1>1, <1>6, <2>2 DEF RequestPart
    <3>2. QED
      BY <1>4, <1>5, <3>1, Sheets
  <2>3. WindowFirst(messages', owner')
    <3>1. SUFFICES ASSUME NEW v \in Window, NEW i \in 1 .. Len(messages), NEW j \in 1 .. Len(messages),
                          messages[i] = [what |-> "window", of |-> v],
                          messages[j] = [what |-> "task", of |-> owner'[v]]
                   PROVE  i < j
      BY <1>5 DEF WindowFirst
    <3>2. v # w
      BY <1>6, <3>1 DEF Asks, AsksIn
    <3>3. QED
      BY <1>1, <1>4, <3>1, <3>2 DEF RequestPart, WindowFirst
  <2>4. QED
    BY <1>1, <1>5, <1>7, <2>1, <2>2, <2>3 DEF RequestPart
<1>13. TypePart'
  <2>1. kind' \in [Sheet -> {"free", "used", "app", "console", "menu", "negated"}]
    BY <1>1, <1>3 DEF TypePart
  <2>2. owner' \in [Window -> Task \cup {NoTask}] /\ buffer' \in [Window -> {0, ConsoleSize, LogSize}]
    BY <1>1, <1>3 DEF TypePart
  <2>3. state' \in [Task -> States] /\ opening' \in [Task -> Window \cup {NoSheet}]
    BY <1>1, <1>2, <1>3 DEF TypePart, States
  <2>4. QED
    BY <1>1, <1>3, <2>1, <2>2, <2>3 DEF TypePart
<1>14. QED
  BY <1>9, <1>10, <1>11, <1>12, <1>13 DEF Core

\* The rest of openwin.
LEMMA WinOpenedKeeps ==
  ASSUME IInv, NEW t \in Task, WinOpened(t)
  PROVE  /\ Core' /\ TypePart' /\ IsStack(stack')
         /\ \A v \in Sheet : v \in OnScreen' <=> v \in OnScreen \/ v = opening[t]
         /\ \A x \in Task : cons[x] # opening[t]
<1>0. PICK w : w = opening[t]
  OBVIOUS
<1>1. TypePart /\ WindowPart /\ ConsPart /\ OpeningPart /\ RequestPart
  BY DEF IInv
<1>2. /\ state[t] = "openwin" /\ w # NoSheet /\ w \in Window /\ kind[w] = "used"
      /\ \A x \in Task : cons[x] # w
  BY <1>0, <1>1 DEF WinOpened, Runs, OpeningPart, TypePart
<1>3. /\ owner' = [owner EXCEPT ![w] = t] /\ kind' = [kind EXCEPT ![w] = "app"]
      /\ stack' = UpDown(stack, w, top)
      /\ opening' = [opening EXCEPT ![t] = NoSheet] /\ state' = [state EXCEPT ![t] = "run"]
      /\ UNCHANGED <<buffer, focus, cons, fifo, messages, fault>>
  BY <1>0 DEF WinOpened, Becomes
<1>4. /\ \A v \in Window : owner'[v] = IF v = w THEN t ELSE owner[v]
      /\ \A v \in Sheet : kind'[v] = IF v = w THEN "app" ELSE kind[v]
      /\ \A x \in Task : state'[x] = IF x = t THEN "run" ELSE state[x]
      /\ \A x \in Task : opening'[x] = IF x = t THEN NoSheet ELSE opening[x]
  BY <1>1, <1>2, <1>3, Sheets DEF TypePart
<1>5. IsStack(stack') /\ \A v \in Sheet : v \in OnScreen' <=> v \in OnScreen \/ v = w
  <2>1. IsStack(stack) /\ w \notin Contents(stack)
    BY <1>1, <1>2 DEF IInv, WindowPart, OnScreen
  <2>2. stack' = UpDown(stack, w, Len(stack) - 1)
    BY <1>3 DEF top
  <2>3. IsStack(stack') /\ Contents(stack') = Contents(stack) \cup {w}
    BY <1>2, <2>1, <2>2, Shows
  <2>4. QED
    BY <2>3 DEF OnScreen
<1>6. (\A x \in Task : x # t => opening[x] # w) /\ ~ Asks("window", w) /\ ~ Unborn(t)
  <2>1. \A x \in Task : x # t => opening[x] # w
    BY <1>0, <1>1, <1>2 DEF OpeningPart
  <2>2. ~ Asks("window", w) /\ ~ Unborn(t)
    BY <1>1, <1>2 DEF RequestPart, OpeningPart
  <2>3. QED
    BY <2>1, <2>2
<1>7. (\A y, z : Asks(y, z)' <=> Asks(y, z)) /\ cons' = cons /\ messages' = messages /\ buffer' = buffer
  BY <1>3 DEF Asks
<1>8. \A x \in Task : Unborn(x)' <=> Unborn(x)
  BY <1>2, <1>4, <1>7 DEF Unborn
<1>9. WindowPart'
  <2>1. ASSUME NEW v \in Window, v # w, kind[v] = "app"
        PROVE  owner'[v] \in Task /\ Working(owner[v])' /\ v \in OnScreen'
    <3>1. owner[v] \in Task /\ Working(owner[v]) /\ v \in OnScreen
      BY <1>1, <2>1 DEF WindowPart
    <3>2. QED
      BY <1>4, <1>5, <2>1, <3>1, Sheets DEF Working
  <2>2. ASSUME NEW v \in Window, v # w, kind[v] = "console"
        PROVE  /\ owner'[v] \in Task /\ state'[owner'[v]] # "free"
               /\ cons'[owner'[v]] = v \/ Asks("window", v)'
               /\ buffer'[v] \in {ConsoleSize, LogSize}
    BY <1>1, <1>4, <1>7, <2>2 DEF WindowPart
  <2>3. kind'[w] = "app" /\ owner'[w] = t /\ state'[t] = "run" /\ w \in OnScreen'
    BY <1>2, <1>4, <1>5, Sheets
  <2>4. ASSUME NEW v \in Window, v # w
        PROVE  /\ kind'[v] = kind[v] /\ kind[v] \in {"free", "used", "app", "console"}
               /\ kind[v] \in {"free", "used"} => v \notin OnScreen' /\ owner'[v] = NoTask
    BY <1>1, <1>4, <1>5, <2>4, Sheets DEF WindowPart
  <2>5. \A s \in Sheet : kind'[s] \in {"app", "console"} => s \in Window
    BY <1>1, <1>2, <1>4 DEF WindowPart
  <2>6. Working(owner[w])'
    BY <2>3 DEF Working
  <2>7. QED
    BY <2>1, <2>2, <2>3, <2>4, <2>5, <2>6 DEF WindowPart
<1>10. ConsPart'
  <2>1. ASSUME NEW x \in Task, cons[x] # NoSheet
        PROVE  /\ state'[x] # "free"
               /\ \/ kind'[cons[x]] = "console" /\ owner'[cons[x]] = x
                  \/ kind'[cons[x]] = "used" /\ Unborn(x)'
    <3>1. cons[x] \in Window /\ cons[x] # w
      BY <1>1, <1>2, <2>1 DEF TypePart
    <3>2. QED
      BY <1>1, <1>4, <1>8, <2>1, <3>1, Sheets DEF ConsPart
  <2>2. QED
    BY <1>1, <1>7, <2>1 DEF ConsPart
<1>11. OpeningPart'
  <2>1. ASSUME NEW x \in Task
        PROVE  /\ state'[x] \in {"start", "openwin"} <=> opening'[x] # NoSheet
               /\ state'[x] = "openwin" => state[x] = "openwin" /\ x # t
               /\ state'[x] = "start" => state[x] = "start" /\ x # t
               /\ opening'[x] # NoSheet => opening'[x] = opening[x] /\ x # t
    BY <1>1, <1>4 DEF OpeningPart
  <2>2. ASSUME NEW x \in Task, opening'[x] # NoSheet
        PROVE  kind'[opening'[x]] = "used"
    <3>1. opening[x] \in Window /\ opening[x] # w /\ opening'[x] = opening[x]
      BY <1>1, <1>6, <2>1, <2>2 DEF TypePart
    <3>2. QED
      BY <1>1, <1>4, <2>2, <3>1, Sheets DEF OpeningPart
  <2>3. ASSUME NEW x \in Task, state'[x] = "openwin"
        PROVE  \A v \in Task : cons'[v] # opening'[x]
    BY <1>1, <1>4, <1>7, <2>1, <2>3 DEF OpeningPart
  <2>4. ASSUME NEW x \in Task, state'[x] = "start"
        PROVE  /\ buffer'[opening'[x]] = ConsoleSize
               /\ \E v \in Task \ {x} : cons'[v] = opening'[x]
    BY <1>1, <1>4, <1>7, <2>1, <2>4 DEF OpeningPart
  <2>5. ASSUME NEW x \in Task, Unborn(x)' PROVE state'[x] = "prompt"
    BY <1>1, <1>4, <1>6, <1>8, <2>5 DEF OpeningPart
  <2>6. ASSUME NEW x \in Task, NEW v \in Task, opening'[x] = opening'[v], opening'[x] # NoSheet
        PROVE  x = v
    BY <1>1, <1>4, <2>6 DEF OpeningPart
  <2>7. QED
    BY <2>1, <2>2, <2>3, <2>4, <2>5, <2>6 DEF OpeningPart
<1>12. RequestPart'
  <2>1. \A x \in Task : state[x] = "gone" <=> state'[x] = "gone"
    BY <1>2, <1>4
  <2>2. ASSUME NEW v \in Window, Asks("window", v)
        PROVE  kind'[v] = "console" /\ v \notin OnScreen' /\ cons'[owner'[v]] = NoSheet
    <3>1. kind[v] = "console" /\ v \notin OnScreen /\ cons[owner[v]] = NoSheet /\ v # w
      BY <1>1, <1>6, <2>2 DEF RequestPart
    <3>2. QED
      BY <1>4, <1>5, <1>7, <3>1, Sheets
  <2>3. WindowFirst(messages', owner')
    <3>1. SUFFICES ASSUME NEW v \in Window, NEW i \in 1 .. Len(messages), NEW j \in 1 .. Len(messages),
                          messages[i] = [what |-> "window", of |-> v],
                          messages[j] = [what |-> "task", of |-> owner'[v]]
                   PROVE  i < j
      BY <1>7 DEF WindowFirst
    <3>2. v # w
      BY <1>6, <3>1 DEF Asks, AsksIn
    <3>3. QED
      BY <1>1, <1>4, <3>1, <3>2 DEF RequestPart, WindowFirst
  <2>4. QED
    BY <1>1, <1>7, <2>1, <2>2, <2>3 DEF RequestPart
<1>13. TypePart'
  <2>1. kind' \in [Sheet -> {"free", "used", "app", "console", "menu", "negated"}]
    BY <1>1, <1>3 DEF TypePart
  <2>2. owner' \in [Window -> Task \cup {NoTask}]
    BY <1>1, <1>3 DEF TypePart
  <2>3. state' \in [Task -> States] /\ opening' \in [Task -> Window \cup {NoSheet}]
    BY <1>1, <1>3 DEF TypePart, States
  <2>4. QED
    BY <1>1, <1>3, <2>1, <2>2, <2>3 DEF TypePart
<1>14. QED
  BY <1>0, <1>2, <1>5, <1>9, <1>10, <1>11, <1>12, <1>13 DEF Core


\* sheet_free of a window of an application.
LEMMA AppWindowFreed ==
  ASSUME IInv, NEW w \in Window, kind[w] = "app", SheetFree(w),
         UNCHANGED <<buffer, state, cons, opening, messages>>
  PROVE  /\ Core' /\ IsStack(stack')
         /\ \A v \in Sheet : v \in OnScreen' <=> v \in OnScreen /\ v # w
         /\ kind' \in [Sheet -> {"free", "used", "app", "console", "menu", "negated"}]
         /\ owner' \in [Window -> Task \cup {NoTask}]
         /\ \A v \in Sheet : kind'[v] = IF v = w THEN "free" ELSE kind[v]
<1>1. TypePart /\ WindowPart /\ ConsPart /\ OpeningPart /\ RequestPart
  BY DEF IInv
<1>2. /\ kind' = [kind EXCEPT ![w] = "free"] /\ owner' = [owner EXCEPT ![w] = NoTask]
      /\ stack' = UpDown(stack, w, -1)
  BY DEF SheetFree
<1>3. /\ \A v \in Window : owner'[v] = IF v = w THEN NoTask ELSE owner[v]
      /\ \A v \in Sheet : kind'[v] = IF v = w THEN "free" ELSE kind[v]
      /\ kind' \in [Sheet -> {"free", "used", "app", "console", "menu", "negated"}]
      /\ owner' \in [Window -> Task \cup {NoTask}]
  BY <1>1, <1>2, Sheets DEF TypePart
<1>4. IsStack(stack') /\ \A v \in Sheet : v \in OnScreen' <=> v \in OnScreen /\ v # w
  <2>1. IsStack(stack) /\ w \in Sheet /\ w # Back /\ w # Mouse
    BY Sheets DEF IInv
  <2>2. IsStack(stack') /\ Contents(stack') = Contents(stack) \ {w}
    BY <1>2, <2>1, TakenOff
  <2>3. QED
    BY <2>2 DEF OnScreen
\* It is nobody's console, and nobody is opening it.
<1>5. \A x \in Task : cons[x] # w /\ opening[x] # w
  BY <1>1, NoTaskIsNone DEF ConsPart, OpeningPart
<1>6. \A y, z : Asks(y, z)' <=> Asks(y, z)
  BY DEF Asks
<1>7. \A x \in Task : Unborn(x)' <=> Unborn(x)
  BY DEF Unborn
<1>8. ~ Asks("window", w)
  BY <1>1 DEF RequestPart
<1>9. WindowPart'
  <2>1. ASSUME NEW v \in Window, v # w
        PROVE  /\ kind'[v] = kind[v] /\ owner'[v] = owner[v] /\ (v \in OnScreen' <=> v \in OnScreen)
               /\ Working(owner[v])' <=> Working(owner[v])
    <3>1. kind'[v] = kind[v] /\ owner'[v] = owner[v] /\ (v \in OnScreen' <=> v \in OnScreen)
      BY <1>3, <1>4, <2>1, Sheets
    <3>2. QED
      BY <3>1 DEF Working
  <2>2. kind'[w] = "free" /\ w \notin OnScreen' /\ owner'[w] = NoTask
    BY <1>3, <1>4, Sheets
  <2>3. \A s \in Sheet : kind'[s] \in {"app", "console"} => s \in Window
    BY <1>1, <1>3 DEF WindowPart
  <2>4. QED
    BY <1>1, <1>6, <2>1, <2>2, <2>3 DEF WindowPart
<1>10. ConsPart'
  <2>1. ASSUME NEW x \in Task, cons[x] # NoSheet
        PROVE  kind'[cons[x]] = kind[cons[x]] /\ owner'[cons[x]] = owner[cons[x]]
    <3>1. cons[x] \in Window /\ cons[x] # w
      BY <1>1, <1>5, <2>1 DEF TypePart
    <3>2. QED
      BY <1>3, <3>1, Sheets
  <2>2. QED
    BY <1>1, <1>7, <2>1 DEF ConsPart
<1>11. OpeningPart'
  <2>1. ASSUME NEW x \in Task, opening[x] # NoSheet
        PROVE  kind'[opening[x]] = "used"
    <3>1. opening[x] \in Window /\ opening[x] # w
      BY <1>1, <1>5, <2>1 DEF TypePart
    <3>2. QED
      BY <1>1, <1>3, <2>1, <3>1, Sheets DEF OpeningPart
  <2>2. QED
    BY <1>1, <1>7, <2>1 DEF OpeningPart
<1>12. RequestPart'
  <2>1. ASSUME NEW v \in Window, Asks("window", v)
        PROVE  kind'[v] = "console" /\ v \notin OnScreen' /\ cons'[owner'[v]] = NoSheet
    <3>1. kind[v] = "console" /\ v \notin OnScreen /\ cons[owner[v]] = NoSheet /\ v # w
      BY <1>1, <2>1 DEF RequestPart
    <3>2. QED
      BY <1>3, <1>4, <3>1, Sheets
  <2>2. WindowFirst(messages', owner')
    <3>1. SUFFICES ASSUME NEW v \in Window, NEW i \in 1 .. Len(messages), NEW j \in 1 .. Len(messages),
                          messages[i] = [what |-> "window", of |-> v],
                          messages[j] = [what |-> "task", of |-> owner'[v]]
                   PROVE  i < j
      BY DEF WindowFirst
    <3>2. v # w
      BY <1>8, <3>1 DEF Asks, AsksIn
    <3>3. QED
      BY <1>1, <1>3, <3>1, <3>2 DEF RequestPart, WindowFirst
  <2>3. QED
    BY <1>1, <1>6, <2>1, <2>2 DEF RequestPart
<1>13. QED
  BY <1>3, <1>4, <1>9, <1>10, <1>11, <1>12 DEF Core

\* The close that an application reads for its console.
LEMMA GotCloseKeeps ==
  ASSUME IInv, NEW t \in Task, GotClose(t), cons[t] # NoSheet
  PROVE  Core' /\ TypePart' /\ FifoPart' /\ UNCHANGED <<screen, focus, fault>>
<1>0. PICK w : w = cons[t]
  OBVIOUS
<1>1. TypePart /\ WindowPart /\ ConsPart /\ OpeningPart /\ FifoPart /\ RequestPart
  BY DEF IInv
<1>2. /\ state[t] = "wait" /\ fifo[t] # <<>> /\ Head(fifo[t]) = "close" /\ ~ Unborn(t)
      /\ fifo' = [fifo EXCEPT ![t] = Tail(@)]
      /\ messages' = Append(messages, [what |-> "window", of |-> w])
      /\ cons' = [cons EXCEPT ![t] = NoSheet]
      /\ UNCHANGED <<screen, focus, state, opening, fault>>
  BY <1>0 DEF GotClose, Runs, Took, Taken
<1>3. /\ \A x \in Task : cons'[x] = IF x = t THEN NoSheet ELSE cons[x]
      /\ \A x \in Task : fifo'[x] = IF x = t THEN Tail(fifo[t]) ELSE fifo[x]
      /\ UNCHANGED <<kind, owner, buffer, stack, state, opening>>
  BY <1>1, <1>2 DEF TypePart, screen
<1>4. OnScreen' = OnScreen
  BY <1>3 DEF OnScreen
<1>5. w \in Window /\ kind[w] = "console" /\ owner[w] = t /\ w # NoSheet /\ cons[t] = w
  BY <1>0, <1>1, <1>2 DEF ConsPart, TypePart
<1>6. fifo[t] \in Seq({"key", "close"}) /\ OneClose(fifo[t]) /\ HasClose(fifo[t]) /\ ~ HasClose(Tail(fifo[t]))
      /\ w \notin OnScreen /\ Tail(fifo[t]) \in Seq({"key", "close"}) /\ OneClose(Tail(fifo[t]))
  <2>1. fifo[t] \in Seq({"key", "close"}) /\ OneClose(fifo[t])
    BY <1>1 DEF TypePart, FifoPart
  <2>2. HasClose(fifo[t]) /\ ~ HasClose(Tail(fifo[t])) /\ OneClose(Tail(fifo[t]))
        /\ Tail(fifo[t]) \in Seq({"key", "close"})
    BY <1>2, <2>1, TailTaken
  <2>3. w \notin OnScreen
    BY <1>0, <1>1, <2>2 DEF FifoPart
  <2>4. QED
    BY <2>1, <2>2, <2>3
<1>7. ~ Asks("window", w) /\ ~ Asks("task", t) /\ ~ Asks("console", w)
  <2>1. ~ Asks("window", w) /\ ~ Asks("task", t)
    BY <1>1, <1>5 DEF RequestPart
  <2>2. ASSUME Asks("console", w) PROVE FALSE
    <3>1. PICK u \in Task : cons[u] = w /\ state[u] = "gone"
      BY <1>1, <1>5, <2>2 DEF RequestPart
    <3>2. u = t
      BY <1>1, <1>5, <3>1 DEF ConsPart
    <3>3. QED
      BY <1>2, <3>1, <3>2
  <2>3. QED
    BY <2>1, <2>2
<1>8. /\ messages' \in Seq(Request) /\ Once(messages') /\ WindowFirst(messages', owner)
      /\ \A y, z : AsksIn(messages', y, z) <=> AsksIn(messages, y, z) \/ (y = "window" /\ z = w)
  <2>1. messages \in Seq(Request) /\ Once(messages) /\ WindowFirst(messages, owner)
    BY <1>1 DEF RequestPart
  <2>2. [what |-> "window", of |-> w] \in Request
    BY <1>5 DEF Request
  <2>3. ~ AsksIn(messages, "window", w) /\ ~ AsksIn(messages, "task", owner[w])
    BY <1>5, <1>7 DEF Asks
  <2>4. QED
    BY <1>2, <2>1, <2>2, <2>3, Appended
<1>9. \A y, z : Asks(y, z)' <=> Asks(y, z) \/ (y = "window" /\ z = w)
  BY <1>8 DEF Asks
<1>10. \A x \in Task : x # t => (Unborn(x)' <=> Unborn(x))
  BY <1>3 DEF Unborn
<1>11. ~ Unborn(t)'
  <2>1. \A u \in Task : state[u] = "start" => opening[u] # NoSheet
    BY <1>1 DEF OpeningPart
  <2>2. QED
    BY <1>3, <2>1 DEF Unborn
<1>12. WindowPart'
  <2>1. ASSUME NEW v \in Window, kind[v] = "console"
        PROVE  cons'[owner[v]] = v \/ Asks("window", v)'
    <3>1. owner[v] \in Task /\ (cons[owner[v]] = v \/ Asks("window", v))
      BY <1>1, <2>1 DEF WindowPart
    <3>2. CASE owner[v] = t /\ cons[t] = v
      BY <1>5, <1>9, <3>2
    <3>3. CASE owner[v] # t
      BY <1>3, <1>9, <3>1, <3>3
    <3>4. QED
      BY <1>9, <3>1, <3>2, <3>3
  <2>2. QED
    BY <1>1, <1>3, <1>4, <2>1 DEF WindowPart, Working
<1>13. ConsPart'
  BY <1>1, <1>3, <1>10 DEF ConsPart
<1>14. OpeningPart'
  <2>1. ASSUME NEW x \in Task, state[x] = "openwin" PROVE \A v \in Task : cons'[v] # opening[x]
    <3>1. opening[x] # NoSheet
      BY <1>1, <2>1 DEF OpeningPart
    <3>2. QED
      BY <1>1, <1>3, <2>1, <3>1 DEF OpeningPart
  <2>2. ASSUME NEW x \in Task, state[x] = "start" PROVE \E v \in Task \ {x} : cons'[v] = opening[x]
    <3>1. PICK v \in Task \ {x} : cons[v] = opening[x]
      BY <1>1, <2>2 DEF OpeningPart
    <3>2. v # t
      BY <1>1, <1>2, <2>2, <3>1 DEF Unborn
    <3>3. QED
      BY <1>3, <3>1, <3>2
  <2>3. ASSUME NEW x \in Task, Unborn(x)' PROVE state[x] = "prompt"
    BY <1>1, <1>10, <1>11, <2>3 DEF OpeningPart
  <2>4. QED
    BY <1>1, <1>3, <2>1, <2>2, <2>3 DEF OpeningPart
<1>15. FifoPart'
  BY <1>1, <1>3, <1>4, <1>6 DEF FifoPart
<1>16. RequestPart'
  <2>1. ASSUME NEW v \in Window, Asks("console", v)'
        PROVE  \E x \in Task : cons'[x] = v /\ state'[x] = "gone"
    <3>1. PICK x \in Task : cons[x] = v /\ state[x] = "gone"
      BY <1>1, <1>9, <2>1 DEF RequestPart
    <3>2. QED
      BY <1>2, <1>3, <3>1
  <2>2. ASSUME NEW v \in Window, Asks("window", v)'
        PROVE  kind'[v] = "console" /\ v \notin OnScreen' /\ cons'[owner'[v]] = NoSheet
    <3>1. CASE v = w
      BY <1>3, <1>4, <1>5, <1>6, <3>1
    <3>2. CASE Asks("window", v)
      <4>1. kind[v] = "console" /\ v \notin OnScreen /\ cons[owner[v]] = NoSheet /\ owner[v] \in Task
        BY <1>1, <3>2 DEF RequestPart, WindowPart
      <4>2. QED
        BY <1>3, <1>4, <4>1
    <3>3. QED
      BY <1>9, <2>2, <3>1, <3>2
  <2>3. ASSUME NEW x \in Task, Asks("task", x)' PROVE state'[x] = "gone" /\ cons'[x] = NoSheet
    <3>1. state[x] = "gone" /\ cons[x] = NoSheet
      BY <1>1, <1>9, <2>3 DEF RequestPart
    <3>2. QED
      BY <1>3, <3>1
  <2>4. QED
    BY <1>3, <1>8, <2>1, <2>2, <2>3 DEF RequestPart
<1>17. TypePart'
  <2>1. cons' \in [Task -> Window \cup {NoSheet}]
    BY <1>1, <1>2 DEF TypePart
  <2>2. fifo' \in [Task -> Seq({"key", "close"})]
    BY <1>1, <1>2, <1>6 DEF TypePart
  <2>3. QED
    BY <1>1, <1>2, <2>1, <2>2 DEF TypePart, screen
<1>18. QED
  BY <1>2, <1>12, <1>13, <1>14, <1>15, <1>16, <1>17 DEF Core

\* The window goes, and its console is asked once.
LEMMA ClickCloseKeeps ==
  ASSUME IInv, NEW s \in Clickable, ClickClose(s), TaskOf(s) # NoTask
  PROVE  Core' /\ TypePart' /\ FifoPart' /\ FocusPart' /\ IsStack(stack')
<1>0. PICK t : t = TaskOf(s)
  OBVIOUS
<1>1. TypePart /\ WindowPart /\ ConsPart /\ OpeningPart /\ FifoPart /\ RequestPart /\ IsStack(stack)
  BY DEF IInv
<1>2. /\ kind[s] \notin {"app", "negated"} /\ stack' = UpDown(stack, s, -1)
      /\ focus' = stack'[Len(stack') - 1]
      /\ fifo' = [fifo EXCEPT ![t] = Append(@, "close")]
      /\ UNCHANGED <<kind, owner, buffer, state, cons, opening, messages, fault>>
  BY <1>0 DEF ClickClose, Given
<1>3. s \in OnScreen /\ s # Back /\ s # Mouse /\ s \in Sheet
  BY Clicks
\* What is on the screen and no application's is a console's.
<1>4. s \in Window /\ t \in Task /\ owner[s] = t /\ kind[s] = "console" /\ cons[t] = s
  <2>1. s \in Window /\ owner[s] = t /\ t # NoTask
    BY <1>0 DEF TaskOf
  <2>2. kind[s] = "console"
    BY <1>1, <1>2, <1>3, <2>1 DEF WindowPart
  <2>3. ~ Asks("window", s)
    BY <1>1, <1>3, <2>1 DEF RequestPart
  <2>4. QED
    BY <1>1, <2>1, <2>2, <2>3 DEF WindowPart
<1>5. ~ HasClose(fifo[t]) /\ fifo[t] \in Seq({"key", "close"})
  BY <1>1, <1>3, <1>4 DEF FifoPart, TypePart
<1>6. IsStack(stack') /\ \A v : v \in OnScreen' <=> v \in OnScreen /\ v # s
  <2>1. IsStack(stack') /\ Contents(stack') = Contents(stack) \ {s}
    BY <1>1, <1>2, <1>3, TakenOff
  <2>2. QED
    BY <2>1 DEF OnScreen
<1>7. focus' \in Sheet /\ focus' \in OnScreen'
  <2>. DEFINE i == Len(stack') - 1
  <2>1. Len(stack') \in Nat /\ Len(stack') >= 2
    BY <1>6, Places
  <2>2. i \in 1 .. Len(stack')
    BY <2>1
  <2>3. focus' = stack'[i]
    BY <1>2
  <2>4. HIDE DEF i
  <2>5. QED
    BY <1>6, <2>2, <2>3, Places DEF OnScreen
<1>8. /\ \A x \in Task : fifo'[x] = IF x = t THEN Append(fifo[t], "close") ELSE fifo[x]
      /\ fifo' \in [Task -> Seq({"key", "close"})] /\ OneClose(fifo'[t])
  BY <1>1, <1>2, <1>4, <1>5, CloseAppended DEF TypePart
<1>9. (\A y, z : Asks(y, z)' <=> Asks(y, z)) /\ \A x \in Task : Unborn(x)' <=> Unborn(x)
  BY <1>2 DEF Asks, Unborn
<1>10. WindowPart'
  BY <1>1, <1>2, <1>4, <1>6, <1>9 DEF WindowPart, Working
<1>11. ConsPart' /\ OpeningPart'
  BY <1>1, <1>2, <1>9 DEF ConsPart, OpeningPart
<1>12. RequestPart'
  BY <1>1, <1>2, <1>6, <1>9 DEF RequestPart
<1>13. FifoPart'
  <2>1. ASSUME NEW x \in Task, x # t
        PROVE  /\ OneClose(fifo'[x])
               /\ HasClose(fifo'[x]) => cons'[x] # NoSheet /\ cons'[x] \notin OnScreen'
    BY <1>1, <1>2, <1>6, <1>8, <2>1 DEF FifoPart
  <2>2. cons'[t] # NoSheet /\ cons'[t] \notin OnScreen'
    BY <1>2, <1>4, <1>6, NoTaskIsNone
  <2>3. QED
    BY <1>8, <2>1, <2>2 DEF FifoPart
<1>14. TypePart' /\ FocusPart'
  BY <1>1, <1>2, <1>7, <1>8 DEF TypePart, FocusPart
<1>15. QED
  BY <1>6, <1>10, <1>11, <1>12, <1>13, <1>14 DEF Core

\* task_a takes the first message.
LEMMA MessageTaken ==
  ASSUME IInv, messages # <<>>, messages' = Tail(messages)
  PROVE  LET m == Head(messages)
         IN  /\ m.what = "console" => m = [what |-> "console", of |-> m.of] /\ m.of \in Window
             /\ m.what = "window" => m = [what |-> "window", of |-> m.of] /\ m.of \in Window
             /\ m.what = "task" => m = [what |-> "task", of |-> m.of] /\ m.of \in Task
             /\ m.what \in {"console", "window", "task"}
             /\ messages' \in Seq(Request) /\ Once(messages')
             /\ \A y, z : Asks(y, z)' <=> Asks(y, z) /\ m # [what |-> y, of |-> z]
             /\ \A y, z : m = [what |-> y, of |-> z] => Asks(y, z)
             /\ WindowFirst(messages', owner)
             /\ \A w \in Window : m = [what |-> "task", of |-> owner[w]] => ~ Asks("window", w)
<1>1. messages \in Seq(Request) /\ Once(messages) /\ WindowFirst(messages, owner)
  BY DEF IInv, RequestPart
<1>2. PICK m : m = Head(messages)
  OBVIOUS
<1>3. m \in Request
  BY <1>1, <1>2, Served
<1>4. /\ m.what = "console" => m = [what |-> "console", of |-> m.of] /\ m.of \in Window
      /\ m.what = "window" => m = [what |-> "window", of |-> m.of] /\ m.of \in Window
      /\ m.what = "task" => m = [what |-> "task", of |-> m.of] /\ m.of \in Task
      /\ m.what \in {"console", "window", "task"}
  BY <1>3 DEF Request
<1>5. /\ messages' \in Seq(Request) /\ Once(messages') /\ WindowFirst(messages', owner)
      /\ \A y, z : AsksIn(messages', y, z) <=> AsksIn(messages, y, z) /\ m # [what |-> y, of |-> z]
      /\ \A y, z : m = [what |-> y, of |-> z] => AsksIn(messages, y, z)
      /\ \A w \in Window : m = [what |-> "task", of |-> owner[w]] => ~ AsksIn(messages, "window", w)
  BY <1>1, <1>2, Served
<1>6. \A y, z : Asks(y, z)' <=> Asks(y, z) /\ m # [what |-> y, of |-> z]
  BY <1>5 DEF Asks
<1>7. /\ \A y, z : m = [what |-> y, of |-> z] => Asks(y, z)
      /\ \A w \in Window : m = [what |-> "task", of |-> owner[w]] => ~ Asks("window", w)
  BY <1>5 DEF Asks
<1>8. QED
  BY <1>2, <1>4, <1>5, <1>6, <1>7

\* close_constask leaves no close in the FIFO.
LEMMA ConstaskKeeps ==
  ASSUME IInv, NEW t \in Task, CloseConstask(t),
         \A v : v \in OnScreen' => v \in OnScreen
  PROVE  /\ FifoPart' /\ fifo' \in [Task -> Seq({"key", "close"})]
         /\ state' \in [Task -> States] /\ cons' \in [Task -> Window \cup {NoSheet}]
         /\ opening' = opening
         /\ \A x \in Task : state'[x] = IF x = t THEN "free" ELSE state[x]
         /\ \A x \in Task : cons'[x] = IF x = t THEN NoSheet ELSE cons[x]
<1>1. TypePart
  BY DEF IInv
<1>2. PICK q : q = IF fifo[t] = <<>> THEN fifo[t] ELSE <<"key">>
  OBVIOUS
<1>3. q \in {<<>>, <<"key">>} /\ q \in Seq({"key", "close"})
  BY <1>2, NothingAsked
<1>4. fifo' = [fifo EXCEPT ![t] = q] /\ opening' = opening
      /\ state' = [state EXCEPT ![t] = "free"] /\ cons' = [cons EXCEPT ![t] = NoSheet]
  BY <1>2 DEF CloseConstask
<1>5. /\ state' \in [Task -> States] /\ cons' \in [Task -> Window \cup {NoSheet}]
      /\ \A x \in Task : state'[x] = IF x = t THEN "free" ELSE state[x]
      /\ \A x \in Task : cons'[x] = IF x = t THEN NoSheet ELSE cons[x]
  BY <1>1, <1>4 DEF TypePart, States
<1>6. /\ fifo' \in [Task -> Seq({"key", "close"})]
      /\ \A x \in Task : fifo'[x] = IF x = t THEN q ELSE fifo[x]
  BY <1>1, <1>3, <1>4 DEF TypePart
<1>7. \A x \in Task : \/ fifo'[x] \in {<<>>, <<"key">>}
                      \/ fifo'[x] = fifo[x] /\ cons'[x] = cons[x]
  BY <1>3, <1>5, <1>6
<1>8. FifoPart'
  BY <1>6, <1>7, FifoKeeps
<1>9. QED
  BY <1>4, <1>5, <1>6, <1>8

\* sheet_free of a console's window.
LEMMA ConsoleFreed ==
  ASSUME IInv, NEW w \in Window, SheetFree(w), buffer' = [buffer EXCEPT ![w] = 0], focus' = Focused
  PROVE  /\ IsStack(stack') /\ FocusPart' /\ focus' \in Sheet \cup {NoSheet}
         /\ \A v : v \in OnScreen' <=> v \in OnScreen /\ v # w
         /\ kind' \in [Sheet -> {"free", "used", "app", "console", "menu", "negated"}]
         /\ owner' \in [Window -> Task \cup {NoTask}]
         /\ buffer' \in [Window -> {0, ConsoleSize, LogSize}]
         /\ \A v \in Sheet : kind'[v] = IF v = w THEN "free" ELSE kind[v]
         /\ \A v \in Window : owner'[v] = IF v = w THEN NoTask ELSE owner[v]
         /\ \A v \in Window : buffer'[v] = IF v = w THEN 0 ELSE buffer[v]
<1>1. TypePart /\ IsStack(stack)
  BY DEF IInv
<1>2. /\ kind' = [kind EXCEPT ![w] = "free"] /\ owner' = [owner EXCEPT ![w] = NoTask]
      /\ stack' = UpDown(stack, w, -1) /\ buffer' = [buffer EXCEPT ![w] = 0]
  BY DEF SheetFree
<1>3. /\ kind' \in [Sheet -> {"free", "used", "app", "console", "menu", "negated"}]
      /\ \A v \in Sheet : kind'[v] = IF v = w THEN "free" ELSE kind[v]
  BY <1>1, <1>2, Sheets DEF TypePart
<1>4. /\ owner' \in [Window -> Task \cup {NoTask}]
      /\ \A v \in Window : owner'[v] = IF v = w THEN NoTask ELSE owner[v]
      /\ buffer' \in [Window -> {0, ConsoleSize, LogSize}]
      /\ \A v \in Window : buffer'[v] = IF v = w THEN 0 ELSE buffer[v]
  BY <1>1, <1>2 DEF TypePart
<1>5. IsStack(stack') /\ \A v : v \in OnScreen' <=> v \in OnScreen /\ v # w
  <2>1. w \in Sheet /\ w # Back /\ w # Mouse
    BY Sheets
  <2>2. IsStack(stack') /\ Contents(stack') = Contents(stack) \ {w}
    BY <1>1, <1>2, <2>1, TakenOff
  <2>3. QED
    BY <2>2 DEF OnScreen
<1>6. /\ Focused \in Sheet \cup {NoSheet}
      /\ Focused \in Window /\ kind[Focused] \in {"app", "console"} => Focused \in OnScreen
  BY FocusedIs
<1>7. PICK f : f = Focused
  OBVIOUS
<1>8. focus' = f /\ focus' \in Sheet \cup {NoSheet} /\ FocusPart'
  BY <1>3, <1>5, <1>6, <1>7, Sheets DEF FocusPart
<1>9. QED
  BY <1>3, <1>4, <1>5, <1>8


\* Messages 768 and up: the window and the task of a console that exited.
LEMMA MessageConsoleKeeps ==
  ASSUME IInv, messages # <<>>, Head(messages).what = "console",
         MessageConsole(Head(messages).of)
  PROVE  Core' /\ TypePart' /\ FifoPart' /\ FocusPart' /\ IsStack(stack') /\ fault' = fault
<1>0. PICK w : w = Head(messages).of
  OBVIOUS
<1>1. TypePart /\ WindowPart /\ ConsPart /\ OpeningPart /\ RequestPart
  BY DEF IInv
<1>2. /\ SheetFree(w) /\ buffer' = [buffer EXCEPT ![w] = 0] /\ CloseConstask(owner[w])
      /\ messages' = Tail(messages) /\ focus' = Focused /\ fault' = fault
  BY <1>0 DEF MessageConsole
<1>3. /\ w \in Window /\ Asks("console", w)
      /\ messages' \in Seq(Request) /\ Once(messages') /\ WindowFirst(messages', owner)
      /\ \A y, z : Asks(y, z)' <=> Asks(y, z) /\ ~ (y = "console" /\ z = w)
  <2>1. \A y, z : [what |-> y, of |-> z] = [what |-> "console", of |-> w] <=> y = "console" /\ z = w
    OBVIOUS
  <2>2. Head(messages) = [what |-> "console", of |-> w] /\ w \in Window
    BY <1>0, <1>2, MessageTaken
  <2>3. /\ messages' \in Seq(Request) /\ Once(messages') /\ WindowFirst(messages', owner)
        /\ \A y, z : Asks(y, z)' <=> Asks(y, z) /\ Head(messages) # [what |-> y, of |-> z]
        /\ Asks("console", w)
    BY <1>2, <2>2, MessageTaken
  <2>4. QED
    BY <2>1, <2>2, <2>3
\* The console is there, and the window is its.
<1>4. PICK t \in Task : cons[t] = w /\ state[t] = "gone"
  BY <1>1, <1>3 DEF RequestPart
<1>5. kind[w] = "console" /\ owner[w] = t /\ w # NoSheet
  BY <1>1, <1>3, <1>4, NoTaskIsNone DEF ConsPart, OpeningPart
<1>6. /\ IsStack(stack') /\ FocusPart' /\ focus' \in Sheet \cup {NoSheet}
      /\ \A v : v \in OnScreen' <=> v \in OnScreen /\ v # w
      /\ kind' \in [Sheet -> {"free", "used", "app", "console", "menu", "negated"}]
      /\ owner' \in [Window -> Task \cup {NoTask}]
      /\ buffer' \in [Window -> {0, ConsoleSize, LogSize}]
      /\ \A v \in Sheet : kind'[v] = IF v = w THEN "free" ELSE kind[v]
      /\ \A v \in Window : owner'[v] = IF v = w THEN NoTask ELSE owner[v]
      /\ \A v \in Window : buffer'[v] = IF v = w THEN 0 ELSE buffer[v]
  BY <1>2, <1>3, ConsoleFreed
<1>7. /\ FifoPart' /\ fifo' \in [Task -> Seq({"key", "close"})]
      /\ state' \in [Task -> States] /\ cons' \in [Task -> Window \cup {NoSheet}]
      /\ opening' = opening
      /\ \A x \in Task : state'[x] = IF x = t THEN "free" ELSE state[x]
      /\ \A x \in Task : cons'[x] = IF x = t THEN NoSheet ELSE cons[x]
  BY <1>2, <1>5, <1>6, ConstaskKeeps
\* Nothing else is his, or asked for.
<1>8. /\ \A v \in Window : v # w /\ kind[v] \in {"app", "console"} => owner[v] \in Task /\ owner[v] # t
      /\ \A x \in Task : x # t => cons[x] # w
      /\ \A x \in Task : opening[x] # w
      /\ opening[t] = NoSheet
      /\ ~ Asks("window", w) /\ ~ Asks("task", t)
  <2>1. ASSUME NEW v \in Window, v # w, kind[v] \in {"app", "console"}
        PROVE  owner[v] \in Task /\ owner[v] # t
    <3>1. kind[v] = "app" => owner[v] \in Task /\ owner[v] # t
      BY <1>1, <1>4 DEF WindowPart, Working
    <3>2. kind[v] = "console" => owner[v] \in Task /\ (cons[owner[v]] = v \/ cons[owner[v]] = NoSheet)
      BY <1>1 DEF WindowPart, RequestPart
    <3>3. QED
      BY <1>4, <1>5, <2>1, <3>1, <3>2
  <2>2. \A x \in Task : x # t => cons[x] # w
    BY <1>1, <1>4, <1>5 DEF ConsPart
  <2>3. \A x \in Task : opening[x] # w
    BY <1>1, <1>5 DEF OpeningPart
  <2>4. opening[t] = NoSheet
    BY <1>1, <1>4 DEF OpeningPart
  <2>5. ~ Asks("window", w) /\ ~ Asks("task", t)
    BY <1>1, <1>3, <1>4, <1>5 DEF RequestPart
  <2>6. QED
    BY <2>1, <2>2, <2>3, <2>4, <2>5
<1>9. \A x \in Task : x # t => (Unborn(x)' <=> Unborn(x))
  BY <1>4, <1>7 DEF Unborn
<1>10. ~ Unborn(t)'
  <2>1. \A u \in Task : state[u] = "start" => opening[u] # NoSheet
    BY <1>1 DEF OpeningPart
  <2>2. QED
    BY <1>7, <2>1 DEF Unborn
<1>11. WindowPart'
  <2>1. ASSUME NEW v \in Window, v # w, kind[v] = "app"
        PROVE  owner'[v] \in Task /\ Working(owner[v])' /\ v \in OnScreen'
    <3>1. owner[v] \in Task /\ Working(owner[v]) /\ v \in OnScreen /\ owner[v] # t
      BY <1>1, <1>8, <2>1 DEF WindowPart
    <3>2. owner'[v] = owner[v] /\ v \in OnScreen'
      BY <1>6, <2>1, <3>1
    <3>3. QED
      BY <1>7, <3>1, <3>2 DEF Working
  <2>2. ASSUME NEW v \in Window, v # w, kind[v] = "console"
        PROVE  /\ owner'[v] \in Task /\ state'[owner'[v]] # "free"
               /\ cons'[owner'[v]] = v \/ Asks("window", v)'
               /\ buffer'[v] \in {ConsoleSize, LogSize}
    <3>1. /\ owner[v] \in Task /\ state[owner[v]] # "free" /\ owner[v] # t
          /\ cons[owner[v]] = v \/ Asks("window", v)
          /\ buffer[v] \in {ConsoleSize, LogSize}
      BY <1>1, <1>8, <2>2 DEF WindowPart
    <3>2. QED
      BY <1>3, <1>6, <1>7, <2>2, <3>1
  <2>3. \A v \in Sheet : kind'[v] \in {"app", "console"} => v \in Window
    BY <1>1, <1>6 DEF WindowPart
  <2>4. ASSUME NEW v \in Window, v # w, kind[v] \in {"free", "used"}
        PROVE  v \notin OnScreen' /\ owner'[v] = NoTask
    BY <1>1, <1>6, <2>4 DEF WindowPart
  <2>5. \A v \in Window : v # w => kind'[v] = kind[v] /\ kind[v] \in {"free", "used", "app", "console"}
    BY <1>1, <1>6, Sheets DEF WindowPart
  <2>6. kind'[w] = "free" /\ w \notin OnScreen' /\ owner'[w] = NoTask
    BY <1>3, <1>6, Sheets
  <2>7. QED
    BY <2>1, <2>2, <2>3, <2>4, <2>5, <2>6 DEF WindowPart
<1>12. ConsPart'
  <2>1. ASSUME NEW x \in Task, x # t, cons[x] # NoSheet
        PROVE  /\ state'[x] # "free"
               /\ \/ kind'[cons[x]] = "console" /\ owner'[cons[x]] = x
                  \/ kind'[cons[x]] = "used" /\ Unborn(x)'
    <3>1. cons[x] \in Window /\ cons[x] # w
      BY <1>1, <1>8, <2>1 DEF TypePart
    <3>2. kind'[cons[x]] = kind[cons[x]] /\ owner'[cons[x]] = owner[cons[x]] /\ state'[x] = state[x]
      BY <1>6, <1>7, <2>1, <3>1, Sheets
    <3>3. QED
      BY <1>1, <1>9, <2>1, <3>2 DEF ConsPart
  <2>2. ASSUME NEW x \in Task, NEW y \in Task, cons'[x] = cons'[y], cons'[x] # NoSheet
        PROVE  x = y
    <3>1. x # t /\ y # t /\ cons[x] = cons[y] /\ cons[x] # NoSheet
      BY <1>7, <2>2
    <3>2. QED
      BY <1>1, <3>1 DEF ConsPart
  <2>3. \A x \in Task : cons'[x] # NoSheet => x # t /\ cons'[x] = cons[x]
    BY <1>7
  <2>4. QED
    BY <2>1, <2>2, <2>3 DEF ConsPart
<1>13. OpeningPart'
  <2>1. ASSUME NEW x \in Task, opening[x] # NoSheet
        PROVE  kind'[opening[x]] = "used" /\ buffer'[opening[x]] = buffer[opening[x]]
    <3>1. opening[x] \in Window /\ opening[x] # w
      BY <1>1, <1>8, <2>1 DEF TypePart
    <3>2. QED
      BY <1>1, <1>6, <2>1, <3>1, Sheets DEF OpeningPart
  <2>2. ASSUME NEW x \in Task
        PROVE  /\ state'[x] \in {"start", "openwin"} <=> opening[x] # NoSheet
               /\ state'[x] = "openwin" => state[x] = "openwin"
               /\ state'[x] = "start" => state[x] = "start"
    BY <1>1, <1>4, <1>7 DEF OpeningPart
  <2>3. ASSUME NEW x \in Task, state'[x] = "openwin" PROVE \A v \in Task : cons'[v] # opening[x]
    BY <1>1, <1>7, <2>2, <2>3 DEF OpeningPart
  <2>4. ASSUME NEW x \in Task, state'[x] = "start"
        PROVE  /\ buffer'[opening[x]] = ConsoleSize
               /\ \E v \in Task \ {x} : cons'[v] = opening[x]
    <3>1. state[x] = "start" /\ opening[x] # NoSheet
      BY <1>1, <2>2, <2>4 DEF OpeningPart
    <3>2. PICK v \in Task \ {x} : cons[v] = opening[x]
      BY <1>1, <3>1 DEF OpeningPart
    <3>3. v # t
      BY <1>4, <1>8, <3>2
    <3>4. QED
      BY <1>1, <1>7, <2>1, <3>1, <3>2, <3>3 DEF OpeningPart
  <2>5. ASSUME NEW x \in Task, Unborn(x)' PROVE state'[x] = "prompt"
    <3>1. x # t /\ Unborn(x)
      BY <1>9, <1>10, <2>5
    <3>2. state[x] = "prompt"
      BY <1>1, <3>1 DEF OpeningPart
    <3>3. QED
      BY <1>7, <3>1, <3>2
  <2>6. QED
    BY <1>1, <1>7, <2>1, <2>2, <2>3, <2>4, <2>5 DEF OpeningPart
<1>14. RequestPart'
  <2>1. ASSUME NEW v \in Window, Asks("console", v)'
        PROVE  \E x \in Task : cons'[x] = v /\ state'[x] = "gone"
    <3>1. v # w /\ Asks("console", v)
      BY <1>3, <2>1
    <3>2. PICK x \in Task : cons[x] = v /\ state[x] = "gone"
      BY <1>1, <3>1 DEF RequestPart
    <3>3. QED
      BY <1>4, <1>7, <3>1, <3>2
  <2>2. ASSUME NEW v \in Window, Asks("window", v)'
        PROVE  kind'[v] = "console" /\ v \notin OnScreen' /\ cons'[owner'[v]] = NoSheet
    <3>1. Asks("window", v) /\ v # w
      BY <1>3, <1>8, <2>2
    <3>2. kind[v] = "console" /\ v \notin OnScreen /\ cons[owner[v]] = NoSheet
      BY <1>1, <3>1 DEF RequestPart
    <3>3. owner[v] \in Task /\ owner[v] # t
      BY <1>8, <3>1, <3>2
    <3>4. QED
      BY <1>6, <1>7, <3>1, <3>2, <3>3, Sheets
  <2>3. ASSUME NEW x \in Task, Asks("task", x)' PROVE state'[x] = "gone" /\ cons'[x] = NoSheet
    <3>1. Asks("task", x) /\ x # t
      BY <1>3, <1>8, <2>3
    <3>2. QED
      BY <1>1, <1>7, <3>1 DEF RequestPart
  <2>4. WindowFirst(messages', owner')
    <3>1. SUFFICES ASSUME NEW v \in Window, NEW i \in 1 .. Len(messages'), NEW j \in 1 .. Len(messages'),
                          messages'[i] = [what |-> "window", of |-> v],
                          messages'[j] = [what |-> "task", of |-> owner'[v]]
                   PROVE  i < j
      BY DEF WindowFirst
    <3>2. v # w
      <4>1. Asks("window", v)'
        BY <3>1 DEF Asks, AsksIn
      <4>2. QED
        BY <1>3, <1>8, <4>1
    <3>3. QED
      BY <1>3, <1>6, <3>1, <3>2 DEF WindowFirst
  <2>5. QED
    BY <1>3, <2>1, <2>2, <2>3, <2>4 DEF RequestPart
<1>15. TypePart'
  BY <1>1, <1>2, <1>6, <1>7 DEF TypePart
<1>16. QED
  BY <1>2, <1>6, <1>7, <1>11, <1>12, <1>13, <1>14, <1>15 DEF Core


\* Messages 1024 and up: a console that had given its window up.
LEMMA MessageTaskKeeps ==
  ASSUME IInv, messages # <<>>, Head(messages).what = "task",
         MessageTask(Head(messages).of)
  PROVE  Core' /\ TypePart' /\ FifoPart' /\ FocusPart' /\ IsStack(stack') /\ fault' = fault
<1>0. PICK t : t = Head(messages).of
  OBVIOUS
<1>1. TypePart /\ WindowPart /\ ConsPart /\ OpeningPart /\ RequestPart /\ IsStack(stack)
  BY DEF IInv
<1>2. /\ CloseConstask(t) /\ messages' = Tail(messages) /\ focus' = Focused
      /\ UNCHANGED <<kind, owner, buffer, stack, fault>>
  BY <1>0 DEF MessageTask, screen
<1>3. /\ t \in Task /\ Asks("task", t)
      /\ messages' \in Seq(Request) /\ Once(messages') /\ WindowFirst(messages', owner)
      /\ \A y, z : Asks(y, z)' <=> Asks(y, z) /\ ~ (y = "task" /\ z = t)
      /\ \A w \in Window : owner[w] = t => ~ Asks("window", w)
  <2>1. \A y, z : [what |-> y, of |-> z] = [what |-> "task", of |-> t] <=> y = "task" /\ z = t
    OBVIOUS
  <2>2. Head(messages) = [what |-> "task", of |-> t] /\ t \in Task
    BY <1>0, <1>2, MessageTaken
  <2>3. /\ messages' \in Seq(Request) /\ Once(messages') /\ WindowFirst(messages', owner)
        /\ \A y, z : Asks(y, z)' <=> Asks(y, z) /\ Head(messages) # [what |-> y, of |-> z]
        /\ Asks("task", t)
        /\ \A w \in Window : owner[w] = t => ~ Asks("window", w)
    BY <1>2, <2>2, MessageTaken
  <2>4. QED
    BY <2>1, <2>2, <2>3
<1>4. state[t] = "gone" /\ cons[t] = NoSheet /\ opening[t] = NoSheet
  BY <1>1, <1>3 DEF RequestPart, OpeningPart
<1>5. OnScreen' = OnScreen
  BY <1>2 DEF OnScreen
<1>6. /\ FifoPart' /\ fifo' \in [Task -> Seq({"key", "close"})]
      /\ state' \in [Task -> States] /\ cons' \in [Task -> Window \cup {NoSheet}]
      /\ opening' = opening
      /\ \A x \in Task : state'[x] = IF x = t THEN "free" ELSE state[x]
      /\ \A x \in Task : cons'[x] = cons[x]
  BY <1>2, <1>3, <1>4, <1>5, ConstaskKeeps
\* It has no window left, not even one that is still to be freed.
<1>7. \A v \in Window : kind[v] \in {"app", "console"} => owner[v] \in Task /\ owner[v] # t
  BY <1>1, <1>3, <1>4, NoTaskIsNone DEF WindowPart, Working
<1>8. \A x \in Task : Unborn(x)' <=> Unborn(x)
  BY <1>4, <1>6 DEF Unborn
<1>9. WindowPart'
  <2>1. ASSUME NEW v \in Window, kind[v] = "app" PROVE Working(owner[v])'
    <3>1. owner[v] \in Task /\ Working(owner[v]) /\ owner[v] # t
      BY <1>1, <1>7, <2>1 DEF WindowPart
    <3>2. QED
      BY <1>2, <1>6, <3>1 DEF Working
  <2>2. ASSUME NEW v \in Window, kind[v] = "console"
        PROVE  /\ state'[owner[v]] # "free"
               /\ cons'[owner[v]] = v \/ Asks("window", v)'
    <3>1. owner[v] \in Task /\ state[owner[v]] # "free" /\ (cons[owner[v]] = v \/ Asks("window", v))
      BY <1>1, <2>2 DEF WindowPart
    <3>2. QED
      BY <1>3, <1>6, <1>7, <2>2, <3>1
  <2>3. QED
    BY <1>1, <1>2, <1>5, <2>1, <2>2 DEF WindowPart
<1>10. ConsPart'
  <2>1. \A x \in Task : cons[x] # NoSheet => state'[x] = state[x]
    BY <1>4, <1>6
  <2>2. QED
    BY <1>1, <1>2, <1>6, <1>8, <2>1 DEF ConsPart
<1>11. OpeningPart'
  <2>1. ASSUME NEW x \in Task
        PROVE  /\ state'[x] = "openwin" <=> state[x] = "openwin"
               /\ state'[x] = "start" <=> state[x] = "start"
               /\ Unborn(x)' => state'[x] = "prompt"
    BY <1>1, <1>4, <1>6, <1>8 DEF OpeningPart
  <2>2. ASSUME NEW x \in Task
        PROVE  /\ state'[x] \in {"start", "openwin"} <=> opening'[x] # NoSheet
               /\ opening'[x] # NoSheet => kind'[opening'[x]] = "used"
               /\ state'[x] = "openwin" => \A u \in Task : cons'[u] # opening'[x]
               /\ state'[x] = "start" => buffer'[opening'[x]] = ConsoleSize
               /\ state'[x] = "start" => \E u \in Task \ {x} : cons'[u] = opening'[x]
    <3>1. opening'[x] = opening[x] /\ kind' = kind /\ buffer' = buffer
      BY <1>2, <1>6
    <3>2. state[x] = "start" => \E u \in Task \ {x} : cons[u] = opening[x]
      BY <1>1 DEF OpeningPart
    <3>3. state[x] = "start" => \E u \in Task \ {x} : cons'[u] = opening[x]
      BY <1>6, <3>2
    <3>4. QED
      BY <1>1, <1>6, <2>1, <3>1, <3>3 DEF OpeningPart
  <2>3. \A x, u \in Task : opening'[x] = opening'[u] /\ opening'[x] # NoSheet => x = u
    BY <1>1, <1>6 DEF OpeningPart
  <2>4. QED
    BY <2>1, <2>2, <2>3 DEF OpeningPart
<1>12. RequestPart'
  <2>1. ASSUME NEW v \in Window, Asks("console", v)'
        PROVE  \E x \in Task : cons'[x] = v /\ state'[x] = "gone"
    <3>1. PICK x \in Task : cons[x] = v /\ state[x] = "gone"
      BY <1>1, <1>3, <2>1 DEF RequestPart
    <3>2. QED
      BY <1>4, <1>6, <3>1, NoTaskIsNone
  <2>2. ASSUME NEW v \in Window, Asks("window", v)'
        PROVE  kind'[v] = "console" /\ v \notin OnScreen' /\ cons'[owner'[v]] = NoSheet
    <3>1. Asks("window", v)
      BY <1>3, <2>2
    <3>2. kind[v] = "console" /\ v \notin OnScreen /\ cons[owner[v]] = NoSheet
      BY <1>1, <3>1 DEF RequestPart
    <3>3. QED
      BY <1>2, <1>5, <1>6, <1>7, <3>2
  <2>3. ASSUME NEW x \in Task, Asks("task", x)' PROVE state'[x] = "gone" /\ cons'[x] = NoSheet
    <3>1. Asks("task", x) /\ x # t
      BY <1>3, <2>3
    <3>2. QED
      BY <1>1, <1>6, <3>1 DEF RequestPart
  <2>4. QED
    BY <1>2, <1>3, <2>1, <2>2, <2>3 DEF RequestPart
<1>13. TypePart' /\ FocusPart'
  <2>1. PICK f : f = Focused
    OBVIOUS
  <2>2. f \in Sheet \cup {NoSheet} /\ (f \in Window /\ kind[f] \in {"app", "console"} => f \in OnScreen)
    BY <2>1, FocusedIs
  <2>3. focus' = f
    BY <1>2, <2>1
  <2>4. QED
    BY <1>1, <1>2, <1>5, <1>6, <2>2, <2>3 DEF TypePart, FocusPart
<1>14. QED
  BY <1>1, <1>2, <1>6, <1>9, <1>10, <1>11, <1>12, <1>13 DEF Core

\* Messages 2024 and up: the window of a console whose application goes on.
LEMMA MessageWindowKeeps ==
  ASSUME IInv, messages # <<>>, Head(messages).what = "window",
         MessageWindow(Head(messages).of)
  PROVE  Core' /\ TypePart' /\ FifoPart' /\ FocusPart' /\ IsStack(stack') /\ fault' = fault
<1>0. PICK w : w = Head(messages).of
  OBVIOUS
<1>1. TypePart /\ WindowPart /\ ConsPart /\ OpeningPart /\ FifoPart /\ RequestPart
  BY DEF IInv
<1>2. /\ SheetFree(w) /\ buffer' = [buffer EXCEPT ![w] = 0]
      /\ messages' = Tail(messages) /\ focus' = Focused
      /\ UNCHANGED <<state, cons, fifo, opening, fault>>
  BY <1>0 DEF MessageWindow, tasks
<1>3. /\ w \in Window /\ Asks("window", w)
      /\ messages' \in Seq(Request) /\ Once(messages') /\ WindowFirst(messages', owner)
      /\ \A y, z : Asks(y, z)' <=> Asks(y, z) /\ ~ (y = "window" /\ z = w)
  <2>1. \A y, z : [what |-> y, of |-> z] = [what |-> "window", of |-> w] <=> y = "window" /\ z = w
    OBVIOUS
  <2>2. Head(messages) = [what |-> "window", of |-> w] /\ w \in Window
    BY <1>0, <1>2, MessageTaken
  <2>3. /\ messages' \in Seq(Request) /\ Once(messages') /\ WindowFirst(messages', owner)
        /\ \A y, z : Asks(y, z)' <=> Asks(y, z) /\ Head(messages) # [what |-> y, of |-> z]
        /\ Asks("window", w)
    BY <1>2, <2>2, MessageTaken
  <2>4. QED
    BY <2>1, <2>2, <2>3
<1>4. kind[w] = "console" /\ w # NoSheet /\ owner[w] \in Task /\ cons[owner[w]] = NoSheet
  BY <1>1, <1>3, NoTaskIsNone DEF RequestPart, WindowPart
<1>5. /\ IsStack(stack') /\ FocusPart' /\ focus' \in Sheet \cup {NoSheet}
      /\ \A v : v \in OnScreen' <=> v \in OnScreen /\ v # w
      /\ kind' \in [Sheet -> {"free", "used", "app", "console", "menu", "negated"}]
      /\ owner' \in [Window -> Task \cup {NoTask}]
      /\ buffer' \in [Window -> {0, ConsoleSize, LogSize}]
      /\ \A v \in Sheet : kind'[v] = IF v = w THEN "free" ELSE kind[v]
      /\ \A v \in Window : owner'[v] = IF v = w THEN NoTask ELSE owner[v]
      /\ \A v \in Window : buffer'[v] = IF v = w THEN 0 ELSE buffer[v]
  BY <1>2, <1>3, ConsoleFreed
\* Its console has given it up, and nobody is opening it.
<1>6. \A x \in Task : cons[x] # w /\ opening[x] # w
  BY <1>1, <1>4 DEF ConsPart, OpeningPart
<1>7. \A x \in Task : Unborn(x)' <=> Unborn(x)
  BY <1>2 DEF Unborn
<1>8. WindowPart'
  <2>1. ASSUME NEW v \in Window, v # w
        PROVE  /\ kind'[v] = kind[v] /\ owner'[v] = owner[v] /\ buffer'[v] = buffer[v]
               /\ v \in OnScreen' <=> v \in OnScreen
               /\ Asks("window", v)' <=> Asks("window", v)
               /\ Working(owner[v])' <=> Working(owner[v])
    <3>1. kind'[v] = kind[v] /\ owner'[v] = owner[v] /\ buffer'[v] = buffer[v]
      BY <1>5, <2>1, Sheets
    <3>2. QED
      BY <1>2, <1>3, <1>5, <2>1, <3>1 DEF Working
  <2>2. kind'[w] = "free" /\ w \notin OnScreen' /\ owner'[w] = NoTask
    BY <1>3, <1>5, Sheets
  <2>3. \A v \in Sheet : kind'[v] \in {"app", "console"} => v \in Window
    BY <1>1, <1>5 DEF WindowPart
  <2>4. QED
    BY <1>1, <1>2, <2>1, <2>2, <2>3 DEF WindowPart
<1>9. ConsPart'
  <2>1. ASSUME NEW x \in Task, cons[x] # NoSheet
        PROVE  kind'[cons[x]] = kind[cons[x]] /\ owner'[cons[x]] = owner[cons[x]]
    <3>1. cons[x] \in Window /\ cons[x] # w
      BY <1>1, <1>6, <2>1 DEF TypePart
    <3>2. QED
      BY <1>5, <3>1, Sheets
  <2>2. QED
    BY <1>1, <1>2, <1>7, <2>1 DEF ConsPart
<1>10. OpeningPart'
  <2>1. ASSUME NEW x \in Task, opening[x] # NoSheet
        PROVE  kind'[opening[x]] = "used" /\ buffer'[opening[x]] = buffer[opening[x]]
    <3>1. opening[x] \in Window /\ opening[x] # w
      BY <1>1, <1>6, <2>1 DEF TypePart
    <3>2. QED
      BY <1>1, <1>5, <2>1, <3>1, Sheets DEF OpeningPart
  <2>2. \A x \in Task : state[x] = "start" => opening[x] # NoSheet
    BY <1>1 DEF OpeningPart
  <2>3. QED
    BY <1>1, <1>2, <1>7, <2>1, <2>2 DEF OpeningPart
<1>11. RequestPart'
  <2>1. ASSUME NEW v \in Window, Asks("window", v)'
        PROVE  kind'[v] = "console" /\ v \notin OnScreen' /\ cons'[owner'[v]] = NoSheet
    <3>1. Asks("window", v) /\ v # w
      BY <1>3, <2>1
    <3>2. kind[v] = "console" /\ v \notin OnScreen /\ cons[owner[v]] = NoSheet
      BY <1>1, <3>1 DEF RequestPart
    <3>3. QED
      BY <1>2, <1>5, <3>1, <3>2, Sheets
  <2>2. WindowFirst(messages', owner')
    <3>1. SUFFICES ASSUME NEW v \in Window, NEW i \in 1 .. Len(messages'), NEW j \in 1 .. Len(messages'),
                          messages'[i] = [what |-> "window", of |-> v],
                          messages'[j] = [what |-> "task", of |-> owner'[v]]
                   PROVE  i < j
      BY DEF WindowFirst
    <3>2. v # w
      <4>1. Asks("window", v)'
        BY <3>1 DEF Asks, AsksIn
      <4>2. QED
        BY <1>3, <4>1
    <3>3. QED
      BY <1>3, <1>5, <3>1, <3>2 DEF WindowFirst
  <2>3. QED
    BY <1>1, <1>2, <1>3, <2>1, <2>2 DEF RequestPart
<1>12. FifoPart'
  BY <1>1, <1>2, <1>5 DEF FifoPart
<1>13. TypePart'
  BY <1>1, <1>2, <1>5 DEF TypePart
<1>14. QED
  BY <1>2, <1>5, <1>8, <1>9, <1>10, <1>11, <1>12, <1>13 DEF Core



-----------------------------------------------------------------------------
(* One lemma for each operation. *)

\* Nothing of the login changes, and nothing goes wrong.
LEMMA NoFault ==
  ASSUME IInv, fault = "none", fault' = fault, UNCHANGED loginVars
  PROVE  LoginPart' /\ FaultPart'
BY DEF IInv, LoginPart, FaultPart, loginVars

\* task_a looks at the focus, and leaves the windows as they are.
LEMMA FocusKeeps ==
  ASSUME IInv, focus' = Focused,
         \A w \in Window : kind'[w] = kind[w] /\ (w \in OnScreen => w \in OnScreen')
  PROVE  FocusPart' /\ focus' \in Sheet \cup {NoSheet}
<1>1. PICK f : f = Focused
  OBVIOUS
<1>2. f \in Sheet \cup {NoSheet} /\ (f \in Window /\ kind[f] \in {"app", "console"} => f \in OnScreen)
  BY <1>1, FocusedIs
<1>3. focus' = f
  BY <1>1
<1>4. QED
  BY <1>2, <1>3 DEF FocusPart

\* The height of a sheet is its place in the stack.
LEMMA HeightIs ==
  ASSUME IsStack(stack), NEW s
  PROVE  /\ s \in OnScreen => /\ HeightOf(s) \in 0 .. top /\ stack[HeightOf(s) + 1] = s
         /\ s \notin OnScreen => HeightOf(s) = -1
<1>1. ASSUME s \in OnScreen PROVE HeightOf(s) \in 0 .. top /\ stack[HeightOf(s) + 1] = s
  <2>1. PICK i \in 1 .. Len(stack) : stack[i] = s
    BY <1>1, Places DEF OnScreen
  <2>2. {j \in 1 .. Len(stack) : stack[j] = s} = {i}
    BY <2>1 DEF IsStack
  <2>3. Min({i}) = i
    BY <2>1 DEF Min
  <2>4. SelectInSeq(stack, LAMBDA x : x = s) = i
    BY <2>2, <2>3 DEF SelectInSeq
  <2>5. HeightOf(s) = i - 1
    BY <1>1, <2>4, ShownIs DEF HeightOf
  <2>6. i \in Nat /\ i - 1 + 1 = i
    BY <2>1
  <2>7. i - 1 \in 0 .. top
    BY <2>1, Places DEF top
  <2>8. QED
    BY <2>1, <2>5, <2>6, <2>7
<1>2. ASSUME s \notin OnScreen PROVE HeightOf(s) = -1
  BY <1>2, ShownIs DEF HeightOf
<1>3. QED
  BY <1>1, <1>2

\* Whose window the focus or a click is on.
LEMMA TaskOfIs ==
  ASSUME IInv, NEW s, TaskOf(s) # NoTask
  PROVE  s \in Window /\ TaskOf(s) \in Task /\ owner[s] = TaskOf(s) /\ kind[s] \in {"app", "console"}
<1>1. TypePart /\ WindowPart
  BY DEF IInv
<1>2. s \in Window /\ owner[s] = TaskOf(s) /\ owner[s] \in Task
  BY <1>1 DEF TaskOf, TypePart
<1>3. QED
  BY <1>1, <1>2 DEF WindowPart

\* The characters of the PIN set the flags of their places.
LEMMA LoginStep ==
  ASSUME IInv, UNCHANGED desktop, ~ opened,
         (\E right \in BOOLEAN : Pin(right)) \/ UnPin \/ EnterPin \/ WrongIsOver
  PROVE  IInv'
<1>1. LoginPart /\ FaultPart
  BY DEF IInv
<1>2. /\ Len(shown) \in Nat /\ PinLength \in Nat \ {0} /\ Cells \in Nat /\ shown \in Seq(BOOLEAN)
      /\ flag_mima \in [0 .. PinLength -> BOOLEAN]
      /\ \A p \in 0 .. PinLength - 1 : p \in 0 .. PinLength /\ p # PinLength /\ p \in Int
      /\ PinLength \in 0 .. PinLength
  BY <1>1, LoginAssumption DEF LoginPart
<1>3. LoginPart'
  <2>1. ASSUME NEW right \in BOOLEAN, Pin(right) PROVE LoginPart'
    <3>1. /\ Len(shown) < Cells /\ shown' = Append(shown, right) /\ wrong' = wrong /\ opened' = opened
          /\ timer4' = timer4
          /\ flag_mima' = IF Len(shown) >= PinLength
                          THEN [flag_mima EXCEPT ![PinLength] = FALSE]
                          ELSE [flag_mima EXCEPT ![Len(shown)] = right]
      BY <2>1 DEF Pin
    <3>2. /\ shown' \in Seq(BOOLEAN) /\ Len(shown') = Len(shown) + 1
          /\ \A i \in 1 .. Len(shown) : shown'[i] = shown[i]
          /\ shown'[Len(shown) + 1] = right
      BY <1>2, <3>1
    <3>3. CASE Len(shown) >= PinLength
      <4>1. /\ flag_mima' \in [0 .. PinLength -> BOOLEAN]
            /\ ~ flag_mima'[PinLength]
            /\ \A p \in 0 .. PinLength - 1 : flag_mima'[p] = flag_mima[p]
        BY <1>2, <3>1, <3>3
      <4>2. \A p \in 0 .. PinLength - 1 :
               p < Len(shown) /\ shown'[p + 1] = shown[p + 1] /\ ~ (p > Len(shown'))
        BY <1>2, <3>2, <3>3
      <4>3. Len(shown') <= Cells
        BY <1>2, <3>1, <3>2
      <4>4. QED
        BY <1>1, <3>1, <3>2, <4>1, <4>2, <4>3 DEF LoginPart
    <3>4. CASE Len(shown) < PinLength
      <4>1. /\ flag_mima' \in [0 .. PinLength -> BOOLEAN]
            /\ \A p \in 0 .. PinLength : p # Len(shown) => flag_mima'[p] = flag_mima[p]
            /\ flag_mima'[Len(shown)] = right
        BY <1>2, <3>1, <3>4
      <4>2. ASSUME NEW p \in 0 .. PinLength - 1, p < Len(shown') PROVE flag_mima'[p] = shown'[p + 1]
        <5>1. CASE p = Len(shown)
          BY <3>2, <4>1, <5>1
        <5>2. CASE p # Len(shown)
          <6>1. p < Len(shown) /\ p + 1 \in 1 .. Len(shown) /\ p \in 0 .. PinLength
            BY <1>2, <3>2, <4>2, <5>2
          <6>2. QED
            BY <1>1, <3>2, <4>1, <5>2, <6>1 DEF LoginPart
        <5>3. QED
          BY <5>1, <5>2
      <4>3. ASSUME NEW p \in 0 .. PinLength - 1, p > Len(shown') PROVE ~ flag_mima'[p]
        <5>1. p > Len(shown) /\ p # Len(shown) /\ p \in 0 .. PinLength
          BY <1>2, <3>2, <4>3
        <5>2. QED
          BY <1>1, <4>1, <5>1 DEF LoginPart
      <4>4. Len(shown') <= Cells /\ Len(shown') <= PinLength
        BY <1>2, <3>1, <3>2, <3>4
      <4>5. QED
        BY <1>1, <3>1, <3>2, <4>1, <4>2, <4>3, <4>4 DEF LoginPart
    <3>5. QED
      BY <1>2, <3>3, <3>4
  <2>2. ASSUME UnPin PROVE LoginPart'
    <3>1. /\ shown # <<>> /\ shown' = Front(shown) /\ wrong' = wrong /\ opened' = opened
          /\ timer4' = timer4
          /\ flag_mima' = CASE Len(shown) < PinLength ->
                                  [flag_mima EXCEPT ![Len(shown)] = FALSE]
                            [] Len(shown) = PinLength ->
                                  [flag_mima EXCEPT ![PinLength] = TRUE]
                            [] OTHER -> flag_mima
      BY <2>2 DEF UnPin
    <3>2. /\ shown' \in Seq(BOOLEAN) /\ Len(shown') = Len(shown) - 1 /\ Len(shown) > 0
          /\ \A i \in 1 .. Len(shown) - 1 : shown'[i] = shown[i]
      <4>1. shown' = SubSeq(shown, 1, Len(shown) - 1) /\ Len(shown) > 0
        BY <1>2, <3>1 DEF Front
      <4>2. Len(shown) - 1 \in Int /\ 1 \in Int /\ \A i \in 1 .. Len(shown) - 1 : shown[i] \in BOOLEAN
        BY <1>2
      <4>3. /\ shown' \in Seq(BOOLEAN)
            /\ Len(shown') = IF 1 <= Len(shown) - 1 THEN (Len(shown) - 1) - 1 + 1 ELSE 0
            /\ \A i \in 1 .. (Len(shown) - 1) - 1 + 1 : shown'[i] = shown[1 + i - 1]
        BY <4>1, <4>2, SubSeqProperties
      <4>4. Len(shown') = Len(shown) - 1
        <5>1. PICK n \in Nat : n = Len(shown) /\ n > 0
          BY <1>2, <4>1
        <5>2. PICK m : m = Len(shown')
          OBVIOUS
        <5>3. m = IF 1 <= n - 1 THEN (n - 1) - 1 + 1 ELSE 0
          BY <4>3, <5>1, <5>2
        <5>4. m = n - 1
          BY <5>1, <5>3
        <5>5. QED
          BY <5>1, <5>2, <5>4
      <4>5. \A i \in 1 .. Len(shown) - 1 : 1 + i - 1 = i /\ i \in 1 .. (Len(shown) - 1) - 1 + 1
        BY <1>2
      <4>6. \A i \in 1 .. Len(shown) - 1 : shown'[i] = shown[i]
        BY <4>3, <4>5
      <4>7. QED
        BY <4>1, <4>3, <4>4, <4>6
    <3>3. flag_mima' \in [0 .. PinLength -> BOOLEAN]
      BY <1>2, <3>1
    <3>4. ASSUME NEW p \in 0 .. PinLength - 1
          PROVE  flag_mima'[p] = IF p = Len(shown) THEN FALSE ELSE flag_mima[p]
      <4>1. CASE Len(shown) < PinLength
        <5>1. flag_mima' = [flag_mima EXCEPT ![Len(shown)] = FALSE]
          BY <1>2, <3>1, <4>1
        <5>2. PICK n \in 0 .. PinLength : n = Len(shown)
          BY <1>2, <4>1
        <5>3. \A q \in 0 .. PinLength : flag_mima'[q] = IF q = n THEN FALSE ELSE flag_mima[q]
          BY <1>2, <5>1, <5>2
        <5>4. QED
          BY <1>2, <5>2, <5>3
      <4>2. CASE Len(shown) = PinLength
        <5>1. flag_mima' = [flag_mima EXCEPT ![PinLength] = TRUE]
          BY <1>2, <3>1, <4>2
        <5>2. p \in 0 .. PinLength /\ p # PinLength /\ p # Len(shown)
          BY <1>2, <4>2
        <5>3. flag_mima'[p] = flag_mima[p]
          BY <1>2, <5>1, <5>2
        <5>4. QED
          BY <5>2, <5>3
      <4>3. CASE Len(shown) > PinLength
        <5>1. flag_mima' = flag_mima
          BY <1>2, <3>1, <4>3
        <5>2. p # Len(shown)
          BY <1>2, <4>3
        <5>3. QED
          BY <5>1, <5>2
      <4>4. Len(shown) < PinLength \/ Len(shown) = PinLength \/ Len(shown) > PinLength
        BY <1>2
      <4>5. QED
        BY <4>1, <4>2, <4>3, <4>4
    <3>5. ASSUME NEW p \in 0 .. PinLength - 1
          PROVE  /\ p < Len(shown') => flag_mima'[p] = shown'[p + 1]
                 /\ p > Len(shown') => ~ flag_mima'[p]
      <4>1. p < Len(shown') => p < Len(shown) /\ p # Len(shown) /\ p + 1 \in 1 .. Len(shown) - 1
        BY <1>2, <3>2
      <4>2. p > Len(shown') => p = Len(shown) \/ p > Len(shown)
        BY <1>2, <3>2
      <4>3. QED
        BY <1>1, <3>2, <3>4, <4>1, <4>2 DEF LoginPart
    <3>6. flag_mima'[PinLength] => Len(shown') <= PinLength
      <4>1. CASE Len(shown) <= PinLength
        BY <1>2, <3>2, <4>1
      <4>2. CASE Len(shown) > PinLength
        BY <1>1, <1>2, <3>1, <4>2 DEF LoginPart
      <4>3. QED
        BY <1>2, <4>1, <4>2
    <3>7. Len(shown') <= Cells
      BY <1>1, <1>2, <3>2 DEF LoginPart
    <3>8. QED
      BY <1>1, <3>1, <3>2, <3>3, <3>5, <3>6, <3>7 DEF LoginPart
  <2>3. ASSUME EnterPin PROVE LoginPart'
    <3>1. /\ flag_mima' = [p \in 0 .. PinLength |-> p = PinLength] /\ shown' = <<>>
          /\ opened' = IfRight /\ wrong' = IF IfRight \/ wrong = 2 THEN 0 ELSE wrong + 1
          /\ timer4' = ~ IfRight
      BY <2>3 DEF EnterPin, Retried, Cleared
    <3>2. IfRight \in BOOLEAN
      BY <1>2 DEF IfRight
    <3>3. wrong' \in 0 .. 2
      BY <1>1, <3>1 DEF LoginPart
    <3>4. shown' \in Seq(BOOLEAN) /\ Len(shown') = 0
      BY <3>1
    <3>5. /\ flag_mima' \in [0 .. PinLength -> BOOLEAN]
          /\ \A p \in 0 .. PinLength - 1 : ~ flag_mima'[p]
      BY <1>2, <3>1
    <3>6. /\ \A p \in 0 .. PinLength - 1 : ~ (p < 0)
          /\ 0 <= Cells /\ 0 <= PinLength
      BY <1>2
    <3>7. QED
      BY <3>1, <3>2, <3>3, <3>4, <3>5, <3>6 DEF LoginPart
  <2>4. ASSUME WrongIsOver PROVE LoginPart'
    BY <1>1, <2>4 DEF LoginPart, WrongIsOver
  <2>5. QED
    BY <2>1, <2>2, <2>3, <2>4
<1>4. FaultPart'
  BY <1>1 DEF FaultPart, desktop
<1>5. UNCHANGED <<kind, stack, owner, buffer, focus, state, cons, fifo, opening, messages, fault>>
  BY DEF desktop, screen, tasks
<1>6. Core'
  BY <1>5, ScreenKeeps DEF IInv, WindowPart, OnScreen
<1>7. IsStack(stack') /\ TypePart' /\ FifoPart' /\ FocusPart'
  BY <1>5 DEF IInv, TypePart, FifoPart, FocusPart, OnScreen
<1>8. QED
  BY <1>3, <1>4, <1>6, <1>7 DEF IInv, Core


\* A character or an arrow for the focused console.
LEMMA LetterStep == ASSUME IInv, Letter PROVE IInv'
<1>1. fault = "none" /\ opened /\ UNCHANGED loginVars /\ TypePart /\ FifoPart
  BY DEF Letter, Main, IInv
<1>2. CASE Faults("task")
  BY <1>1, <1>2, FaultsStep
<1>3. CASE ~ Faults("task")
  <2>0. PICK t : t = TaskOf(Focused)
    OBVIOUS
  <2>1. /\ t # NoTask /\ fifo' = [fifo EXCEPT ![t] = Append(@, "key")] /\ focus' = Focused
        /\ UNCHANGED <<kind, stack, owner, buffer, state, cons, opening, messages, fault>>
    BY <1>3, <2>0 DEF Letter, Given, screen
  <2>2. t \in Task
    BY <2>0, <2>1, TaskOfIs
  <2>3. OnScreen' = OnScreen
    BY <2>1 DEF OnScreen
  <2>4. Core'
    BY <2>1, <2>3, ScreenKeeps DEF IInv, WindowPart
  <2>5. /\ fifo' \in [Task -> Seq({"key", "close"})]
        /\ \A x \in Task : fifo'[x] = IF x = t THEN Append(fifo[t], "key") ELSE fifo[x]
    <3>1. Append(fifo[t], "key") \in Seq({"key", "close"})
      BY <1>1, <2>2, KeyAppended DEF TypePart, FifoPart
    <3>2. QED
      BY <1>1, <2>1, <2>2, <3>1 DEF TypePart
  <2>6. FifoPart'
    BY <2>1, <2>3, <2>5, FifoKeeps
  <2>7. FocusPart' /\ focus' \in Sheet \cup {NoSheet}
    BY <2>1, <2>3, FocusKeeps
  <2>8. TypePart'
    BY <1>1, <2>1, <2>5, <2>7 DEF TypePart
  <2>9. LoginPart' /\ FaultPart'
    BY <1>1, <2>1, NoFault
  <2>10. IsStack(stack')
    BY <2>1 DEF IInv
  <2>11. QED
    BY <2>4, <2>6, <2>7, <2>8, <2>9, <2>10 DEF IInv, Core
<1>4. QED
  BY <1>2, <1>3

\* What changes the order of the windows and the focus alone.
LEMMA StackStep ==
  ASSUME IInv, fault = "none", UNCHANGED <<owner, buffer, tasks, messages, fault, loginVars>>,
         kind' \in [Sheet -> {"free", "used", "app", "console", "menu", "negated"}],
         \A w \in Window : kind'[w] = kind[w],
         \A s \in Sheet : kind'[s] \in {"app", "console"} => s \in Window,
         IsStack(stack'), \A w \in Window : w \in OnScreen' <=> w \in OnScreen,
         focus' = Focused \/ (focus' \in Sheet /\ focus' \in OnScreen)
  PROVE  IInv'
<1>1. UNCHANGED <<owner, buffer, state, cons, fifo, opening, messages, fault>> /\ TypePart
  BY DEF tasks, IInv
<1>2. Core'
  BY <1>1, ScreenKeeps
<1>3. FifoPart'
  <2>1. \A x \in Task : cons[x] # NoSheet => cons[x] \in Window
    BY <1>1 DEF TypePart
  <2>2. QED
    BY <1>1, <2>1 DEF IInv, FifoPart
<1>4. FocusPart' /\ focus' \in Sheet \cup {NoSheet}
  <2>1. CASE focus' = Focused
    BY <2>1, FocusKeeps
  <2>2. CASE focus' # Focused
    BY <2>2 DEF FocusPart
  <2>3. QED
    BY <2>1, <2>2
<1>5. TypePart'
  BY <1>1, <1>4 DEF TypePart
<1>6. LoginPart' /\ FaultPart'
  BY <1>1, NoFault
<1>7. QED
  BY <1>2, <1>3, <1>4, <1>5, <1>6 DEF IInv, Core

\* The next sheet is one of the stack.
LEMMA TabStep == ASSUME IInv, Tab PROVE IInv'
<1>1. fault = "none" /\ opened /\ UNCHANGED loginVars /\ IsStack(stack) /\ TypePart /\ WindowPart
  BY DEF Tab, Main, IInv
<1>2. CASE Faults("task")
  BY <1>1, <1>2, FaultsStep
<1>3. CASE Faults("index")
  BY <1>1, <1>3, FaultsStep
<1>4. CASE ~ Faults("task") /\ ~ Faults("index")
  <2>1. /\ NextHeight >= 0 /\ focus' = stack[NextHeight + 1]
        /\ UNCHANGED <<kind, stack, owner, buffer, tasks, messages, fault>>
    BY <1>4 DEF Tab, screen
  <2>2. NextHeight + 1 \in 1 .. Len(stack)
    <3>1. PICK h : h = HeightOf(Focused)
      OBVIOUS
    <3>2. h \in 0 .. top \/ h = -1
      BY <1>1, <3>1, HeightIs
    <3>3. NextHeight = IF h = 1 THEN top - 1 ELSE h - 1
      BY <3>1 DEF NextHeight
    <3>4. Len(stack) \in Nat /\ Len(stack) >= 2 /\ top = Len(stack) - 1
      BY <1>1, Places DEF top
    <3>5. QED
      BY <2>1, <3>2, <3>3, <3>4
  <2>3. PICK i \in 1 .. Len(stack) : i = NextHeight + 1
    BY <2>2
  <2>4. focus' \in Sheet /\ focus' \in OnScreen
    BY <1>1, <2>1, <2>3, Places DEF OnScreen
  <2>5. OnScreen' = OnScreen /\ IsStack(stack')
    BY <1>1, <2>1 DEF OnScreen
  <2>6. QED
    BY <1>1, <2>1, <2>4, <2>5, StackStep DEF TypePart, WindowPart
<1>5. QED
  BY <1>2, <1>3, <1>4

\* Applications are broken where the focus is.
LEMMA BrokenKeeps ==
  ASSUME IInv, NEW t \in Task, InApp(t), Broken(t), UNCHANGED <<kind, owner, buffer, messages>>,
         \A w \in Window : w \in OnScreen' <=> w \in OnScreen
  PROVE  /\ Core' /\ FifoPart'
         /\ state' \in [Task -> States] /\ opening' \in [Task -> Window \cup {NoSheet}]
         /\ cons' = cons /\ fifo' = fifo
<1>1. TypePart /\ OpeningPart
  BY DEF IInv
<1>2. /\ state' = [state EXCEPT ![t] = "end"] /\ opening' = [opening EXCEPT ![t] = NoSheet]
      /\ cons' = cons /\ fifo' = fifo /\ state[t] \in {"run", "wait", "openwin"}
  BY DEF Broken, InApp
<1>3. ~ Unborn(t)
  BY <1>1, <1>2 DEF OpeningPart
<1>4. Core'
  BY <1>2, <1>3, TurnKeeps
<1>5. FifoPart'
  <2>1. \A x \in Task : cons[x] # NoSheet => cons[x] \in Window
    BY <1>1 DEF TypePart
  <2>2. QED
    BY <1>2, <2>1 DEF IInv, FifoPart
<1>6. state' \in [Task -> States] /\ opening' \in [Task -> Window \cup {NoSheet}]
  BY <1>1, <1>2 DEF TypePart, States
<1>7. QED
  BY <1>2, <1>4, <1>5, <1>6

LEMMA ShiftF1Step == ASSUME IInv, ShiftF1 PROVE IInv'
<1>0. PICK t : t = TaskOf(Focused)
  OBVIOUS
<1>1. /\ fault = "none" /\ UNCHANGED loginVars /\ t # NoTask /\ InApp(t) /\ Broken(t)
      /\ focus' = Focused /\ UNCHANGED <<kind, stack, owner, buffer, messages, fault>>
  BY <1>0 DEF ShiftF1, Main, screen
<1>2. t \in Task /\ TypePart /\ IsStack(stack)
  BY <1>0, <1>1, TaskOfIs DEF IInv
<1>3. OnScreen' = OnScreen
  BY <1>1 DEF OnScreen
<1>4. /\ Core' /\ FifoPart'
      /\ state' \in [Task -> States] /\ opening' \in [Task -> Window \cup {NoSheet}]
      /\ cons' = cons /\ fifo' = fifo
  BY <1>1, <1>2, <1>3, BrokenKeeps
<1>5. FocusPart' /\ focus' \in Sheet \cup {NoSheet}
  BY <1>1, <1>3, FocusKeeps
<1>6. TypePart'
  BY <1>1, <1>2, <1>4, <1>5 DEF TypePart
<1>7. LoginPart' /\ FaultPart'
  BY <1>1, NoFault
<1>8. QED
  BY <1>1, <1>2, <1>4, <1>5, <1>6, <1>7 DEF IInv, Core

\* A console that is opened from HariMain, over the stack k.
LEMMA OpenedStep ==
  ASSUME IInv, fault = "none", NEW k, IsStack(k), \A w \in Window : w \in Contents(k) <=> w \in OnScreen,
         NEW size \in {ConsoleSize, LogSize}, ~ Full, Opened(k, size),
         kind' = [kind EXCEPT ![NewWindow] = "console"],
         UNCHANGED <<opening, messages, fault, loginVars>>
  PROVE  IInv'
<1>0. PICK w, t : w = NewWindow /\ t = NewTask
  OBVIOUS
<1>1. TypePart /\ WindowPart
  BY DEF IInv
<1>2. w \in Window /\ t \in Task
  BY <1>0, Allocated DEF Full
<1>3. /\ kind' = [kind EXCEPT ![w] = "console"]
      /\ kind' \in [Sheet -> {"free", "used", "app", "console", "menu", "negated"}]
      /\ \A s \in Sheet : kind'[s] = IF s = w THEN "console" ELSE kind[s]
  BY <1>0, <1>1, <1>2, Sheets DEF TypePart
<1>4. \A s \in Sheet : kind'[s] \in {"app", "console"} => s \in Window
  BY <1>1, <1>2, <1>3 DEF WindowPart
<1>5. /\ Core' /\ FifoPart' /\ FocusPart' /\ IsStack(stack')
      /\ fifo' \in [Task -> Seq({"key", "close"})]
  <2>1. \A v \in Window : kind'[v] = IF v = NewWindow THEN "console" ELSE kind[v]
    BY <1>0, <1>3, Sheets
  <2>2. QED
    BY <1>4, <2>1, OpenedKeeps
<1>6. /\ owner' = [owner EXCEPT ![w] = t] /\ buffer' = [buffer EXCEPT ![w] = size]
      /\ focus' = w /\ state' = [state EXCEPT ![t] = "prompt"] /\ cons' = [cons EXCEPT ![t] = w]
  BY <1>0 DEF Opened
<1>7. TypePart'
  BY <1>1, <1>2, <1>3, <1>5, <1>6, Sheets DEF TypePart, States
<1>8. LoginPart' /\ FaultPart'
  BY NoFault
<1>9. QED
  BY <1>5, <1>7, <1>8 DEF IInv, Core

LEMMA OpenStep == ASSUME IInv, NEW size \in {ConsoleSize, LogSize}, Open(size) PROVE IInv'
<1>1. fault = "none" /\ opened /\ UNCHANGED loginVars /\ IsStack(stack)
  BY DEF Open, Main, IInv
<1>2. CASE Faults("task")
  BY <1>1, <1>2, FaultsStep
<1>3. CASE Faults("full")
  BY <1>1, <1>3, FaultsStep
<1>4. CASE ~ Faults("task") /\ ~ Faults("full")
  <2>1. /\ ~ Full /\ kind' = [kind EXCEPT ![NewWindow] = "console"] /\ Opened(stack, size)
        /\ UNCHANGED <<opening, messages, fault>>
    BY <1>4 DEF Open
  <2>2. QED
    BY <1>1, <2>1, OpenedStep DEF OnScreen
<1>5. QED
  BY <1>2, <1>3, <1>4

\* The lowest window goes to the top.
LEMMA F11Step == ASSUME IInv, F11 PROVE IInv'
<1>1. fault = "none" /\ opened /\ UNCHANGED loginVars /\ IsStack(stack) /\ TypePart /\ WindowPart
  BY DEF F11, Main, IInv
<1>2. CASE Faults("covered")
  BY <1>1, <1>2, FaultsStep
<1>3. CASE ~ Faults("covered")
  <2>0. PICK s, i : s = stack[i] /\ i = 2
    OBVIOUS
  <2>1. /\ top > 1 /\ stack' = UpDown(stack, s, top - 1) /\ focus' = Focused
        /\ UNCHANGED <<kind, owner, buffer, tasks, messages, fault>>
    BY <1>3, <2>0 DEF F11
  <2>2. i \in 1 .. Len(stack) /\ i # 1 /\ i # Len(stack)
    BY <1>1, <2>0, <2>1, Places DEF top
  <2>3. s \in Sheet /\ s \in OnScreen /\ s # Back /\ s # Mouse
    BY <1>1, <2>0, <2>2, Places DEF OnScreen
  <2>4. IsStack(stack') /\ OnScreen' = OnScreen
    BY <2>1, <2>3, Raises DEF OnScreen
  <2>5. QED
    BY <1>1, <2>1, <2>4, StackStep DEF TypePart, WindowPart
<1>4. QED
  BY <1>2, <1>3

\* The menu comes and goes.
LEMMA MenuButtonStep == ASSUME IInv, MenuButton PROVE IInv'
<1>0. PICK n : n = Negated
  OBVIOUS
<1>1. fault = "none" /\ UNCHANGED loginVars /\ IsStack(stack) /\ TypePart /\ WindowPart
  BY DEF MenuButton, Main, IInv
<1>2. /\ kind' = [kind EXCEPT ![Menu] = n]
      /\ stack' = UpDown(stack, Menu, IF n = "menu" THEN 1 ELSE -1) /\ focus' = Focused
      /\ UNCHANGED <<owner, buffer, tasks, messages, fault>>
  BY <1>0 DEF MenuButton
<1>3. n \in {"menu", "negated"}
  BY <1>0 DEF Negated
<1>4. /\ kind' \in [Sheet -> {"free", "used", "app", "console", "menu", "negated"}]
      /\ \A s \in Sheet : kind'[s] = IF s = Menu THEN n ELSE kind[s]
  BY <1>1, <1>2, <1>3, Sheets DEF TypePart
<1>5. IsStack(stack') /\ \A w \in Window : w \in OnScreen' <=> w \in OnScreen
  <2>1. CASE n = "menu"
    <3>1. Menu \in Contents(stack) => 1 < Len(stack) - 1
      <4>1. ASSUME Menu \in Contents(stack) PROVE 1 < Len(stack) - 1
        <5>1. PICK i \in 1 .. Len(stack) : stack[i] = Menu
          BY <1>1, <4>1, Places
        <5>2. i # 1 /\ i # Len(stack)
          BY <1>1, <5>1, Sheets DEF IsStack
        <5>3. QED
          BY <1>1, <5>1, <5>2, Places
      <4>2. QED
        BY <4>1
    <3>2. 1 < Len(stack)
      BY <1>1, Places
    <3>3. stack' = UpDown(stack, Menu, 1)
      BY <1>2, <2>1
    <3>4. IsStack(stack') /\ Contents(stack') = Contents(stack) \cup {Menu}
      BY <1>1, <3>1, <3>2, <3>3, Sheets, PutOn
    <3>5. QED
      BY <3>4, Sheets DEF OnScreen
  <2>2. CASE n # "menu"
    <3>1. IsStack(stack') /\ Contents(stack') = Contents(stack) \ {Menu}
      BY <1>1, <1>2, <2>2, Sheets, TakenOff
    <3>2. QED
      BY <3>1, Sheets DEF OnScreen
  <2>3. QED
    BY <2>1, <2>2
<1>6. /\ \A w \in Window : kind'[w] = kind[w]
      /\ \A s \in Sheet : kind'[s] \in {"app", "console"} => s \in Window
  BY <1>1, <1>3, <1>4, Sheets DEF WindowPart
<1>7. QED
  BY <1>1, <1>2, <1>4, <1>5, <1>6, StackStep


\* A click that is noticed raises the sheet.
LEMMA ClickStep == ASSUME IInv, NEW s \in Clickable, Click(s) PROVE IInv'
<1>1. /\ fault = "none" /\ UNCHANGED loginVars /\ TypePart /\ WindowPart
      /\ stack' = UpDown(stack, s, top - 1) /\ focus' = s
      /\ UNCHANGED <<kind, owner, buffer, tasks, messages, fault>>
  BY DEF Click, Raised, Main, IInv
<1>2. s \in Sheet /\ s \in OnScreen /\ s # Back /\ s # Mouse
  BY Clicks
<1>3. IsStack(stack') /\ OnScreen' = OnScreen
  BY <1>1, <1>2, Raises DEF OnScreen
<1>4. QED
  BY <1>1, <1>2, <1>3, StackStep DEF TypePart, WindowPart

LEMMA ClickCloseStep == ASSUME IInv, NEW s \in Clickable, ClickClose(s) PROVE IInv'
<1>1. fault = "none" /\ opened /\ UNCHANGED loginVars
  BY DEF ClickClose, Main
<1>2. CASE TaskOf(s) = NoTask
  <2>1. Faults("task")
    BY <1>2 DEF ClickClose
  <2>2. QED
    BY <1>1, <2>1, FaultsStep
<1>3. CASE TaskOf(s) # NoTask
  <2>1. Core' /\ TypePart' /\ FifoPart' /\ FocusPart' /\ IsStack(stack')
    BY <1>3, ClickCloseKeeps
  <2>2. fault' = fault
    BY <1>3 DEF ClickClose
  <2>3. LoginPart' /\ FaultPart'
    BY <1>1, <2>2, NoFault
  <2>4. QED
    BY <2>1, <2>3 DEF IInv, Core
<1>4. QED
  BY <1>2, <1>3

\* The close button of an application ends it.
LEMMA ClickBreakStep == ASSUME IInv, NEW s \in Clickable, ClickBreak(s) PROVE IInv'
<1>1. fault = "none" /\ opened /\ UNCHANGED loginVars /\ kind[s] = "app" /\ TypePart /\ WindowPart
  BY DEF ClickBreak, Main, IInv
<1>2. CASE Faults("again")
  BY <1>1, <1>2, FaultsStep
<1>3. CASE ~ Faults("again")
  <2>0. PICK t : t = TaskOf(s)
    OBVIOUS
  <2>1. /\ InApp(t) /\ Broken(t) /\ stack' = UpDown(stack, s, top - 1) /\ focus' = s
        /\ UNCHANGED <<kind, owner, buffer, messages, fault>>
    BY <1>3, <2>0 DEF ClickBreak, Raised
  <2>2. s \in Sheet /\ s \in OnScreen /\ s # Back /\ s # Mouse
    BY Clicks
  <2>3. t \in Task
    BY <1>1, <2>0, <2>2 DEF TaskOf, WindowPart
  <2>4. IsStack(stack') /\ OnScreen' = OnScreen
    BY <2>1, <2>2, Raises DEF OnScreen
  <2>5. /\ Core' /\ FifoPart'
        /\ state' \in [Task -> States] /\ opening' \in [Task -> Window \cup {NoSheet}]
        /\ cons' = cons /\ fifo' = fifo
    BY <2>1, <2>3, <2>4, BrokenKeeps
  <2>6. TypePart' /\ FocusPart'
    BY <1>1, <2>1, <2>2, <2>4, <2>5 DEF TypePart, FocusPart
  <2>7. LoginPart' /\ FaultPart'
    BY <1>1, <2>1, NoFault
  <2>8. QED
    BY <2>4, <2>5, <2>6, <2>7 DEF IInv, Core
<1>4. QED
  BY <1>2, <1>3

\* The menu opens a console, and goes.
LEMMA ClickConsoleStep == ASSUME IInv, ClickConsole PROVE IInv'
<1>1. fault = "none" /\ opened /\ UNCHANGED loginVars /\ IsStack(stack)
  BY DEF ClickConsole, Main, IInv
<1>2. CASE Faults("full")
  BY <1>1, <1>2, FaultsStep
<1>3. CASE ~ Faults("full")
  <2>0. PICK k : k = UpDown(stack, Menu, -1)
    OBVIOUS
  <2>1. /\ ~ Full /\ kind' = [kind EXCEPT ![NewWindow] = "console"] /\ Opened(k, ConsoleSize)
        /\ UNCHANGED <<opening, messages, fault>>
    BY <1>3, <2>0 DEF ClickConsole
  <2>2. IsStack(k) /\ Contents(k) = OnScreen \ {Menu}
    BY <1>1, <2>0, Sheets, TakenOff DEF OnScreen
  <2>3. \A w \in Window : w \in Contents(k) <=> w \in OnScreen
    BY <2>2, Sheets
  <2>4. QED
    BY <1>1, <2>1, <2>2, <2>3, OpenedStep
<1>4. QED
  BY <1>2, <1>3

LEMMA MessageStep == ASSUME IInv, Message PROVE IInv'
<1>1. fault = "none" /\ UNCHANGED loginVars /\ messages # <<>>
  BY DEF Message, Main
<1>2. Core' /\ TypePart' /\ FifoPart' /\ FocusPart' /\ IsStack(stack') /\ fault' = fault
  <2>1. CASE Head(messages).what = "console" /\ MessageConsole(Head(messages).of)
    BY <1>1, <2>1, MessageConsoleKeeps
  <2>2. CASE Head(messages).what = "task" /\ MessageTask(Head(messages).of)
    BY <1>1, <2>2, MessageTaskKeeps
  <2>3. CASE Head(messages).what = "window" /\ MessageWindow(Head(messages).of)
    BY <1>1, <2>3, MessageWindowKeeps
  <2>4. QED
    BY <2>1, <2>2, <2>3 DEF Message
<1>3. LoginPart' /\ FaultPart'
  BY <1>1, <1>2, NoFault
<1>4. QED
  BY <1>2, <1>3 DEF IInv, Core

\* A datum is taken by a console whose window stays.
LEMMA TakenKeeps ==
  ASSUME IInv, NEW t \in Task, fifo[t] # <<>>, Taken(t), cons' = cons,
         \A w \in Window : w \in OnScreen' => w \in OnScreen
  PROVE  FifoPart' /\ fifo' \in [Task -> Seq({"key", "close"})]
<1>1. TypePart /\ FifoPart
  BY DEF IInv
<1>2. /\ fifo' \in [Task -> Seq({"key", "close"})]
      /\ \A x \in Task : fifo'[x] = IF x = t THEN Tail(fifo[t]) ELSE fifo[x]
  <2>1. Tail(fifo[t]) \in Seq({"key", "close"})
    BY <1>1, TailTaken DEF TypePart, FifoPart
  <2>2. QED
    BY <1>1, <2>1 DEF Taken, TypePart
<1>3. \A x \in Task : cons[x] \in OnScreen' => cons[x] \in OnScreen \/ cons[x] = NoSheet
  BY <1>1 DEF TypePart
<1>4. ASSUME NEW x \in Task, HasClose(fifo'[x]) PROVE cons[x] # NoSheet
  <2>1. HasClose(fifo[x])
    <3>1. fifo[x] \in Seq({"key", "close"}) /\ OneClose(fifo[x])
      BY <1>1 DEF TypePart, FifoPart
    <3>2. CASE x = t
      BY <1>2, <1>4, <3>1, <3>2, TailTaken
    <3>3. CASE x # t
      BY <1>2, <1>4, <3>3
    <3>4. QED
      BY <3>2, <3>3
  <2>2. QED
    BY <1>1, <2>1 DEF FifoPart
<1>5. FifoPart'
  BY <1>2, <1>3, <1>4, FifoKeeps
<1>6. QED
  BY <1>2, <1>5

\* The application of a console at its prompt has no window.
LEMMA NoApplication ==
  ASSUME IInv, NEW t \in Task, state[t] = "prompt"
  PROVE  AppWindows(t) = {} /\ opening[t] = NoSheet /\ [opening EXCEPT ![t] = NoSheet] = opening
<1>1. TypePart /\ WindowPart /\ OpeningPart
  BY DEF IInv
<1>2. AppWindows(t) = {}
  BY <1>1 DEF AppWindows, WindowPart, Working
<1>3. opening[t] = NoSheet
  BY <1>1 DEF OpeningPart
<1>4. QED
  BY <1>1, <1>2, <1>3 DEF TypePart

\* The screen and the focus stay as they are.
LEMMA StillKeeps ==
  ASSUME IInv, UNCHANGED <<screen, focus>>
  PROVE  /\ FocusPart' /\ IsStack(stack') /\ OnScreen' = OnScreen
         /\ UNCHANGED <<kind, stack, owner, buffer>>
BY DEF IInv, screen, FocusPart, OnScreen

LEMMA LeaveStep == ASSUME IInv, NEW t \in Task, Leave(t) PROVE IInv'
<1>1. /\ fault = "none" /\ UNCHANGED loginVars /\ state[t] = "prompt" /\ ~ Unborn(t) /\ fifo[t] # <<>>
      /\ Taken(t) /\ Exit(t) /\ UNCHANGED <<screen, focus, cons, opening, fault>> /\ TypePart
  BY DEF Leave, Runs, Took, IInv
<1>2. FocusPart' /\ IsStack(stack') /\ OnScreen' = OnScreen /\ UNCHANGED <<kind, stack, owner, buffer>>
  BY <1>1, StillKeeps
<1>3. Core'
  BY <1>1, <1>2, NoApplication, ExitKeeps
<1>4. FifoPart' /\ fifo' \in [Task -> Seq({"key", "close"})]
  BY <1>1, <1>2, TakenKeeps
<1>5. state' \in [Task -> States]
  BY <1>1 DEF Exit, Becomes, TypePart, States
<1>6. TypePart'
  BY <1>1, <1>2, <1>4, <1>5 DEF TypePart
<1>7. LoginPart' /\ FaultPart'
  BY <1>1, NoFault
<1>8. QED
  BY <1>2, <1>3, <1>4, <1>6, <1>7 DEF IInv, Core

LEMMA EditStep == ASSUME IInv, NEW t \in Task, Edit(t) PROVE IInv'
<1>1. /\ fault = "none" /\ UNCHANGED loginVars /\ fifo[t] # <<>> /\ Taken(t) /\ TypePart /\ WindowPart
      /\ UNCHANGED <<screen, focus, state, cons, opening, messages, fault>>
  BY DEF Edit, Runs, Took, IInv
<1>2. FocusPart' /\ IsStack(stack') /\ OnScreen' = OnScreen /\ UNCHANGED <<kind, stack, owner, buffer>>
  BY <1>1, StillKeeps
<1>3. Core'
  BY <1>1, <1>2, ScreenKeeps DEF WindowPart
<1>4. FifoPart' /\ fifo' \in [Task -> Seq({"key", "close"})]
  BY <1>1, <1>2, TakenKeeps
<1>5. TypePart'
  BY <1>1, <1>2, <1>4 DEF TypePart
<1>6. LoginPart' /\ FaultPart'
  BY <1>1, NoFault
<1>7. QED
  BY <1>2, <1>3, <1>4, <1>5, <1>6 DEF IInv, Core


LEMMA TakesStaleStep == ASSUME IInv, NEW t \in Task, TakesStale(t) PROVE IInv'
<1>1. Faults("stale") /\ UNCHANGED loginVars
  BY DEF TakesStale, Runs
<1>2. QED
  BY <1>1, FaultsStep

\* A console and its application change places.
LEMMA TurnStep ==
  ASSUME IInv, NEW t \in Task, NEW n \in {"prompt", "run", "wait", "end"}, fault = "none",
         state[t] \in {"prompt", "run", "wait", "openwin", "end"}, ~ Unborn(t),
         n = "prompt" => AppWindows(t) = {},
         state' = [state EXCEPT ![t] = n], opening' = [opening EXCEPT ![t] = NoSheet],
         (fifo[t] # <<>> /\ Taken(t)) \/ fifo' = fifo,
         UNCHANGED <<screen, focus, cons, messages, fault, loginVars>>
  PROVE  IInv'
<1>1. TypePart /\ FifoPart
  BY DEF IInv
<1>2. FocusPart' /\ IsStack(stack') /\ OnScreen' = OnScreen /\ UNCHANGED <<kind, stack, owner, buffer>>
  BY StillKeeps
<1>3. Core'
  BY <1>2, TurnKeeps
<1>4. FifoPart' /\ fifo' \in [Task -> Seq({"key", "close"})]
  <2>1. CASE fifo[t] # <<>> /\ Taken(t)
    BY <1>2, <2>1, TakenKeeps
  <2>2. CASE fifo' = fifo
    BY <1>1, <1>2, <2>2 DEF FifoPart, TypePart
  <2>3. QED
    BY <2>1, <2>2
<1>5. state' \in [Task -> States] /\ opening' \in [Task -> Window \cup {NoSheet}]
  BY <1>1 DEF TypePart, States
<1>6. TypePart'
  BY <1>1, <1>2, <1>4, <1>5 DEF TypePart
<1>7. LoginPart' /\ FaultPart'
  BY NoFault
<1>8. QED
  BY <1>2, <1>3, <1>4, <1>6, <1>7 DEF IInv, Core

LEMMA StartAppStep == ASSUME IInv, NEW t \in Task, StartApp(t) PROVE IInv'
<1>1. /\ fault = "none" /\ state[t] = "prompt" /\ ~ Unborn(t) /\ fifo[t] # <<>> /\ Taken(t)
      /\ state' = [state EXCEPT ![t] = "run"] /\ opening' = opening
      /\ UNCHANGED <<screen, focus, cons, messages, fault, loginVars>>
  BY DEF StartApp, Runs, Took, Becomes
<1>2. opening' = [opening EXCEPT ![t] = NoSheet]
  BY <1>1, NoApplication
<1>3. QED
  BY <1>1, <1>2, TurnStep

\* An application does not open a window, and its console is there.
LEMMA AtWork ==
  ASSUME IInv, NEW t \in Task, state[t] \in {"run", "wait", "end"}
  PROVE  ~ Unborn(t) /\ [opening EXCEPT ![t] = NoSheet] = opening
<1>1. TypePart /\ OpeningPart
  BY DEF IInv
<1>2. ~ Unborn(t) /\ opening[t] = NoSheet
  BY <1>1 DEF OpeningPart
<1>3. QED
  BY <1>1, <1>2 DEF TypePart

LEMMA GetKeyStep == ASSUME IInv, NEW t \in Task, GetKey(t) PROVE IInv'
<1>1. /\ fault = "none" /\ state[t] = "run" /\ fifo' = fifo
      /\ state' = [state EXCEPT ![t] = "wait"] /\ opening' = opening
      /\ UNCHANGED <<screen, focus, cons, messages, fault, loginVars>>
  BY DEF GetKey, Runs, Becomes
<1>2. QED
  BY <1>1, AtWork, TurnStep

LEMMA GotKeyStep == ASSUME IInv, NEW t \in Task, GotKey(t) PROVE IInv'
<1>1. /\ fault = "none" /\ state[t] = "wait" /\ fifo[t] # <<>> /\ Taken(t)
      /\ state' = [state EXCEPT ![t] = "run"] /\ opening' = opening
      /\ UNCHANGED <<screen, focus, cons, messages, fault, loginVars>>
  BY DEF GotKey, Runs, Took, Becomes
<1>2. QED
  BY <1>1, AtWork, TurnStep

LEMMA EndAppStep == ASSUME IInv, NEW t \in Task, EndApp(t) PROVE IInv'
<1>1. /\ fault = "none" /\ state[t] = "run" /\ fifo' = fifo
      /\ state' = [state EXCEPT ![t] = "end"] /\ opening' = [opening EXCEPT ![t] = NoSheet]
      /\ UNCHANGED <<screen, focus, cons, messages, fault, loginVars>>
  BY DEF EndApp, Runs, Broken
<1>2. QED
  BY <1>1, AtWork, TurnStep

LEMMA AppEndedStep == ASSUME IInv, NEW t \in Task, AppEnded(t) PROVE IInv'
<1>1. /\ fault = "none" /\ state[t] = "end" /\ AppWindows(t) = {}
      /\ UNCHANGED <<screen, focus, cons, fifo, opening, fault, loginVars>>
  BY DEF AppEnded, Runs
<1>2. CASE cons[t] # NoSheet
  <2>1. state' = [state EXCEPT ![t] = "prompt"] /\ messages' = messages
    BY <1>2 DEF AppEnded, Becomes
  <2>2. QED
    BY <1>1, <2>1, AtWork, TurnStep
<1>3. CASE cons[t] = NoSheet
  <2>1. Exit(t)
    BY <1>3 DEF AppEnded
  <2>2. /\ FocusPart' /\ IsStack(stack') /\ OnScreen' = OnScreen
        /\ UNCHANGED <<kind, stack, owner, buffer>>
    BY <1>1, StillKeeps
  <2>3. Core'
    BY <1>1, <2>1, <2>2, AtWork, ExitKeeps
  <2>4. TypePart /\ FifoPart
    BY DEF IInv
  <2>5. FifoPart'
    BY <1>1, <2>2, <2>4 DEF FifoPart
  <2>6. state' \in [Task -> States]
    BY <2>1, <2>4 DEF Exit, Becomes, TypePart, States
  <2>7. TypePart'
    BY <1>1, <2>2, <2>4, <2>6 DEF TypePart
  <2>8. LoginPart' /\ FaultPart'
    BY <1>1, NoFault
  <2>9. QED
    BY <2>2, <2>3, <2>5, <2>7, <2>8 DEF IInv, Core
<1>4. QED
  BY <1>2, <1>3

\* The request to close that an application reads for its console.
LEMMA GotCloseStep == ASSUME IInv, NEW t \in Task, GotClose(t) PROVE IInv' /\ cons[t] # NoSheet
<1>1. /\ fault = "none" /\ UNCHANGED loginVars /\ fifo[t] # <<>> /\ Head(fifo[t]) = "close"
      /\ TypePart /\ FifoPart
  BY DEF GotClose, Runs, Took, IInv
<1>2. cons[t] # NoSheet
  <2>1. fifo[t] \in Seq({"key", "close"}) /\ OneClose(fifo[t])
    BY <1>1 DEF TypePart, FifoPart
  <2>2. HasClose(fifo[t])
    BY <1>1, <2>1, TailTaken
  <2>3. QED
    BY <1>1, <2>2 DEF FifoPart
<1>3. Core' /\ TypePart' /\ FifoPart' /\ UNCHANGED <<screen, focus, fault>>
  BY <1>2, GotCloseKeeps
<1>4. FocusPart' /\ IsStack(stack')
  BY <1>3, StillKeeps
<1>5. LoginPart' /\ FaultPart'
  BY <1>1, <1>3, NoFault
<1>6. QED
  BY <1>2, <1>3, <1>4, <1>5 DEF IInv, Core

\* The console that cmd_start opens, up to where it may run.
LEMMA StartStep == ASSUME IInv, NEW t \in Task, Start(t) PROVE IInv'
<1>1. /\ fault = "none" /\ UNCHANGED loginVars /\ state[t] = "prompt" /\ ~ Unborn(t) /\ fifo[t] # <<>>
      /\ TypePart /\ FocusPart /\ FifoPart /\ IsStack(stack)
  BY DEF Start, Runs, Took, IInv
<1>2. CASE Faults("full")
  BY <1>1, <1>2, FaultsStep
<1>3. CASE ~ Faults("full")
  <2>0. PICK w, u : w = NewWindow /\ u = NewTask
    OBVIOUS
  <2>1. /\ ~ Full /\ Taken(t) /\ Starts(t, w, u)
        /\ UNCHANGED <<stack, focus, messages, fault>>
    BY <1>3, <2>0 DEF Start, Starts
  <2>2. Core' /\ w \in Window /\ u \in Task /\ u # t /\ kind[w] = "free" /\ ~ HasClose(fifo[u])
    BY <1>1, <2>0, <2>1, StartKeeps
  <2>3. /\ \A v \in Sheet : kind'[v] = IF v = w THEN "used" ELSE kind[v]
        /\ kind' \in [Sheet -> {"free", "used", "app", "console", "menu", "negated"}]
    BY <1>1, <2>1, <2>2, Sheets DEF Starts, TypePart
  <2>4. /\ owner' \in [Window -> Task \cup {NoTask}]
        /\ buffer' \in [Window -> {0, ConsoleSize, LogSize}]
        /\ opening' \in [Task -> Window \cup {NoSheet}]
        /\ cons' \in [Task -> Window \cup {NoSheet}]
        /\ \A x \in Task : x # u => cons'[x] = cons[x]
    BY <1>1, <2>1, <2>2 DEF Starts, TypePart
  <2>5. state' \in [Task -> States]
    BY <1>1, <2>1, <2>2 DEF Starts, TypePart, States
  <2>6. OnScreen' = OnScreen
    BY <2>1 DEF OnScreen
  <2>7. FifoPart' /\ fifo' \in [Task -> Seq({"key", "close"})]
    <3>1. fifo[t] \in Seq({"key", "close"}) /\ OneClose(fifo[t])
      BY <1>1 DEF TypePart, FifoPart
    <3>2. Tail(fifo[t]) \in Seq({"key", "close"})
      BY <1>1, <3>1, TailTaken
    <3>3. /\ fifo' \in [Task -> Seq({"key", "close"})]
          /\ \A x \in Task : fifo'[x] = IF x = t THEN Tail(fifo[t]) ELSE fifo[x]
      BY <1>1, <2>1, <3>2 DEF Taken, TypePart
    <3>4. \A x \in Task : HasClose(fifo'[x]) => x # u
      BY <2>2, <3>3
    <3>5. QED
      BY <1>1, <2>4, <2>6, <3>3, <3>4, FifoKeeps
  <2>8. FocusPart'
    BY <1>1, <2>1, <2>2, <2>3, <2>6, Sheets DEF FocusPart
  <2>9. TypePart'
    BY <1>1, <2>1, <2>3, <2>4, <2>5, <2>7 DEF TypePart
  <2>10. LoginPart' /\ FaultPart'
    BY <1>1, <2>1, NoFault
  <2>11. IsStack(stack')
    BY <1>1, <2>1
  <2>12. QED
    BY <2>2, <2>7, <2>8, <2>9, <2>10, <2>11 DEF IInv, Core
<1>4. QED
  BY <1>2, <1>3


\* The console that cmd_start opens, from where its window has a task on.
LEMMA StartedStep == ASSUME IInv, NEW t \in Task, Started(t) PROVE IInv'
<1>0. PICK w, u : w = opening[t] /\ u = CHOOSE x \in Task \ {t} : state[x] # "free" /\ cons[x] = w
  OBVIOUS
<1>1. /\ fault = "none" /\ UNCHANGED loginVars /\ state[t] = "start"
      /\ TypePart /\ ConsPart /\ FocusPart /\ FifoPart
  BY DEF Started, Runs, IInv
<1>2. /\ fifo' = [fifo EXCEPT ![u] = <<"key">>] /\ owner' = [owner EXCEPT ![w] = u]
      /\ kind' = [kind EXCEPT ![w] = "console"] /\ stack' = UpDown(stack, w, top)
      /\ opening' = [opening EXCEPT ![t] = NoSheet] /\ state' = [state EXCEPT ![t] = "prompt"]
      /\ UNCHANGED <<buffer, focus, cons, messages, fault>>
  BY <1>0 DEF Started, Becomes
<1>3. /\ Core' /\ w \in Window /\ u \in Task /\ cons[u] = w /\ IsStack(stack')
      /\ \A v \in Sheet : v \in OnScreen' <=> v \in OnScreen \/ v = w
  BY <1>0, <1>1, <1>2, StartedKeeps
<1>4. /\ \A v \in Sheet : kind'[v] = IF v = w THEN "console" ELSE kind[v]
      /\ kind' \in [Sheet -> {"free", "used", "app", "console", "menu", "negated"}]
  BY <1>1, <1>2, <1>3, Sheets DEF TypePart
<1>5. /\ fifo' \in [Task -> Seq({"key", "close"})]
      /\ \A x \in Task : fifo'[x] = IF x = u THEN <<"key">> ELSE fifo[x]
  BY <1>1, <1>2, <1>3, NothingAsked DEF TypePart
<1>6. FifoPart'
  <2>1. ASSUME NEW x \in Task, x # u, cons[x] \in OnScreen', cons[x] # NoSheet
        PROVE  cons[x] \in OnScreen
    <3>1. cons[x] # w /\ cons[x] \in Sheet
      BY <1>1, <1>3, <2>1, Sheets DEF ConsPart, TypePart
    <3>2. QED
      BY <1>3, <2>1, <3>1
  <2>2. ASSUME NEW x \in Task, x # u, HasClose(fifo'[x]) PROVE cons[x] # NoSheet
    BY <1>1, <1>5, <2>2 DEF FifoPart
  <2>3. QED
    BY <1>2, <1>5, <2>1, <2>2, FifoKeeps
<1>7. FocusPart'
  BY <1>1, <1>2, <1>3, <1>4, Sheets DEF FocusPart
<1>8. /\ owner' \in [Window -> Task \cup {NoTask}] /\ opening' \in [Task -> Window \cup {NoSheet}]
      /\ state' \in [Task -> States]
  BY <1>1, <1>2, <1>3 DEF TypePart, States
<1>9. TypePart'
  BY <1>1, <1>2, <1>4, <1>5, <1>8 DEF TypePart
<1>10. LoginPart' /\ FaultPart'
  BY <1>1, <1>2, NoFault
<1>11. QED
  BY <1>3, <1>6, <1>7, <1>9, <1>10 DEF IInv, Core

\* The window of an application, up to sheet_alloc.
LEMMA OpenWinStep == ASSUME IInv, NEW t \in Task, OpenWin(t) PROVE IInv'
<1>1. fault = "none" /\ UNCHANGED loginVars /\ TypePart /\ FocusPart /\ FifoPart /\ IsStack(stack)
  BY DEF OpenWin, Runs, IInv
<1>2. CASE FreeWindows = {}
  <2>1. Faults("full")
    BY <1>2 DEF OpenWin
  <2>2. QED
    BY <1>1, <2>1, FaultsStep
<1>3. CASE FreeWindows # {}
  <2>0. PICK w : w = NewWindow
    OBVIOUS
  <2>1. /\ kind' = [kind EXCEPT ![w] = "used"]
        /\ UNCHANGED <<stack, focus, cons, fifo, messages, fault>>
    BY <1>3, <2>0 DEF OpenWin
  <2>2. Core' /\ TypePart'
    BY <1>3, OpenWinKeeps
  <2>3. OnScreen' = OnScreen /\ IsStack(stack')
    BY <1>1, <2>1 DEF OnScreen
  <2>4. w \in Window
    BY <1>3, <2>0, Allocated
  <2>5. \A v \in Sheet : kind'[v] = IF v = w THEN "used" ELSE kind[v]
    BY <1>1, <2>1, <2>4 DEF TypePart
  <2>6. FocusPart'
    BY <1>1, <2>1, <2>3, <2>5, Sheets DEF FocusPart
  <2>7. FifoPart'
    BY <1>1, <2>1, <2>3 DEF FifoPart
  <2>8. LoginPart' /\ FaultPart'
    BY <1>1, <2>1, NoFault
  <2>9. QED
    BY <2>2, <2>3, <2>6, <2>7, <2>8 DEF IInv, Core
<1>4. QED
  BY <1>2, <1>3

\* The window of an application, from there on.
LEMMA WinOpenedStep == ASSUME IInv, NEW t \in Task, WinOpened(t) PROVE IInv'
<1>0. PICK w : w = opening[t]
  OBVIOUS
<1>1. /\ fault = "none" /\ UNCHANGED loginVars /\ TypePart /\ FocusPart /\ FifoPart
      /\ kind' = [kind EXCEPT ![w] = "app"] /\ UNCHANGED <<focus, cons, fifo, fault>>
  BY <1>0 DEF WinOpened, Runs, IInv
<1>2. /\ Core' /\ TypePart' /\ IsStack(stack')
      /\ \A v \in Sheet : v \in OnScreen' <=> v \in OnScreen \/ v = w
      /\ \A x \in Task : cons[x] # w
  BY <1>0, WinOpenedKeeps
<1>3. \A v \in Sheet : kind'[v] = IF v = w THEN "app" ELSE kind[v]
  BY <1>1 DEF TypePart
<1>4. FocusPart'
  BY <1>1, <1>2, <1>3, Sheets DEF FocusPart
<1>5. FifoPart'
  <2>1. \A x \in Task : cons[x] # NoSheet => cons[x] \in Sheet
    BY <1>1, Sheets DEF TypePart
  <2>2. QED
    BY <1>1, <1>2, <2>1 DEF FifoPart
<1>6. LoginPart' /\ FaultPart'
  BY <1>1, NoFault
<1>7. QED
  BY <1>2, <1>4, <1>5, <1>6 DEF IInv, Core

\* System call 14, and the end of an application.
LEMMA AppWindowStep ==
  ASSUME IInv, fault = "none", NEW w \in Window, kind[w] = "app", SheetFree(w),
         UNCHANGED <<buffer, focus, tasks, messages, fault, loginVars>>
  PROVE  IInv'
<1>1. /\ UNCHANGED <<buffer, focus, state, cons, fifo, opening, messages, fault>>
      /\ TypePart /\ FocusPart /\ FifoPart
  BY DEF tasks, IInv
<1>2. /\ Core' /\ IsStack(stack')
      /\ \A v \in Sheet : v \in OnScreen' <=> v \in OnScreen /\ v # w
      /\ kind' \in [Sheet -> {"free", "used", "app", "console", "menu", "negated"}]
      /\ owner' \in [Window -> Task \cup {NoTask}]
      /\ \A v \in Sheet : kind'[v] = IF v = w THEN "free" ELSE kind[v]
  BY <1>1, AppWindowFreed
<1>3. FocusPart'
  BY <1>1, <1>2, Sheets DEF FocusPart
<1>4. FifoPart'
  <2>1. \A x \in Task : cons[x] # NoSheet => cons[x] \in Sheet
    BY <1>1, Sheets DEF TypePart
  <2>2. QED
    BY <1>1, <1>2, <2>1 DEF FifoPart
<1>5. TypePart'
  BY <1>1, <1>2 DEF TypePart
<1>6. LoginPart' /\ FaultPart'
  BY <1>1, NoFault
<1>7. QED
  BY <1>2, <1>3, <1>4, <1>5, <1>6 DEF IInv, Core

LEMMA CloseWinStep == ASSUME IInv, NEW t \in Task, CloseWin(t) PROVE IInv'
<1>1. PICK w \in AppWindows(t) : SheetFree(w)
  BY DEF CloseWin
<1>2. w \in Window /\ kind[w] = "app"
  BY DEF AppWindows
<1>3. fault = "none" /\ UNCHANGED <<buffer, focus, tasks, messages, fault, loginVars>>
  BY DEF CloseWin, Runs
<1>4. QED
  BY <1>1, <1>2, <1>3, AppWindowStep

LEMMA FreeWindowStep == ASSUME IInv, NEW t \in Task, FreeWindow(t) PROVE IInv'
<1>1. PICK w : w = Min(AppWindows(t))
  OBVIOUS
<1>2. AppWindows(t) # {} /\ SheetFree(w)
  BY <1>1 DEF FreeWindow
<1>3. w \in Window /\ kind[w] = "app"
  BY <1>1, <1>2, FirstWindow DEF AppWindows
<1>4. fault = "none" /\ UNCHANGED <<buffer, focus, tasks, messages, fault, loginVars>>
  BY DEF FreeWindow, Runs
<1>5. QED
  BY <1>2, <1>3, <1>4, AppWindowStep

LEMMA ShiftF3Step == ASSUME IInv, ShiftF3 PROVE IInv'
BY FaultsStep DEF ShiftF3, Main

LEMMA ClickUnnoticedStep == ASSUME IInv, ClickUnnoticed PROVE IInv'
<1>1. PICK what \in {"focus", "task"} : Faults(what)
  BY DEF ClickUnnoticed
<1>2. opened /\ UNCHANGED loginVars
  BY DEF ClickUnnoticed, Main
<1>3. QED
  BY <1>1, <1>2, FaultsStep

LEMMA ClickProgramStep == ASSUME IInv, ClickProgram PROVE IInv'
BY FaultsStep DEF ClickProgram, Main

-----------------------------------------------------------------------------
(* The theorems. *)

LEMMA InitIInv == Init => IInv
<1>1. SUFFICES ASSUME Init PROVE IInv
  OBVIOUS
<1>2. /\ kind = [s \in Sheet |-> CASE s \in {1, 2} -> "console"
                                   [] s = Menu -> "negated"
                                   [] s \in {Back, Mouse} -> "used"
                                   [] OTHER -> "free"]
      /\ stack = <<Back, 1, 2, Mouse>>
      /\ owner = [w \in Window |-> IF w <= 2 THEN w ELSE NoTask]
      /\ buffer = [w \in Window |-> CASE w = 1 -> LogSize
                                      [] w = 2 -> ConsoleSize
                                      [] OTHER -> 0]
      /\ focus = 2
      /\ state = [t \in Task |-> IF t <= 2 THEN "prompt" ELSE "free"]
      /\ cons = [t \in Task |-> IF t <= 2 THEN t ELSE NoSheet]
      /\ fifo = [t \in Task |-> <<>>]
      /\ opening = [t \in Task |-> NoSheet]
      /\ messages = <<>> /\ fault = "none" /\ LoginInit
  BY <1>1 DEF Init
<1>3. /\ 1 \in Window /\ 2 \in Window /\ 1 \in Task /\ 2 \in Task /\ 1 # 2
      /\ \A w \in Window : w \in Nat /\ (w <= 2 <=> w \in {1, 2})
      /\ \A t \in Task : t \in Nat /\ (t <= 2 <=> t \in {1, 2})
  BY SizesAssumption DEF Window, Task
<1>4. IsStack(stack) /\ \A s : s \in OnScreen <=> s \in {Back, 1, 2, Mouse}
  <2>. DEFINE k == <<Back, 1, 2, Mouse>>
  <2>1. k \in Seq(Sheet) /\ Len(k) = 4 /\ k[1] = Back /\ k[2] = 1 /\ k[3] = 2 /\ k[4] = Mouse
    BY <1>3, Sheets
  <2>2. HIDE DEF k
  <2>3. 1 .. Len(k) = {1, 2, 3, 4}
    BY <2>1
  <2>4. Back # 1 /\ Back # 2 /\ Mouse # 1 /\ Mouse # 2 /\ Back # Mouse
    BY <1>3, Sheets
  <2>5. IsStack(k)
    BY <2>1, <2>3, <2>4 DEF IsStack
  <2>6. Contents(k) = {Back, 1, 2, Mouse}
    BY <2>1, <2>3 DEF Contents
  <2>7. QED
    BY <1>2, <2>5, <2>6 DEF OnScreen, k
<1>5. \A s \in Sheet : /\ s \in {1, 2} => kind[s] = "console"
                       /\ s = Menu => kind[s] = "negated"
                       /\ s \in {Back, Mouse} => kind[s] = "used"
                       /\ s \notin {1, 2, Menu, Back, Mouse} => kind[s] = "free"
  BY <1>2, <1>3, Sheets
<1>6. /\ \A w \in Window : owner[w] = IF w \in {1, 2} THEN w ELSE NoTask
      /\ buffer[1] = LogSize /\ buffer[2] = ConsoleSize
      /\ \A w \in Window : w \notin {1, 2} => buffer[w] = 0
      /\ \A t \in Task : state[t] = IF t \in {1, 2} THEN "prompt" ELSE "free"
      /\ \A t \in Task : cons[t] = IF t \in {1, 2} THEN t ELSE NoSheet
      /\ \A t \in Task : fifo[t] = <<>> /\ opening[t] = NoSheet
  BY <1>2, <1>3
<1>7. \A y, z : ~ Asks(y, z)
  BY <1>2 DEF Asks, AsksIn
<1>8. \A t \in Task : ~ Unborn(t)
  BY <1>6 DEF Unborn
<1>9. TypePart
  <2>1. kind \in [Sheet -> {"free", "used", "app", "console", "menu", "negated"}]
    BY <1>2
  <2>2. owner \in [Window -> Task \cup {NoTask}] /\ cons \in [Task -> Window \cup {NoSheet}]
    BY <1>2, <1>3
  <2>3. buffer \in [Window -> {0, ConsoleSize, LogSize}] /\ state \in [Task -> States]
    BY <1>2 DEF States
  <2>4. fifo \in [Task -> Seq({"key", "close"})] /\ opening \in [Task -> Window \cup {NoSheet}]
    BY <1>2, NothingAsked
  <2>5. focus \in Sheet
    BY <1>2, <1>3, Sheets
  <2>6. QED
    BY <1>2, <2>1, <2>2, <2>3, <2>4, <2>5 DEF TypePart
<1>10. WindowPart
  <2>1. \A s \in Sheet : kind[s] \in {"app", "console"} => s \in Window
    BY <1>3, <1>5, Sheets
  <2>2. ASSUME NEW w \in Window, w \in {1, 2}
        PROVE  /\ kind[w] = "console" /\ owner[w] = w /\ w \in Task /\ state[w] # "free" /\ cons[w] = w
               /\ buffer[w] \in {ConsoleSize, LogSize}
    BY <1>3, <1>5, <1>6, <2>2, Sheets
  <2>3. ASSUME NEW w \in Window, w \notin {1, 2}
        PROVE  kind[w] = "free" /\ w \notin OnScreen /\ owner[w] = NoTask
    BY <1>4, <1>5, <1>6, <2>3, Sheets
  <2>4. QED
    BY <2>1, <2>2, <2>3 DEF WindowPart
<1>11. ConsPart
  <2>1. ASSUME NEW t \in Task, cons[t] # NoSheet
        PROVE  state[t] # "free" /\ kind[cons[t]] = "console" /\ owner[cons[t]] = t /\ cons[t] = t
    BY <1>3, <1>5, <1>6, <2>1, Sheets
  <2>2. QED
    BY <2>1 DEF ConsPart
<1>12. OpeningPart
  BY <1>6, <1>8 DEF OpeningPart
<1>13. FifoPart
  BY <1>6, NothingAsked DEF FifoPart
<1>14. RequestPart
  <2>1. messages \in Seq(Request) /\ \A i \in 1 .. Len(messages) : FALSE
    BY <1>2
  <2>2. QED
    BY <1>7, <2>1 DEF RequestPart, Once, WindowFirst
<1>15. FocusPart /\ FaultPart
  BY <1>2, <1>4 DEF FocusPart, FaultPart
<1>16. LoginPart
  <2>1. /\ shown = <<>> /\ flag_mima = [p \in 0 .. PinLength |-> p = PinLength] /\ wrong = 0
        /\ opened = FALSE /\ timer4 = FALSE /\ PinLength \in Nat \ {0} /\ Cells \in Nat
    BY <1>2, LoginAssumption DEF LoginInit, Cleared
  <2>2. shown \in Seq(BOOLEAN) /\ Len(shown) = 0
    BY <2>1
  <2>3. /\ flag_mima \in [0 .. PinLength -> BOOLEAN]
        /\ \A p \in 0 .. PinLength - 1 : ~ flag_mima[p]
    <3>1. flag_mima \in [0 .. PinLength -> BOOLEAN]
      BY <2>1
    <3>2. ASSUME NEW p \in 0 .. PinLength - 1 PROVE ~ flag_mima[p]
      <4>1. p \in 0 .. PinLength /\ p # PinLength
        BY <2>1
      <4>2. flag_mima[p] = (p = PinLength)
        BY <2>1, <4>1
      <4>3. QED
        BY <4>1, <4>2
    <3>3. QED
      BY <3>1, <3>2
  <2>4. /\ \A p \in 0 .. PinLength - 1 : ~ (p < Len(shown))
        /\ Len(shown) <= Cells /\ Len(shown) <= PinLength
    BY <2>1, <2>2
  <2>5. wrong \in 0 .. 2 /\ opened \in BOOLEAN /\ timer4 \in BOOLEAN
    BY <2>1
  <2>6. QED
    BY <2>2, <2>3, <2>4, <2>5 DEF LoginPart
<1>17. QED
  BY <1>4, <1>9, <1>10, <1>11, <1>12, <1>13, <1>14, <1>15, <1>16 DEF IInv


LEMMA NextIInv == IInv /\ [Next]_vars => IInv'
<1>1. SUFFICES ASSUME IInv, [Next]_vars PROVE IInv'
  OBVIOUS
<1>2. ASSUME ~ opened, UNCHANGED desktop,
             (\E right \in BOOLEAN : Pin(right)) \/ UnPin \/ EnterPin \/ WrongIsOver
      PROVE  IInv'
  BY <1>1, <1>2, LoginStep
<1>3. ASSUME WrongPin PROVE IInv'
  BY <1>1, <1>3, FaultsStep DEF WrongPin
<1>4. ASSUME PinStep PROVE IInv'
  BY <1>2, <1>3, <1>4 DEF PinStep
<1>5. ASSUME MainStep PROVE IInv'
  <2>1. CASE Letter
    BY <1>1, <2>1, LetterStep
  <2>2. CASE Tab
    BY <1>1, <2>2, TabStep
  <2>3. CASE ShiftF1
    BY <1>1, <2>3, ShiftF1Step
  <2>4. CASE ShiftF3
    BY <1>1, <2>4, ShiftF3Step
  <2>5. CASE F11
    BY <1>1, <2>5, F11Step
  <2>6. CASE Open(ConsoleSize) \/ Open(LogSize)
    BY <1>1, <2>6, OpenStep
  <2>7. CASE MenuButton
    BY <1>1, <2>7, MenuButtonStep
  <2>8. CASE ClickUnnoticed
    BY <1>1, <2>8, ClickUnnoticedStep
  <2>9. CASE ClickProgram
    BY <1>1, <2>9, ClickProgramStep
  <2>10. ASSUME NEW s \in Clickable, Click(s) \/ ClickClose(s) \/ ClickBreak(s) PROVE IInv'
    BY <1>1, <2>10, ClickStep, ClickCloseStep, ClickBreakStep
  <2>11. CASE ClickConsole
    BY <1>1, <2>11, ClickConsoleStep
  <2>12. CASE Message
    BY <1>1, <2>12, MessageStep
  <2>13. QED
    BY <1>5, <2>1, <2>2, <2>3, <2>4, <2>5, <2>6, <2>7, <2>8, <2>9, <2>10, <2>11, <2>12 DEF MainStep
<1>6. ASSUME NEW t \in Task, ConsoleStep(t) PROVE IInv'
  <2>1. CASE TakesStale(t) \/ Leave(t) \/ Edit(t) \/ StartApp(t)
    BY <1>1, <2>1, TakesStaleStep, LeaveStep, EditStep, StartAppStep
  <2>2. CASE Start(t) \/ Started(t) \/ WinOpened(t) \/ GotKey(t)
    BY <1>1, <2>2, StartStep, StartedStep, WinOpenedStep, GotKeyStep
  <2>3. CASE GotClose(t) \/ FreeWindow(t) \/ AppEnded(t)
    BY <1>1, <2>3, GotCloseStep, FreeWindowStep, AppEndedStep
  <2>4. QED
    BY <1>6, <2>1, <2>2, <2>3 DEF ConsoleStep
<1>7. ASSUME NEW t \in Task, AppStep(t) PROVE IInv'
  <2>1. OpenWin(t) \/ CloseWin(t) \/ GetKey(t) \/ EndApp(t)
    BY <1>7 DEF AppStep
  <2>2. QED
    BY <1>1, <2>1, OpenWinStep, CloseWinStep, GetKeyStep, EndAppStep
<1>8. ASSUME UNCHANGED vars PROVE IInv'
  <2>1. UNCHANGED <<kind, stack, owner, buffer, focus, state, cons, fifo, opening, messages, fault,
                    shown, flag_mima, wrong, opened, timer4>>
    BY <1>8 DEF vars, desktop, screen, tasks, loginVars
  <2>2. Core'
    <3>1. OnScreen' = OnScreen
      BY <2>1 DEF OnScreen
    <3>2. QED
      BY <1>1, <2>1, <3>1, ScreenKeeps DEF IInv, WindowPart
  <2>3. IsStack(stack') /\ TypePart' /\ FifoPart' /\ FocusPart' /\ FaultPart' /\ LoginPart'
    BY <1>1, <2>1 DEF IInv, TypePart, FifoPart, FocusPart, FaultPart, LoginPart, OnScreen
  <2>4. QED
    BY <2>2, <2>3 DEF IInv, Core
<1>9. QED
  BY <1>1, <1>4, <1>5, <1>6, <1>7, <1>8 DEF Next

(* What the loop of HariMain, consoles and applications keep together.     *)
THEOREM Inductive == Spec => []IInv
BY InitIInv, NextIInv, PTL DEF Spec

LEMMA PendingIs ==
  ASSUME IInv, NEW what, NEW x
  PROVE  Pending(what, x) # {} <=> Asks(what, x)
<1>1. DOMAIN messages = 1 .. Len(messages)
  BY DEF IInv, RequestPart
<1>2. QED
  BY <1>1 DEF Pending, Asks, AsksIn

LEMMA TypeIs == IInv => TypeOK
<1>1. SUFFICES ASSUME IInv PROVE TypeOK
  OBVIOUS
<1>2. IsStack(stack) /\ TypePart /\ LoginPart
  BY <1>1 DEF IInv
<1>3. /\ \A i, j \in DOMAIN stack : stack[i] = stack[j] => i = j
      /\ stack[1] = Back /\ Last(stack) = Mouse
  <2>1. DOMAIN stack = 1 .. Len(stack)
    BY <1>2, Places
  <2>2. QED
    BY <1>2, <2>1 DEF IsStack, Last
<1>4. QED
  BY <1>2, <1>3 DEF TypeOK, TypePart, LoginPart, States

(* Whatever consoles, applications and the user do to windows, one on the  *)
(* screen is the console's or the application's of a task that is there,   *)
(* and a task has its window or has given it up: close_console,            *)
(* close_constask and cmd_app free exactly what nobody uses.               *)
THEOREM WindowsOwned == Spec => []WindowsAreOwned
<1>1. IInv => WindowsAreOwned
  <2>1. SUFFICES ASSUME IInv PROVE WindowsAreOwned
    OBVIOUS
  <2>2. IsStack(stack) /\ WindowPart /\ ConsPart
    BY <2>1 DEF IInv
  <2>3. ASSUME NEW w \in Window
        PROVE  /\ kind[w] = "console" =>
                     /\ owner[w] # NoTask /\ state[owner[w]] # "free"
                     /\ cons[owner[w]] = w \/ Pending("window", w) # {}
               /\ kind[w] = "app" => Working(owner[w])
               /\ kind[w] \in {"free", "used"} => ~ Shown(w)
    BY <2>1, <2>2, PendingIs, ShownIs, NoTaskIsNone DEF WindowPart
  <2>4. ASSUME NEW t \in Task, state[t] # "free", cons[t] # NoSheet
        PROVE  \/ kind[cons[t]] = "console" /\ owner[cons[t]] = t
               \/ kind[cons[t]] = "used" /\ Unborn(t)
    BY <2>2, <2>4 DEF ConsPart
  <2>5. QED
    BY <2>1, <2>3, <2>4, TypeIs DEF WindowsAreOwned
<1>2. QED
  BY <1>1, Inductive, PTL

(* Every request to free a window or a task comes once, and names one that *)
(* is in use by nobody but the console that asked, whichever of the two    *)
(* ways to give up its window a console takes (cmd_exit, and message 4 in  *)
(* system call 15), and whatever the close buttons do meanwhile; and more  *)
(* of the buffer is given back than there is exactly when message 2024     *)
(* frees the window of a console (bootpack.c:1290).                        *)
THEOREM FreedOnce == Spec => []ClosedOnce
<1>1. IInv => ClosedOnce
  <2>1. SUFFICES ASSUME IInv PROVE ClosedOnce
    OBVIOUS
  <2>2. IsStack(stack) /\ WindowPart /\ ConsPart /\ OpeningPart /\ RequestPart
    BY <2>1 DEF IInv
  <2>3. DOMAIN messages = 1 .. Len(messages)
    BY <2>2 DEF RequestPart
  <2>4. \A i, j \in DOMAIN messages : messages[i] = messages[j] => i = j
    BY <2>2, <2>3 DEF RequestPart, Once
  <2>5. ASSUME NEW w \in Window, Asks("console", w)
        PROVE  /\ kind[w] = "console" /\ ~ Asks("window", w)
               /\ \E t \in Task : cons[t] = w /\ state[t] = "gone"
    <3>1. PICK t \in Task : cons[t] = w /\ state[t] = "gone"
      BY <2>2, <2>5 DEF RequestPart
    <3>2. ~ Unborn(t) /\ w # NoSheet
      BY <2>2, <3>1, NoTaskIsNone DEF OpeningPart
    <3>3. kind[w] = "console" /\ owner[w] = t
      BY <2>2, <3>1, <3>2 DEF ConsPart
    <3>4. ~ Asks("window", w)
      BY <2>2, <3>1, <3>2, <3>3 DEF RequestPart
    <3>5. QED
      BY <3>1, <3>3, <3>4
  <2>6. ASSUME NEW w \in Window, Asks("window", w)
        PROVE  kind[w] = "console" /\ ~ Shown(w) /\ cons[owner[w]] # w
    BY <2>2, <2>6, ShownIs, NoTaskIsNone DEF RequestPart
  <2>7. ASSUME NEW w \in Window, NEW i \in Pending("console", w) \cup Pending("window", w)
        PROVE  /\ Frees(messages[i]) = buffer[w] <=>
                     messages[i].what = "console" /\ buffer[w] = ConsoleSize
               /\ Frees(messages[i]) > buffer[w] <=>
                     messages[i].what = "window" /\ buffer[w] = ConsoleSize
    <3>1. \E what \in {"console", "window"} :
              messages[i] = [what |-> what, of |-> w] /\ i \in Pending(what, w)
      BY DEF Pending
    <3>2. PICK what \in {"console", "window"} :
              messages[i].what = what /\ i \in Pending(what, w)
      BY <3>1
    <3>3. Frees(messages[i]) = IF what = "console" THEN ConsoleSize ELSE MessageSize
      BY <3>2 DEF Frees
    <3>4. Asks(what, w)
      BY <2>1, <3>2, PendingIs
    <3>5. buffer[w] \in {ConsoleSize, LogSize}
      BY <2>2, <2>5, <2>6, <3>2, <3>4 DEF WindowPart
    <3>6. QED
      BY <3>2, <3>3, <3>5, SizesAssumption
  <2>8. \A t \in Task : Asks("task", t) => state[t] = "gone" /\ cons[t] = NoSheet
    BY <2>2 DEF RequestPart
  <2>9. /\ \A w \in Window : /\ Pending("console", w) # {} <=> Asks("console", w)
                             /\ Pending("window", w) # {} <=> Asks("window", w)
        /\ \A t \in Task : Pending("task", t) # {} <=> Asks("task", t)
    BY <2>1, PendingIs
  <2>10. QED
    BY <2>4, <2>5, <2>6, <2>7, <2>8, <2>9 DEF ClosedOnce
<1>2. QED
  BY <1>1, Inductive, PTL


\* What a step of HariMain may find wrong.
LEMMA MainFaults ==
  ASSUME IInv, MainStep
  PROVE  /\ fault' = "index" => Focused \notin Window \/ kind[Focused] = "used"
         /\ fault' = "again" => \E t \in Task : state[t] = "end"
         /\ fault' # "twice"
<1>1. IsStack(stack) /\ TypePart /\ WindowPart
  BY DEF IInv
<1>2. ASSUME fault' \notin {"index", "again", "twice"}
      PROVE  /\ fault' = "index" => Focused \notin Window \/ kind[Focused] = "used"
             /\ fault' = "again" => \E t \in Task : state[t] = "end"
             /\ fault' # "twice"
  BY <1>2
<1>3. CASE Letter
  <2>1. fault' \in {"task", "none"}
    BY <1>3 DEF Letter, Main, Faults
  <2>2. QED
    BY <1>2, <2>1
\* NextHeight is negative for what is under all windows, or not on the screen.
<1>4. CASE Tab
  <2>1. fault' \in {"task", "none"} \/ (fault' = "index" /\ NextHeight < 0)
    BY <1>4 DEF Tab, Main, Faults
  <2>2. ASSUME fault' = "index", Focused \in Window, kind[Focused] # "used" PROVE FALSE
    <3>0. PICK f, h : f = Focused /\ h = HeightOf(f)
      OBVIOUS
    <3>1. f \in OnScreen
      <4>1. kind[f] # "free"
        BY <2>2, <3>0, FocusedIs
      <4>2. kind[f] \in {"app", "console"}
        BY <1>1, <2>2, <3>0, <4>1 DEF WindowPart
      <4>3. QED
        BY <2>2, <3>0, <4>2, FocusedIs
    <3>2. h \in 0 .. top /\ stack[h + 1] = f
      BY <1>1, <3>0, <3>1, HeightIs
    <3>3. h # 0
      <4>1. ASSUME h = 0 PROVE stack[1] = f
        <5>1. h + 1 = 1
          BY <4>1
        <5>2. QED
          BY <3>2, <5>1
      <4>2. f # Back
        BY <2>2, <3>0, Sheets
      <4>3. QED
        BY <1>1, <4>1, <4>2 DEF IsStack
    <3>4. NextHeight = IF h = 1 THEN top - 1 ELSE h - 1
      BY <3>0 DEF NextHeight
    <3>5. NextHeight >= 0
      <4>1. top \in Int /\ top >= 1
        BY <1>1, Places DEF top
      <4>2. QED
        BY <3>2, <3>3, <3>4, <4>1
    <3>6. NextHeight < 0 /\ NextHeight \in Int
      <4>1. top \in Int
        BY <1>1, Places DEF top
      <4>2. QED
        BY <2>1, <2>2, <3>2, <3>4, <4>1
    <3>7. QED
      BY <3>5, <3>6
  <2>3. QED
    BY <2>1, <2>2
<1>5. CASE ShiftF1 \/ ShiftF3 \/ F11 \/ MenuButton \/ ClickUnnoticed \/ ClickProgram
  <2>1. fault' \notin {"index", "again", "twice"}
    BY <1>5 DEF ShiftF1, ShiftF3, F11, MenuButton, ClickUnnoticed, ClickProgram, Main, Faults
  <2>2. QED
    BY <1>2, <2>1
<1>6. CASE Open(ConsoleSize) \/ Open(LogSize) \/ ClickConsole
  <2>1. fault' \notin {"index", "again", "twice"}
    BY <1>6 DEF Open, ClickConsole, Main, Faults
  <2>2. QED
    BY <1>2, <2>1
<1>7. ASSUME NEW s \in Clickable, Click(s) \/ ClickClose(s)
      PROVE  fault' \notin {"index", "again", "twice"}
  BY <1>7 DEF Click, ClickClose, Main, Faults
\* The application is there, as it has a window: it is being ended.
<1>8. ASSUME NEW s \in Clickable, ClickBreak(s)
      PROVE  fault' = "none" \/ (fault' = "again" /\ \E t \in Task : state[t] = "end")
  <2>1. fault' = "none" \/ (fault' = "again" /\ ~ InApp(TaskOf(s)) /\ kind[s] = "app")
    BY <1>8 DEF ClickBreak, Main, Faults
  <2>2. ASSUME ~ InApp(TaskOf(s)), kind[s] = "app" PROVE \E t \in Task : state[t] = "end"
    <3>1. s \in Window
      BY <1>1, <2>2, Clicks DEF WindowPart
    <3>2. owner[s] \in Task /\ Working(owner[s]) /\ ~ InApp(owner[s])
      BY <1>1, <2>2, <3>1 DEF WindowPart, TaskOf
    <3>3. QED
      BY <3>2 DEF Working, InApp
  <2>3. QED
    BY <2>1, <2>2
<1>9. CASE Message
  <2>1. fault' = "none"
    BY <1>9 DEF Message, Main, MessageConsole, MessageTask, MessageWindow
  <2>2. QED
    BY <1>2, <2>1
<1>10. QED
  BY <1>2, <1>3, <1>4, <1>5, <1>6, <1>7, <1>8, <1>9 DEF MainStep

(* The focus is on a window whose task is there, or on one that is being   *)
(* opened, whenever HariMain puts a datum in the FIFO of its task; it      *)
(* indexes below sheets only with the focus on no window; an application   *)
(* is ended twice only while it frees its windows (cmd_app); and the       *)
(* console of an application is never closed twice (system call 15).       *)
THEOREM FaultsAreInputs == Spec => FaultsFromInput
<1>1. ASSUME IInv, [Next]_vars
      PROVE  \/ /\ Focused \in Window =>
                      \/ kind[Focused] = "used"
                      \/ owner[Focused] # NoTask /\ state[owner[Focused]] # "free"
                /\ fault' = "index" => Focused \notin Window \/ kind[Focused] = "used"
                /\ fault' = "again" => \E t \in Task : state[t] = "end"
                /\ fault' # "twice"
             \/ UNCHANGED vars
  <2>1. TypePart /\ WindowPart /\ FaultPart
    BY <1>1 DEF IInv
  <2>2. ASSUME Focused \in Window
        PROVE  \/ kind[Focused] = "used"
               \/ owner[Focused] # NoTask /\ state[owner[Focused]] # "free"
    <3>0. PICK f : f = Focused
      OBVIOUS
    <3>1. kind[f] # "free" /\ f \in Window
      BY <1>1, <2>2, <3>0, FocusedIs
    <3>2. kind[f] = "used" \/ (owner[f] \in Task /\ state[owner[f]] # "free")
      BY <2>1, <3>1 DEF WindowPart, Working
    <3>3. QED
      BY <3>0, <3>2, NoTaskIsNone
  <2>3. ASSUME PinStep PROVE fault' \notin {"index", "again", "twice"}
    BY <2>3 DEF PinStep, WrongPin, Faults, desktop
  <2>4. ASSUME NEW t \in Task, ConsoleStep(t) PROVE fault' \notin {"index", "again", "twice"}
    <3>1. CASE TakesStale(t) \/ Leave(t) \/ Edit(t) \/ StartApp(t) \/ Start(t) \/ Started(t)
      BY <3>1 DEF TakesStale, Leave, Edit, StartApp, Start, Started, Runs, Faults
    <3>2. CASE WinOpened(t) \/ GotKey(t) \/ FreeWindow(t) \/ AppEnded(t)
      BY <3>2 DEF WinOpened, GotKey, FreeWindow, AppEnded, Runs
    <3>3. CASE GotClose(t)
      <4>1. cons[t] # NoSheet
        BY <1>1, <3>3, GotCloseStep
      <4>2. fault' = "none"
        BY <3>3, <4>1 DEF GotClose, Runs
      <4>3. QED
        BY <4>2
    <3>4. QED
      BY <2>4, <3>1, <3>2, <3>3 DEF ConsoleStep
  <2>5. ASSUME NEW t \in Task, AppStep(t) PROVE fault' \notin {"index", "again", "twice"}
    BY <2>5 DEF AppStep, OpenWin, CloseWin, GetKey, EndApp, Runs, Faults
  <2>6. CASE MainStep
    BY <1>1, <2>2, <2>6, MainFaults
  <2>7. QED
    BY <1>1, <2>2, <2>3, <2>4, <2>5, <2>6 DEF Next
<1>2. QED
  BY <1>1, Inductive, PTL DEF Spec, FaultsFromInput

(* The desktop opens only behind the PIN, or behind the PIN whose last     *)
(* digit was erased (cin_pin clears the flag of the place behind it), and  *)
(* the PIN opens it, unless more was typed and erased before.              *)
THEOREM PinAlwaysOpens == Spec => PinOpens
<1>1. ASSUME IInv, [Next]_vars
      PROVE  \/ /\ opened' # opened =>
                      /\ \A i \in DOMAIN shown : shown[i]
                      /\ Len(shown) \in {PinLength - 1, PinLength}
                /\ EnterPin /\ shown = [i \in 1 .. PinLength |-> TRUE] =>
                      opened' \/ ~ flag_mima[PinLength]
             \/ UNCHANGED loginVars
  <2>1. LoginPart
    BY <1>1 DEF IInv
  <2>2. /\ Len(shown) \in Nat /\ DOMAIN shown = 1 .. Len(shown)
        /\ PinLength \in Nat \ {0} /\ flag_mima \in [0 .. PinLength -> BOOLEAN]
    BY <2>1, LoginAssumption DEF LoginPart
  <2>3. EnterPin => opened' = IfRight
    BY DEF EnterPin
  <2>4. IfRight <=> \A p \in 0 .. PinLength : flag_mima[p]
    BY <2>2 DEF IfRight
  <2>5. ASSUME IfRight
        PROVE  (\A i \in DOMAIN shown : shown[i]) /\ Len(shown) \in {PinLength - 1, PinLength}
    <3>1. flag_mima[PinLength] /\ \A p \in 0 .. PinLength - 1 : flag_mima[p]
      <4>1. PinLength \in 0 .. PinLength /\ \A p \in 0 .. PinLength - 1 : p \in 0 .. PinLength
        BY <2>2
      <4>2. QED
        BY <2>4, <2>5, <4>1
    <3>2. Len(shown) <= PinLength
      BY <2>1, <3>1 DEF LoginPart
    <3>3. ~ (Len(shown) < PinLength - 1)
      <4>1. ASSUME Len(shown) < PinLength - 1 PROVE FALSE
        <5>1. PICK p \in 0 .. PinLength - 1 : p > Len(shown)
          BY <2>2, <4>1
        <5>2. QED
          BY <2>1, <3>1, <5>1 DEF LoginPart
      <4>2. QED
        BY <4>1
    <3>4. ASSUME NEW i \in DOMAIN shown PROVE shown[i]
      <4>1. PICK p \in 0 .. PinLength - 1 : p < Len(shown) /\ p + 1 = i
        <5>1. i - 1 \in 0 .. PinLength - 1 /\ i - 1 < Len(shown) /\ i - 1 + 1 = i
          BY <2>2, <3>2
        <5>2. QED
          BY <5>1
      <4>2. QED
        BY <2>1, <3>1, <4>1 DEF LoginPart
    <3>5. Len(shown) \in {PinLength - 1, PinLength}
      <4>1. PICK n, m : n = PinLength /\ m = Len(shown)
        OBVIOUS
      <4>2. n \in Nat /\ m \in Nat /\ m <= n /\ ~ (m < n - 1)
        BY <2>2, <3>2, <3>3, <4>1
      <4>3. m = n - 1 \/ m = n
        BY <4>2
      <4>4. QED
        BY <4>1, <4>3
    <3>6. QED
      BY <3>4, <3>5
  <2>6. ASSUME shown = [i \in 1 .. PinLength |-> TRUE], flag_mima[PinLength] PROVE IfRight
    <3>1. Len(shown) = PinLength
      <4>1. DOMAIN shown = 1 .. PinLength
        BY <2>6
      <4>2. PICK n, m : n = PinLength /\ m = Len(shown)
        OBVIOUS
      <4>3. n \in Nat \ {0} /\ m \in Nat /\ 1 .. m = 1 .. n
        BY <2>2, <4>1, <4>2
      <4>4. n \in 1 .. m /\ (m # 0 => m \in 1 .. n)
        BY <4>3
      <4>5. n = m
        BY <4>3, <4>4
      <4>6. QED
        BY <4>2, <4>5
    <3>2. ASSUME NEW p \in 0 .. PinLength - 1 PROVE flag_mima[p]
      <4>1. p < Len(shown) /\ p + 1 \in 1 .. PinLength
        BY <2>2, <3>1
      <4>2. shown[p + 1] = TRUE
        BY <2>6, <4>1
      <4>3. flag_mima[p] = shown[p + 1]
        BY <2>1, <4>1 DEF LoginPart
      <4>4. QED
        BY <4>2, <4>3
    <3>3. \A p \in 0 .. PinLength : p = PinLength \/ p \in 0 .. PinLength - 1
      BY <2>2
    <3>4. QED
      BY <2>4, <2>6, <3>2, <3>3
  <2>7. opened' # opened => EnterPin /\ ~ opened
    <3>1. (\E right \in BOOLEAN : Pin(right)) \/ UnPin \/ WrongIsOver \/ WrongPin => opened' = opened
      BY DEF Pin, UnPin, WrongIsOver, WrongPin, loginVars
    <3>2. MainStep \/ (\E t \in Task : ConsoleStep(t) \/ AppStep(t)) => opened' = opened
      <4>1. MainStep => UNCHANGED loginVars
        BY DEF MainStep, Letter, Tab, ShiftF1, ShiftF3, F11, Open, MenuButton, ClickUnnoticed,
               ClickProgram, Click, ClickClose, ClickBreak, ClickConsole, Message, Main
      <4>2. ASSUME NEW t \in Task, ConsoleStep(t) PROVE UNCHANGED loginVars
        BY <4>2 DEF ConsoleStep, TakesStale, Leave, Edit, StartApp, Start, Started, WinOpened,
               GotKey, GotClose, FreeWindow, AppEnded, Runs
      <4>3. ASSUME NEW t \in Task, AppStep(t) PROVE UNCHANGED loginVars
        BY <4>3 DEF AppStep, OpenWin, CloseWin, GetKey, EndApp, Runs
      <4>4. QED
        BY <4>1, <4>2, <4>3 DEF loginVars
    <3>3. UNCHANGED vars => opened' = opened
      BY DEF vars, loginVars
    <3>4. QED
      BY <1>1, <3>1, <3>2, <3>3 DEF Next, PinStep
  <2>8. opened' # opened => IfRight
    <3>1. IfRight \in BOOLEAN /\ opened \in BOOLEAN
      BY <2>1, <2>2 DEF IfRight, LoginPart
    <3>2. QED
      BY <2>3, <2>7, <3>1
  <2>9. QED
    BY <2>3, <2>5, <2>6, <2>7, <2>8
<1>2. QED
  BY <1>1, Inductive, PTL DEF Spec, PinOpens

=============================================================================
