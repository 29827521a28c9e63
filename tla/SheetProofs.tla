------------------------------ MODULE SheetProofs ------------------------------
(***************************************************************************)
(* The stack of windows, the map and the screen agree, for every number of *)
(* sheets, every width of the screen and every shape of window.            *)
(***************************************************************************)
EXTENDS Sheet, FiniteSetTheorems, WellFoundedInduction, TLAPS

-----------------------------------------------------------------------------
(* The inductive invariant: what the runs check, and the background.       *)

\* The type invariant without the two pictures.
StackTypes ==
    /\ used \subseteq Slot /\ Back \in used
    /\ shape \in [Slot -> Shapes \cup {BackShape}]
    /\ DOMAIN buf = Slot /\ buf = [s \in Slot |-> buf[s]]
    /\ \A s \in Slot : buf[s] \in [0 .. shape[s].width - 1 -> Colours]
    /\ vx0 \in [Slot -> Positions]
    /\ height \in [Slot -> -1 .. MaxSheets - 1]
    /\ top \in 0 .. MaxSheets - 1
    /\ sheets \in [0 .. top -> used]

\* HeightsAgree without its types.
Ordered ==
    /\ \A h \in 0 .. top : height[sheets[h]] = h
    /\ \A s \in Slot : height[s] >= 0 => height[s] <= top /\ sheets[height[s]] = s

\* The background is on the screen, and covers all of it.
BackShown == shape[Back] = BackShape /\ vx0[Back] = 0 /\ height[Back] >= 0

\* A sheet that is free is not on the screen.
FreeHidden == \A s \in Slot : s \notin used => height[s] = Hidden

StackPart == StackTypes /\ Ordered /\ BackShown /\ FreeHidden

Pictures == map \in [Screen -> used] /\ vram \in [Screen -> Colours]

IInv == StackPart /\ Pictures /\ MapIsTop /\ ScreenShowsTop

-----------------------------------------------------------------------------
(* Numbers. *)

\* Every non-empty set of natural numbers has a least element.
LEMMA Least ==
  ASSUME NEW T, T \subseteq Nat, T # {}
  PROVE  \E x \in T : \A y \in T : x <= y
<1>1. DEFINE R == {ss \in Nat \X Nat : ss[1] < ss[2]}
<1>2. IsWellFoundedOn(R, Nat)
  BY NatLessThanWellFounded, Zenon DEF OpToRel
<1>3. HIDE DEF R
<1>4. PICK x \in T : \A y \in T : ~ (<<y, x>> \in R)
  BY <1>2, WFMin
<1>5. ASSUME NEW y \in T PROVE x <= y
  <2>1. x \in Nat /\ y \in Nat /\ ~ (<<y, x>> \in R)
    BY <1>4
  <2>2. ~ (y < x)
    BY <2>1 DEF R
  <2>3. QED
    BY <2>1, <2>2, SMT
<1>6. QED
  BY <1>5
\* A bounded set of integers has a greatest element.
LEMMA Greatest ==
  ASSUME NEW T, T \subseteq Int, T # {}, NEW b \in Int, \A x \in T : x <= b
  PROVE  Max(T) \in T /\ \A y \in T : y <= Max(T)
<1>1. DEFINE D == {n \in Nat : b - n \in T}
<1>2. D \subseteq Nat
  OBVIOUS
<1>3. PICK t \in T : TRUE
  OBVIOUS
<1>4. b - t \in Nat /\ b - (b - t) = t
  BY <1>3
<1>5. D # {}
  BY <1>3, <1>4
<1>6. PICK n \in D : \A m \in D : n <= m
  BY <1>2, <1>5, Least
<1>7. b - n \in T /\ \A y \in T : y <= b - n
  <2>1. ASSUME NEW y \in T PROVE y <= b - n
    <3>1. b - y \in Nat /\ b - (b - y) = y
      BY <2>1
    <3>2. b - y \in D
      BY <2>1, <3>1
    <3>3. n <= b - y /\ n \in Nat /\ y \in Int
      BY <1>6, <3>2
    <3>4. QED
      BY <3>3, SMT
  <2>2. QED
    BY <1>6, <2>1
<1>8. \E x \in T : \A y \in T : x >= y
  BY <1>7
<1>9. QED
  BY <1>8 DEF Max

-----------------------------------------------------------------------------
(* What the invariant says of single sheets. *)

LEMMA Shaped ==
  ASSUME StackTypes, NEW s \in Slot
  PROVE  /\ shape[s].width \in Nat
         /\ shape[s].opaque \subseteq 0 .. shape[s].width - 1
         /\ vx0[s] \in Int
<1>1. \A k \in Shapes \cup {BackShape} :
         k.width \in Nat /\ k.opaque \subseteq 0 .. k.width - 1
  BY ShapesAssumption, XSizeAssumption DEF BackShape, Screen
<1>2. vx0[s] \in Int
  BY PositionsAssumption DEF StackTypes
<1>3. shape[s] \in Shapes \cup {BackShape}
  BY DEF StackTypes
<1>4. QED
  BY <1>1, <1>2, <1>3

LEMMA Stacked ==
  ASSUME StackPart
  PROVE  /\ top \in Nat /\ top <= MaxSheets - 1 /\ MaxSheets \in Nat
         /\ Back \in Slot /\ height[Back] >= 0
         /\ \A s \in Slot : s \in Int /\ height[s] \in Int /\ height[s] >= -1
         /\ \A s \in Slot : height[s] >= 0 =>
               height[s] <= top /\ height[s] \in 0 .. top /\ sheets[height[s]] = s
         /\ \A h \in 0 .. top : sheets[h] \in Slot /\ sheets[h] \in used /\ height[sheets[h]] = h
         /\ \A s, t \in Slot : height[s] >= 0 /\ height[s] = height[t] => s = t
<1>1. MaxSheets \in Nat \ {0} /\ Back = 0
  BY MaxSheetsAssumption DEF Back
<1>2. /\ top \in Nat /\ top <= MaxSheets - 1 /\ MaxSheets \in Nat
      /\ Back \in Slot
      /\ \A s \in Slot : s \in Int /\ height[s] \in Int /\ height[s] >= -1
  BY <1>1 DEF StackPart, StackTypes, Slot
<1>3. \A s \in Slot : height[s] >= 0 =>
         height[s] <= top /\ height[s] \in 0 .. top /\ sheets[height[s]] = s
  BY <1>2 DEF StackPart, Ordered
<1>4. \A h \in 0 .. top : sheets[h] \in Slot /\ sheets[h] \in used /\ height[sheets[h]] = h
  BY DEF StackPart, StackTypes, Ordered
<1>5. height[Back] >= 0
  BY DEF StackPart, BackShown
<1>6. \A s, t \in Slot : height[s] >= 0 /\ height[s] = height[t] => s = t
  BY <1>3
<1>7. QED
  BY <1>2, <1>3, <1>4, <1>5, <1>6

\* There is always room for a sheet that is not on the screen: those that
\* are have heights of their own.
LEMMA Room ==
  ASSUME StackPart, NEW s \in Slot, height[s] = Hidden
  PROVE  top + 1 <= MaxSheets - 1
<1>1. SUFFICES ASSUME ~ (top + 1 <= MaxSheets - 1) PROVE FALSE
  OBVIOUS
<1>2. top \in Nat /\ MaxSheets \in Nat /\ top = MaxSheets - 1
  BY <1>1, Stacked, SMT
<1>3. /\ IsFiniteSet(0 .. top) /\ Cardinality(0 .. top) = top + 1
      /\ IsFiniteSet(Slot) /\ Cardinality(Slot) = top + 1
  BY <1>2, FS_Interval DEF Slot
<1>4. IsFiniteSet(Slot \ {s}) /\ Cardinality(Slot \ {s}) = top
  <2>1. IsFiniteSet(Slot \ {s}) /\ Cardinality(Slot \ {s}) = Cardinality(Slot) - 1
    BY <1>3, FS_RemoveElement
  <2>2. QED
    BY <1>2, <1>3, <2>1
<1>5. sheets \in [0 .. top -> Slot \ {s}]
  <2>1. \A h \in 0 .. top : sheets[h] \in Slot /\ sheets[h] # s
    BY Stacked DEF Hidden
  <2>2. QED
    BY <2>1 DEF StackPart, StackTypes
<1>6. Cardinality(Slot \ {s}) < Cardinality(0 .. top)
  BY <1>2, <1>3, <1>4
<1>7. \E x, y \in 0 .. top : x # y /\ sheets[x] = sheets[y]
  <2>1. DEFINE S == 0 .. top
               T == Slot \ {s}
  <2>2. IsFiniteSet(S) /\ IsFiniteSet(T) /\ Cardinality(T) < Cardinality(S) /\ sheets \in [S -> T]
    BY <1>3, <1>4, <1>5, <1>6
  <2>3. HIDE DEF S, T
  <2>4. \E x, y \in S : x # y /\ sheets[x] = sheets[y]
    BY <2>2, FS_PigeonHole
  <2>5. QED
    BY <2>4 DEF S
<1>8. QED
  BY <1>7, Stacked

-----------------------------------------------------------------------------
(* The stack after sheet_updown. *)

\* The stack is in order again, and the sheets other than s are in the order
\* in which they were.
Restacks(s) ==
    /\ height' \in [Slot -> -1 .. MaxSheets - 1]
    /\ top' \in 0 .. MaxSheets - 1
    /\ sheets' \in [0 .. top' -> Slot]
    /\ Ordered'
    /\ height'[Back] >= 0
    /\ \A u \in Slot \ {s} : height'[u] >= 0 <=> height[u] >= 0
    /\ \A u, v \in Slot \ {s} : height[u] >= 0 /\ height[v] >= 0
          => (height[u] < height[v] <=> height'[u] < height'[v])

LEMMA LowerRestacks ==
  ASSUME StackPart, NEW s \in Slot, NEW h \in Int, Lower(s, h)
  PROVE  /\ Restacks(s)
         /\ h \in 0 .. height[s] - 1 /\ height'[s] = h
         /\ \A u \in Slot \ {s} : height[u] \in 0 .. h - 1 \/ height'[u] \in 0 .. h - 1
                                    => height'[u] = height[u]
         /\ \A u \in Slot \ {s} : height[u] < height[s] => height'[u] <= height[s]
<1>. DEFINE old == height[s]
<1>1. /\ top \in Nat /\ top <= MaxSheets - 1 /\ MaxSheets \in Nat
      /\ old \in 0 .. top /\ h \in 0 .. old - 1 /\ sheets[old] = s
  BY Stacked DEF Lower
<1>2. top' = top
  BY DEF Lower
<1>3. sheets' = [i \in 0 .. top |->
                   IF i = h THEN s
                   ELSE IF i \in h + 1 .. old THEN sheets[i - 1] ELSE sheets[i]]
  BY DEF Lower
<1>4. height' = [t \in Slot |-> IF t = s THEN h
                   ELSE IF height[t] \in h .. old - 1 THEN height[t] + 1 ELSE height[t]]
  BY DEF Lower, Shifted
<1>5. /\ height'[s] = h
      /\ \A u \in Slot \ {s} : height'[u] = IF height[u] \in h .. old - 1
                                            THEN height[u] + 1 ELSE height[u]
  BY <1>4
<1>6. \A u \in Slot : /\ height[u] \in Int /\ height[u] >= -1
                      /\ height[u] >= 0 => height[u] \in 0 .. top /\ sheets[height[u]] = u
  BY Stacked
<1>7. \A i \in 0 .. top : sheets[i] \in Slot /\ height[sheets[i]] = i
  BY Stacked
<1>8. \A u \in Slot : height'[u] \in Int /\ height'[u] >= -1 /\ height'[u] <= top
  BY <1>1, <1>5, <1>6
<1>9. height' \in [Slot -> -1 .. MaxSheets - 1]
  BY <1>1, <1>4, <1>8
<1>10. sheets' \in [0 .. top' -> Slot]
  BY <1>1, <1>2, <1>3, <1>7
<1>11. ASSUME NEW i \in 0 .. top' PROVE height'[sheets'[i]] = i
  <2>1. CASE i = h
    BY <1>2, <1>3, <1>5, <2>1
  <2>2. CASE i \in h + 1 .. old
    <3>1. sheets'[i] = sheets[i - 1] /\ i - 1 \in h .. old - 1 /\ i - 1 \in 0 .. top
      BY <1>1, <1>2, <1>3, <2>2
    <3>2. sheets[i - 1] \in Slot /\ height[sheets[i - 1]] = i - 1
      BY <1>7, <3>1
    <3>3. sheets[i - 1] # s
      BY <1>1, <3>1, <3>2
    <3>4. QED
      BY <1>1, <1>5, <3>1, <3>2, <3>3
  <2>3. CASE i # h /\ i \notin h + 1 .. old
    <3>1. sheets'[i] = sheets[i] /\ sheets[i] \in Slot /\ height[sheets[i]] = i
      BY <1>2, <1>3, <1>7, <2>3
    <3>2. i \notin h .. old
      BY <1>1, <1>2, <2>3
    <3>3. sheets[i] # s
      BY <1>1, <3>1, <3>2
    <3>4. QED
      BY <1>1, <1>5, <3>1, <3>2, <3>3
  <2>4. QED
    BY <2>1, <2>2, <2>3
<1>12. ASSUME NEW u \in Slot, height'[u] >= 0
       PROVE  height'[u] <= top' /\ sheets'[height'[u]] = u
  <2>1. CASE u = s
    BY <1>1, <1>2, <1>3, <1>5, <2>1
  <2>2. CASE u # s /\ height[u] \in h .. old - 1
    <3>1. height'[u] = height[u] + 1 /\ sheets[height[u]] = u
      BY <1>1, <1>5, <1>6, <2>2
    <3>2. height[u] + 1 \in h + 1 .. old /\ height[u] + 1 # h /\ height[u] + 1 - 1 = height[u]
      BY <1>1, <2>2
    <3>3. height[u] + 1 \in 0 .. top
      BY <1>1, <3>2
    <3>4. PICK i \in 0 .. top : i = height[u] + 1
      BY <3>3
    <3>5. i \in h + 1 .. old /\ i # h /\ i - 1 = height[u]
      BY <1>6, <3>2, <3>4
    <3>6. sheets'[i] = sheets[i - 1]
      BY <1>3, <3>5
    <3>7. QED
      BY <1>2, <3>1, <3>4, <3>5, <3>6
  <2>3. CASE u # s /\ height[u] \notin h .. old - 1
    <3>1. height'[u] = height[u] /\ height[u] \in 0 .. top /\ sheets[height[u]] = u
      BY <1>5, <1>6, <1>12, <2>3
    <3>2. height[u] # old
      BY <1>1, <2>3, <3>1
    <3>3. height[u] # h /\ height[u] \notin h + 1 .. old
      BY <1>1, <2>3, <3>2
    <3>4. QED
      BY <1>2, <1>3, <3>1, <3>3
  <2>4. QED
    BY <2>1, <2>2, <2>3
<1>13. Ordered'
  BY <1>11, <1>12 DEF Ordered
<1>14. height'[Back] >= 0
  <2>1. height[Back] >= 0 /\ Back \in Slot
    BY Stacked
  <2>2. QED
    BY <1>1, <1>5, <1>6, <2>1
<1>15. \A u \in Slot \ {s} : height'[u] >= 0 <=> height[u] >= 0
  BY <1>1, <1>5, <1>6
<1>16. \A u, v \in Slot \ {s} : height[u] >= 0 /\ height[v] >= 0
          => (height[u] < height[v] <=> height'[u] < height'[v])
  <2>1. \A u \in Slot \ {s} : height[u] >= 0 => height[u] # old
    BY <1>1, <1>6
  <2>2. QED
    BY <1>1, <1>5, <1>6, <2>1
<1>17. Restacks(s)
  BY <1>1, <1>2, <1>9, <1>10, <1>13, <1>14, <1>15, <1>16 DEF Restacks
<1>18. \A u \in Slot \ {s} : height[u] \in 0 .. h - 1 \/ height'[u] \in 0 .. h - 1
                                => height'[u] = height[u]
  BY <1>1, <1>5, <1>6
<1>19. \A u \in Slot \ {s} : height[u] < height[s] => height'[u] <= height[s]
  BY <1>1, <1>5, <1>6
<1>20. QED
  BY <1>1, <1>5, <1>17, <1>18, <1>19

LEMMA HideRestacks ==
  ASSUME StackPart, NEW s \in Slot \ {Back}, Hide(s)
  PROVE  /\ Restacks(s)
         /\ height[s] \in 0 .. top /\ height'[s] = Hidden
         /\ \A u \in Slot \ {s} : height[u] < height[s] => height'[u] = height[u]
<1>. DEFINE old == height[s]
<1>1. /\ top \in Nat /\ top <= MaxSheets - 1 /\ MaxSheets \in Nat
      /\ old \in 0 .. top /\ sheets[old] = s /\ top >= 1
  <2>1. old >= 0
    BY DEF Hide
  <2>2. /\ top \in Nat /\ top <= MaxSheets - 1 /\ MaxSheets \in Nat
        /\ old \in 0 .. top /\ sheets[old] = s
    BY <2>1, Stacked
  <2>3. height[Back] \in 0 .. top /\ height[Back] # old
    <3>1. Back \in Slot /\ s \in Slot /\ Back # s /\ height[Back] >= 0
      BY Stacked
    <3>2. QED
      BY <2>1, <3>1, Stacked
  <2>4. QED
    BY <2>2, <2>3
<1>2. top' = top - 1
  BY DEF Hide
<1>3. sheets' = [i \in 0 .. top - 1 |-> IF i >= old THEN sheets[i + 1] ELSE sheets[i]]
  BY DEF Hide
<1>4. height' = [t \in Slot |-> IF t = s THEN Hidden
                   ELSE IF height[t] \in old + 1 .. top THEN height[t] + -1 ELSE height[t]]
  BY DEF Hide, Shifted
<1>5. /\ height'[s] = -1 /\ Hidden = -1
      /\ \A u \in Slot \ {s} : height'[u] = IF height[u] \in old + 1 .. top
                                            THEN height[u] - 1 ELSE height[u]
  <2>1. \A u \in Slot : height[u] \in Int
    BY Stacked
  <2>2. QED
    BY <1>4, <2>1 DEF Hidden
<1>6. \A u \in Slot : /\ height[u] \in Int /\ height[u] >= -1
                      /\ height[u] >= 0 => height[u] \in 0 .. top /\ sheets[height[u]] = u
  BY Stacked
<1>7. \A i \in 0 .. top : sheets[i] \in Slot /\ height[sheets[i]] = i
  BY Stacked
<1>8. \A u \in Slot \ {s} : height[u] >= 0 => height[u] # old
  BY <1>1, <1>6
<1>9. \A u \in Slot : height'[u] \in Int /\ height'[u] >= -1 /\ height'[u] <= top - 1
  BY <1>1, <1>5, <1>6, <1>8
<1>10. height' \in [Slot -> -1 .. MaxSheets - 1]
  BY <1>1, <1>4, <1>9
<1>11. sheets' \in [0 .. top' -> Slot]
  BY <1>1, <1>2, <1>3, <1>7
<1>12. ASSUME NEW i \in 0 .. top' PROVE height'[sheets'[i]] = i
  <2>1. CASE i >= old
    <3>1. sheets'[i] = sheets[i + 1] /\ i + 1 \in old + 1 .. top /\ i + 1 \in 0 .. top
      BY <1>1, <1>2, <1>3, <2>1
    <3>2. sheets[i + 1] \in Slot /\ height[sheets[i + 1]] = i + 1
      BY <1>7, <3>1
    <3>3. sheets[i + 1] # s
      BY <1>1, <3>1, <3>2
    <3>4. QED
      BY <1>1, <1>5, <3>1, <3>2, <3>3
  <2>2. CASE ~ (i >= old)
    <3>1. sheets'[i] = sheets[i] /\ i \in 0 .. top /\ i < old
      BY <1>1, <1>2, <1>3, <2>2
    <3>2. sheets[i] \in Slot /\ height[sheets[i]] = i
      BY <1>7, <3>1
    <3>3. sheets[i] # s
      BY <1>1, <3>1, <3>2
    <3>4. QED
      BY <1>1, <1>5, <3>1, <3>2, <3>3
  <2>3. QED
    BY <2>1, <2>2
<1>13. ASSUME NEW u \in Slot, height'[u] >= 0
       PROVE  height'[u] <= top' /\ sheets'[height'[u]] = u
  <2>1. u # s
    BY <1>5, <1>13
  <2>2. CASE height[u] \in old + 1 .. top
    <3>1. height'[u] = height[u] - 1 /\ sheets[height[u]] = u
      BY <1>1, <1>5, <1>6, <2>1, <2>2
    <3>2. height[u] - 1 \in 0 .. top - 1
      BY <1>1, <2>2
    <3>3. PICK i \in 0 .. top - 1 : i = height[u] - 1
      BY <3>2
    <3>4. i >= old /\ i + 1 = height[u]
      BY <1>1, <2>2, <3>3
    <3>5. sheets'[i] = sheets[i + 1]
      BY <1>3, <3>4
    <3>6. QED
      BY <1>1, <1>2, <3>1, <3>3, <3>4, <3>5
  <2>3. CASE height[u] \notin old + 1 .. top
    <3>1. height'[u] = height[u] /\ height[u] \in 0 .. top /\ sheets[height[u]] = u
      BY <1>5, <1>6, <1>13, <2>1, <2>3
    <3>2. height[u] # old
      BY <1>8, <2>1, <3>1
    <3>3. height[u] \in 0 .. top - 1 /\ ~ (height[u] >= old)
      BY <1>1, <2>3, <3>1, <3>2
    <3>4. QED
      BY <1>2, <1>3, <3>1, <3>3
  <2>4. QED
    BY <2>2, <2>3
<1>14. Ordered'
  BY <1>12, <1>13 DEF Ordered
<1>15. height'[Back] >= 0
  <2>1. height[Back] >= 0 /\ Back \in Slot
    BY Stacked
  <2>2. QED
    BY <1>1, <1>5, <1>6, <2>1
<1>16. \A u \in Slot \ {s} : height'[u] >= 0 <=> height[u] >= 0
  BY <1>1, <1>5, <1>6
<1>17. \A u, v \in Slot \ {s} : height[u] >= 0 /\ height[v] >= 0
          => (height[u] < height[v] <=> height'[u] < height'[v])
  BY <1>1, <1>5, <1>6, <1>8
<1>18. Restacks(s)
  BY <1>1, <1>2, <1>10, <1>11, <1>14, <1>15, <1>16, <1>17 DEF Restacks
<1>19. \A u \in Slot \ {s} : height[u] < height[s] => height'[u] = height[u]
  BY <1>1, <1>5, <1>6
<1>20. QED
  BY <1>1, <1>5, <1>18, <1>19

LEMMA RaiseRestacks ==
  ASSUME StackPart, NEW s \in Slot, NEW h \in Int, h <= top, Raise(s, h)
  PROVE  /\ Restacks(s)
         /\ height[s] >= 0 /\ h >= 0 /\ height'[s] = h /\ height[s] < h
         /\ \A u \in Slot \ {s} : height[u] < height[s] => height'[u] = height[u]
<1>. DEFINE old == height[s]
<1>1. /\ top \in Nat /\ top <= MaxSheets - 1 /\ MaxSheets \in Nat
      /\ old \in 0 .. top /\ h \in old + 1 .. top /\ sheets[old] = s
  <2>1. old >= 0 /\ old < h
    BY DEF Raise
  <2>2. /\ top \in Nat /\ top <= MaxSheets - 1 /\ MaxSheets \in Nat
        /\ old \in 0 .. top /\ sheets[old] = s
    BY <2>1, Stacked
  <2>3. QED
    BY <2>1, <2>2
<1>2. top' = top
  BY DEF Raise
<1>3. sheets' = [i \in 0 .. top |->
                   IF i = h THEN s
                   ELSE IF i \in old .. h - 1 THEN sheets[i + 1] ELSE sheets[i]]
  BY DEF Raise
<1>4. height' = [t \in Slot |-> IF t = s THEN h
                   ELSE IF height[t] \in old + 1 .. h THEN height[t] + -1 ELSE height[t]]
  BY DEF Raise, Shifted
<1>5. /\ height'[s] = h
      /\ \A u \in Slot \ {s} : height'[u] = IF height[u] \in old + 1 .. h
                                            THEN height[u] - 1 ELSE height[u]
  <2>1. \A u \in Slot : height[u] \in Int
    BY Stacked
  <2>2. QED
    BY <1>4, <2>1
<1>6. \A u \in Slot : /\ height[u] \in Int /\ height[u] >= -1
                      /\ height[u] >= 0 => height[u] \in 0 .. top /\ sheets[height[u]] = u
  BY Stacked
<1>7. \A i \in 0 .. top : sheets[i] \in Slot /\ height[sheets[i]] = i
  BY Stacked
<1>8. \A u \in Slot \ {s} : height[u] >= 0 => height[u] # old
  BY <1>1, <1>6
<1>9. \A u \in Slot : height'[u] \in Int /\ height'[u] >= -1 /\ height'[u] <= top
  BY <1>1, <1>5, <1>6, <1>8
<1>10. height' \in [Slot -> -1 .. MaxSheets - 1]
  BY <1>1, <1>4, <1>9
<1>11. sheets' \in [0 .. top' -> Slot]
  BY <1>1, <1>2, <1>3, <1>7
<1>12. ASSUME NEW i \in 0 .. top' PROVE height'[sheets'[i]] = i
  <2>1. CASE i = h
    BY <1>2, <1>3, <1>5, <2>1
  <2>2. CASE i \in old .. h - 1
    <3>1. sheets'[i] = sheets[i + 1] /\ i + 1 \in old + 1 .. h /\ i + 1 \in 0 .. top
      BY <1>1, <1>2, <1>3, <2>2
    <3>2. sheets[i + 1] \in Slot /\ height[sheets[i + 1]] = i + 1
      BY <1>7, <3>1
    <3>3. sheets[i + 1] # s
      BY <1>1, <3>1, <3>2
    <3>4. height'[sheets[i + 1]] = height[sheets[i + 1]] - 1
      BY <1>5, <3>1, <3>2, <3>3
    <3>5. QED
      BY <1>2, <3>1, <3>2, <3>4
  <2>3. CASE i # h /\ i \notin old .. h - 1
    <3>1. sheets'[i] = sheets[i] /\ sheets[i] \in Slot /\ height[sheets[i]] = i
      BY <1>2, <1>3, <1>7, <2>3
    <3>2. i \notin old .. h
      BY <1>1, <1>2, <2>3
    <3>3. sheets[i] # s
      BY <1>1, <3>1, <3>2
    <3>4. QED
      BY <1>1, <1>5, <3>1, <3>2, <3>3
  <2>4. QED
    BY <2>1, <2>2, <2>3
<1>13. ASSUME NEW u \in Slot, height'[u] >= 0
       PROVE  height'[u] <= top' /\ sheets'[height'[u]] = u
  <2>1. CASE u = s
    BY <1>1, <1>2, <1>3, <1>5, <2>1
  <2>2. CASE u # s /\ height[u] \in old + 1 .. h
    <3>1. height'[u] = height[u] - 1 /\ sheets[height[u]] = u
      BY <1>1, <1>5, <1>6, <2>2
    <3>2. height[u] - 1 \in 0 .. top
      BY <1>1, <2>2
    <3>3. PICK i \in 0 .. top : i = height[u] - 1
      BY <3>2
    <3>4. i \in old .. h - 1 /\ i # h /\ i + 1 = height[u]
      BY <1>1, <2>2, <3>3
    <3>5. sheets'[i] = sheets[i + 1]
      BY <1>3, <3>4
    <3>6. QED
      BY <1>1, <1>2, <3>1, <3>3, <3>4, <3>5
  <2>3. CASE u # s /\ height[u] \notin old + 1 .. h
    <3>1. height'[u] = height[u] /\ height[u] \in 0 .. top /\ sheets[height[u]] = u
      BY <1>5, <1>6, <1>13, <2>3
    <3>2. height[u] # old
      BY <1>8, <2>3, <3>1
    <3>3. height[u] # h /\ height[u] \notin old .. h - 1
      BY <1>1, <2>3, <3>1, <3>2
    <3>4. QED
      BY <1>2, <1>3, <3>1, <3>3
  <2>4. QED
    BY <2>1, <2>2, <2>3
<1>14. Ordered'
  BY <1>12, <1>13 DEF Ordered
<1>15. height'[Back] >= 0
  <2>1. height[Back] >= 0 /\ Back \in Slot
    BY Stacked
  <2>2. QED
    BY <1>1, <1>5, <1>6, <2>1
<1>16. \A u \in Slot \ {s} : height'[u] >= 0 <=> height[u] >= 0
  BY <1>1, <1>5, <1>6
<1>17. \A u, v \in Slot \ {s} : height[u] >= 0 /\ height[v] >= 0
          => (height[u] < height[v] <=> height'[u] < height'[v])
  BY <1>1, <1>5, <1>6, <1>8
<1>18. Restacks(s)
  BY <1>1, <1>2, <1>10, <1>11, <1>14, <1>15, <1>16, <1>17 DEF Restacks
<1>19. \A u \in Slot \ {s} : height[u] < height[s] => height'[u] = height[u]
  BY <1>1, <1>5, <1>6
<1>20. QED
  BY <1>1, <1>5, <1>18, <1>19

LEMMA ShowRestacks ==
  ASSUME StackPart, NEW s \in Slot, NEW h \in Int, h <= top + 1, Show(s, h)
  PROVE  Restacks(s) /\ height[s] = Hidden /\ h >= 0 /\ height'[s] = h
<1>1. /\ top \in Nat /\ top + 1 <= MaxSheets - 1 /\ MaxSheets \in Nat
      /\ height[s] = -1 /\ height[s] = Hidden /\ h \in 0 .. top + 1
  <2>1. height[s] = Hidden /\ h >= 0
    BY DEF Show
  <2>2. QED
    BY <2>1, Room, Stacked DEF Hidden
<1>2. top' = top + 1
  BY DEF Show
<1>3. sheets' = [i \in 0 .. top + 1 |->
                   IF i = h THEN s ELSE IF i > h THEN sheets[i - 1] ELSE sheets[i]]
  BY DEF Show
<1>4. height' = [t \in Slot |-> IF t = s THEN h
                   ELSE IF height[t] \in h .. top THEN height[t] + 1 ELSE height[t]]
  BY DEF Show, Shifted
<1>5. /\ height'[s] = h
      /\ \A u \in Slot \ {s} : height'[u] = IF height[u] \in h .. top
                                            THEN height[u] + 1 ELSE height[u]
  BY <1>4
<1>6. \A u \in Slot : /\ height[u] \in Int /\ height[u] >= -1
                      /\ height[u] >= 0 => height[u] \in 0 .. top /\ sheets[height[u]] = u
  BY Stacked
<1>7. \A i \in 0 .. top : sheets[i] \in Slot /\ height[sheets[i]] = i
  BY Stacked
<1>8. \A u \in Slot : height'[u] \in Int /\ height'[u] >= -1 /\ height'[u] <= top + 1
  BY <1>1, <1>5, <1>6
<1>9. height' \in [Slot -> -1 .. MaxSheets - 1]
  BY <1>1, <1>4, <1>8
<1>10. sheets' \in [0 .. top' -> Slot]
  <2>1. ASSUME NEW i \in 0 .. top'
        PROVE  (IF i = h THEN s ELSE IF i > h THEN sheets[i - 1] ELSE sheets[i]) \in Slot
    <3>1. CASE i > h
      <4>1. i - 1 \in 0 .. top /\ i # h
        BY <1>1, <1>2, <3>1
      <4>2. sheets[i - 1] \in Slot
        BY <1>7, <4>1
      <4>3. QED
        BY <3>1, <4>1, <4>2
    <3>2. CASE ~ (i > h) /\ i # h
      <4>1. i \in 0 .. top
        BY <1>1, <1>2, <3>2
      <4>2. sheets[i] \in Slot
        BY <1>7, <4>1
      <4>3. QED
        BY <3>2, <4>2
    <3>3. QED
      BY <3>1, <3>2
  <2>2. QED
    BY <1>2, <1>3, <2>1
<1>11. ASSUME NEW i \in 0 .. top' PROVE height'[sheets'[i]] = i
  <2>1. CASE i = h
    BY <1>2, <1>3, <1>5, <2>1
  <2>2. CASE i > h
    <3>1. sheets'[i] = sheets[i - 1] /\ i - 1 \in h .. top /\ i - 1 \in 0 .. top
      BY <1>1, <1>2, <1>3, <2>2
    <3>2. sheets[i - 1] \in Slot /\ height[sheets[i - 1]] = i - 1
      BY <1>7, <3>1
    <3>3. sheets[i - 1] # s
      BY <1>1, <3>1, <3>2
    <3>4. QED
      BY <1>1, <1>5, <3>1, <3>2, <3>3
  <2>3. CASE i # h /\ ~ (i > h)
    <3>1. sheets'[i] = sheets[i] /\ i \in 0 .. top /\ i < h
      BY <1>1, <1>2, <1>3, <2>3
    <3>2. sheets[i] \in Slot /\ height[sheets[i]] = i
      BY <1>7, <3>1
    <3>3. sheets[i] # s
      BY <1>1, <3>1, <3>2
    <3>4. QED
      BY <1>1, <1>5, <3>1, <3>2, <3>3
  <2>4. QED
    BY <2>1, <2>2, <2>3
<1>12. ASSUME NEW u \in Slot, height'[u] >= 0
       PROVE  height'[u] <= top' /\ sheets'[height'[u]] = u
  <2>1. CASE u = s
    BY <1>1, <1>2, <1>3, <1>5, <2>1
  <2>2. CASE u # s /\ height[u] \in h .. top
    <3>1. height'[u] = height[u] + 1 /\ sheets[height[u]] = u
      BY <1>1, <1>5, <1>6, <2>2
    <3>2. height[u] + 1 \in 0 .. top + 1
      BY <1>1, <2>2
    <3>3. PICK i \in 0 .. top + 1 : i = height[u] + 1
      BY <3>2
    <3>4. i > h /\ i # h /\ i - 1 = height[u]
      BY <1>1, <2>2, <3>3
    <3>5. sheets'[i] = sheets[i - 1]
      BY <1>3, <3>4
    <3>6. QED
      BY <1>1, <1>2, <3>1, <3>3, <3>4, <3>5
  <2>3. CASE u # s /\ height[u] \notin h .. top
    <3>1. height'[u] = height[u] /\ height[u] \in 0 .. top /\ sheets[height[u]] = u
      BY <1>5, <1>6, <1>12, <2>3
    <3>2. height[u] # h /\ ~ (height[u] > h) /\ height[u] \in 0 .. top + 1
      BY <1>1, <2>3, <3>1
    <3>3. QED
      BY <1>2, <1>3, <3>1, <3>2
  <2>4. QED
    BY <2>1, <2>2, <2>3
<1>13. Ordered'
  BY <1>11, <1>12 DEF Ordered
<1>14. height'[Back] >= 0
  <2>1. height[Back] >= 0 /\ Back \in Slot
    BY Stacked
  <2>2. QED
    BY <1>1, <1>5, <1>6, <2>1
<1>15. \A u \in Slot \ {s} : height'[u] >= 0 <=> height[u] >= 0
  BY <1>1, <1>5, <1>6
<1>16. \A u, v \in Slot \ {s} : height[u] >= 0 /\ height[v] >= 0
          => (height[u] < height[v] <=> height'[u] < height'[v])
  BY <1>1, <1>5, <1>6
<1>17. Restacks(s)
  BY <1>1, <1>2, <1>9, <1>10, <1>13, <1>14, <1>15, <1>16 DEF Restacks
<1>18. QED
  BY <1>1, <1>5, <1>17

-----------------------------------------------------------------------------
(* What the refreshes do, pixel by pixel. *)

\* Sheet s is the topmost one at pixel p; and the same of the next state.
Over(s, p) ==
    /\ Opaque(s, p)
    /\ height[s] >= 0
    /\ \A u \in Slot : Opaque(u, p) => height[u] <= height[s]

NextOpaque(s, p) == p - vx0'[s] \in shape'[s].opaque
NextOver(s, p) ==
    /\ NextOpaque(s, p)
    /\ height'[s] >= 0
    /\ \A u \in Slot : NextOpaque(u, p) => height'[u] <= height'[s]

LEMMA MapIsOver ==
  ASSUME StackPart, Pictures, MapIsTop, NEW p \in Screen
  PROVE  map[p] \in Slot /\ Over(map[p], p)
<1>1. map[p] \in Slot
  BY DEF StackPart, StackTypes, Pictures
<1>2. /\ Opaque(map[p], p) /\ height[map[p]] >= 0
      /\ \A h \in height[map[p]] + 1 .. top : ~ Opaque(sheets[h], p)
  BY DEF MapIsTop
<1>3. ASSUME NEW u \in Slot, Opaque(u, p) PROVE height[u] <= height[map[p]]
  <2>1. SUFFICES ASSUME ~ (height[u] <= height[map[p]]) PROVE FALSE
    OBVIOUS
  <2>2. /\ height[u] \in Int /\ height[map[p]] \in Int
        /\ height[u] >= 0 => height[u] <= top /\ sheets[height[u]] = u
    BY <1>1, Stacked
  <2>3. height[u] \in height[map[p]] + 1 .. top /\ sheets[height[u]] = u
    BY <1>2, <2>1, <2>2
  <2>4. QED
    BY <1>2, <1>3, <2>3
<1>4. QED
  BY <1>1, <1>2, <1>3 DEF Over

\* The stack of the next state, as far as the pictures need it.
NextStacked ==
    /\ top' \in Nat
    /\ height' \in [Slot -> Int]
    /\ sheets' \in [0 .. top' -> Slot]
    /\ Ordered'

LEMMA NextMapIsTop ==
  ASSUME NextStacked, \A p \in Screen : map'[p] \in Slot /\ NextOver(map'[p], p)
  PROVE  MapIsTop'
<1>1. SUFFICES ASSUME NEW p \in Screen
               PROVE  /\ Opaque(map[p], p)'
                      /\ height'[map'[p]] >= 0
                      /\ \A h \in height'[map'[p]] + 1 .. top' : ~ Opaque(sheets[h], p)'
  BY DEF MapIsTop
<1>2. map'[p] \in Slot /\ NextOver(map'[p], p)
  OBVIOUS
<1>3. Opaque(map[p], p)' /\ height'[map'[p]] >= 0
  BY <1>2 DEF NextOver, NextOpaque, Opaque
<1>4. ASSUME NEW h \in height'[map'[p]] + 1 .. top' PROVE ~ Opaque(sheets[h], p)'
  <2>1. height'[map'[p]] \in Int /\ top' \in Nat
    BY <1>2 DEF NextStacked
  <2>2. h \in 0 .. top' /\ h > height'[map'[p]]
    BY <1>3, <1>4, <2>1
  <2>3. sheets'[h] \in Slot /\ height'[sheets'[h]] = h
    BY <2>2 DEF NextStacked, Ordered
  <2>4. ~ NextOpaque(sheets'[h], p)
    BY <1>2, <2>1, <2>2, <2>3 DEF NextOver
  <2>5. QED
    BY <2>4 DEF NextOpaque, Opaque
<1>5. QED
  BY <1>3, <1>4

\* A pixel has the topmost sheet after a refresh of the map from h0 up, if it
\* had it before whenever the refresh finds no sheet for it.
LEMMA MappedOver ==
  ASSUME NextStacked, shape' = shape,
         NEW m, NEW area, NEW h0 \in Nat, NEW p \in Screen,
         p \notin area \/ (\A u \in Slot : height'[u] >= h0 => ~ NextOpaque(u, p))
           => m[p] \in Slot /\ NextOver(m[p], p)
  PROVE  /\ Mapped(m, area, h0)[p] \in Slot
         /\ NextOver(Mapped(m, area, h0)[p], p)
         /\ p \notin area => Mapped(m, area, h0)[p] = m[p]
<1>. DEFINE over == {h \in h0 .. top' :
                        /\ p \in area
                        /\ p - vx0'[sheets'[h]] \in shape[sheets'[h]].opaque}
<1>1. Mapped(m, area, h0)[p] = IF over = {} THEN m[p] ELSE sheets'[Max(over)]
  BY DEF Mapped
<1>2. top' \in Nat /\ top' \in Int /\ over \subseteq Int /\ \A h \in over : h <= top'
  BY DEF NextStacked
<1>3. ASSUME p \notin area PROVE over = {}
  BY <1>3
<1>4. CASE over = {}
  <2>1. ASSUME p \in area, NEW u \in Slot, height'[u] >= h0 PROVE ~ NextOpaque(u, p)
    <3>1. height'[u] \in Int /\ height'[u] >= 0
      BY <2>1 DEF NextStacked
    <3>2. height'[u] \in h0 .. top' /\ sheets'[height'[u]] = u
      BY <1>2, <2>1, <3>1 DEF NextStacked, Ordered
    <3>3. QED
      BY <1>4, <2>1, <3>2 DEF NextOpaque
  <2>2. m[p] \in Slot /\ NextOver(m[p], p)
    BY <2>1
  <2>3. QED
    BY <1>1, <1>4, <2>2
<1>5. CASE over # {}
  <2>1. Max(over) \in over /\ \A h \in over : h <= Max(over)
    <3>1. HIDE DEF over
    <3>2. QED
      BY <1>2, <1>5, Greatest
  <2>2. PICK k \in over : k = Max(over)
    BY <2>1
  <2>3. /\ k \in 0 .. top' /\ k \in h0 .. top' /\ sheets'[k] \in Slot /\ height'[sheets'[k]] = k
        /\ p \in area /\ NextOpaque(sheets'[k], p)
    <3>1. k \in h0 .. top' /\ p \in area /\ p - vx0'[sheets'[k]] \in shape[sheets'[k]].opaque
      OBVIOUS
    <3>2. k \in 0 .. top'
      BY <3>1, <1>2
    <3>3. sheets'[k] \in Slot /\ height'[sheets'[k]] = k
      BY <3>2 DEF NextStacked, Ordered
    <3>4. NextOpaque(sheets'[k], p)
      BY <3>1 DEF NextOpaque
    <3>5. QED
      BY <3>1, <3>2, <3>3, <3>4
  <2>4. ASSUME NEW u \in Slot, NextOpaque(u, p) PROVE height'[u] <= k
    <3>1. SUFFICES ASSUME ~ (height'[u] <= k) PROVE FALSE
      OBVIOUS
    <3>2. height'[u] \in Int /\ height'[u] >= 0 /\ height'[u] > k
      BY <2>3, <3>1 DEF NextStacked
    <3>3. height'[u] \in h0 .. top' /\ sheets'[height'[u]] = u
      BY <1>2, <2>3, <3>2 DEF NextStacked, Ordered
    <3>4. height'[u] \in over
      BY <2>3, <2>4, <3>3 DEF NextOpaque
    <3>5. QED
      BY <2>1, <2>2, <3>1, <3>4
  <2>5. NextOver(sheets'[k], p)
    BY <2>3, <2>4 DEF NextOver
  <2>6. QED
    BY <1>1, <1>3, <1>5, <2>2, <2>3, <2>5
<1>6. QED
  BY <1>4, <1>5

\* A pixel shows the sheet that the map gives it, if it is drawn or did before.
LEMMA DrawnRight ==
  ASSUME NextStacked, NEW v, NEW area, NEW hs, NEW p \in Screen,
         map'[p] \in Slot, NextOver(map'[p], p),
         shape' = shape, vx0'[map'[p]] \in Int, shape[map'[p]].width \in Nat,
         shape[map'[p]].opaque \subseteq 0 .. shape[map'[p]].width - 1,
         ~ (p \in area /\ height'[map'[p]] \in hs)
           => v[p] = buf'[map'[p]][p - vx0'[map'[p]]]
  PROVE  Drawn(v, area, hs)[p] = buf'[map'[p]][p - vx0'[map'[p]]]
<1>. DEFINE t == map'[p]
<1>1. Drawn(v, area, hs)[p] = IF /\ p \in area \cap Area(t, vx0'[t])
                                 /\ \E h \in hs : sheets'[h] = t
                              THEN buf'[t][p - vx0'[t]] ELSE v[p]
  BY DEF Drawn
<1>2. p \in Area(t, vx0'[t])
  <2>1. p - vx0'[t] \in 0 .. shape[t].width - 1
    BY DEF NextOver, NextOpaque
  <2>2. p \in Int /\ vx0'[t] \in Int /\ shape[t].width \in Nat
    BY XSizeAssumption DEF Screen
  <2>3. p \in vx0'[t] .. vx0'[t] + shape[t].width - 1
    BY <2>1, <2>2
  <2>4. QED
    BY <2>3 DEF Area
<1>3. CASE p \in area /\ height'[t] \in hs
  <2>1. sheets'[height'[t]] = t
    BY DEF NextStacked, NextOver, Ordered
  <2>2. QED
    BY <1>1, <1>2, <1>3, <2>1
<1>4. CASE ~ (p \in area /\ height'[t] \in hs)
  BY <1>1, <1>4
<1>5. QED
  BY <1>3, <1>4

-----------------------------------------------------------------------------
(* The pictures after sheet_updown. *)

LEMMA RestacksNext ==
  ASSUME NEW s, Restacks(s)
  PROVE  NextStacked
<1>1. top' \in Nat /\ height' \in [Slot -> Int]
  BY MaxSheetsAssumption DEF Restacks
<1>2. QED
  BY <1>1 DEF Restacks, NextStacked

\* What is on top, and does not change, stays on top where s is transparent.
LEMMA StaysOver ==
  ASSUME StackPart, NEW s \in Slot, Restacks(s), shape' = shape, vx0' = vx0,
         NEW p \in Screen, NEW t \in Slot, Over(t, p), ~ Opaque(s, p)
  PROVE  NextOver(t, p)
<1>1. \A u \in Slot : NextOpaque(u, p) <=> Opaque(u, p)
  BY DEF NextOpaque, Opaque
<1>2. t # s /\ t \in Slot \ {s} /\ height[t] >= 0 /\ Opaque(t, p)
  BY DEF Over
<1>3. height'[t] >= 0
  BY <1>2 DEF Restacks
<1>4. ASSUME NEW u \in Slot, NextOpaque(u, p) PROVE height'[u] <= height'[t]
  <2>1. u # s /\ Opaque(u, p) /\ height[u] <= height[t]
    BY <1>1, <1>4 DEF Over
  <2>2. height'[u] \in Int /\ height'[t] \in Int /\ height[u] \in Int /\ height[t] \in Int
    BY RestacksNext, Stacked DEF NextStacked
  <2>3. CASE height[u] >= 0
    <3>1. height[t] < height[u] <=> height'[t] < height'[u]
      BY <1>2, <2>1, <2>3 DEF Restacks
    <3>2. QED
      BY <2>1, <2>2, <3>1
  <2>4. CASE ~ (height[u] >= 0)
    <3>1. ~ (height'[u] >= 0)
      BY <2>1, <2>4 DEF Restacks
    <3>2. QED
      BY <1>3, <2>2, <3>1
  <2>5. QED
    BY <2>3, <2>4
<1>5. QED
  BY <1>1, <1>2, <1>3, <1>4 DEF NextOver

\* Only s can come to the top or be taken from it.
LEMMA SameOver ==
  ASSUME StackPart, NEW s \in Slot, Restacks(s), shape' = shape, vx0' = vx0,
         NEW p \in Screen, NEW t \in Slot, NEW u \in Slot, Over(t, p), NextOver(u, p),
         t # s, u # s
  PROVE  t = u
<1>1. /\ Opaque(t, p) /\ Opaque(u, p) /\ NextOpaque(t, p) /\ NextOpaque(u, p)
      /\ height[t] >= 0 /\ height'[u] >= 0
  BY DEF NextOpaque, Opaque, Over, NextOver
<1>2. height[u] >= 0
  BY <1>1 DEF Restacks
<1>3. height[u] <= height[t] /\ height'[t] <= height'[u]
  BY <1>1 DEF Over, NextOver
<1>4. height[u] < height[t] <=> height'[u] < height'[t]
  BY <1>1, <1>2 DEF Restacks
<1>5. height'[u] \in Int /\ height'[t] \in Int /\ height[u] \in Int /\ height[t] \in Int
  BY RestacksNext, Stacked DEF NextStacked
<1>6. height[u] = height[t]
  BY <1>3, <1>4, <1>5
<1>7. QED
  BY <1>1, <1>6, Stacked

LEMMA PicturesMoved ==
  ASSUME StackPart, Pictures, MapIsTop, ScreenShowsTop,
         NEW s \in Slot, Restacks(s), UNCHANGED <<shape, buf, vx0>>,
         NEW h0 \in Nat, NEW hs, Refreshed(s, h0, hs),
         \A p \in Screen, t \in Slot :
            /\ Over(t, p) /\ Opaque(s, p)
            /\ \A u \in Slot : height'[u] >= h0 => ~ NextOpaque(u, p)
            => NextOver(t, p),
         \A p \in Screen, t, u \in Slot :
            Over(t, p) /\ NextOver(u, p) /\ t # u /\ (t = s \/ u = s) => height'[u] \in hs
  PROVE  MapIsTop' /\ ScreenShowsTop' /\ \A p \in Screen : map'[p] \in Slot
<1>. DEFINE area == Area(s, vx0[s])
<1>1. /\ map' = Mapped(map, area, h0) /\ vram' = Drawn(vram, area, hs)
      /\ NextStacked /\ shape' = shape /\ vx0' = vx0 /\ buf' = buf
  BY RestacksNext DEF Refreshed
<1>2. ASSUME NEW p \in Screen
      PROVE  /\ map'[p] \in Slot /\ NextOver(map'[p], p)
             /\ p \notin area => map'[p] = map[p]
  <2>1. map[p] \in Slot /\ Over(map[p], p)
    BY MapIsOver
  <2>2. ASSUME p \notin area PROVE ~ Opaque(s, p)
    <3>1. /\ shape[s].width \in Nat /\ vx0[s] \in Int /\ p \in Int
          /\ shape[s].opaque \subseteq 0 .. shape[s].width - 1
      BY Shaped, XSizeAssumption DEF StackPart, Screen
    <3>2. p - vx0[s] \notin 0 .. shape[s].width - 1
      BY <2>2, <3>1 DEF Area
    <3>3. QED
      BY <3>1, <3>2 DEF Opaque
  <2>3. p \notin area \/ (\A u \in Slot : height'[u] >= h0 => ~ NextOpaque(u, p))
           => map[p] \in Slot /\ NextOver(map[p], p)
    BY <1>1, <2>1, <2>2, StaysOver
  <2>4. /\ Mapped(map, area, h0)[p] \in Slot
        /\ NextOver(Mapped(map, area, h0)[p], p)
        /\ p \notin area => Mapped(map, area, h0)[p] = map[p]
    <3>1. HIDE DEF area
    <3>2. QED
      BY <1>1, <2>3, MappedOver
  <2>5. QED
    BY <1>1, <2>4
<1>3. MapIsTop'
  BY <1>1, <1>2, NextMapIsTop
<1>4. ASSUME NEW p \in Screen PROVE vram'[p] = buf'[map'[p]][p - vx0'[map'[p]]]
  <2>1. map[p] \in Slot /\ Over(map[p], p)
    BY MapIsOver
  <2>2. map'[p] \in Slot /\ NextOver(map'[p], p) /\ (p \notin area => map'[p] = map[p])
    BY <1>2
  <2>3. ASSUME map'[p] # map[p] PROVE p \in area /\ height'[map'[p]] \in hs
    <3>1. p \in area
      BY <2>2, <2>3
    <3>2. map[p] = s \/ map'[p] = s
      BY <1>1, <2>1, <2>2, <2>3, SameOver
    <3>3. QED
      BY <2>1, <2>2, <2>3, <3>1, <3>2
  <2>4. vram[p] = buf[map[p]][p - vx0[map[p]]]
    BY DEF ScreenShowsTop
  <2>5. ~ (p \in area /\ height'[map'[p]] \in hs)
           => vram[p] = buf'[map'[p]][p - vx0'[map'[p]]]
    BY <1>1, <2>3, <2>4
  <2>6. /\ vx0'[map'[p]] \in Int /\ shape[map'[p]].width \in Nat
        /\ shape[map'[p]].opaque \subseteq 0 .. shape[map'[p]].width - 1
    BY <1>1, <2>2, Shaped DEF StackPart
  <2>7. Drawn(vram, area, hs)[p] = buf'[map'[p]][p - vx0'[map'[p]]]
    <3>1. HIDE DEF area
    <3>2. QED
      BY <1>1, <2>2, <2>5, <2>6, DrawnRight
  <2>8. QED
    BY <1>1, <2>7
<1>5. ScreenShowsTop'
  BY <1>4 DEF ScreenShowsTop
<1>6. QED
  BY <1>2, <1>3, <1>5

\* The map and the screen have their types if they are right.
LEMMA PicturesTyped ==
  ASSUME StackPart', MapIsTop', ScreenShowsTop',
         \A p \in Screen : map'[p] \in Slot,
         map' = [p \in Screen |-> map'[p]], vram' = [p \in Screen |-> vram'[p]]
  PROVE  Pictures'
<1>1. ASSUME NEW p \in Screen PROVE map'[p] \in used' /\ vram'[p] \in Colours
  <2>1. /\ p - vx0'[map'[p]] \in shape'[map'[p]].opaque
        /\ height'[map'[p]] >= 0
    BY DEF MapIsTop, Opaque
  <2>2. map'[p] \in used'
    BY <2>1 DEF StackPart, FreeHidden, Hidden
  <2>3. \A k \in Shapes \cup {BackShape} : k.opaque \subseteq 0 .. k.width - 1
    BY ShapesAssumption, XSizeAssumption DEF BackShape, Screen
  <2>4. shape'[map'[p]] \in Shapes \cup {BackShape}
    BY DEF StackPart, StackTypes
  <2>5. p - vx0'[map'[p]] \in 0 .. shape'[map'[p]].width - 1
    BY <2>1, <2>3, <2>4
  <2>6. buf'[map'[p]] \in [0 .. shape'[map'[p]].width - 1 -> Colours]
    BY DEF StackPart, StackTypes
  <2>7. vram'[p] = buf'[map'[p]][p - vx0'[map'[p]]]
    BY DEF ScreenShowsTop
  <2>8. QED
    BY <2>2, <2>5, <2>6, <2>7
<1>2. QED
  BY <1>1 DEF Pictures

LEMMA RestackedStack ==
  ASSUME StackPart, NEW s \in Slot, Restacks(s), UNCHANGED <<shape, buf, vx0>>,
         \/ used' = used /\ s \in used
         \/ used' = used \ {s} /\ height'[s] = Hidden /\ s # Back
  PROVE  StackPart'
<1>1. used' \subseteq Slot /\ Back \in used'
  BY DEF StackPart, StackTypes
<1>2. FreeHidden'
  <2>1. SUFFICES ASSUME NEW u \in Slot, u \notin used' PROVE height'[u] = Hidden
    BY DEF FreeHidden
  <2>2. CASE u = s
    BY <2>1, <2>2
  <2>3. CASE u # s
    <3>1. height[u] = Hidden
      BY <2>1, <2>3 DEF StackPart, FreeHidden
    <3>2. ~ (height'[u] >= 0)
      BY <2>3, <3>1 DEF Restacks, Hidden
    <3>3. height'[u] \in -1 .. MaxSheets - 1 /\ MaxSheets \in Nat
      BY MaxSheetsAssumption DEF Restacks
    <3>4. QED
      BY <3>2, <3>3 DEF Hidden
  <2>4. QED
    BY <2>2, <2>3
<1>3. sheets' \in [0 .. top' -> used']
  <2>1. \A i \in 0 .. top' : sheets'[i] \in Slot /\ height'[sheets'[i]] = i
    BY DEF Restacks, Ordered
  <2>2. \A i \in 0 .. top' : i >= 0 /\ i # Hidden
    BY MaxSheetsAssumption DEF Restacks, Hidden
  <2>3. \A i \in 0 .. top' : sheets'[i] \in used'
    BY <1>2, <2>1, <2>2 DEF FreeHidden
  <2>4. QED
    BY <2>3 DEF Restacks
<1>4. StackTypes'
  BY <1>1, <1>3 DEF StackPart, StackTypes, Restacks
<1>5. Ordered' /\ BackShown'
  BY DEF StackPart, BackShown, Restacks
<1>6. QED
  BY <1>2, <1>4, <1>5 DEF StackPart

LEMMA Restacked ==
  ASSUME StackPart, NEW s \in Slot, Restacks(s), UNCHANGED <<shape, buf, vx0>>,
         NEW h0, NEW hs, Refreshed(s, h0, hs),
         \/ used' = used /\ s \in used
         \/ used' = used \ {s} /\ height'[s] = Hidden /\ s # Back,
         MapIsTop', ScreenShowsTop', \A p \in Screen : map'[p] \in Slot
  PROVE  IInv'
<1>1. StackPart'
  BY RestackedStack
<1>2. map' = [p \in Screen |-> map'[p]] /\ vram' = [p \in Screen |-> vram'[p]]
  BY DEF Refreshed, Mapped, Drawn
<1>3. Pictures'
  BY <1>1, <1>2, PicturesTyped
<1>4. QED
  BY <1>1, <1>3 DEF IInv

LEMMA LowerStep ==
  ASSUME IInv, NEW s \in used, NEW h \in Int, Lower(s, h),
         UNCHANGED <<used, shape, buf, vx0>>
  PROVE  IInv'
<1>1. /\ StackPart /\ Pictures /\ MapIsTop /\ ScreenShowsTop
      /\ s \in Slot
  BY DEF IInv, StackPart, StackTypes
<1>2. /\ Restacks(s)
      /\ h \in 0 .. height[s] - 1 /\ height'[s] = h
      /\ \A u \in Slot \ {s} : height[u] \in 0 .. h - 1 \/ height'[u] \in 0 .. h - 1
                                 => height'[u] = height[u]
      /\ \A u \in Slot \ {s} : height[u] < height[s] => height'[u] <= height[s]
  BY <1>1, LowerRestacks
<1>3. h + 1 \in Nat /\ Refreshed(s, h + 1, h + 1 .. height[s])
  BY <1>2 DEF Lower
<1>4. \A u \in Slot : height[u] \in Int /\ height'[u] \in Int
  BY <1>1, <1>2, RestacksNext, Stacked DEF NextStacked
<1>5. \A p \in Screen : \A u \in Slot : NextOpaque(u, p) <=> Opaque(u, p)
  BY DEF NextOpaque, Opaque
\* When no sheet above h is at p, the sheet on top is s itself, or it lies
\* below h, where nothing has moved.
<1>6. ASSUME NEW p \in Screen, NEW t \in Slot, Over(t, p), Opaque(s, p),
             \A u \in Slot : height'[u] >= h + 1 => ~ NextOpaque(u, p)
      PROVE  NextOver(t, p)
  <2>1. Opaque(t, p) /\ NextOpaque(t, p) /\ height[t] >= 0 /\ height[s] <= height[t]
    BY <1>1, <1>5, <1>6 DEF Over
  <2>2. t = s
    <3>1. SUFFICES ASSUME t # s PROVE FALSE
      OBVIOUS
    <3>2. height'[t] >= 0 /\ ~ (height'[t] >= h + 1)
      BY <1>2, <1>6, <2>1, <3>1 DEF Restacks
    <3>3. height'[t] # h
      BY <1>1, <1>2, <1>4, <3>1 DEF Restacks, Ordered
    <3>4. height'[t] \in 0 .. h - 1
      BY <1>1, <1>2, <1>4, <3>2, <3>3
    <3>5. height'[t] = height[t]
      BY <1>2, <3>1, <3>4
    <3>6. QED
      BY <1>1, <1>2, <1>4, <2>1, <3>4, <3>5
  <2>3. ASSUME NEW u \in Slot, NextOpaque(u, p) PROVE height'[u] <= height'[t]
    BY <1>1, <1>2, <1>4, <1>6, <2>2, <2>3
  <2>4. height'[t] >= 0
    BY <1>2, <2>2
  <2>5. QED
    BY <2>1, <2>3, <2>4 DEF NextOver
<1>7. ASSUME NEW p \in Screen, NEW t \in Slot, NEW u \in Slot,
             Over(t, p), NextOver(u, p), t # u, t = s \/ u = s
      PROVE  height'[u] \in h + 1 .. height[s]
  <2>1. /\ Opaque(t, p) /\ Opaque(u, p) /\ NextOpaque(t, p) /\ NextOpaque(u, p)
        /\ height[t] >= 0 /\ height'[u] >= 0
    BY <1>5, <1>7 DEF Over, NextOver
  <2>2. height[u] <= height[t] /\ height'[t] <= height'[u]
    BY <1>7, <2>1 DEF Over, NextOver
  <2>3. CASE t = s
    <3>1. height[u] # height[s]
      <4>1. height[s] >= 0
        BY <1>1, <1>2, <1>4
      <4>2. QED
        BY <1>1, <1>7, <2>3, <4>1, Stacked
    <3>2. height'[u] <= height[s]
      BY <1>1, <1>2, <1>4, <1>7, <2>2, <2>3, <3>1
    <3>3. height'[u] # h
      BY <1>1, <1>2, <1>7, <2>3 DEF Restacks, Ordered
    <3>4. QED
      BY <1>1, <1>2, <1>4, <2>2, <2>3, <3>2, <3>3
  <2>4. CASE u = s
    <3>1. t # s /\ height[t] > h
      BY <1>1, <1>2, <1>4, <1>7, <2>2, <2>4
    <3>2. height'[t] >= 0 /\ height'[t] <= h
      BY <1>2, <2>1, <2>2, <2>4, <3>1 DEF Restacks
    <3>3. height'[t] # h
      BY <1>1, <1>2, <3>1 DEF Restacks, Ordered
    <3>4. height'[t] \in 0 .. h - 1
      BY <1>1, <1>2, <1>4, <3>2, <3>3
    <3>5. height'[t] = height[t]
      BY <1>2, <3>1, <3>4
    <3>6. QED
      BY <1>1, <1>2, <1>4, <3>1, <3>2, <3>5
  <2>5. QED
    BY <1>7, <2>3, <2>4
<1>8. MapIsTop' /\ ScreenShowsTop' /\ \A p \in Screen : map'[p] \in Slot
  BY <1>1, <1>2, <1>3, <1>6, <1>7, PicturesMoved
<1>9. QED
  BY <1>1, <1>2, <1>3, <1>8, Restacked

\* Hide is called by sheet_updown and by sheet_free.
LEMMA HideStep ==
  ASSUME IInv, NEW s \in used \ {Back}, Hide(s), UNCHANGED <<shape, buf, vx0>>,
         used' = used \/ used' = used \ {s}
  PROVE  IInv'
<1>1. /\ StackPart /\ Pictures /\ MapIsTop /\ ScreenShowsTop
      /\ s \in Slot \ {Back} /\ s \in Slot /\ Back \in Slot
  BY Stacked DEF IInv, StackPart, StackTypes
<1>2. /\ Restacks(s)
      /\ height[s] \in 0 .. top /\ height'[s] = Hidden
      /\ \A u \in Slot \ {s} : height[u] < height[s] => height'[u] = height[u]
  BY <1>1, HideRestacks
<1>3. Refreshed(s, 0, 0 .. height[s] - 1)
  BY DEF Hide
<1>4. \A u \in Slot : height[u] \in Int /\ height'[u] \in Int
  BY <1>1, <1>2, RestacksNext, Stacked DEF NextStacked
<1>5. \A p \in Screen : \A u \in Slot : NextOpaque(u, p) <=> Opaque(u, p)
  BY DEF NextOpaque, Opaque
\* The background is at every pixel, so that there is always a sheet to draw.
<1>6. ASSUME NEW p \in Screen, \A u \in Slot : height'[u] >= 0 => ~ NextOpaque(u, p)
      PROVE  FALSE
  <2>1. Opaque(Back, p)
    BY <1>1, XSizeAssumption DEF StackPart, BackShown, Opaque, BackShape, Screen
  <2>2. height'[Back] >= 0
    BY <1>2 DEF Restacks
  <2>3. QED
    BY <1>1, <1>5, <1>6, <2>1, <2>2
<1>7. ASSUME NEW p \in Screen, NEW t \in Slot, NEW u \in Slot,
             Over(t, p), NextOver(u, p), t # u, t = s \/ u = s
      PROVE  height'[u] \in 0 .. height[s] - 1
  <2>1. /\ Opaque(t, p) /\ Opaque(u, p) /\ height[t] >= 0 /\ height'[u] >= 0
    BY <1>5, <1>7 DEF Over, NextOver
  <2>2. u # s /\ t = s
    BY <1>2, <1>7, <2>1 DEF Hidden
  <2>3. height[u] <= height[s] /\ height[u] # height[s]
    BY <1>1, <1>7, <2>1, <2>2, Stacked DEF Over
  <2>4. height'[u] = height[u]
    BY <1>1, <1>2, <1>4, <2>2, <2>3
  <2>5. QED
    BY <1>1, <1>4, <2>1, <2>3, <2>4
<1>8. MapIsTop' /\ ScreenShowsTop' /\ \A p \in Screen : map'[p] \in Slot
  BY <1>1, <1>2, <1>3, <1>6, <1>7, PicturesMoved
<1>9. QED
  BY <1>1, <1>2, <1>3, <1>8, Restacked

\* Raise and Show put s at h, and refresh what is there.
LEMMA PutStep ==
  ASSUME IInv, NEW s \in used, NEW h \in Int, h >= 0, Restacks(s), height'[s] = h,
         Refreshed(s, h, {h}), UNCHANGED <<used, shape, buf, vx0>>,
         height[s] < h,
         height[s] >= 0 =>
            \A u \in Slot \ {s} : height[u] < height[s] => height'[u] = height[u]
  PROVE  IInv'
<1>1. /\ StackPart /\ Pictures /\ MapIsTop /\ ScreenShowsTop
      /\ s \in Slot /\ h \in Nat
  BY Stacked DEF IInv, StackPart, StackTypes
<1>2. \A u \in Slot : height[u] \in Int /\ height'[u] \in Int
  BY <1>1, RestacksNext, Stacked DEF NextStacked
<1>3. \A p \in Screen : \A u \in Slot : NextOpaque(u, p) <=> Opaque(u, p)
  BY DEF NextOpaque, Opaque
<1>4. ASSUME NEW p \in Screen, Opaque(s, p),
             \A u \in Slot : height'[u] >= h => ~ NextOpaque(u, p)
      PROVE  FALSE
  BY <1>1, <1>3, <1>4
<1>5. ASSUME NEW p \in Screen, NEW t \in Slot, NEW u \in Slot,
             Over(t, p), NextOver(u, p), t # u, t = s \/ u = s
      PROVE  height'[u] \in {h}
  <2>1. SUFFICES ASSUME u # s PROVE FALSE
    OBVIOUS
  <2>2. /\ t = s /\ Opaque(s, p) /\ NextOpaque(s, p) /\ Opaque(u, p)
        /\ height[s] >= 0 /\ height'[u] >= 0
    BY <1>3, <1>5, <2>1 DEF Over, NextOver
  <2>3. height[u] <= height[s] /\ h <= height'[u] /\ height[u] # height[s]
    BY <1>1, <1>5, <2>2, Stacked DEF Over, NextOver
  <2>4. height'[u] = height[u]
    BY <1>1, <1>2, <2>1, <2>2, <2>3
  <2>5. QED
    BY <1>1, <1>2, <2>3, <2>4
<1>6. MapIsTop' /\ ScreenShowsTop' /\ \A p \in Screen : map'[p] \in Slot
  BY <1>1, <1>4, <1>5, PicturesMoved
<1>7. QED
  BY <1>1, <1>6, Restacked

LEMMA UpDownStep ==
  ASSUME IInv, NEW s \in used, UpDown(s)
  PROVE  IInv' /\ Restacks(s)
<1>1. PICK a \in Asked(s) :
         LET h == IF a > top + 1 THEN top + 1 ELSE a
         IN  /\ UNCHANGED <<used, shape, buf, vx0>>
             /\ \/ Lower(s, h)
                \/ h = Hidden /\ Hide(s)
                \/ Raise(s, h)
                \/ Show(s, h)
  BY DEF UpDown
<1>2. /\ StackPart /\ s \in Slot /\ top \in Nat /\ height[s] \in Int /\ height[s] >= -1
      /\ Back \in Slot /\ height[Back] >= 0 /\ (height[s] >= 0 => height[s] <= top)
      /\ height[Back] \in 0 .. top
  BY Stacked DEF IInv, StackPart, StackTypes
<1>3. /\ a \in Int
      /\ height[s] # Hidden => a \in {-1, 1, top - 1, top}
      /\ s = Back => height[Back] > 0 /\ a = top - 1
  <2>1. CASE height[s] = Hidden
    BY <1>2, <2>1 DEF Asked, Hidden
  <2>2. CASE height[s] >= 0 /\ s # Back
    BY <1>2, <2>2 DEF Asked, Hidden
  <2>3. CASE height[s] > 0 /\ s = Back
    BY <1>2, <2>3 DEF Asked, Hidden
  <2>4. CASE height[s] = 0 /\ s = Back
    <3>1. Asked(s) = {}
      BY <2>4 DEF Asked, Hidden
    <3>2. QED
      BY <3>1
  <2>5. \/ height[s] = Hidden
        \/ height[s] >= 0 /\ s # Back
        \/ height[s] > 0 /\ s = Back
        \/ height[s] = 0 /\ s = Back
    BY <1>2 DEF Hidden
  <2>6. QED
    BY <2>1, <2>2, <2>3, <2>4, <2>5
<1>4. height[s] >= 0 => top >= 1
  <2>1. ASSUME height[s] >= 0, top = 0 PROVE FALSE
    <3>1. height[s] = 0 /\ height[Back] = 0
      BY <1>2, <2>1
    <3>2. s = Back
      BY <1>2, <3>1, Stacked
    <3>3. QED
      BY <1>3, <3>1, <3>2
  <2>2. QED
    BY <1>2, <2>1
<1>5. PICK h \in Int : h = IF a > top + 1 THEN top + 1 ELSE a
  BY <1>2, <1>3
<1>6. /\ h <= top + 1 /\ (height[s] >= 0 => h <= top)
      /\ UNCHANGED <<used, shape, buf, vx0>>
      /\ \/ Lower(s, h)
         \/ Hide(s) /\ s # Back
         \/ Raise(s, h)
         \/ Show(s, h)
  BY <1>1, <1>2, <1>3, <1>4, <1>5 DEF Hidden
<1>7. CASE Lower(s, h)
  BY <1>2, <1>6, <1>7, LowerRestacks, LowerStep
<1>8. CASE Hide(s) /\ s # Back
  BY <1>2, <1>6, <1>8, HideRestacks, HideStep
<1>9. CASE Raise(s, h)
  <2>1. height[s] >= 0
    BY <1>9 DEF Raise
  <2>2. /\ Restacks(s)
        /\ height[s] >= 0 /\ h >= 0 /\ height'[s] = h /\ height[s] < h
        /\ \A u \in Slot \ {s} : height[u] < height[s] => height'[u] = height[u]
    BY <1>2, <1>6, <1>9, <2>1, RaiseRestacks
  <2>3. Refreshed(s, h, {h})
    BY <1>9 DEF Raise
  <2>4. QED
    BY <1>6, <2>2, <2>3, PutStep
<1>10. CASE Show(s, h)
  <2>1. Restacks(s) /\ height[s] = Hidden /\ h >= 0 /\ height'[s] = h
    BY <1>2, <1>6, <1>10, ShowRestacks
  <2>2. Refreshed(s, h, {h})
    BY <1>10 DEF Show
  <2>3. height[s] < h /\ ~ (height[s] >= 0)
    BY <2>1 DEF Hidden
  <2>4. QED
    BY <1>6, <2>1, <2>2, <2>3, PutStep
<1>11. QED
  BY <1>6, <1>7, <1>8, <1>9, <1>10

-----------------------------------------------------------------------------
(* The operations that leave the stack as it is. *)

LEMMA SameStack ==
  ASSUME StackPart, UNCHANGED stack
  PROVE  NextStacked
  BY Stacked DEF StackPart, StackTypes, Ordered, NextStacked, stack

LEMMA AllocStep ==
  ASSUME IInv, Alloc
  PROVE  IInv' /\ UNCHANGED height
<1>1. StackPart /\ Pictures /\ MapIsTop /\ ScreenShowsTop
  BY DEF IInv
<1>2. PICK s \in Slot \ used, k \in Shapes, c \in Colours :
        /\ used' = used \cup {s}
        /\ height' = [height EXCEPT ![s] = Hidden]
        /\ shape' = [shape EXCEPT ![s] = k]
        /\ buf' = [buf EXCEPT ![s] = [i \in 0 .. k.width - 1 |-> c]]
        /\ UNCHANGED <<vx0, top, sheets, map, vram>>
  BY DEF Alloc
<1>3. height' = height
  <2>1. height[s] = Hidden /\ height \in [Slot -> -1 .. MaxSheets - 1]
    BY <1>1, <1>2 DEF StackPart, FreeHidden, StackTypes
  <2>2. QED
    BY <1>2, <2>1
<1>4. /\ s # Back /\ s \in Slot
      /\ shape'[s] = k /\ \A u \in Slot : u # s => shape'[u] = shape[u]
      /\ buf'[s] = [i \in 0 .. k.width - 1 |-> c] /\ \A u \in Slot : u # s => buf'[u] = buf[u]
  <2>1. s # Back /\ s \in Slot
    BY <1>1, <1>2 DEF StackPart, StackTypes
  <2>2. shape'[s] = k /\ \A u \in Slot : u # s => shape'[u] = shape[u]
    BY <1>1, <1>2 DEF StackPart, StackTypes
  <2>3. buf' = [u \in Slot |-> IF u = s THEN [i \in 0 .. k.width - 1 |-> c] ELSE buf[u]]
    BY <1>1, <1>2, <2>1 DEF StackPart, StackTypes
  <2>4. buf'[s] = [i \in 0 .. k.width - 1 |-> c] /\ \A u \in Slot : u # s => buf'[u] = buf[u]
    BY <2>1, <2>3
  <2>5. QED
    BY <2>1, <2>2, <2>4
<1>5. StackPart'
  <2>1. used' \subseteq Slot /\ Back \in used' /\ sheets' \in [0 .. top' -> used']
    BY <1>1, <1>2 DEF StackPart, StackTypes
  <2>2. shape' \in [Slot -> Shapes \cup {BackShape}]
    BY <1>1, <1>2 DEF StackPart, StackTypes
  <2>3. \A u \in Slot : buf'[u] \in [0 .. shape'[u].width - 1 -> Colours]
    <3>1. buf'[s] \in [0 .. shape'[s].width - 1 -> Colours]
      BY <1>1, <1>4
    <3>2. ASSUME NEW u \in Slot, u # s
          PROVE  buf'[u] \in [0 .. shape'[u].width - 1 -> Colours]
      <4>1. buf[u] \in [0 .. shape[u].width - 1 -> Colours]
        BY <1>1 DEF StackPart, StackTypes
      <4>2. QED
        BY <1>4, <3>2, <4>1
    <3>3. QED
      BY <3>1, <3>2
  <2>4. StackTypes'
    <3>1. DOMAIN buf' = Slot /\ buf' = [u \in Slot |-> buf'[u]]
      BY <1>1, <1>2 DEF StackPart, StackTypes
    <3>2. QED
      BY <1>1, <1>2, <1>3, <2>1, <2>2, <2>3, <3>1 DEF StackPart, StackTypes
  <2>5. Ordered' /\ FreeHidden'
    BY <1>1, <1>2, <1>3 DEF StackPart, Ordered, FreeHidden
  <2>6. BackShown'
    <3>1. Back \in Slot
      BY <1>1, Stacked
    <3>2. QED
      BY <1>1, <1>2, <1>3, <1>4, <3>1 DEF StackPart, BackShown
  <2>7. QED
    BY <2>4, <2>5, <2>6 DEF StackPart
<1>6. ASSUME NEW p \in Screen
      PROVE  /\ map'[p] \in Slot /\ NextOver(map'[p], p)
             /\ vram'[p] = buf'[map'[p]][p - vx0'[map'[p]]]
  <2>1. map[p] \in Slot /\ Over(map[p], p) /\ map'[p] = map[p] /\ map[p] # s
    BY <1>1, <1>2, MapIsOver DEF Pictures
  <2>2. \A u \in Slot : u # s => (NextOpaque(u, p) <=> Opaque(u, p))
    BY <1>2, <1>4 DEF NextOpaque, Opaque
  <2>3. height'[map[p]] >= 0 /\ height'[s] = -1 /\ height'[map[p]] \in Int
    BY <1>1, <1>2, <1>3, <2>1, Stacked DEF Over, StackPart, FreeHidden, Hidden
  <2>4. NextOver(map[p], p)
    <3>1. NextOpaque(map[p], p)
      BY <2>1, <2>2 DEF Over
    <3>2. ASSUME NEW u \in Slot, NextOpaque(u, p) PROVE height'[u] <= height'[map[p]]
      <4>1. CASE u = s
        BY <2>3, <4>1
      <4>2. CASE u # s
        BY <1>3, <2>1, <2>2, <3>2, <4>2 DEF Over
      <4>3. QED
        BY <4>1, <4>2
    <3>3. QED
      BY <2>3, <3>1, <3>2 DEF NextOver
  <2>5. vram[p] = buf[map[p]][p - vx0[map[p]]]
    BY <1>1 DEF ScreenShowsTop
  <2>6. QED
    BY <1>2, <1>4, <2>1, <2>4, <2>5
<1>7. MapIsTop'
  BY <1>1, <1>2, <1>3, <1>6, SameStack, NextMapIsTop DEF stack
<1>8. ScreenShowsTop'
  BY <1>6 DEF ScreenShowsTop
<1>9. Pictures'
  BY <1>1, <1>2 DEF Pictures
<1>10. QED
  BY <1>3, <1>5, <1>7, <1>8, <1>9 DEF IInv

LEMMA FreeStep ==
  ASSUME IInv, NEW s \in used \ {Back}, Free(s)
  PROVE  IInv' /\ (UNCHANGED height \/ Restacks(s))
<1>1. /\ used' = used \ {s} /\ UNCHANGED <<shape, buf, vx0>>
      /\ StackPart /\ Pictures /\ MapIsTop /\ ScreenShowsTop /\ s \in Slot \ {Back}
  BY DEF Free, IInv, StackPart, StackTypes
<1>2. CASE height[s] >= 0
  <2>1. Hide(s)
    BY <1>2 DEF Free
  <2>2. QED
    BY <1>1, <2>1, HideStep, HideRestacks
<1>3. CASE ~ (height[s] >= 0)
  <2>1. UNCHANGED <<stack, map, vram>>
    BY <1>3 DEF Free
  <2>2. height' = height /\ top' = top /\ sheets' = sheets /\ map' = map /\ vram' = vram
    BY <2>1 DEF stack
  <2>3. height[s] = Hidden
    BY <1>1, <1>3, Stacked DEF Hidden
  <2>4. \A h \in 0 .. top : sheets[h] # s
    <3>1. \A h \in 0 .. top : height[sheets[h]] = h /\ h >= 0
      BY <1>1, Stacked
    <3>2. QED
      BY <1>3, <3>1
  <2>5. \A p \in Screen : map[p] # s
    BY <1>1, <1>3 DEF MapIsTop
  <2>6. StackTypes'
    BY <1>1, <2>2, <2>4 DEF StackPart, StackTypes
  <2>7. Ordered' /\ BackShown' /\ FreeHidden'
    BY <1>1, <2>2, <2>3 DEF StackPart, Ordered, BackShown, FreeHidden
  <2>8. Pictures'
    BY <1>1, <2>2, <2>5 DEF Pictures
  <2>9. MapIsTop' /\ ScreenShowsTop'
    BY <1>1, <2>2 DEF MapIsTop, ScreenShowsTop, Opaque
  <2>10. QED
    BY <2>2, <2>6, <2>7, <2>8, <2>9 DEF IInv, StackPart
<1>4. QED
  BY <1>2, <1>3

LEMMA PaintStep ==
  ASSUME IInv, NEW s \in used, Paint(s)
  PROVE  IInv' /\ UNCHANGED height
<1>1. StackPart /\ Pictures /\ MapIsTop /\ ScreenShowsTop /\ s \in Slot
  BY DEF IInv, StackPart, StackTypes
<1>2. PICK i \in shape[s].opaque, c \in Colours :
        /\ buf' = [buf EXCEPT ![s][i] = c]
        /\ UNCHANGED <<used, shape, vx0, stack, map>>
        /\ vram' = IF height[s] >= 0
                   THEN Drawn(vram, {vx0[s] + i}, {height[s]})
                   ELSE vram
  BY DEF Paint
<1>3. /\ used' = used /\ shape' = shape /\ vx0' = vx0 /\ height' = height /\ top' = top
      /\ sheets' = sheets /\ map' = map
  BY <1>2 DEF stack
<1>4. /\ buf'[s] = [buf[s] EXCEPT ![i] = c]
      /\ \A u \in Slot : u # s => buf'[u] = buf[u]
      /\ i \in 0 .. shape[s].width - 1 /\ vx0[s] \in Int
      /\ \A u \in Slot : buf[u] \in [0 .. shape[u].width - 1 -> Colours]
  <2>1. i \in 0 .. shape[s].width - 1 /\ vx0[s] \in Int
    BY <1>1, Shaped DEF StackPart
  <2>2. buf' = [buf EXCEPT ![s] = [buf[s] EXCEPT ![i] = c]]
        /\ DOMAIN buf = Slot /\ buf = [u \in Slot |-> buf[u]]
    BY <1>1, <1>2 DEF StackPart, StackTypes
  <2>3. \A u \in Slot : buf[u] \in [0 .. shape[u].width - 1 -> Colours]
    BY <1>1 DEF StackPart, StackTypes
  <2>4. buf' = [u \in Slot |-> IF u = s THEN [buf[s] EXCEPT ![i] = c] ELSE buf[u]]
    BY <2>2
  <2>5. QED
    BY <1>1, <2>1, <2>3, <2>4
<1>5. StackPart'
  <2>1. ASSUME NEW u \in Slot PROVE buf'[u] \in [0 .. shape'[u].width - 1 -> Colours]
    <3>1. buf[u] \in [0 .. shape[u].width - 1 -> Colours] /\ shape'[u] = shape[u]
      BY <1>3, <1>4
    <3>2. CASE u = s
      <4>1. [buf[s] EXCEPT ![i] = c] \in [0 .. shape[s].width - 1 -> Colours]
        BY <1>2, <3>1, <3>2
      <4>2. QED
        BY <1>4, <3>1, <3>2, <4>1
    <3>3. CASE u # s
      BY <1>4, <3>1, <3>3
    <3>4. QED
      BY <3>2, <3>3
  <2>2. DOMAIN buf' = Slot /\ buf' = [u \in Slot |-> buf'[u]]
    BY <1>1, <1>2 DEF StackPart, StackTypes
  <2>3. QED
    BY <1>1, <1>3, <2>1, <2>2 DEF StackPart, StackTypes, Ordered, BackShown, FreeHidden
<1>6. MapIsTop'
  BY <1>1, <1>3 DEF MapIsTop, Opaque
<1>7. ASSUME NEW p \in Screen PROVE vram'[p] = buf'[map'[p]][p - vx0'[map'[p]]]
  <2>1. /\ map[p] \in Slot /\ Over(map[p], p) /\ p \in Int
        /\ vram[p] = buf[map[p]][p - vx0[map[p]]]
    BY <1>1, MapIsOver, XSizeAssumption DEF ScreenShowsTop, Screen
  <2>2. CASE map[p] # s
    <3>1. vram'[p] = vram[p]
      <4>1. CASE height[s] >= 0
        <5>1. sheets[height[s]] = s
          BY <1>1, <4>1, Stacked
        <5>2. vram' = Drawn(vram, {vx0[s] + i}, {height[s]})
          BY <1>2, <4>1
        <5>3. Drawn(vram, {vx0[s] + i}, {height[s]})[p] = vram[p]
          BY <1>3, <2>2, <5>1 DEF Drawn
        <5>4. QED
          BY <5>2, <5>3
      <4>2. CASE ~ (height[s] >= 0)
        BY <1>2, <4>2
      <4>3. QED
        BY <4>1, <4>2
    <3>2. QED
      BY <1>3, <1>4, <2>1, <2>2, <3>1
  <2>3. CASE map[p] = s
    <3>1. height[s] >= 0 /\ vram' = Drawn(vram, {vx0[s] + i}, {height[s]})
      BY <1>2, <2>1, <2>3 DEF Over
    <3>2. NextStacked /\ NextOver(map'[p], p)
      BY <1>1, <1>2, <1>3, <2>1, SameStack
      DEF Over, NextOver, NextOpaque, Opaque
    <3>3. p # vx0[s] + i => vram[p] = buf'[s][p - vx0[s]]
      <4>1. SUFFICES ASSUME p # vx0[s] + i PROVE vram[p] = buf'[s][p - vx0[s]]
        OBVIOUS
      <4>2. p - vx0[s] # i /\ i \in Int
        BY <1>4, <2>1, <4>1
      <4>3. p - vx0[s] \in 0 .. shape[s].width - 1
        BY <1>1, <2>1, <2>3, Shaped DEF Over, Opaque, StackPart
      <4>4. buf'[s][p - vx0[s]] = buf[s][p - vx0[s]]
        BY <1>1, <1>4, <4>2, <4>3
      <4>5. QED
        BY <2>1, <2>3, <4>4
    <3>4. Drawn(vram, {vx0[s] + i}, {height[s]})[p] = buf'[map'[p]][p - vx0'[map'[p]]]
      <4>1. /\ map'[p] \in Slot /\ vx0'[map'[p]] \in Int /\ shape[map'[p]].width \in Nat
            /\ shape[map'[p]].opaque \subseteq 0 .. shape[map'[p]].width - 1
        BY <1>1, <1>3, <2>1, <2>3, Shaped DEF StackPart
      <4>2. /\ p \notin {vx0[s] + i} => vram[p] = buf'[map'[p]][p - vx0'[map'[p]]]
            /\ height'[map'[p]] \in {height[s]} /\ shape' = shape
        BY <1>3, <2>3, <3>3
      <4>3. QED
        BY <3>2, <4>1, <4>2, DrawnRight
    <3>5. QED
      BY <3>1, <3>4
  <2>4. QED
    BY <2>2, <2>3
<1>8. ScreenShowsTop'
  BY <1>7 DEF ScreenShowsTop
<1>9. Pictures'
  <2>1. \A p \in Screen : map'[p] \in Slot
    BY <1>1, <1>3, MapIsOver
  <2>2. map' = [p \in Screen |-> map'[p]]
    BY <1>1, <1>3 DEF Pictures
  <2>3. vram' = [p \in Screen |-> vram'[p]]
    BY <1>1, <1>2 DEF Pictures, Drawn
  <2>4. QED
    BY <1>5, <1>6, <1>8, <2>1, <2>2, <2>3, PicturesTyped
<1>10. QED
  BY <1>3, <1>5, <1>6, <1>8, <1>9 DEF IInv

\* Only s moves, so that any other sheet is on top before if it is so after,
\* where s is transparent.
LEMMA SlideStep ==
  ASSUME IInv, NEW s \in used \ {Back}, NEW x \in Positions, Slide(s, x)
  PROVE  IInv' /\ UNCHANGED height
<1>1. /\ StackPart /\ Pictures /\ MapIsTop /\ ScreenShowsTop /\ s \in Slot
      /\ s # Back /\ x \in Int
  BY PositionsAssumption DEF IInv, StackPart, StackTypes
<1>2. /\ vx0' = [vx0 EXCEPT ![s] = x]
      /\ used' = used /\ shape' = shape /\ buf' = buf
      /\ height' = height /\ top' = top /\ sheets' = sheets /\ UNCHANGED stack
  BY DEF Slide, stack
<1>3. vx0'[s] = x /\ \A u \in Slot : u # s => vx0'[u] = vx0[u]
  BY <1>1, <1>2 DEF StackPart, StackTypes
<1>4. StackPart'
  <2>1. vx0' \in [Slot -> Positions]
    BY <1>1, <1>2 DEF StackPart, StackTypes
  <2>2. BackShown'
    BY <1>1, <1>2, <1>3, Stacked DEF StackPart, BackShown
  <2>3. QED
    BY <1>1, <1>2, <2>1, <2>2 DEF StackPart, StackTypes, Ordered, FreeHidden
<1>5. NextStacked
  BY <1>1, <1>2, SameStack
<1>6. \A p \in Screen : \A u \in Slot : u # s => (NextOpaque(u, p) <=> Opaque(u, p))
  BY <1>2, <1>3 DEF NextOpaque, Opaque
<1>7. \A u \in Slot : /\ height[u] \in Int /\ vx0'[u] \in Int
                      /\ shape[u].width \in Nat
                      /\ shape[u].opaque \subseteq 0 .. shape[u].width - 1
  BY <1>1, <1>2, <1>4, Shaped, Stacked, PositionsAssumption DEF StackPart, StackTypes
\* Where s is at p neither before nor after the move, t stays on top.
<1>8. ASSUME NEW p \in Screen, NEW t \in Slot, t # s, Over(t, p),
             height[s] >= 0 => ~ NextOpaque(s, p)
      PROVE  NextOver(t, p)
  <2>1. NextOpaque(t, p) /\ height'[t] >= 0
    BY <1>2, <1>6, <1>8 DEF Over
  <2>2. ASSUME NEW u \in Slot, NextOpaque(u, p) PROVE height'[u] <= height'[t]
    BY <1>1, <1>2, <1>6, <1>7, <1>8, <2>2 DEF Over
  <2>3. QED
    BY <2>1, <2>2 DEF NextOver
<1>9. CASE ~ (height[s] >= 0)
  <2>1. map' = map /\ vram' = vram
    BY <1>9 DEF Slide
  <2>2. ASSUME NEW p \in Screen
        PROVE  /\ map'[p] \in Slot /\ NextOver(map'[p], p)
               /\ vram'[p] = buf'[map'[p]][p - vx0'[map'[p]]]
    <3>1. map[p] \in Slot /\ Over(map[p], p)
      BY <1>1, MapIsOver
    <3>2. map[p] # s
      BY <1>9, <3>1 DEF Over
    <3>3. NextOver(map[p], p)
      BY <1>8, <1>9, <3>1, <3>2
    <3>4. vram[p] = buf[map[p]][p - vx0[map[p]]]
      BY <1>1 DEF ScreenShowsTop
    <3>5. QED
      BY <1>2, <1>3, <2>1, <3>1, <3>2, <3>3, <3>4
  <2>3. MapIsTop' /\ ScreenShowsTop'
    BY <1>5, <2>2, NextMapIsTop DEF ScreenShowsTop
  <2>4. Pictures'
    BY <1>1, <1>2, <2>1 DEF Pictures
  <2>5. QED
    BY <1>2, <1>4, <2>3, <2>4 DEF IInv
<1>10. CASE height[s] >= 0
  <2>. DEFINE from == Area(s, vx0[s])
              into == Area(s, x)
              map1 == Mapped(map, from, 0)
              vram1 == Drawn(vram, from, 0 .. height[s] - 1)
  <2>1. map' = Mapped(map1, into, height[s]) /\ vram' = Drawn(vram1, into, {height[s]})
    BY <1>10 DEF Slide
  <2>2. ASSUME NEW p \in Screen
        PROVE  /\ p \notin from => ~ Opaque(s, p)
               /\ p \notin into => ~ NextOpaque(s, p)
    <3>1. p \in Int /\ vx0[s] \in Int
      BY <1>1, XSizeAssumption, Shaped DEF Screen, StackPart
    <3>2. ASSUME NEW y \in Int, p \notin Area(s, y) PROVE p - y \notin shape[s].opaque
      <4>1. p - y \notin 0 .. shape[s].width - 1
        BY <1>1, <1>7, <3>1, <3>2 DEF Area
      <4>2. QED
        BY <1>1, <1>7, <4>1
    <3>3. QED
      BY <1>1, <1>2, <1>3, <3>1, <3>2 DEF Opaque, NextOpaque
  \* The background is at every pixel that s leaves.
  <2>3. ASSUME NEW p \in Screen
        PROVE  /\ map1[p] \in Slot
               /\ p \notin from => map1[p] = map[p]
               /\ p \in from => NextOver(map1[p], p)
    <3>1. map[p] \in Slot /\ Over(map[p], p)
      BY <1>1, MapIsOver
    <3>2. Back \in Slot /\ height[Back] >= 0 /\ Opaque(Back, p) /\ NextOpaque(Back, p)
      <4>1. Back \in Slot /\ height[Back] >= 0
        BY <1>1, Stacked
      <4>2. Opaque(Back, p)
        BY <1>1, XSizeAssumption DEF StackPart, BackShown, Opaque, BackShape, Screen
      <4>3. QED
        BY <1>1, <1>6, <4>1, <4>2
    <3>3. CASE p \in from
      <4>1. p \notin from \/ (\A u \in Slot : height'[u] >= 0 => ~ NextOpaque(u, p))
              => map[p] \in Slot /\ NextOver(map[p], p)
        BY <1>2, <3>2, <3>3
      <4>2. map1[p] \in Slot /\ NextOver(map1[p], p)
        <5>1. HIDE DEF from
        <5>2. QED
          BY <1>2, <1>5, <4>1, MappedOver
      <4>3. QED
        BY <3>3, <4>2
    <3>4. CASE p \notin from
      <4>1. map1[p] = map[p]
        <5>1. {h \in 0 .. top' : p \in from /\ p - vx0'[sheets'[h]] \in shape[sheets'[h]].opaque} = {}
          BY <3>4
        <5>2. QED
          BY <5>1 DEF Mapped
      <4>2. QED
        BY <3>1, <3>4, <4>1
    <3>5. QED
      BY <3>3, <3>4
  <2>4. ASSUME NEW p \in Screen PROVE map'[p] \in Slot /\ NextOver(map'[p], p)
    <3>1. map[p] \in Slot /\ Over(map[p], p)
      BY <1>1, MapIsOver
    <3>2. p \notin into \/ (\A u \in Slot : height'[u] >= height[s] => ~ NextOpaque(u, p))
            => map1[p] \in Slot /\ NextOver(map1[p], p)
      <4>1. SUFFICES ASSUME ~ NextOpaque(s, p), p \notin from PROVE NextOver(map1[p], p)
        BY <1>1, <1>2, <1>7, <2>2, <2>3
      <4>2. map[p] # s
        BY <2>2, <3>1, <4>1 DEF Over
      <4>3. QED
        BY <1>8, <2>3, <3>1, <4>1, <4>2
    <3>3. height[s] \in Nat
      BY <1>1, <1>7, <1>10
    <3>4. /\ Mapped(map1, into, height[s])[p] \in Slot
          /\ NextOver(Mapped(map1, into, height[s])[p], p)
      <4>1. HIDE DEF map1, into
      <4>2. QED
        BY <1>2, <1>5, <3>2, <3>3, MappedOver
    <3>5. QED
      BY <2>1, <3>4
  <2>5. MapIsTop'
    BY <1>5, <2>4, NextMapIsTop
  <2>6. ASSUME NEW p \in Screen PROVE vram'[p] = buf'[map'[p]][p - vx0'[map'[p]]]
    <3>1. map[p] \in Slot /\ Over(map[p], p) /\ map'[p] \in Slot /\ NextOver(map'[p], p)
      BY <1>1, <2>4, MapIsOver
    <3>2. /\ vx0'[map'[p]] \in Int /\ shape[map'[p]].width \in Nat
          /\ shape[map'[p]].opaque \subseteq 0 .. shape[map'[p]].width - 1
      BY <1>7, <3>1
    <3>3. vram[p] = buf[map[p]][p - vx0[map[p]]]
      BY <1>1 DEF ScreenShowsTop
    <3>4. CASE map'[p] = s
      <4>1. p \in into /\ height'[map'[p]] \in {height[s]}
        BY <1>2, <2>2, <3>1, <3>4 DEF NextOver
      <4>2. Drawn(vram1, into, {height[s]})[p] = buf'[map'[p]][p - vx0'[map'[p]]]
        <5>1. HIDE DEF vram1, into
        <5>2. QED
          BY <1>2, <1>5, <3>1, <3>2, <4>1, DrawnRight
      <4>3. QED
        BY <2>1, <4>2
    <3>5. CASE map'[p] # s
      \* What is on top now was there before, but for s.
      <4>1. /\ NextOpaque(map'[p], p) /\ Opaque(map'[p], p) /\ Opaque(map[p], p)
            /\ height[map[p]] >= 0 /\ height[map'[p]] >= 0 /\ height[map'[p]] <= height[map[p]]
        BY <1>2, <1>6, <3>1, <3>5 DEF Over, NextOver
      <4>2. CASE map[p] # s
        <5>1. NextOpaque(map[p], p)
          BY <1>6, <3>1, <4>1, <4>2
        <5>2. height[map[p]] <= height[map'[p]]
          BY <1>2, <3>1, <5>1 DEF NextOver
        <5>3. height[map[p]] = height[map'[p]]
          BY <1>7, <3>1, <4>1, <5>2
        <5>4. map[p] = map'[p]
          BY <1>1, <3>1, <4>1, <5>3, Stacked
        <5>5. vram[p] = buf'[map'[p]][p - vx0'[map'[p]]]
          BY <1>2, <1>3, <3>1, <3>3, <3>5, <5>4
        <5>6. vram1[p] = buf'[map'[p]][p - vx0'[map'[p]]]
          <6>1. HIDE DEF from
          <6>2. QED
            BY <1>2, <1>5, <3>1, <3>2, <5>5, DrawnRight
        <5>7. Drawn(vram1, into, {height[s]})[p] = buf'[map'[p]][p - vx0'[map'[p]]]
          <6>1. HIDE DEF vram1, into
          <6>2. QED
            BY <1>2, <1>5, <3>1, <3>2, <5>6, DrawnRight
        <5>8. QED
          BY <2>1, <5>7
      <4>3. CASE map[p] = s
        <5>1. p \in from
          BY <2>2, <4>1, <4>3
        <5>2. height[map'[p]] # height[s]
          BY <1>1, <1>10, <3>1, <3>5, Stacked
        <5>3. height'[map'[p]] \in 0 .. height[s] - 1
          BY <1>1, <1>2, <1>7, <3>1, <4>1, <4>3, <5>2
        <5>4. vram1[p] = buf'[map'[p]][p - vx0'[map'[p]]]
          <6>1. DEFINE below == 0 .. height[s] - 1
          <6>2. ~ (p \in from /\ height'[map'[p]] \in below)
                  => vram[p] = buf'[map'[p]][p - vx0'[map'[p]]]
            BY <5>1, <5>3
          <6>3. HIDE DEF from, below
          <6>4. Drawn(vram, from, below)[p] = buf'[map'[p]][p - vx0'[map'[p]]]
            BY <1>2, <1>5, <3>1, <3>2, <6>2, DrawnRight
          <6>5. QED
            BY <6>4 DEF below
        <5>5. Drawn(vram1, into, {height[s]})[p] = buf'[map'[p]][p - vx0'[map'[p]]]
          <6>1. HIDE DEF vram1, into
          <6>2. QED
            BY <1>2, <1>5, <3>1, <3>2, <5>4, DrawnRight
        <5>6. QED
          BY <2>1, <5>5
      <4>4. QED
        BY <4>2, <4>3
    <3>6. QED
      BY <3>4, <3>5
  <2>7. ScreenShowsTop'
    BY <2>6 DEF ScreenShowsTop
  <2>8. Pictures'
    <3>1. map' = [p \in Screen |-> map'[p]]
      BY <2>1 DEF Mapped
    <3>2. vram' = [p \in Screen |-> vram'[p]]
      BY <2>1 DEF Drawn
    <3>3. QED
      BY <1>4, <2>4, <2>5, <2>7, <3>1, <3>2, PicturesTyped
  <2>9. QED
    BY <1>2, <1>4, <2>5, <2>7, <2>8 DEF IInv
<1>11. QED
  BY <1>9, <1>10

-----------------------------------------------------------------------------
(* The theorems. *)

LEMMA InitIInv == Init => IInv
<1>1. SUFFICES ASSUME Init PROVE IInv
  OBVIOUS
<1>2. PICK c \in Colours :
        /\ used = {Back}
        /\ shape = [s \in Slot |-> BackShape]
        /\ buf = [s \in Slot |-> Blank(c)]
        /\ vx0 = [s \in Slot |-> 0]
        /\ height = [s \in Slot |-> IF s = Back THEN 0 ELSE Hidden]
        /\ top = 0
        /\ sheets = [h \in {0} |-> Back]
        /\ map = Blank(Back)
        /\ vram = Blank(c)
  BY <1>1 DEF Init
<1>3. MaxSheets \in Nat \ {0} /\ XSize \in Nat \ {0} /\ Back \in Slot /\ 0 \in Positions
  BY MaxSheetsAssumption, XSizeAssumption, PositionsAssumption DEF Back, Slot
<1>4. Screen = 0 .. BackShape.width - 1 /\ BackShape.opaque = Screen
  BY DEF Screen, BackShape
<1>5. 0 .. top = {0}
  BY <1>2
<1>6. StackTypes
  <2>1. DOMAIN buf = Slot /\ buf = [s \in Slot |-> buf[s]]
    BY <1>2
  <2>2. \A s \in Slot : buf[s] \in [0 .. shape[s].width - 1 -> Colours]
    BY <1>2, <1>4 DEF Blank
  <2>3. height \in [Slot -> -1 .. MaxSheets - 1] /\ top \in 0 .. MaxSheets - 1
    BY <1>2, <1>3 DEF Hidden
  <2>4. sheets \in [0 .. top -> used] /\ used \subseteq Slot /\ Back \in used
    BY <1>2, <1>3, <1>5
  <2>5. shape \in [Slot -> Shapes \cup {BackShape}] /\ vx0 \in [Slot -> Positions]
    BY <1>2, <1>3
  <2>6. QED
    BY <2>1, <2>2, <2>3, <2>4, <2>5 DEF StackTypes
<1>7. Ordered /\ BackShown /\ FreeHidden
  BY <1>2, <1>3, <1>5 DEF Ordered, BackShown, FreeHidden, Hidden
<1>8. Pictures
  BY <1>2 DEF Pictures, Blank
<1>9. ASSUME NEW p \in Screen
      PROVE  /\ map[p] = Back /\ Opaque(Back, p) /\ height[Back] = 0
             /\ vram[p] = c /\ p - vx0[Back] = p /\ buf[Back][p] = c
  BY <1>2, <1>3, <1>4 DEF Blank, Opaque, Screen
<1>10. MapIsTop
  <2>1. \A h \in 0 + 1 .. top : FALSE
    BY <1>2
  <2>2. QED
    BY <1>9, <2>1 DEF MapIsTop
<1>11. ScreenShowsTop
  BY <1>9 DEF ScreenShowsTop
<1>12. QED
  BY <1>6, <1>7, <1>8, <1>10, <1>11 DEF IInv, StackPart

LEMMA NextIInv ==
  ASSUME IInv, [Next]_vars
  PROVE  IInv' /\ (UNCHANGED height \/ \E s \in Slot : Restacks(s))
<1>0. used \subseteq Slot
  BY DEF IInv, StackPart, StackTypes
<1>1. CASE UNCHANGED vars
  <2>1. UNCHANGED <<used, shape, buf, vx0, height, top, sheets, map, vram>>
    BY <1>1 DEF vars
  <2>2. StackPart' /\ Pictures'
    BY <2>1 DEF IInv, StackPart, StackTypes, Ordered, BackShown, FreeHidden, Pictures
  <2>3. MapIsTop' /\ ScreenShowsTop'
    BY <2>1 DEF IInv, MapIsTop, ScreenShowsTop, Opaque
  <2>4. QED
    BY <2>1, <2>2, <2>3 DEF IInv
<1>2. CASE Alloc
  BY <1>2, AllocStep
<1>3. ASSUME NEW s \in used, UpDown(s)
      PROVE  IInv' /\ \E u \in Slot : Restacks(u)
  BY <1>0, <1>3, UpDownStep
<1>4. ASSUME NEW s \in used \ {Back}, Free(s)
      PROVE  IInv' /\ (UNCHANGED height \/ \E u \in Slot : Restacks(u))
  BY <1>0, <1>4, FreeStep
<1>5. ASSUME NEW s \in used \ {Back}, NEW x \in Positions, Slide(s, x)
      PROVE  IInv' /\ UNCHANGED height
  BY <1>5, SlideStep
<1>6. ASSUME NEW s \in used, Paint(s)
      PROVE  IInv' /\ UNCHANGED height
  BY <1>6, PaintStep
<1>7. QED
  BY <1>1, <1>2, <1>3, <1>4, <1>5, <1>6 DEF Next

\* The stack, the map and the screen agree in every reachable state, whatever
\* the windows and the order of the calls.
THEOREM Inductive == Spec => []IInv
<1>1. IInv /\ [Next]_vars => IInv'
  BY NextIInv
<1>2. QED
  BY InitIInv, <1>1, PTL DEF Spec

\* The array of sheets and the height fields, which sheet_updown renumbers in
\* loops of its own, say the same; and there is room for a further sheet.
THEOREM HeightsAlwaysAgree == Spec => []HeightsAgree
<1>1. IInv => HeightsAgree
  BY DEF IInv, StackPart, StackTypes, Pictures, Ordered, HeightsAgree, TypeOK
<1>2. QED
  BY <1>1, Inductive, PTL

\* After each operation the map names the topmost window of every pixel,
\* although only a part of it has been refreshed.
THEOREM MapAlwaysTop == Spec => []MapIsTop
<1>1. IInv => MapIsTop
  BY DEF IInv
<1>2. QED
  BY <1>1, Inductive, PTL

\* The screen shows the pixel of that window: nothing is left of another one.
THEOREM ScreenAlwaysShowsTop == Spec => []ScreenShowsTop
<1>1. IInv => ScreenShowsTop
  BY DEF IInv
<1>2. QED
  BY <1>1, Inductive, PTL

\* No call changes the order of two windows neither of which it is called for.
THEOREM OrderAlwaysKept == Spec => OrderKept
<1>. DEFINE Kept == \E m \in Slot : \A s, t \in Slot \ {m} :
                       Visible(s) /\ Visible(t) => Same(s, t)
<1>1. IInv /\ [Next]_vars => [Kept]_vars
  <2>1. SUFFICES ASSUME IInv, [Next]_vars PROVE Kept
    OBVIOUS
  <2>2. UNCHANGED height \/ \E s \in Slot : Restacks(s)
    BY <2>1, NextIInv
  <2>3. CASE UNCHANGED height
    <3>1. Back \in Slot
      BY <2>1, Stacked DEF IInv
    <3>2. QED
      BY <2>3, <3>1 DEF Same
  <2>4. CASE \E s \in Slot : Restacks(s)
    <3>1. PICK m \in Slot : Restacks(m)
      BY <2>4
    <3>2. ASSUME NEW s \in Slot \ {m}, NEW t \in Slot \ {m}, Visible(s), Visible(t)
          PROVE  Same(s, t)
      <4>1. height[s] >= 0 /\ height[t] >= 0
        BY <3>2 DEF Visible
      <4>2. height[s] < height[t] <=> height'[s] < height'[t]
        BY <3>1, <4>1 DEF Restacks
      <4>3. QED
        BY <4>2 DEF Same
    <3>3. QED
      BY <3>2
  <2>5. QED
    BY <2>2, <2>3, <2>4
<1>2. QED
  BY <1>1, Inductive, PTL DEF Spec, OrderKept
=============================================================================
