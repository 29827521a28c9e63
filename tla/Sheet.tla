-------------------------------- MODULE Sheet --------------------------------
(***************************************************************************)
(* sheet.c: windows stacked on the screen, with the map that says for each *)
(* pixel which of them is on top.                                          *)
(*                                                                         *)
(* One row of pixels stands for the screen: lines and columns are clipped  *)
(* and copied in the same way.  Calls are not interrupted by other calls.  *)
(* The copies of four pixels at a time are copies of pixels.               *)
(***************************************************************************)
EXTENDS Integers, FiniteSets, FiniteSetsExt

CONSTANTS
    XSize,          \* pixels of the screen
    MaxSheets,      \* MAX_SHEETS
    Shapes,         \* kinds of windows: width, and where they are not col_inv
    Positions,      \* where windows are put and moved
    Colours

Slot == 0 .. MaxSheets - 1
Screen == 0 .. XSize - 1
Back == 0                       \* sht_back, allocated first
BackShape == [width |-> XSize, opaque |-> Screen]
Hidden == -1

ASSUME XSizeAssumption == XSize \in Nat \ {0}
ASSUME MaxSheetsAssumption == MaxSheets \in Nat \ {0}
ASSUME ShapesAssumption ==
    \A k \in Shapes : k.width \in Nat /\ k.opaque \subseteq 0 .. k.width - 1
ASSUME PositionsAssumption == Positions \subseteq Int /\ 0 \in Positions
ASSUME ColoursAssumption == Colours # {}

VARIABLES
    used,           \* the slots of sheets0 with flags # 0
    shape,          \* bxsize, and the pixels of buf that differ from col_inv
    buf,            \* the pixels of each window
    vx0,            \* where each window begins on the screen
    height,         \* sht->height
    top,            \* ctl->top
    sheets,         \* ctl->sheets[0 .. top]
    map,            \* ctl->map
    vram            \* what the screen shows

stack == <<height, top, sheets>>
vars == <<used, shape, buf, vx0, height, top, sheets, map, vram>>

Blank(c) == [i \in Screen |-> c]

\* The screen after HariMain has put the background on it.
Init ==
    \E c \in Colours :
        /\ used = {Back}
        /\ shape = [s \in Slot |-> BackShape]
        /\ buf = [s \in Slot |-> Blank(c)]
        /\ vx0 = [s \in Slot |-> 0]
        /\ height = [s \in Slot |-> IF s = Back THEN 0 ELSE Hidden]
        /\ top = 0
        /\ sheets = [h \in {0} |-> Back]
        /\ map = Blank(Back)
        /\ vram = Blank(c)

\* The part of the screen that sheet s takes up when it begins at x.
Area(s, x) == x .. x + shape[s].width - 1

\* Pixel p of the screen lies on sheet s, which is not transparent there.
Opaque(s, p) == p - vx0[s] \in shape[s].opaque

-----------------------------------------------------------------------------
(* The two refreshes, on the new values of the stack and of the positions. *)

\* sheet_refreshmap: the map m after the area has been refreshed from h0 up.
Mapped(m, area, h0) ==
    [p \in Screen |->
        LET over == {h \in h0 .. top' :
                        /\ p \in area
                        /\ p - vx0'[sheets'[h]] \in shape[sheets'[h]].opaque}
        IN  IF over = {} THEN m[p] ELSE sheets'[Max(over)]]

\* sheet_refreshsub: the screen v after the sheets of the heights hs have
\* drawn what the map gives them of the area.
Drawn(v, area, hs) ==
    [p \in Screen |->
        LET s == map'[p]
        IN  IF /\ p \in area \cap Area(s, vx0'[s])
               /\ \E h \in hs : sheets'[h] = s
            THEN buf'[s][p - vx0'[s]]
            ELSE v[p]]

\* sheet_updown refreshes the place of s, the map from h0 and the screen in hs.
Refreshed(s, h0, hs) ==
    /\ map' = Mapped(map, Area(s, vx0[s]), h0)
    /\ vram' = Drawn(vram, Area(s, vx0[s]), hs)

-----------------------------------------------------------------------------
(* sheet_updown: the sheets between the old and the new height of s move   *)
(* by one, in the array and in their height fields.                        *)

\* The heights when s goes to h and the sheets of the heights hs by d.
Shifted(s, h, hs, d) ==
    [t \in Slot |-> IF t = s THEN h
                    ELSE IF height[t] \in hs THEN height[t] + d ELSE height[t]]

\* Mutant: the sheet between are not moved, the one at h changes places.
Swapped(s, h) ==
    /\ height' = [height EXCEPT ![s] = h, ![sheets[h]] = height[s]]
    /\ sheets' = [sheets EXCEPT ![h] = s, ![height[s]] = sheets[h]]

\* From height[s] down to h.
Lower(s, h) ==
    LET old == height[s]
    IN  /\ 0 <= h /\ h < old
        /\ sheets' = [i \in 0 .. top |->
                        IF i = h THEN s
                        ELSE IF i \in h + 1 .. old THEN sheets[i - 1]
                        ELSE sheets[i]]
        /\ height' = Shifted(s, h, h .. old - 1, 1)
        /\ top' = top
        /\ Refreshed(s, h + 1, h + 1 .. old)

\* Mutant: the map is refreshed from the height that s had.
HideMapsAbove(s) ==
    LET old == height[s]
    IN  /\ old >= 0
        /\ sheets' = [i \in 0 .. top - 1 |->
                        IF i >= old THEN sheets[i + 1] ELSE sheets[i]]
        /\ height' = Shifted(s, Hidden, old + 1 .. top, -1)
        /\ top' = top - 1
        /\ Refreshed(s, old, 0 .. old - 1)

\* Off the screen.
Hide(s) ==
    LET old == height[s]
    IN  /\ old >= 0
        /\ sheets' = [i \in 0 .. top - 1 |->
                        IF i >= old THEN sheets[i + 1] ELSE sheets[i]]
        /\ height' = Shifted(s, Hidden, old + 1 .. top, -1)
        /\ top' = top - 1
        /\ Refreshed(s, 0, 0 .. old - 1)

\* Mutant: the sheet changes places with the one at h.
RaiseSwaps(s, h) ==
    /\ 0 <= height[s] /\ height[s] < h
    /\ Swapped(s, h)
    /\ top' = top
    /\ Refreshed(s, h, {h})

\* From height[s] up to h.
Raise(s, h) ==
    LET old == height[s]
    IN  /\ 0 <= old /\ old < h
        /\ sheets' = [i \in 0 .. top |->
                        IF i = h THEN s
                        ELSE IF i \in old .. h - 1 THEN sheets[i + 1]
                        ELSE sheets[i]]
        /\ height' = Shifted(s, h, old + 1 .. h, -1)
        /\ top' = top
        /\ Refreshed(s, h, {h})

\* Mutant: the height fields of the sheets above stay.
ShowUnnumbered(s, h) ==
    /\ height[s] = Hidden
    /\ h >= 0
    /\ sheets' = [i \in 0 .. top + 1 |->
                    IF i = h THEN s
                    ELSE IF i > h THEN sheets[i - 1] ELSE sheets[i]]
    /\ height' = [height EXCEPT ![s] = h]
    /\ top' = top + 1
    /\ Refreshed(s, h, {h})

\* Onto the screen.
Show(s, h) ==
    /\ height[s] = Hidden
    /\ h >= 0
    /\ sheets' = [i \in 0 .. top + 1 |->
                    IF i = h THEN s
                    ELSE IF i > h THEN sheets[i - 1] ELSE sheets[i]]
    /\ height' = Shifted(s, h, h .. top, 1)
    /\ top' = top + 1
    /\ Refreshed(s, h, {h})

\* The heights that callers ask for: -1 to hide; 1 for menus and the mouse;
\* 4 while the system starts; top for a new window, below the mouse; top - 1
\* for a window that is clicked on or comes round by F11.  With the mouse
\* alone over the background, F11 puts it below: height 0.  From then on the
\* background can be clicked on and comes round as well.
Asked(s) ==
    CASE height[s] = Hidden -> {-1, 1, top, 4} \ {0}
      [] height[s] >= 0 /\ s # Back -> {-1, 1, top - 1, top}
      [] height[s] > 0 /\ s = Back -> {top - 1}
      [] height[s] = 0 /\ s = Back -> {}

\* sheet_updown.
UpDown(s) ==
    \E a \in Asked(s) :
        LET h == IF a > top + 1 THEN top + 1 ELSE a
        IN  /\ UNCHANGED <<used, shape, buf, vx0>>
            /\ \/ Lower(s, h)
               \/ h = Hidden /\ Hide(s)
               \/ Raise(s, h)
               \/ Show(s, h)

-----------------------------------------------------------------------------
\* sheet_alloc takes the first free slot; the caller describes its window
\* (sheet_setbuf) and paints it.
Alloc ==
    \E s \in Slot \ used, k \in Shapes, c \in Colours :
        /\ 0 .. s - 1 \subseteq used
        /\ used' = used \cup {s}
        /\ height' = [height EXCEPT ![s] = Hidden]
        /\ shape' = [shape EXCEPT ![s] = k]
        /\ buf' = [buf EXCEPT ![s] = [i \in 0 .. k.width - 1 |-> c]]
        /\ UNCHANGED <<vx0, top, sheets, map, vram>>

\* sheet_free.
Free(s) ==
    /\ used' = used \ {s}
    /\ UNCHANGED <<shape, buf, vx0>>
    /\ IF height[s] >= 0 THEN Hide(s) ELSE UNCHANGED <<stack, map, vram>>

\* A pixel of the window that is not transparent is painted, and
\* sheet_refresh brings it to the screen.
Paint(s) ==
    \E i \in shape[s].opaque, c \in Colours :
        /\ buf' = [buf EXCEPT ![s][i] = c]
        /\ UNCHANGED <<used, shape, vx0, stack, map>>
        /\ vram' = IF height[s] >= 0
                   THEN Drawn(vram, {vx0[s] + i}, {height[s]})
                   ELSE vram

\* Mutant: what the sheet leaves is not drawn.
SlideOver(s, x) ==
    /\ vx0' = [vx0 EXCEPT ![s] = x]
    /\ UNCHANGED <<used, shape, buf, stack>>
    /\ IF height[s] >= 0
       THEN /\ map' = Mapped(Mapped(map, Area(s, vx0[s]), 0),
                             Area(s, x), height[s])
            /\ vram' = Drawn(vram, Area(s, x), {height[s]})
       ELSE UNCHANGED <<map, vram>>

\* sheet_slide.
Slide(s, x) ==
    /\ vx0' = [vx0 EXCEPT ![s] = x]
    /\ UNCHANGED <<used, shape, buf, stack>>
    /\ IF height[s] >= 0
       THEN /\ map' = Mapped(Mapped(map, Area(s, vx0[s]), 0),
                             Area(s, x), height[s])
            /\ vram' = Drawn(Drawn(vram, Area(s, vx0[s]), 0 .. height[s] - 1),
                             Area(s, x), {height[s]})
       ELSE UNCHANGED <<map, vram>>

Next ==
    \/ Alloc
    \/ \E s \in used \ {Back} :
          \/ Free(s)
          \/ \E x \in Positions : Slide(s, x)
    \/ \E s \in used : UpDown(s) \/ Paint(s)

Spec == Init /\ [][Next]_vars

-----------------------------------------------------------------------------
TypeOK ==
    /\ used \subseteq Slot /\ Back \in used
    /\ shape \in [Slot -> Shapes \cup {BackShape}]
    /\ \A s \in Slot : buf[s] \in [0 .. shape[s].width - 1 -> Colours]
    /\ vx0 \in [Slot -> Positions]
    /\ height \in [Slot -> -1 .. MaxSheets - 1]
    /\ top \in 0 .. MaxSheets - 1
    /\ sheets \in [0 .. top -> used]
    /\ map \in [Screen -> used]
    /\ vram \in [Screen -> Colours]

(* The array and the height fields say the same: every window is in the    *)
(* array once, at its height, or hidden.  updown renumbers the sheets that *)
(* it moves in four loops of its own (lines 230 to 259).                   *)
HeightsAgree ==
    /\ TypeOK
    /\ \A h \in 0 .. top : height[sheets[h]] = h
    /\ \A s \in Slot : height[s] >= 0 => height[s] <= top /\ sheets[height[s]] = s

(* The map names for every pixel the topmost window that is not            *)
(* transparent there, although each operation refreshes only an area of it *)
(* and only from some height up.                                           *)
MapIsTop ==
    \A p \in Screen :
        /\ Opaque(map[p], p)
        /\ height[map[p]] >= 0
        /\ \A h \in height[map[p]] + 1 .. top : ~ Opaque(sheets[h], p)

(* The screen shows the pixel of the window that the map names: nothing is *)
(* left of a window that was moved, hidden, closed or painted below        *)
(* another one.                                                            *)
ScreenShowsTop ==
    \A p \in Screen : vram[p] = buf[map[p]][p - vx0[map[p]]]

(* No operation changes the order of windows other than the one it is      *)
(* called for.                                                             *)
Same(s, t) == (height[s] < height[t]) = (height'[s] < height'[t])
Visible(s) == height[s] >= 0 /\ height'[s] >= 0
OrderKept ==
    [][\E m \in Slot : \A s, t \in Slot \ {m} :
          Visible(s) /\ Visible(t) => Same(s, t)]_vars
=============================================================================
