--------------------------------- MODULE Input ---------------------------------
(***************************************************************************)
(* keyboard.c, mouse.c and the parts of HariMain that turn the bytes of    *)
(* keyboard and mouse into what Desktop receives: characters, movements,   *)
(* drags and the items of menus.  The state of each is a record, and an    *)
(* operator gives the record after a byte, a movement or a click.          *)
(***************************************************************************)
EXTENDS Integers, Sequences

Bit(v, n) == (v \div 2^n) % 2

-----------------------------------------------------------------------------
(* mouse_decode: a byte 0xfa, and then packets of three. *)

NoMouse == [phase |-> 0, buf |-> <<0, 0, 0>>, btn |-> 0, x |-> 0, y |-> 0]

\* (dat & 0xc8) == 0x08
Begins(dat) == dat \div 64 = 0 /\ Bit(dat, 3) = 1

Signed(byte, negative) == IF negative = 1 THEN byte - 256 ELSE byte

MouseDecode(m, dat) ==
    CASE m.phase = 0 -> IF dat = 250 THEN [m EXCEPT !.phase = 1] ELSE m
      [] m.phase = 1 -> IF Begins(dat)
                        THEN [m EXCEPT !.buf[1] = dat, !.phase = 2] ELSE m
      [] m.phase = 2 -> [m EXCEPT !.buf[2] = dat, !.phase = 3]
      [] m.phase = 3 -> [phase |-> 1, buf |-> [m.buf EXCEPT ![3] = dat],
                         btn |-> m.buf[1] % 8,
                         x |-> Signed(m.buf[2], Bit(m.buf[1], 4)),
                         y |-> - Signed(dat, Bit(m.buf[1], 5))]

\* The pointer stays on the screen.
Pointed(at, by, size) ==
    IF at + by < 0 THEN 0 ELSE IF at + by > size - 1 THEN size - 1 ELSE at + by

-----------------------------------------------------------------------------
(* Dragging a window by its title, in x and y: where it is, where the       *)
(* button was pressed, mmx and mmy, and its place then or since.  The       *)
(* screen is served when there is no other datum.                           *)

NotMoved == 2147483647
Grip(w, mx, my) ==
    [w EXCEPT !.mmx = mx, !.mmy = my, !.mmx2 = w.vx, !.new_wy = w.vy]

\* (x + 2) & ~3
Rounded(x) == ((x + 2) \div 4) * 4
Drag(w, mx, my) ==
    [w EXCEPT !.new_wx = Rounded(w.mmx2 + mx - w.mmx),
              !.new_wy = @ + my - w.mmy, !.mmy = my]

\* sheet_slide, when task_a is idle and when the button is released.
Slid(w) ==
    IF w.new_wx = NotMoved THEN w
    ELSE [w EXCEPT !.vx = w.new_wx, !.vy = w.new_wy, !.new_wx = NotMoved]
Dropped(w) == [Slid(w) EXCEPT !.mmx = -1]

-----------------------------------------------------------------------------
(* The keyboard: shift keys and locks, and the commands for its lamps, each *)
(* of which it has to acknowledge.  lamps is what it has accepted.          *)

KEYCMD_LED == 237
NoKeys(leds) == [shift |-> {}, leds |-> leds, keycmd |-> <<KEYCMD_LED, leds>>,
                 wait |-> -1, lamps |-> <<>>]

\* fifo32_put on keycmd, which has size places.
Commanded(q, d, size) == IF Len(q) < size THEN Append(q, d) ELSE q

Lock(k, bit, size) ==
    LET leds == IF Bit(k.leds, bit) = 1 THEN k.leds - 2^bit ELSE k.leds + 2^bit
    IN  [k EXCEPT !.leds = leds,
             !.keycmd = Commanded(Commanded(@, KEYCMD_LED, size), leds, size)]

\* At the top of the loop.
Send(k) ==
    IF k.keycmd # <<>> /\ k.wait < 0
    THEN [k EXCEPT !.wait = Head(k.keycmd), !.keycmd = Tail(@)] ELSE k

\* 0xfa; the keyboard has taken what was sent.  At 0xfe it is sent again.
Acknowledged(k) ==
    [k EXCEPT !.lamps = IF k.wait < 0 THEN @ ELSE Append(@, k.wait), !.wait = -1]

Key(k, key, size) ==
    CASE key \in {"left", "right"} -> [k EXCEPT !.shift = @ \cup {key}]
      [] key = "left up" -> [k EXCEPT !.shift = @ \ {"left"}]
      [] key = "right up" -> [k EXCEPT !.shift = @ \ {"right"}]
      [] key = "CapsLock" -> Lock(k, 2, size)
      [] key = "NumLock" -> Lock(k, 1, size)
      [] key = "ScrollLock" -> Lock(k, 0, size)
      [] key = "ack" -> Acknowledged(k)
      [] key = "resend" -> k

\* Both tables hold capitals.
Small(k) == (Bit(k.leds, 2) = 0 /\ k.shift = {}) \/ (Bit(k.leds, 2) = 1 /\ k.shift # {})

-----------------------------------------------------------------------------
(* Menus: sht_menu1 and the three at its items 3 to 5, counted from above.  *)
(* positive are those whose flags are, shown those on the screen.           *)

NoMenus == [positive |-> {}, shown |-> {}]

MenuButton(m) ==
    IF 1 \in m.positive THEN [positive |-> m.positive \ {1}, shown |-> {}]
    ELSE [positive |-> m.positive \cup {1}, shown |-> m.shown \cup {1}]

\* Menu n, 2 to 4, by its item of sht_menu1.
Submenu(m, n) ==
    IF n \in m.positive
    THEN [positive |-> m.positive \ {n}, shown |-> m.shown \ {n}]
    ELSE [positive |-> m.positive \cup {n}, shown |-> (m.shown \cap {1}) \cup {n}]

\* The item at height y above the lower edge, in rows of 18 and, for the
\* topmost one of sht_menu1, 20; none on a line between two.
Row(y) == IF y % 18 = 0 THEN 0 ELSE y \div 18 + 1
RowOf1(y) == IF y <= 108 THEN Row(y) ELSE IF y < 128 THEN 7 ELSE 0

\* select, which is -1 if there is nothing to start; below that, the submenu
\* or the command to the machine.
NoSelect == -1
SubmenuOf(n) == - n
Shutdown == -5
Reboot == -6
Selected(flags, y) ==
    LET row == IF flags = 1 THEN RowOf1(y) ELSE Row(y)
        Of(items) == IF row \in DOMAIN items THEN items[row] ELSE NoSelect
    IN  CASE flags = 1 -> Of(<<Reboot, Shutdown, SubmenuOf(4), SubmenuOf(3),
                               SubmenuOf(2), 4, 18>>)
          [] flags = 2 -> Of(<<5, 6, 7, 8, 9>>)
          [] flags = 3 -> Of(<<10, 11, 12, 13>>)
          [] flags = 4 -> Of(<<22, 21>>)
          [] OTHER -> NoSelect

\* An icon counts its clicks, and selects its program whatever the count.
Icon(flags, tcount) ==
    [select |-> CASE flags = 6 -> 4 [] flags = 7 -> 13 [] flags = 8 -> 23,
     tcount |-> IF tcount + 1 \in 2 .. 5 THEN 0 ELSE tcount + 1]

\* With a selection all menus are hidden, and their flags stay.
Chosen(m) == [m EXCEPT !.shown = {}]
=============================================================================
