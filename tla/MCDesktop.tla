------------------------------- MODULE MCDesktop -------------------------------
(* Desktop for TLC; and what Input makes of the bytes of keyboard and mouse *)
(* compared with what was done with them.                                   *)
EXTENDS Desktop, SequencesExt
I == INSTANCE Input
H == INSTANCE Machine

-----------------------------------------------------------------------------
(* The mouse.  A packet holds a movement from -256 to 255 in x and y.       *)
Packet(btn, x, y) ==
    LET sign(n) == IF n < 0 THEN 1 ELSE 0
    IN  <<8 + btn + 16 * sign(x) + 32 * sign(y), x % 256, y % 256>>
Decoded(m, bytes) == FoldLeft(I!MouseDecode, m, bytes)
Moves == {-256, -255, -1, 0, 1, 8, 127, 128, 255}

\* What the mouse does is what is decoded, y counted downwards.
ASSUME MouseIsFollowed ==
    LET on == I!MouseDecode(I!NoMouse, 250)
    IN  \A btn \in 0 .. 7, x, y \in Moves :
            LET m == Decoded(on, Packet(btn, x, y))
            IN  m.phase = 1 /\ m.btn = btn /\ m.x = x /\ m.y = - y

\* When a byte is lost, bytes that cannot begin a packet are passed over: a
\* mouse at rest is followed again after at most two packets.
ASSUME Resynchronises ==
    LET on == I!MouseDecode(I!NoMouse, 250)
        rest == Packet(0, 0, 0)
    IN  \A btn \in 0 .. 7, x, y \in Moves, lost \in 1 .. 3 :
            LET short == SelectSeq(<<1, 2, 3>>, LAMBDA k : k # lost)
                bytes == [k \in 1 .. 2 |-> Packet(btn, x, y)[short[k]]]
            IN  Decoded(on, bytes \o rest \o rest).phase = 1

-----------------------------------------------------------------------------
(* A window follows the pointer by which it is held, in x to the nearest    *)
(* multiple of four, however often the screen is served on the way.         *)
WindowAt(x, y) ==
    [vx |-> x, vy |-> y, mmx |-> -1, mmy |-> 0, mmx2 |-> 0,
     new_wx |-> I!NotMoved, new_wy |-> 0]
ASSUME DragIsFollowed ==
    \A vx \in {0, 32, 516}, vy \in {0, 4, 384}, x1, x2 \in {10, 17, 63}, y1, y2 \in {5, 90} :
        LET held == I!Grip(WindowAt(vx, vy), 20, 30)
            once == I!Drag(held, x1, y1)
        IN  \A between \in {once, I!Slid(once)} :
                LET w == I!Dropped(I!Drag(between, x2, y2))
                IN  /\ w.vy = vy + y2 - 30 /\ w.mmx = -1
                    /\ w.vx % 4 = 0 /\ w.vx - (vx + x2 - 20) \in -1 .. 2

-----------------------------------------------------------------------------
(* The lamps show the locks once the keyboard has taken every command; but  *)
(* when the queue for them is full, one half of a command may be dropped.   *)
Pressed(keys, size) ==
    FoldLeft(LAMBDA k, key : I!Send(I!Key(k, key, size)), I!NoKeys(0), keys)
Settled(k) ==
    FoldLeft(LAMBDA q, n : I!Acknowledged(I!Send(q)), k, [n \in 1 .. 12 |-> n])
Pairs(lamps) == \A i \in DOMAIN lamps : (lamps[i] = I!KEYCMD_LED) <=> (i % 2 = 1)
LockKeys == {"CapsLock", "NumLock", "ack"}
ASSUME LampsFollow ==
    \A n \in 0 .. 5 : \A keys \in [1 .. n -> LockKeys] :
        LET k == Settled(Pressed(keys, 32))
        IN  k.keycmd = <<>> /\ Pairs(k.lamps) /\ Last(k.lamps) = k.leds
ASSUME LampsAreLost ==
    \E keys \in [1 .. 4 -> LockKeys] :
        LET k == Settled(Pressed(keys, 3)) IN ~ Pairs(k.lamps) \/ Last(k.lamps) # k.leds
ASSUME SmallUnlessLocked ==
    \A leds \in 0 .. 7 : \A shift \in SUBSET {"left", "right"} :
        I!Small([I!NoKeys(leds) EXCEPT !.shift = shift])
            <=> ((I!Key(I!NoKeys(leds), "CapsLock", 9).leds < leds) <=> (shift # {}))

-----------------------------------------------------------------------------
(* No more than one submenu is shown, and only beside the first menu; after *)
(* a selection the first menu is hidden but counts as shown, so that the    *)
(* next click on its button shows nothing.                                  *)
Menus(m, click) ==
    CASE click = 1 -> I!MenuButton(m)
      [] click \in 2 .. 4 -> IF 1 \in m.shown THEN I!Submenu(m, click) ELSE m
      [] click = 5 -> IF m.shown # {} THEN I!Chosen(m) ELSE m
ASSUME OneSubmenu ==
    \A n \in 0 .. 6 : \A clicks \in [1 .. n -> 1 .. 5] :
        LET m == FoldLeft(Menus, I!NoMenus, clicks)
        IN  /\ Cardinality(m.shown \ {1}) <= 1 /\ (m.shown # {} => 1 \in m.shown)
            /\ m.shown \ {1} \subseteq m.positive
ASSUME SelectionHidesButton ==
    \A n \in 1 .. 5 : \A clicks \in [1 .. n -> 1 .. 5] :
        LET m == FoldLeft(Menus, I!NoMenus, clicks)
        IN  1 \in m.shown => /\ I!MenuButton(I!Chosen(m)).shown = {}
                             /\ 1 \in I!MenuButton(I!MenuButton(I!Chosen(m))).shown

\* Every item has a row of its own, with a line between it and the next; an
\* icon selects the same program at the first click and at every other one.
Rows(flags, item) == {y \in 0 .. 160 : I!Selected(flags, y) = item}
ItemsOf(flags) == {I!Selected(flags, y) : y \in 0 .. 160} \ {I!NoSelect}
ASSUME RowsAreApart ==
    \A flags \in 1 .. 4 : \A item \in ItemsOf(flags) :
        Cardinality(Rows(flags, item)) = IF item = 18 THEN 19 ELSE 17
ASSUME IconAtOnce ==
    \A flags \in 6 .. 8, tcount \in 0 .. 1 :
        /\ I!Icon(flags, tcount).select = I!Icon(flags, 0).select
        /\ I!Icon(flags, tcount).tcount \in 0 .. 1
ASSUME PointerOnScreen ==
    \A at \in {0, 1, 1023}, by \in Moves :
        /\ I!Pointed(at, by, 1024) \in 0 .. 1023
        /\ at + by \in 0 .. 1023 => I!Pointed(at, by, 1024) = at + by

-----------------------------------------------------------------------------
(* A segment reaches what it should; above one megabyte up to the end of a  *)
(* page, and all of memory if it is empty.                                  *)
ASSUME SegmentsReach ==
    /\ \A size \in {1, 4096, 65536, 1048575, 1048576} : H!Reached(H!SetSegmdesc(size, 0)) = size
    /\ \A size \in {1048577, 1052672, 5000000} :
          H!Reached(H!SetSegmdesc(size, 0)) - size \in 0 .. 4095
    /\ H!SetSegmdesc(0, 0).granular /\ H!SetSegmdesc(0, 0).limit = 1048575

\* The address that calls 28 and 29 show is the right one only if neither bit
\* 15 nor bit 23 of the bases is set (console.c:1869).
ASSUME PhysicalIsOff ==
    \A base \in {4194304, 4227072, 8388608, 8421376, 16777216}, addr \in {0, 100} :
        LET ldt == 4198400
            mem == [at \in {1, ldt + 8} |->
                       IF at = 1 THEN H!SetSegmdesc(16, ldt) ELSE H!SetSegmdesc(4096, base)]
            off == base + addr - H!PhysAddr(mem, 1, 1, addr)
        IN  off = 65536 * I!Bit(base, 15) + 16777216 * I!Bit(base, 23)

\* The clock is right in the centuries 20 to 29 if it stands; if it goes on
\* between the two readings of a register, what is shown was never the time.
Bcd(n) == (n \div 10) * 16 + (n % 10)
ASSUME ClockIsRight ==
    /\ \A s \in 0 .. 59 : H!BcdHex(Bcd(s), Bcd(s)) = s
    /\ \A c \in 19 .. 29, y \in {0, 9, 26, 99} :
          (H!GetYear(Bcd(c), Bcd(y)) = 100 * c + y) <=> (c >= 20)
    /\ \A s \in 0 .. 59 : (H!BcdHex(Bcd(s), Bcd((s + 1) % 60)) \in {s, (s + 1) % 60})
                               <=> (s % 10 # 9)

\* A tone is played as asked from 18.207 Hz on, and as a higher one below;
\* turning it off and on leaves the other bits of the port.
ASSUME ToneIsPlayed ==
    /\ \A tone \in {18207, 440000, 20000000} : H!Divisor(tone) = 1193180000 \div tone
    /\ \A tone \in {1, 18000, 18206} : H!Divisor(tone) # 1193180000 \div tone
    /\ \A port \in 0 .. 15 : H!Speaker(H!Speaker(port, 0), 440000) = 3 + 4 * (port \div 4)
=============================================================================
