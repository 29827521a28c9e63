----------------------------------- MODULE Api -----------------------------------
(***************************************************************************)
(* console.c: the system calls of hrb_api on files of the floppy, on the   *)
(* command line and for lines in a window, and what the end of cmd_app and *)
(* the commands mymem and free do with memory.                             *)
(*                                                                         *)
(* The state of a task is its file handles and the bytes that they hold;   *)
(* an operator gives the state after the call, with the value returned.    *)
(***************************************************************************)
EXTENDS Integers, Sequences, SequencesExt, FiniteSetsExt

CONSTANT
    Handles         \* of a task, 8

Handle == 1 .. Handles
Closed == [buf |-> <<>>, open |-> FALSE, pos |-> 0, size |-> 0]

\* held is what is allocated for them, at0 what is given back at address 0.
NoFiles == [fhandle |-> [f \in Handle |-> Closed], held |-> 0, at0 |-> 0, ret |-> <<>>]

\* api_fopen of a file with this content; a handle of 0 says that there is
\* no handle left.
FOpen(t, content) ==
    LET free == {f \in Handle : ~ t.fhandle[f].open}
    IN  IF free = {} THEN [t EXCEPT !.ret = 0]
        ELSE [t EXCEPT !.ret = Min(free), !.held = @ + Len(content),
                !.fhandle[Min(free)] = [buf |-> content, open |-> TRUE, pos |-> 0,
                                        size |-> Len(content)]]

\* api_fclose, of a handle that may be closed already.
FClose(t, f) ==
    LET n == t.fhandle[f].size
    IN  [t EXCEPT !.fhandle[f].open = FALSE, !.fhandle[f].buf = <<>>,
                  !.held = IF t.fhandle[f].open THEN @ - n ELSE @,
                  !.at0 = IF t.fhandle[f].open THEN @ ELSE @ + n]

\* api_fseek from the start, from here and from the end.
FSeek(t, f, offset, mode) ==
    LET h == t.fhandle[f]
        pos == CASE mode = 0 -> offset [] mode = 1 -> h.pos + offset
                 [] mode = 2 -> h.size + offset [] OTHER -> h.pos
        low == IF pos < 0 THEN 0 ELSE pos
    IN  [t EXCEPT !.fhandle[f].pos = IF low > h.size THEN h.size ELSE low]

FSize(t, f, mode) ==
    LET h == t.fhandle[f]
    IN  [t EXCEPT !.ret = CASE mode = 0 -> h.size [] mode = 1 -> h.pos
                            [] mode = 2 -> h.pos - h.size]

\* api_fread; a closed handle reads at address 0.
PageZero == "page zero"
FRead(t, f, ecx) ==
    LET h == t.fhandle[f]
        n == Max({0, Min({ecx, h.size - h.pos})})
    IN  [t EXCEPT !.ret = [i \in 1 .. n |-> IF h.open THEN h.buf[h.pos + i] ELSE PageZero],
                  !.fhandle[f].pos = @ + n]

\* The end of cmd_app.
EndOfApp(t) ==
    [t EXCEPT !.held = @ - FoldLeft(LAMBDA sum, h : sum + (IF h.open THEN h.size ELSE 0),
                                    0, t.fhandle),
              !.fhandle = [f \in Handle |->
                  IF t.fhandle[f].open
                  THEN [t.fhandle[f] EXCEPT !.open = FALSE, !.buf = <<>>]
                  ELSE t.fhandle[f]]]

-----------------------------------------------------------------------------
(* api_cmdline: the bytes that are written behind buf, and the value. *)

Zero == 0
CmdLine(line, maxsize) ==
    LET all == Append(line, Zero)
    IN  [written |-> SubSeq(all, 1, Min({maxsize + 1, Len(all)})),
         ret |-> Min({maxsize, Len(line)})]

-----------------------------------------------------------------------------
(* hrb_api_linewin: the points of a line, in steps of 1/1024. *)

Abs(n) == IF n < 0 THEN - n ELSE n
Toward0(n, d) == IF n < 0 THEN - ((- n) \div d) ELSE n \div d

\* The step along the longer side, and along the other one.
Along(a0, a1) == IF a0 > a1 THEN -1024 ELSE 1024
Across(b0, b1, len) ==
    Toward0((b1 - b0 + (IF b0 <= b1 THEN 1 ELSE -1)) * 1024, len)

LineWin(x0, y0, x1, y1) ==
    LET flat == Abs(x1 - x0) >= Abs(y1 - y0)
        len == (IF flat THEN Abs(x1 - x0) ELSE Abs(y1 - y0)) + 1
        dx == IF flat THEN Along(x0, x1) ELSE Across(x0, x1, len)
        dy == IF flat THEN Across(y0, y1, len) ELSE Along(y0, y1)
    IN  [i \in 1 .. len |-> <<(x0 * 1024 + (i - 1) * dx) \div 1024,
                              (y0 * 1024 + (i - 1) * dy) \div 1024>>]

-----------------------------------------------------------------------------
(* mymem and free. *)

\* char2int on the text behind the command: the blank in front, 16 below "0",
\* is a digit of it, and the sum has the given number of bits.
Char2Int(digits, bits) ==
    FoldLeft(LAMBDA sum, d : (sum * 10 + d) % 2^bits, 0, <<-16>> \o digits)

\* The blocks that free gives back: all that mymem ever took, each time.
MyMem(list, addr, size) == Append(list, <<addr, size>>)
FreedByFree(list) == list
=============================================================================
