---- MODULE MCFiles ----
(* The file system for two consoles; and what is read from the floppy and  *)
(* through the system calls on files, compared with what it should be.     *)
EXTENDS Files
\* Two consoles are alike.
ConsoleSymmetry == Permutations(Consoles)
\* After a fault nothing happens, and nothing has changed with it.
AliveView == IF fault = "none" THEN <<filesVars>> ELSE <<fault>>
MCDirNames == {<<"A", "">>, <<"LONGNAME", "">>, <<"A", "T">>}
MCFileNames == {<<"A", "T">>}
MCLines == {<<"a">>, <<" ", "b", "b">>}

-----------------------------------------------------------------------------
UpperOf(c) == CASE c = "a" -> "A" [] c = "b" -> "B" [] OTHER -> c
D == INSTANCE Floppy WITH Block <- 4, Upper <- UpperOf

(* The packed entries are unpacked.                                        *)
Packed12(fat) ==
    [k \in 1 .. 3 |-> CASE k = 1 -> fat[0] % 256
                        [] k = 2 -> (fat[0] \div 256) + 16 * (fat[1] % 16)
                        [] k = 3 -> fat[1] \div 16]
ASSUME FatIsUnpacked ==
    \A a, b \in {0, 1, 255, 256, 2748, 4080, 4095} :
        LET fat == [c \in 0 .. 1 |-> IF c = 0 THEN a ELSE b]
        IN  D!ReadFat(Packed12(fat), 2) = fat

(* A file is what its clusters hold one after the other, for any chain and *)
(* size up to three clusters; a chain ends where the size says.            *)
Image == [c \in 0 .. 4 |-> [b \in 1 .. 4 |-> <<c, b>>]]
ASSUME FileIsLoaded ==
    \A c1, c2, c3 \in 0 .. 4 : Cardinality({c1, c2, c3}) = 3 =>
        LET fat == [c \in 0 .. 4 |-> CASE c = c1 -> c2 [] c = c2 -> c3 [] OTHER -> 4095]
        IN  \A size \in 0 .. 12 :
              D!LoadFile(c1, size, fat, Image)
                  = SubSeq(Image[c1] \o Image[c2] \o Image[c3], 1, size)

(* A file is found by any spelling of its name, but by others, too: behind *)
(* eight characters a name goes on in the extension.                       *)
Entry8(base, ext) == SubSeq(base \o D!Spaces, 1, 8) \o SubSeq(ext \o D!Spaces, 1, 3)
Bases1 == {<<"A">>, <<"A", "B">>, [j \in 1 .. 8 |-> "A"]}
Exts1 == {<<>>, <<"B">>, <<"A", "B", "A">>}
ASSUME SpellingIsFound ==
    \A base \in Bases1, ext \in Exts1 :
        LET dir == <<[name |-> Entry8(<<"B">>, <<>>), special |-> FALSE],
                     [name |-> Entry8(base, ext), special |-> FALSE]>>
            Small(s) == [j \in DOMAIN s |-> IF s[j] = "A" THEN "a" ELSE "b"]
        IN  /\ D!FileSearch(base \o <<".">> \o ext, dir) = 2
            /\ D!FileSearch(Small(base) \o <<".">> \o Small(ext), dir) = 2
            /\ (D!FileSearch(base \o ext, dir) = 2) <=> (ext = <<>> \/ Len(base) = 8)

(* The entries behind the end of the directory are searched, too.          *)
ASSUME EndIsPassed ==
    LET dir == <<[name |-> Entry8(<<"B">>, <<>>), special |-> FALSE],
                 [name |-> <<>>, special |-> FALSE],
                 [name |-> Entry8(<<"A">>, <<>>), special |-> FALSE]>>
    IN  D!FileSearch(<<"a">>, dir) = 3

(* What cmd_fddir lists is found by its name, unless an entry before it     *)
(* has the same one; what is found need not be listed.                      *)
Entries == [name : {<<>>, Entry8(<<"e5">>, <<>>), Entry8(<<"A">>, <<>>), Entry8(<<"B">>, <<>>)},
            special : BOOLEAN]
ASSUME ListedIsFound ==
    \A dir \in [1 .. 3 -> Entries] : \A i \in D!FdDir(dir, 50) :
        \/ D!FileSearch(<<dir[i].name[1]>>, dir) = i
        \/ \E j \in 1 .. i - 1 : dir[j].name = dir[i].name /\ ~ dir[j].special

(* A program is found with and without its extension, but not with the    *)
(* point alone behind its name.                                            *)
ASSUME ProgramIsFound ==
    \A base \in Bases1 :
        LET dir == <<[name |-> Entry8(base, <<"H", "R", "B">>), special |-> FALSE]>>
        IN  /\ D!Program(base, dir) = 1
            /\ D!Program(base \o <<".", "H", "R", "B">>, dir) = 1
            /\ D!Program(base \o <<".">>, dir) = 0

-----------------------------------------------------------------------------
A == INSTANCE Api WITH Handles <- 2

Does(t, call) ==
    CASE call.op = "open" -> A!FOpen(t, call.content)
      [] call.op = "close" -> A!FClose(t, call.f)
      [] call.op = "seek" -> A!FSeek(t, call.f, call.offset, call.mode)
      [] call.op = "read" -> A!FRead(t, call.f, call.n)
Calls ==
    [op : {"open"}, content : {<<>>, <<"a", "b">>}] \cup [op : {"close"}, f : 1 .. 2]
    \cup [op : {"seek"}, f : {1}, offset : {-3, 1}, mode : 0 .. 2]
    \cup [op : {"read"}, f : 1 .. 2, n : {0, 1, 3}]
After(calls) == FoldLeft(Does, A!NoFiles, calls)

(* Whatever an application does with its handles, no byte behind a file is *)
(* read, and everything it holds is given back by the end of cmd_app; but  *)
(* what it closes twice is given back at address 0.                        *)
ASSUME HandlesAreSound ==
    \A n \in 0 .. 4 : \A calls \in [1 .. n -> Calls] :
        LET t == After(calls)
            closes == SelectSeq(calls, LAMBDA c : c.op = "close")
        IN  /\ \A f \in A!Handle : t.fhandle[f].pos \in 0 .. t.fhandle[f].size
            /\ A!EndOfApp(t).held = 0
            /\ A!EndOfApp(A!EndOfApp(t)) = A!EndOfApp(t)
            /\ t.at0 > 0 => Len(closes) > 1

(* A file that is read in pieces is read whole.                            *)
ASSUME PiecesAreTheFile ==
    \A a, b \in 0 .. 3 :
        LET t == A!FOpen(A!NoFiles, <<"a", "b", "c">>)
            u == A!FRead(t, 1, a)
            v == A!FRead(u, 1, b)
        IN  /\ u.ret \o v.ret = SubSeq(<<"a", "b", "c">>, 1, Min({3, a + b}))
            /\ A!FSize(v, 1, 0).ret = A!FSize(v, 1, 1).ret - A!FSize(v, 1, 2).ret

(* api_cmdline writes one byte more than its maximum, and then no zero.    *)
ASSUME CmdLineIsCut ==
    \A len, max \in 0 .. 4 :
        LET c == A!CmdLine([i \in 1 .. len |-> i], max)
        IN  /\ Len(c.written) = Min({len, max}) + 1 /\ c.ret = Min({len, max})
            /\ (Last(c.written) = A!Zero) <=> (len <= max)

(* A line starts where it should and is connected; to the right and        *)
(* downwards it ends where it should; to the left or upwards it may end one *)
(* point too far, which at the edge of the window is outside its buffer.   *)
Near(p, q) == A!Abs(p[1] - q[1]) <= 1 /\ A!Abs(p[2] - q[2]) <= 1
ASSUME LinesEnd ==
    \A x0, y0, x1, y1 \in 0 .. 6 :
        LET line == A!LineWin(x0, y0, x1, y1)
        IN  /\ line[1] = <<x0, y0>>
            /\ \A i \in 1 .. Len(line) - 1 : Near(line[i], line[i + 1])
            /\ x0 <= x1 /\ y0 <= y1 => Last(line) = <<x1, y1>>
            /\ Near(Last(line), <<x1, y1>>)
ASSUME LineLeavesWindow == Last(A!LineWin(0, 1, 3, 0)) = <<3, -1>>

(* mymem does not take the size that is typed, because of the blank.       *)
ASSUME MyMemTakesMore ==
    \A a, b \in 0 .. 9 : A!Char2Int(<<a, b>>, 14) = (2^14 - 1600 + 10 * a + b) % 2^14

(* And free after free gives the same blocks back again.                   *)
ASSUME FreeAgain ==
    LET list == A!MyMem(A!MyMem(<<>>, 16, 1), 17, 1)
    IN  A!FreedByFree(list) = <<<<16, 1>>, <<17, 1>>>>
====
