--------------------------------- MODULE Shell ---------------------------------
(***************************************************************************)
(* console.c: the line editor of the consoles: console_task with its       *)
(* history of commands, cons_putchar and cons_newline, and get_1_line, the *)
(* second line editor, which the games run on a copy of the console.       *)
(*                                                                         *)
(* A console knows what is typed only by where its cursor is: a character  *)
(* goes to cmdline[col - path_length - 1].  The history is shared by all   *)
(* consoles; it is tested, shown and copied, and reset and written, in     *)
(* steps between which another console may run.                            *)
(***************************************************************************)
EXTENDS Integers, Sequences, SequencesExt

CONSTANTS
    Consoles,       \* the consoles that have a window
    Keys,           \* the characters that are typed
    Width,          \* (bxsize - 16) / 8: the columns of a window
    Height,         \* (bysize - 37) / 16: its rows
    EditLimit,      \* column at which console_task refuses characters
    GameLimit,      \* column at which get_1_line refuses them
    MaxDepth,       \* bound on the depth of directories
    MaxBelow,       \* bound on the rows that games have pushed a cursor down
    CdLine,         \* the line that changes the directory,
    ClsLine,        \* the one that clears the window,
    StampLine       \* and the one that starts a game

ASSUME KeysAssumption == {"/", ">"} \cap Keys = {}
ASSUME WidthAssumption ==
    /\ Width \in Nat /\ Height \in Nat \ {0} /\ EditLimit \in Nat /\ GameLimit \in Nat
    /\ 2 < EditLimit /\ EditLimit < Width /\ Width < GameLimit
ASSUME BoundAssumption == MaxDepth \in Nat /\ MaxBelow \in Nat

\* What the window shows.
Cells == Keys \cup {"/", ">"}

\* cmdhis: its argv is NULL, or the one entry that is used is.
NoHistory == <<"/">>
NoEntry == <<>>

VARIABLES
    dir,        \* the depth of cons.current_dir
    row,        \* the row of the cursor, up to the cursor
    y,          \* (cur_y - 28) / 16
    line,       \* cmdline, up to what was written last since the prompt
    path,       \* path_length
    game,       \* y of a console whose copy get_1_line works on, or None
    pc,         \* the next statement of each console
    hist,       \* the text that is stored in cmdhis, or its absence
    mixed,      \* consoles at whose recall another one has changed hist
    fault       \* what the code has addressed beside its data

shellVars == <<dir, row, y, line, path, game, pc, hist, mixed, fault>>

None == -1

-----------------------------------------------------------------------------
(* The window: a cursor is a row of cells that ends at it, and a height. *)

\* Mutant: a line more before the window scrolls.
NewlineLate(s) ==
    [row |-> <<>>, y |-> IF s.y < Height THEN s.y + 1 ELSE s.y]

\* cons_newline: below the last row the window is scrolled instead.
Newline(s) ==
    [row |-> <<>>, y |-> IF s.y < Height - 1 THEN s.y + 1 ELSE s.y]

\* cons_putchar with move: the cursor wraps when it reaches the border.
Putchar(s, k) ==
    LET t == [s EXCEPT !.row = Append(@, k)]
    IN  IF Len(t.row) = Width THEN Newline(t) ELSE t

\* cons_putstr, cons_putstr0: one character after the other.
Putstr(s, text) ==
    LET put[n \in 0 .. Len(text)] == IF n = 0 THEN s ELSE Putchar(put[n - 1], text[n])
    IN  put[Len(text)]

\* The path of a directory, whose names have one letter here.
PathLength(d) == 2 * d + 1

\* cons_putdir and the '>' after it.
Prompt(d) == Append([i \in 1 .. PathLength(d) |-> "/"], ">")

Cursor(c) == [row |-> row[c], y |-> y[c]]
At(c, s) ==
    /\ row' = [row EXCEPT ![c] = s.row]
    /\ y' = [y EXCEPT ![c] = s.y]

\* Where the next character goes in cmdline, and what is before it: a line
\* that was copied while the screen showed a longer one ends earlier.
Index(c) == Len(row[c]) - path[c] - 1
Typed(c) == SubSeq(line[c], 1, Min({Index(c), Len(line[c])}))

\* console_task up to its loop.
ShellInit ==
    /\ dir = [c \in Consoles |-> 0]
    /\ row = [c \in Consoles |-> Prompt(0)]
    /\ y = [c \in Consoles |-> 0]
    /\ line = [c \in Consoles |-> <<>>]
    /\ path = [c \in Consoles |-> PathLength(0)]
    /\ game = [c \in Consoles |-> None]
    /\ pc = [c \in Consoles |-> "key"]
    /\ hist = NoHistory
    /\ mixed = {}
    /\ fault = "none"

InGame(c) == game[c] # None

\* Console c executes the statement called here.
Goes(c, here) == fault = "none" /\ pc[c] = here
Then(c, next) == pc' = [pc EXCEPT ![c] = next]

\* An index below zero addresses the stack before cmdline.
Astray(c) ==
    /\ Index(c) < 0
    /\ fault' = "stack"
    /\ UNCHANGED <<dir, row, y, line, path, game, pc, hist, mixed>>

-----------------------------------------------------------------------------
(* The keys of both editors. *)

\* A character; the arrow keys are characters while the history is empty.
Limit(c) == IF InGame(c) THEN GameLimit ELSE EditLimit
Type(c, k) ==
    /\ Goes(c, "key")
    /\ Len(row[c]) < Limit(c)
    /\ \/ Astray(c)
       \/ /\ Index(c) >= 0
          /\ line' = [line EXCEPT ![c] = IF Index(c) > Len(@) THEN @
                                         ELSE Append(Typed(c), k)]
          /\ At(c, Putchar(Cursor(c), k))
          /\ UNCHANGED <<dir, path, game, pc, hist, mixed, fault>>

\* Mutant: the '>' is erased as well.
EraseOneMore(c) ==
    /\ Goes(c, "key")
    /\ Len(row[c]) > path[c]
    /\ row' = [row EXCEPT ![c] = Front(@)]
    /\ line' = [line EXCEPT ![c] = SubSeq(@, 1, Min({Index(c) - 1, Len(@)}))]
    /\ UNCHANGED <<dir, y, path, game, pc, hist, mixed, fault>>

\* Backspace, down to the prompt; what is right of the cursor is not the line.
Erase(c) ==
    /\ Goes(c, "key")
    /\ Len(row[c]) > path[c] + 1
    /\ row' = [row EXCEPT ![c] = Front(@)]
    /\ line' = [line EXCEPT ![c] = SubSeq(@, 1, Min({Index(c) - 1, Len(@)}))]
    /\ UNCHANGED <<dir, y, path, game, pc, hist, mixed, fault>>

\* The consoles that have tested the history and not yet copied it.
Recalling == {c \in Consoles : pc[c] \in {"show", "copy"}}

\* Enter in console_task: the line ends here, and the history is set up anew.
Enter(c) ==
    /\ Goes(c, "key")
    /\ ~ InGame(c)
    /\ \/ Astray(c)
       \/ /\ Index(c) >= 0
          /\ line' = [line EXCEPT ![c] = Typed(c)]
          /\ At(c, Newline(Cursor(c)))
          /\ hist' = NoEntry
          /\ mixed' = mixed \cup Recalling
          /\ Then(c, IF Typed(c) = <<>> THEN "run" ELSE "note")
          /\ UNCHANGED <<dir, path, game, fault>>

\* The line is copied to the history, unless it is empty.
Note(c) ==
    /\ Goes(c, "note")
    /\ hist' = line[c]
    /\ mixed' = mixed \cup Recalling
    /\ Then(c, "run")
    /\ UNCHANGED <<dir, row, y, line, path, game, fault>>

-----------------------------------------------------------------------------
(* cons_runcmd, and the prompt after it. *)

\* Mutant: path_length is computed before the command.
PromptedBefore(c, s, d) ==
    /\ At(c, Putstr(s, Prompt(d)))
    /\ path' = [path EXCEPT ![c] = PathLength(dir[c])]
    /\ line' = [line EXCEPT ![c] = <<>>]
    /\ mixed' = mixed \ {c}
    /\ Then(c, "key")

\* The console shows the prompt of directory d where s has left the cursor.
Prompted(c, s, d) ==
    /\ At(c, Putstr(s, Prompt(d)))
    /\ path' = [path EXCEPT ![c] = PathLength(d)]
    /\ line' = [line EXCEPT ![c] = <<>>]
    /\ mixed' = mixed \ {c}
    /\ Then(c, "key")

RunCd(c) ==
    /\ Goes(c, "run")
    /\ line[c] = CdLine
    /\ \E d \in 0 .. MaxDepth :
          /\ d <= dir[c] + 1
          /\ dir' = [dir EXCEPT ![c] = d]
          /\ Prompted(c, Cursor(c), d)
    /\ UNCHANGED <<game, hist, fault>>

RunCls(c) ==
    /\ Goes(c, "run")
    /\ line[c] = ClsLine
    /\ Prompted(c, [row |-> row[c], y |-> 0], dir[c])
    /\ UNCHANGED <<dir, game, hist, fault>>

\* Any other line: "Bad command.", and the empty one, which does nothing.
RunOther(c) ==
    /\ Goes(c, "run")
    /\ line[c] \notin {CdLine, ClsLine, StampLine}
    /\ Prompted(c, IF line[c] = <<>> THEN Cursor(c)
                   ELSE Newline(Newline(Cursor(c))), dir[c])
    /\ UNCHANGED <<dir, game, hist, fault>>

\* cmd_stamp up to the loop of get_1_line: a question, and a copy of the
\* console with a prompt of its own.
RunStamp(c) ==
    /\ Goes(c, "run")
    /\ line[c] = StampLine
    /\ LET asked == Newline(Cursor(c))
       IN  /\ game' = [game EXCEPT ![c] = asked.y]
           /\ Prompted(c, asked, dir[c])
    /\ UNCHANGED <<dir, hist, fault>>

\* Enter in get_1_line, and the rest of cmd_stamp: the console itself, whose
\* cursor has not moved, is given one row more and the answer.
EndGame(c) ==
    /\ Goes(c, "key")
    /\ InGame(c)
    /\ \/ Astray(c)
       \/ /\ Index(c) >= 0
          /\ game[c] < Height - 1 + MaxBelow
          /\ game' = [game EXCEPT ![c] = None]
          /\ Prompted(c, Newline([row |-> <<>>, y |-> game[c] + 1]), dir[c])
          /\ UNCHANGED <<dir, hist, fault>>

-----------------------------------------------------------------------------
(* The arrow keys: the last line of any console is shown and copied. *)

\* The row is erased down to the width of the prompt of the root.
Recall(c) ==
    /\ Goes(c, "key")
    /\ ~ InGame(c)
    /\ hist # NoEntry
    /\ row' = [row EXCEPT ![c] = SubSeq(@, 1, IF Len(@) > 2 THEN 2 ELSE Len(@))]
    /\ Then(c, "show")
    /\ UNCHANGED <<dir, y, line, path, game, hist, mixed, fault>>

\* An entry that has become NULL, or that never was set, is followed.
Dangling(c) ==
    /\ hist \in {NoHistory, NoEntry}
    /\ fault' = "pointer"
    /\ UNCHANGED <<dir, row, y, line, path, game, pc, hist, mixed>>

Show(c) ==
    /\ Goes(c, "show")
    /\ \/ Dangling(c)
       \/ /\ hist \notin {NoHistory, NoEntry}
          /\ At(c, Putstr(Cursor(c), hist))
          /\ Then(c, "copy")
          /\ UNCHANGED <<dir, line, path, game, hist, mixed, fault>>

Copy(c) ==
    /\ Goes(c, "copy")
    /\ \/ Dangling(c)
       \/ /\ hist \notin {NoHistory, NoEntry}
          /\ line' = [line EXCEPT ![c] = hist]
          /\ Then(c, "key")
          /\ UNCHANGED <<dir, row, y, path, game, hist, mixed, fault>>

ShellNext ==
    \E c \in Consoles :
       \/ \E k \in Keys : Type(c, k)
       \/ Erase(c) \/ Enter(c) \/ Note(c)
       \/ RunCd(c) \/ RunCls(c) \/ RunOther(c) \/ RunStamp(c) \/ EndGame(c)
       \/ Recall(c) \/ Show(c) \/ Copy(c)

ShellSpec == ShellInit /\ [][ShellNext]_shellVars

-----------------------------------------------------------------------------
ShellTypeOK ==
    /\ dir \in [Consoles -> 0 .. MaxDepth]
    /\ row \in [Consoles -> Seq(Cells)] /\ line \in [Consoles -> Seq(Keys)]
    /\ \A c \in Consoles : Len(row[c]) < Width /\ Len(line[c]) < GameLimit
    /\ y \in [Consoles -> 0 .. Height - 1 + MaxBelow]
    /\ path \in [Consoles -> {PathLength(d) : d \in 0 .. MaxDepth}]
    /\ game \in [Consoles -> None .. Height - 1 + MaxBelow]
    /\ pc \in [Consoles -> {"key", "note", "run", "show", "copy"}]
    /\ hist \in Seq(Keys) \cup {NoHistory}
    /\ mixed \subseteq Consoles
    /\ fault \in {"none", "stack", "pointer"}

(* What the user sees is what Enter runs, although the code relates the    *)
(* two by the column of the cursor alone: behind a prompt stands exactly   *)
(* the line; and in the root directory there always is the prompt, also    *)
(* after a line was recalled.  In other directories a recalled line covers *)
(* part of the prompt and the first characters are not run (console.c:259).*)
LineIsShown ==
    /\ ShellTypeOK
    /\ \A c \in Consoles : pc[c] = "key" /\ c \notin mixed =>
          /\ IsPrefix(Prompt(dir[c]), row[c]) =>
                row[c] = Prompt(dir[c]) \o Typed(c)
          /\ dir[c] = 0 /\ ~ InGame(c) => IsPrefix(Prompt(0), row[c])

(* A user who stays in the root directory, plays no games and recalls      *)
(* nothing before the first Enter addresses nothing but the line, unless   *)
(* another console presses Enter in the middle of a recall.  Elsewhere the *)
(* cursor may stand left of the line: behind a recalled line, a prompt     *)
(* that fills the row, or a line of a game that does (console.c:2161).     *)
FaultsAreKnown ==
    /\ fault = "stack" => \E c \in Consoles : Index(c) < 0 /\ (dir[c] > 0 \/ InGame(c))
    /\ fault = "pointer" => hist = NoHistory \/ mixed # {}

(* The cursor leaves the window only at the end of a game, which moves it  *)
(* down without scrolling (console.c:2089), and then every command writes  *)
(* below the window until cls.                                             *)
Leaves(c) == y[c] < Height /\ y'[c] >= Height
Returns(c) == y[c] >= Height /\ y'[c] < Height
WindowLeftByGames ==
    [][\A c \in Consoles :
          /\ Leaves(c) => game[c] # None /\ game'[c] = None
          /\ Returns(c) => line[c] = ClsLine]_shellVars
=============================================================================
