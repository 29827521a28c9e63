--------------------------------- MODULE Text ---------------------------------
(***************************************************************************)
(* putfonts8_asc (graphic.c) and its callers in window.c and console.c:    *)
(* how bytes become glyphs in the language of a task.  A character of two  *)
(* bytes waits in langbyte1 for its second byte, which may come with the   *)
(* next call.  Each byte takes one cell of eight points.                   *)
(***************************************************************************)
EXTENDS Integers, Sequences, SequencesExt

\* 0 English, 1 Japanese, 2 EUC, 3 Chinese, which a console starts with.
LangModes == 0 .. 3

\* cmd_langmode, with the character behind the word as a number.
LangMode(langmode, n) == IF n \in 0 .. 2 THEN n ELSE langmode

Begins(langmode, s) ==
    CASE langmode = 0 -> FALSE
      [] langmode = 1 -> s \in 129 .. 159 \/ s \in 224 .. 252
      [] langmode = 2 -> s \in 129 .. 254
      [] langmode = 3 -> s \in 161 .. 254

\* k and t of the second byte.
Row(langmode, b1, s) ==
    IF langmode = 1
    THEN (IF b1 \in 129 .. 159 THEN (b1 - 129) * 2 ELSE (b1 - 224) * 2 + 62)
         + (IF s \in 64 .. 126 \/ s \in 128 .. 158 THEN 0 ELSE 1)
    ELSE b1 - 161
Column(langmode, s) ==
    CASE langmode # 1 -> s - 161
      [] langmode = 1 /\ s \in 64 .. 126 -> s - 64
      [] langmode = 1 /\ s \in 128 .. 158 -> s - 128 + 63
      [] OTHER -> s - 159

\* The offset in nihongo of 32 bytes.
Font(langmode, b1, s) ==
    (IF langmode = 3 THEN 0 ELSE 256 * 16)
    + (Row(langmode, b1, s) * 94 + Column(langmode, s)) * 32

\* What is drawn in a cell; a character of two bytes is drawn in the cell of
\* its second byte and the one before.
Blank == <<"blank">>
Half(s) == <<"half", s>>
Whole(offset) == <<"whole", offset>>

PutFont(text, langmode, s) ==
    IF text.langbyte1 # 0 /\ langmode # 0
    THEN [langbyte1 |-> 0,
          cells |-> Append(text.cells, Whole(Font(langmode, text.langbyte1, s)))]
    ELSE IF Begins(langmode, s)
    THEN [langbyte1 |-> s, cells |-> Append(text.cells, Blank)]
    ELSE [text EXCEPT !.cells = Append(@, Half(s))]

PutFonts(langbyte1, langmode, string) ==
    FoldLeft(LAMBDA text, s : PutFont(text, langmode, s),
             [langbyte1 |-> langbyte1, cells |-> <<>>], string)

\* The leftmost point that is drawn at x, and putfonts8_asc_sht's refresh.
DrawnFrom(langbyte1, langmode, x) == IF langbyte1 # 0 /\ langmode # 0 THEN x - 8 ELSE x
RefreshedFrom(langbyte1, langmode, x) ==
    IF langmode # 0 /\ langbyte1 # 0 THEN x - 8 ELSE x

\* The cursor behind cons_newline, the first cell being at 8.
NewlineAt(langbyte1, langmode) == IF langmode = 1 /\ langbyte1 # 0 THEN 16 ELSE 8
=============================================================================
