--------------------------------- MODULE Floppy ---------------------------------
(***************************************************************************)
(* file.c: the image of the floppy disk that the boot sector has loaded,   *)
(* from which programs, fonts and the files of api_fopen are read.  img    *)
(* gives the content of each cluster, from 0 on.                           *)
(***************************************************************************)
EXTENDS Integers, Sequences, SequencesExt, FiniteSetsExt

CONSTANTS
    Block,          \* bytes of a cluster, 512
    Upper(_)        \* the capital of a character

-----------------------------------------------------------------------------
(* file_readfat: three bytes for two entries of twelve bits. *)

ReadFat(bytes, entries) ==
    [c \in 0 .. entries - 1 |->
        LET j == 3 * (c \div 2) + 1
        IN  IF c % 2 = 0 THEN bytes[j] + 256 * (bytes[j + 1] % 16)
            ELSE (bytes[j + 1] \div 16) + 16 * bytes[j + 2]]

-----------------------------------------------------------------------------
(* file_loadfile: the clusters are counted by the size; the mark at the end *)
(* of a chain is not looked for.                                           *)

Clusters(clustno, size, fat) ==
    LET n == Max({1, (size + Block - 1) \div Block})
        at[k \in 1 .. n] == IF k = 1 THEN clustno ELSE fat[at[k - 1]]
    IN  at

LoadFile(clustno, size, fat, img) ==
    LET at == Clusters(clustno, size, fat)
    IN  [i \in 1 .. size |-> img[at[((i - 1) \div Block) + 1]][((i - 1) % Block) + 1]]

\* file_loadfile2.  unpacked gives what the files packed by tek hold; only
\* files of 17 bytes or more are looked at, and the length is returned with it.
LoadFile2(clustno, size, fat, img, unpacked) ==
    LET buf == LoadFile(clustno, size, fat, img)
    IN  IF size >= 17 /\ buf \in DOMAIN unpacked THEN unpacked[buf] ELSE buf

-----------------------------------------------------------------------------
(* file_search: the name is laid out in eight and three places. *)

NoLetter == " "
Spaces == [j \in 1 .. 11 |-> NoLetter]

Laid(l, c) ==
    CASE l.j >= 11 -> [l EXCEPT !.fits = FALSE]
      [] l.j <= 8 /\ c = "." -> [l EXCEPT !.j = 8]
      [] OTHER -> [l EXCEPT !.s[l.j + 1] = Upper(c), !.j = @ + 1]
LaidOut(name) == FoldLeft(Laid, [s |-> Spaces, j |-> 0, fits |-> TRUE], name)

\* An entry is a plain file unless its type has 0x08 or 0x10.  Only the first
\* entry is tested for being empty, and so the search passes the end.
Plain(e) == ~ e.special
FileSearch(name, dir) ==
    LET found == {i \in DOMAIN dir : Plain(dir[i]) /\ dir[i].name = LaidOut(name).s}
    IN  IF ~ LaidOut(name).fits \/ dir[1].name = <<>> \/ found = {} THEN 0
        ELSE Min(found)

\* cmd_fddir lists the sizes of 50 entries at most, without those deleted.
Deleted(e) == e.name # <<>> /\ e.name[1] = "e5"
FdDir(dir, MAX_FINFO_NUM) ==
    LET ends == {i \in DOMAIN dir : dir[i].name = <<>>} \cup {MAX_FINFO_NUM + 1, Len(dir) + 1}
    IN  {i \in 1 .. Min(ends) - 1 : ~ Deleted(dir[i]) /\ Plain(dir[i])}

\* cmd_app: the first 13 characters, and then with ".HRB" behind them.
Program(word, dir) ==
    LET name == SubSeq(word, 1, Min({13, Len(word)}))
        whole == FileSearch(name, dir)
    IN  IF whole # 0 \/ Last(name) = "." THEN whole
        ELSE FileSearch(name \o <<".", "H", "R", "B">>, dir)
=============================================================================
