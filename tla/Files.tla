-------------------------------- MODULE Files --------------------------------
(***************************************************************************)
(* The file system in memory of src/Even_OS/haribote/file.c and the        *)
(* commands of console.c on it: cd, mkdir, mkfile, edit, mkfs, fview, dir. *)
(*                                                                         *)
(* Directories are an array that only grows; a file is a chain of blocks   *)
(* of the data area (Disk), the file that is being edited a copy of it in  *)
(* blocks of memory (Buf), found through the one variable setfdata of all  *)
(* consoles.  A text is a sequence of letters; a block takes Chars letters *)
(* (BODY_SIZE - 1 in the code, where BODY_SIZE is 996).                    *)
(*                                                                         *)
(* What the code does once it has left an array or followed a pointer that *)
(* nobody set is not modelled: such a step leads to fault # "none", after  *)
(* which nothing happens.  Memory that nobody has written is zero.         *)
(***************************************************************************)
EXTENDS Integers, Sequences, SequencesExt, FiniteSets

CONSTANTS Consoles,     \* the consoles that run commands
          Bases, Exts,  \* the parts of a name before and after the dot
          DirNames, FileNames,   \* the names that are made
          NoExt,        \* the empty extension
          LongBases,    \* bases of MAX_NAME_LENGTH letters
          Lines,        \* the lines that are given to edit
          Blank,
          Garbage,      \* a letter of memory that nobody initialised
          DiskFile,     \* base of the entry that mkfs copies from the floppy
          MaxFinfo,     \* MAX_FINFO_NUM
          MaxMade, MaxText, DiskBlocks, Frames,   \* bounds of the model
          Chars,        \* BODY_SIZE - 1
          StackBuffer   \* the longest text that s[200] of myfsave, s[130] of
                        \* cmd_fview and temp_body[500] of cmd_edit take

ASSUME FilesAssumption ==
    /\ NoExt \in Exts /\ DirNames \cup FileNames \subseteq Bases \X Exts /\ LongBases \subseteq Bases 
    /\ {MaxFinfo, MaxMade, DiskBlocks, Frames, Chars} \subseteq Nat \ {0}
    /\ {MaxText, StackBuffer} \subseteq Nat
    /\ ".." \notin Bases \cup {DiskFile}

VARIABLES dirs,      \* the directories, the first one is the root
          data,      \* the blocks: head.stat, head.this_fdata, next, body
          held,      \* the blocks of memory that memman_alloc has given
          setfdata,  \* the first block of the copy that is edited, or 0
          cur,       \* cons->current_dir of each console
          fault,     \* "none", or what the program ran into
          heads,     \* head.this_dir and head.name of each file's first block
          saved,     \* observer: the text last saved, by the file's first block
          typed,     \* observer: the text of the copy as it was edited
          lost       \* observer: last blocks of chains that were cut

filesVars == <<dirs, data, held, setfdata, cur, fault, heads, saved, typed, lost>>

Disk == 1..DiskBlocks
Buf == DiskBlocks + 1 .. DiskBlocks + Frames
Letters == (UNION {ToSet(line) : line \in Lines}) \cup {Blank, Garbage}
ASSUME LinesAssumption == Lines \subseteq Seq(Letters)

Entry == [kind : {"dir", "file", "disk"}, base : Bases \cup {DiskFile}, ext : Exts,
          at : Nat, size : Nat, checked : BOOLEAN]
Status == {"valid", "cont", "buf", "opened"}

Unused == [stat |-> {}, orig |-> 0, next |-> 0, body |-> <<>>]
RootTable == <<[kind |-> "disk", base |-> DiskFile, ext |-> NoExt, at |-> 0,
                size |-> 0, checked |-> TRUE]>>

(***************************************************************************)
(* Names and directories                                                   *)
(***************************************************************************)

\* A file is found by all eleven letters, a directory by its first eight: one
\* that was made with a dot in its name has the dot among them.
Matches(e, base, ext) ==
    /\ e.base = base
    /\ IF e.kind = "dir" THEN e.ext = NoExt ELSE e.ext = ext

Search(d, base, ext) ==
    LET hits == {i \in DOMAIN dirs[d].table : Matches(dirs[d].table[i], base, ext)}
    IN  IF hits = {} THEN 0 ELSE CHOOSE i \in hits : \A j \in hits : i <= j

\* The path that the prompt shows: for a directory below the root the name of
\* MAX_NAME_LENGTH letters has no end, and the address that follows is shown too.
Shown(d) ==
    IF dirs[d].base \in LongBases /\ dirs[d].parent # 1 THEN Garbage ELSE dirs[d].base

\* Mutant: the path is put together in the wrong order.
AncestryReversed(d) ==
    LET up[k \in 0..Len(dirs)] == IF k = 0 THEN d
                                  ELSE IF up[k-1] <= 1 THEN 1 ELSE dirs[up[k-1]].parent
        depth == CHOOSE k \in 0..Len(dirs) : up[k] = 1 /\ \A j \in 0..k-1 : up[j] # 1
    IN  [i \in 1..depth |-> up[i - 1]]

\* The directories from below the root to d.
Ancestry(d) ==
    LET up[k \in 0..Len(dirs)] == IF k = 0 THEN d
                                  ELSE IF up[k-1] <= 1 THEN 1 ELSE dirs[up[k-1]].parent
        depth == CHOOSE k \in 0..Len(dirs) : up[k] = 1 /\ \A j \in 0..k-1 : up[j] # 1
    IN  [i \in 1..depth |-> up[depth - i]]

PathOf(d) == [i \in DOMAIN Ancestry(d) |-> Shown(Ancestry(d)[i])]

\* One part of the argument of cd.  -1: an error was reported; 0: the NULL
\* that a file's child_dir holds.
Enter(d, part) ==
    IF d <= 0 THEN -1
    ELSE IF part = ".." THEN (IF dirs[d].parent = 0 THEN -1 ELSE dirs[d].parent)
    ELSE LET i == Search(d, part, NoExt)
         IN  IF i = 0 THEN -1
             ELSE IF dirs[d].table[i].kind = "dir" THEN dirs[d].table[i].at ELSE 0

Parse(start, parts) ==
    LET go[k \in 0..Len(parts)] == IF k = 0 THEN start ELSE Enter(go[k-1], parts[k])
    IN  go[Len(parts)]

(***************************************************************************)
(* Chains of blocks                                                        *)
(***************************************************************************)
Chain(d, a) ==
    LET hop[k \in 0..DiskBlocks + Frames] ==
            IF k = 0 THEN a ELSE IF hop[k-1] = 0 THEN 0 ELSE d[hop[k-1]].next
        len == CHOOSE k \in 0..DiskBlocks + Frames : hop[k] = 0 /\ \A j \in 0..k-1 : hop[j] # 0
    IN  [i \in 1..len |-> hop[i-1]]

Text(d, a) == FlattenSeq([i \in DOMAIN Chain(d, a) |-> d[Chain(d, a)[i]].body])

\* Full blocks are counted until one that is not full or not continued.
FullBlocks(d, a) ==
    LET c == Chain(d, a)
    IN  Cardinality({i \in DOMAIN c : \A j \in 1..i : /\ "cont" \in d[c[j]].stat
                                                      /\ Len(d[c[j]].body) = Chars})

\* A block counts with BODY_SIZE, which is one more than the letters it takes.
SizeOf(d, a) ==
    LET n == FullBlocks(d, a)
    IN  (Chars + 1) * n + Len(d[Chain(d, a)[n + 1]].body)

BlockNum(d, a) == SizeOf(d, a) \div (Chars + 1) + 1

\* The free blocks of the disk, or of the memory, from the first one on.
FreeBlocks(d, h, a) ==
    LET Free(b) == IF a \in Disk THEN b \in Disk /\ "valid" \notin d[b].stat ELSE b \in Buf \ h
        found[k \in 0..DiskBlocks + Frames] ==
            IF k = 0 THEN <<>> ELSE IF Free(k) THEN Append(found[k-1], k) ELSE found[k-1]
    IN  found[DiskBlocks + Frames]

FreshStat(a) == IF a \in Disk THEN {"valid"} ELSE {"valid", "opened", "buf"}

Needed(text) == Len(text) \div Chars + 1

Room(d, h, a, text) == Needed(text) <= Len(Chain(d, a)) + Len(FreeBlocks(d, h, a))

Piece(text, i) == SubSeq(text, Chars * (i - 1) + 1,
                         IF Chars * i < Len(text) THEN Chars * i ELSE Len(text))

\* Mutants: nothing is cut off, and one block too few.
CutOffNot(d, a, text) == <<>>
CutOffLate(d, a, text) ==
    LET old == Chain(d, a)
    IN  IF Needed(text) + 1 < BlockNum(d, a) THEN SubSeq(old, Needed(text) + 1, Len(old)) ELSE <<>>

\* The blocks behind the last one that is written.
CutOff(d, a, text) ==
    LET old == Chain(d, a)
    IN  IF Needed(text) < BlockNum(d, a) THEN SubSeq(old, Needed(text) + 1, Len(old)) ELSE <<>>

\* Mutant: no block of a tail becomes free.
ReleasedNone(tail) == {}

\* Of a tail on the disk all blocks but the last become free.
Released(tail) == IF tail = <<>> THEN {} ELSE ToSet(Front(tail))

Written(d, h, a, text) ==
    LET old  == Chain(d, a)
        n    == Needed(text)
        c    == SubSeq(old \o FreeBlocks(d, h, a), 1, n)
        tail == CutOff(d, a, text)
        Block(i) ==
            LET b == IF i <= Len(old) THEN d[c[i]]
                     ELSE [stat |-> FreshStat(a), orig |-> c[i], next |-> 0, body |-> <<>>]
            IN  [b EXCEPT !.body = Piece(text, i),
                          !.next = IF i < n THEN c[i+1] ELSE IF tail # <<>> THEN 0 ELSE @,
                          !.stat = IF i < n THEN @ \cup {"cont"}
                                   ELSE IF tail # <<>> THEN @ \ {"cont"} ELSE @]
    IN  [b \in DOMAIN d |->
            IF b \in ToSet(c) THEN Block(CHOOSE i \in 1..n : c[i] = b)
            ELSE IF b \in (IF a \in Disk THEN Released(tail) ELSE ToSet(tail))
                 THEN (IF a \in Disk THEN [d[b] EXCEPT !.stat = {}] ELSE Unused)
            ELSE d[b]]

HeldAfter(d, h, a, text) ==
    (h \cup ToSet(Chain(Written(d, h, a, text), a))) \ ToSet(CutOff(d, a, text))

\* memman_free_fdata: block after block.
Dropped(d, a) == [b \in DOMAIN d |-> IF b \in ToSet(Chain(d, a)) THEN Unused ELSE d[b]]

\* A status is added block by block, until one has it already.
WithStatus(d, a, s) ==
    LET c == Chain(d, a)
    IN  [b \in DOMAIN d |->
            IF \E i \in DOMAIN c : c[i] = b /\ \A j \in 1..i : s \notin d[c[j]].stat
            THEN [d[b] EXCEPT !.stat = @ \cup {s}] ELSE d[b]]

\* Mutant: only the first block is copied.
CopiedOne(d, from, to) == [d EXCEPT ![to] = [d[from] EXCEPT !.next = 0]]

\* The copy lies in consecutive blocks.
Copied(d, from, to) ==
    LET c == Chain(d, from)
    IN  [b \in DOMAIN d |->
            IF b \in to..to + Len(c) - 1
            THEN [d[c[b - to + 1]] EXCEPT !.next = IF b - to + 1 < Len(c) THEN b + 1 ELSE 0]
            ELSE d[b]]

(***************************************************************************)
(* The commands                                                            *)
(***************************************************************************)
FilesInit ==
    /\ dirs = <<[base |-> DiskFile, parent |-> 0, table |-> RootTable]>>
    /\ data = [b \in Disk \cup Buf |-> Unused]
    /\ held = {}
    /\ setfdata = 0
    /\ cur = [c \in Consoles |-> 1]
    /\ fault = "none"
    /\ heads = <<>>
    /\ saved = <<>>
    /\ typed = <<>>
    /\ lost = {}

Fails(what) == fault' = what /\ UNCHANGED <<dirs, data, held, setfdata, cur, heads, saved, typed, lost>>

\* "cd" with a path: an error, or the NULL of a file, leaves the directory;
\* a NULL in the middle, and the entry of the floppy, are followed anywhere.
Cd(c, absolute, parts) ==
    LET dest == Parse(IF absolute THEN 1 ELSE cur[c], parts)
    IN  /\ fault = "none"
        /\ dest > 0
        /\ cur' = [cur EXCEPT ![c] = dest]
        /\ UNCHANGED <<dirs, data, held, setfdata, fault, heads, saved, typed, lost>>

CdAstray(c, absolute, parts) ==
    /\ fault = "none"
    /\ \E k \in 1..Len(parts) :
          LET d == Parse(IF absolute THEN 1 ELSE cur[c], SubSeq(parts, 1, k - 1))
          IN  \/ d = 0
              \/ /\ d > 0 /\ parts[k] # ".." /\ Search(d, parts[k], NoExt) # 0
                 /\ dirs[d].table[Search(d, parts[k], NoExt)].kind = "disk"
    /\ Fails("pointer")

\* An entry behind the last one of the table overwrites the directory itself.
NoRoom(d) == Len(dirs[d].table) = MaxFinfo

\* Bounds the files and directories that are made.
Made == Len(dirs) + Cardinality(DOMAIN heads)

\* Mutant: a name that is in use is not refused.
MkdirUnchecked(c, base, ext) ==
    LET d == cur[c]
        e == [kind |-> "dir", base |-> base, ext |-> ext, at |-> Len(dirs) + 1,
              size |-> 0, checked |-> TRUE]
        new == [base |-> base, parent |-> d, table |-> <<>>]
    IN  /\ fault = "none" /\ ~NoRoom(d) /\ Made < MaxMade
        /\ dirs' = Append([dirs EXCEPT ![d].table = Append(@, e)], new)
        /\ UNCHANGED <<data, held, setfdata, cur, fault, heads, saved, typed, lost>>

Mkdir(c, base, ext) ==
    LET d == cur[c]
        e == [kind |-> "dir", base |-> base, ext |-> ext, at |-> Len(dirs) + 1,
              size |-> 0, checked |-> TRUE]
        new == [base |-> base, parent |-> d, table |-> <<>>]
    IN  /\ fault = "none"
        /\ Search(d, base, ext) = 0
        /\ IF NoRoom(d) THEN Fails("table")
           ELSE /\ Made < MaxMade
                /\ dirs' = Append([dirs EXCEPT ![d].table = Append(@, e)], new)
                /\ UNCHANGED <<data, held, setfdata, cur, fault, heads, saved, typed, lost>>

With(f, a, v) == [x \in {a} \cup DOMAIN f |-> IF x = a THEN v ELSE f[x]]

\* filename[12] gets eleven letters and no end: when the byte behind them is
\* not zero, the name is too long for the search and passes as unused.
Mkfile(c, base, ext, terminated) ==
    LET d == cur[c]
        free == FreeBlocks(data, held, 1)
        e == [kind |-> "file", base |-> base, ext |-> ext, at |-> free[1],
              size |-> 0, checked |-> Search(d, base, ext) = 0]
    IN  /\ fault = "none"
        /\ terminated => Search(d, base, ext) = 0
        /\ IF NoRoom(d) THEN Fails("table")
           ELSE /\ free # <<>> /\ Made < MaxMade
                /\ dirs' = [dirs EXCEPT ![d].table = Append(@, e)]
                /\ data' = [data EXCEPT ![free[1]] = [stat |-> {"valid"}, orig |-> free[1],
                                                      next |-> 0, body |-> <<>>]]
                /\ heads' = With(heads, free[1], [dir |-> d, base |-> base, ext |-> ext])
                /\ saved' = With(saved, free[1], <<>>)
                /\ UNCHANGED <<held, setfdata, cur, fault, typed, lost>>

\* Everything that the root held is forgotten; its blocks stay valid.
Mkfs(c) ==
    /\ fault = "none"
    /\ dirs' = [dirs EXCEPT ![1].table = RootTable]
    /\ cur' = [cur EXCEPT ![c] = 1]
    /\ UNCHANGED <<data, held, setfdata, fault, heads, saved, typed, lost>>

\* "edit -open": the search runs past the end of a full table; myfopen marks the
\* file, allocates as many blocks of memory as the file has, and copies.
Open(c, base, ext) ==
    LET d == cur[c]
        i == Search(d, base, ext)
        a == dirs[d].table[i].at
        n == BlockNum(data, a)
        marked == WithStatus(data, a, "opened")
        gaps == {b \in Buf : b + n - 1 \in Buf /\ held \cap b..b + n - 1 = {}}
        to == CHOOSE b \in gaps : \A b2 \in gaps : b <= b2
    IN  /\ fault = "none"
        /\ setfdata = 0
        /\ i # 0 \/ NoRoom(d)
        /\ i # 0 => dirs[d].table[i].kind # "dir"
        /\ IF i = 0 THEN Fails("table")
           ELSE IF dirs[d].table[i].kind = "disk" THEN Fails("pointer")
           ELSE /\ gaps # {}
                /\ data' = WithStatus(Copied(marked, a, to), to, "buf")
                /\ held' = held \cup to..to + n - 1
                /\ setfdata' = to
                /\ typed' = Text(data, a)
                /\ UNCHANGED <<dirs, cur, fault, heads, saved, lost>>

\* The copy is dropped, and setfdata forgotten, even if the file turns out not
\* to be open; then the blocks of the copy are not given back.
Close ==
    LET a == data[setfdata].orig
        unmarked == [data EXCEPT ![a].stat = @ \ {"opened"}]
    IN  /\ fault = "none"
        /\ setfdata # 0
        /\ IF "opened" \in data[a].stat
           THEN /\ data' = Dropped(unmarked, setfdata)
                /\ held' = held \ ToSet(Chain(data, setfdata))
           ELSE UNCHANGED <<data, held>>
        /\ setfdata' = 0
        /\ typed' = <<>>
        /\ UNCHANGED <<dirs, cur, fault, heads, saved, lost>>

\* "edit -save": the text goes through a buffer on the stack to the file.  The
\* entry whose size is set is looked up again by the name in the block's head;
\* without one nothing is saved, and the command goes on as an "edit".
Save ==
    LET a == data[setfdata].orig
        i == Search(heads[a].dir, heads[a].base, heads[a].ext)
        text == Text(data, setfdata)
        tail == CutOff(data, a, text)
    IN  /\ fault = "none"
        /\ setfdata # 0
        /\ i # 0
        /\ "opened" \in data[a].stat
        /\ Room(data, held, a, text)
        /\ data' = Written(data, held, a, text)
        /\ dirs' = [dirs EXCEPT ![heads[a].dir].table[i].size =
                                    SizeOf(Written(data, held, a, text), a)]
        /\ saved' = [saved EXCEPT ![a] = text]
        /\ lost' = IF tail = <<>> THEN lost ELSE lost \cup {Last(tail)}
        /\ UNCHANGED <<held, setfdata, cur, fault, heads, typed>>

\* The copy gets a new text.
Edited(text) ==
    /\ fault = "none"
    /\ setfdata # 0
    /\ Len(text) <= MaxText
    /\ Room(data, held, setfdata, text)
    /\ data' = Written(data, held, setfdata, text)
    /\ held' = HeldAfter(data, held, setfdata, text)
    /\ typed' = text
    /\ UNCHANGED <<dirs, setfdata, cur, fault, heads, saved, lost>>

\* "edit", "edit -add", and "edit -save" of a file whose entry is gone.
Add(line) == setfdata # 0 /\ Edited(Text(data, setfdata) \o line)

\* "edit -cls": the text is cleared, then written.
Cls(line) ==
    LET cleared == Written(data, held, setfdata, <<>>)
        kept == HeldAfter(data, held, setfdata, <<>>)
    IN  /\ fault = "none"
        /\ setfdata # 0
        /\ Room(cleared, kept, setfdata, line)
        /\ data' = Written(cleared, kept, setfdata, line)
        /\ held' = HeldAfter(cleared, kept, setfdata, line)
        /\ typed' = line
        /\ UNCHANGED <<dirs, setfdata, cur, fault, heads, saved, lost>>

\* "edit -cls" with a line of 48 letters or more: the text is cleared before the
\* line is refused.  Every other edit with such a line changes nothing.
ClsTooLong == Edited(<<>>)

\* "edit -ins": letters replace letters, blanks leave them.  Behind the end of
\* the text a blank is written and ends the line; without one the text goes on
\* with what the stack held.
Overlaid(text, line) ==
    [i \in 1..(IF Len(line) > Len(text) THEN Len(line) ELSE Len(text)) |->
        IF i <= Len(line) /\ (line[i] # Blank \/ i = Len(text) + 1) THEN line[i]
        ELSE IF i <= Len(text) THEN text[i] ELSE Garbage]

Ins(line, rest) ==
    /\ setfdata # 0
    /\ LET text == Text(data, setfdata)
           ended == Len(line) <= Len(text) \/ line[Len(text) + 1] = Blank
       IN  /\ rest = <<>> \/ (rest = <<Garbage>> /\ ~ended)
           /\ Edited(Overlaid(text, line) \o rest)

\* What "dir" lists, and what "fview" shows of a file.
Listing(d) == ToSet(dirs[d].table)
View(a) == Text(data, a)

\* A text that is longer than the buffer on the stack that it is read into.
Overrun ==
    /\ fault = "none"
    /\ \/ setfdata # 0 /\ Len(Text(data, setfdata)) > StackBuffer
       \/ \E c \in Consoles : \E e \in Listing(cur[c]) :
             e.kind = "file" /\ Len(View(e.at)) > StackBuffer
    /\ Fails("stack")

Paths == {<<p>> : p \in Bases \cup {DiskFile, ".."}} \cup {<<"..", p>> : p \in Bases}

FilesNext ==
    \/ \E c \in Consoles :
          \/ \E absolute \in BOOLEAN, parts \in Paths :
                Cd(c, absolute, parts) \/ CdAstray(c, absolute, parts)
          \/ \E n \in DirNames : Mkdir(c, n[1], n[2])
          \/ \E n \in FileNames, t \in BOOLEAN : Mkfile(c, n[1], n[2], t)
          \/ \E n \in FileNames : Open(c, n[1], n[2])
          \/ Open(c, DiskFile, NoExt)
          \/ Mkfs(c)
    \/ Close
    \/ Save
    \/ \E line \in Lines : Add(line) \/ Cls(line) \/ \E rest \in {<<>>, <<Garbage>>} : Ins(line, rest)
    \/ ClsTooLong
    \/ Overrun

FilesSpec == FilesInit /\ [][FilesNext]_filesVars

(***************************************************************************)
(* Properties                                                              *)
(***************************************************************************)

\* Entries, blocks, chains and current directories are what they can be.
FilesTypeOK ==
    /\ dirs \in Seq([base : Bases \cup {DiskFile}, parent : Nat, table : Seq(Entry)])
    /\ \A d \in DOMAIN dirs : dirs[d].parent \in 0..d - 1 /\ Len(dirs[d].table) <= MaxFinfo
    /\ data \in [Disk \cup Buf -> [stat : SUBSET Status, orig : 0..DiskBlocks + Frames,
                                  next : 0..DiskBlocks + Frames, body : Seq(Letters)]]
    /\ \A b \in DOMAIN data : Len(data[b].body) <= Chars
    /\ held \subseteq Buf /\ setfdata \in held \cup {0}
    /\ cur \in [Consoles -> DOMAIN dirs]
    /\ fault \in {"none", "pointer", "table", "stack"}
    /\ DOMAIN heads \subseteq Disk /\ DOMAIN saved = DOMAIN heads /\ lost \subseteq Disk
    /\ heads \in [DOMAIN heads -> [dir : DOMAIN dirs, base : Bases, ext : Exts]]

\* The text of each file is the one that was last saved, whatever has been
\* done since to this file's copy, to other files, to directories, and also
\* when it grew or shrank over the bounds of blocks (myfwrite): no two chains
\* share a block, no block is taken while it is in use.
SavedIsKept == \A a \in DOMAIN heads : View(a) = saved[a]

\* "edit" works on what was typed: the copy's text is the file's text when it
\* was opened with the edits since, across all blocks of the copy (myfcopy,
\* myfwrite).
TypedIsKept == setfdata # 0 => Text(data, setfdata) = typed

\* A file is marked as open exactly while its copy is edited, so that saving
\* and closing (myfsave, myfclose) do not fail on a file that was opened, also
\* if mkfs has forgotten the file in between.
OpenIsMarked ==
    {a \in DOMAIN heads : "opened" \in data[a].stat}
        = IF setfdata = 0 THEN {} ELSE {data[setfdata].orig}

\* A chain has exactly the blocks that its text needs: get_blocknum_myfdata,
\* which counts full blocks, is the chain's length, so that myfwrite cuts and
\* myfopen allocates exactly what is there.  And the mark of the open file is
\* where myfclose looks for it.
ChainsAreExact ==
    /\ FilesTypeOK
    /\ OpenIsMarked
    /\ \A a \in DOMAIN heads \cup ({setfdata} \ {0}) :
          /\ Len(Chain(data, a)) = Needed(Text(data, a))
          /\ BlockNum(data, a) = Len(Chain(data, a))

\* A block of the disk is marked valid if and only if it is in the chain of a
\* file or was the last block of a chain that was cut, which myfwrite never
\* frees; the blocks of memory are exactly those of the copy.
BlocksAccounted ==
    LET inFiles == UNION {ToSet(Chain(data, a)) : a \in DOMAIN heads}
    IN  /\ {b \in Disk : "valid" \in data[b].stat} = inFiles \cup lost
        /\ inFiles \cap lost = {}
        /\ held = IF setfdata = 0 THEN {} ELSE ToSet(Chain(data, setfdata))

\* Every file and directory that was made with a check of its name, and every
\* one that dir lists, is the one that its name finds; directories whose name
\* was given with a dot are found by no name.
NamesFound ==
    \A d \in DOMAIN dirs : \A i \in DOMAIN dirs[d].table :
        LET e == dirs[d].table[i]
        IN  (e.checked /\ (e.kind = "dir" => e.ext = NoExt)) => Search(d, e.base, e.ext) = i

\* cd with the path that the prompt shows leads to the directory of the
\* prompt, as long as mkfs has not forgotten it and its name can be typed.
PathLeadsBack ==
    \A d \in DOMAIN dirs :
        (\A e \in ToSet(Ancestry(d)) :
            /\ Shown(e) # Garbage
            /\ \E x \in Listing(dirs[e].parent) :
                  x.kind = "dir" /\ x.at = e /\ x.ext = NoExt)
        => Parse(1, PathOf(d)) = d
=============================================================================
