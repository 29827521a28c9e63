-------------------------------- MODULE MemMan --------------------------------
(***************************************************************************)
(* memory.c: the first-fit memory manager, a table of free areas in the    *)
(* order of their addresses.                                               *)
(*                                                                         *)
(* A unit is a page where memman_alloc_4k and memman_free_4k round, and a  *)
(* byte otherwise.  Callers give back what they were given, with the size  *)
(* they asked for; each call is one step.                                  *)
(***************************************************************************)
EXTENDS Integers, Sequences, SequencesExt, FiniteSets

CONSTANTS
    Areas,          \* the areas that HariMain frees first, a sequence
    Sizes,          \* the sizes that callers ask for
    MaxFrees        \* MEMMAN_FREES, the length of the table

AreaUnits(b) == b.addr .. b.addr + b.size - 1

ASSUME AreaAssumption ==
    /\ Areas \in Seq([addr : Nat \ {0}, size : Nat \ {0}])
    /\ \A i \in 1 .. Len(Areas) - 1 :
          Areas[i].addr + Areas[i].size < Areas[i + 1].addr
ASSUME SizesAssumption == Sizes \subseteq Nat \ {0}
ASSUME MaxFreesAssumption == MaxFrees \in Nat /\ Len(Areas) <= MaxFrees

VARIABLES
    free,           \* man->free[0 .. frees - 1]
    losts,          \* man->losts
    lostsize,       \* man->lostsize
    owned,          \* the blocks that callers hold
    answer          \* what the last memman_alloc returned

vars == <<free, losts, lostsize, owned, answer>>

Init ==
    /\ free = Areas
    /\ losts = 0
    /\ lostsize = 0
    /\ owned = {}
    /\ answer = 0

\* The first n units of entry i are taken; an entry that is used up goes.
Shrunk(i, n) ==
    IF free[i].size = n
    THEN RemoveAt(free, i)
    ELSE [free EXCEPT ![i] = [addr |-> @.addr + n, size |-> @.size - n]]

\* memman_alloc, when an entry is large enough.
Alloc(n) ==
    \E i \in DOMAIN free :
        /\ free[i].size >= n
        /\ \A j \in 1 .. i - 1 : free[j].size < n
        /\ answer' = free[i].addr
        /\ owned' = owned \cup {[addr |-> free[i].addr, size |-> n]}
        /\ free' = Shrunk(i, n)
        /\ UNCHANGED <<losts, lostsize>>

\* Mutant: the search gives up at the first entry that is too small.
AllocGivesUp(n) ==
    /\ \E i \in DOMAIN free : free[i].size < n
    /\ answer' = 0
    /\ UNCHANGED <<free, losts, lostsize, owned>>

\* memman_alloc, when none is.
AllocFails(n) ==
    /\ \A i \in DOMAIN free : free[i].size < n
    /\ answer' = 0
    /\ UNCHANGED <<free, losts, lostsize, owned>>

\* The entry before which a block at this address belongs.
Place(addr) ==
    CHOOSE i \in 1 .. Len(free) + 1 :
        /\ i <= Len(free) => free[i].addr > addr
        /\ \A j \in 1 .. i - 1 : free[j].addr <= addr

\* memman_free: the entry i - 1 ends where b begins, and b where i begins.
JoinsPrevious(b, i) == i > 1 /\ free[i - 1].addr + free[i - 1].size = b.addr
JoinsNext(b, i) == i <= Len(free) /\ b.addr + b.size = free[i].addr

\* Mutant: a block that closes a gap is joined to the area before it only.
JoinedOnce(b, i) ==
    IF JoinsPrevious(b, i)
    THEN [free EXCEPT ![i - 1].size = @ + b.size]
    ELSE [free EXCEPT ![i] = [addr |-> b.addr, size |-> b.size + @.size]]

\* The table after b has been joined to its neighbours.
Joined(b, i) ==
    IF JoinsPrevious(b, i) /\ JoinsNext(b, i)
    THEN RemoveAt([free EXCEPT ![i - 1].size = @ + b.size + free[i].size], i)
    ELSE IF JoinsPrevious(b, i)
    THEN [free EXCEPT ![i - 1].size = @ + b.size]
    ELSE [free EXCEPT ![i] = [addr |-> b.addr, size |-> b.size + @.size]]

\* memman_free of a block that touches a free area.
FreeJoins(b) ==
    LET i == Place(b.addr)
    IN  /\ JoinsPrevious(b, i) \/ JoinsNext(b, i)
        /\ free' = Joined(b, i)
        /\ owned' = owned \ {b}
        /\ UNCHANGED <<losts, lostsize, answer>>

\* memman_free of an isolated block, with room for an entry of its own.
FreeInserts(b) ==
    LET i == Place(b.addr)
    IN  /\ ~(JoinsPrevious(b, i) \/ JoinsNext(b, i))
        /\ Len(free) < MaxFrees
        /\ free' = InsertAt(free, i, b)
        /\ owned' = owned \ {b}
        /\ UNCHANGED <<losts, lostsize, answer>>

\* Mutant: the number of losses is counted and not their size.
FreeLosesUncounted(b) ==
    /\ ~(JoinsPrevious(b, Place(b.addr)) \/ JoinsNext(b, Place(b.addr)))
    /\ Len(free) = MaxFrees
    /\ losts' = losts + 1
    /\ owned' = owned \ {b}
    /\ UNCHANGED <<free, lostsize, answer>>

\* memman_free of an isolated block, with the table full: the block is lost.
FreeLoses(b) ==
    /\ ~(JoinsPrevious(b, Place(b.addr)) \/ JoinsNext(b, Place(b.addr)))
    /\ Len(free) = MaxFrees
    /\ losts' = losts + 1
    /\ lostsize' = lostsize + b.size
    /\ owned' = owned \ {b}
    /\ UNCHANGED <<free, answer>>

Next ==
    \/ \E n \in Sizes : Alloc(n) \/ AllocFails(n)
    \/ \E b \in owned : FreeJoins(b) \/ FreeInserts(b) \/ FreeLoses(b)

Spec == Init /\ [][Next]_vars

-----------------------------------------------------------------------------
Block == [addr : Nat \ {0}, size : Nat \ {0}]

TypeOK ==
    /\ free \in Seq(Block)
    /\ Len(free) <= MaxFrees
    /\ owned \subseteq Block
    /\ losts \in Nat /\ lostsize \in Nat
    /\ answer \in Nat

FreeUnits == UNION {AreaUnits(free[i]) : i \in DOMAIN free}
AllUnits == UNION {AreaUnits(Areas[i]) : i \in DOMAIN Areas}
OwnedUnits == UNION {AreaUnits(b) : b \in owned}

(* The table ascends and no two entries touch: the loops of memman_free    *)
(* look at one neighbour on each side only, so an order or a joint that is *)
(* missed once is never repaired.                                          *)
TableIsNormal ==
    /\ TypeOK
    /\ \A i \in 1 .. Len(free) - 1 :
          free[i].addr + free[i].size < free[i + 1].addr

(* No unit has two holders: blocks in use overlap neither each other nor   *)
(* the free areas.                                                         *)
NoOverlap ==
    /\ \A b, c \in owned : b # c => AreaUnits(b) \cap AreaUnits(c) = {}
    /\ OwnedUnits \cap FreeUnits = {}
    /\ OwnedUnits \cup FreeUnits \subseteq AllUnits

(* Every unit is free, or in use by one holder, or counted in lostsize.     *)
Accounted ==
    /\ NoOverlap
    /\ Cardinality(FreeUnits) + Cardinality(OwnedUnits) + lostsize
          = Cardinality(AllUnits)

(* The table implements the allocator over single units, so that a request *)
(* fails only when no run of free units is long enough.                    *)
Abstract == INSTANCE Allocator WITH Unit <- AllUnits, avail <- FreeUnits
IsAllocator == Abstract!Spec

=============================================================================
