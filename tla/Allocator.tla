------------------------------ MODULE Allocator ------------------------------
(***************************************************************************)
(* What the memory manager promises, without its table: a block is taken   *)
(* from units that are free, a request is refused only when no run of free *)
(* units is long enough, and a block that is given back is free again      *)
(* unless it touches no free unit, in which case it may be lost.           *)
(***************************************************************************)
EXTENDS Integers

CONSTANTS
    Unit,           \* the addresses that were ever given to the manager
    Sizes           \* the sizes that are asked for

VARIABLES
    avail,          \* the free units
    owned,          \* the blocks that callers hold
    answer          \* what the last request returned: an address, or 0

vars == <<avail, owned, answer>>

UnitsOf(b) == b.addr .. b.addr + b.size - 1

Init ==
    /\ avail = Unit
    /\ owned = {}
    /\ answer = 0

Alloc(n) ==
    \E a \in avail :
        LET b == [addr |-> a, size |-> n]
        IN  /\ UnitsOf(b) \subseteq avail
            /\ avail' = avail \ UnitsOf(b)
            /\ owned' = owned \cup {b}
            /\ answer' = a

Refuse(n) ==
    /\ \A a \in avail : ~(a .. a + n - 1 \subseteq avail)
    /\ answer' = 0
    /\ UNCHANGED <<avail, owned>>

Free(b) ==
    /\ avail' = avail \cup UnitsOf(b)
    /\ owned' = owned \ {b}
    /\ UNCHANGED answer

Lose(b) ==
    /\ b.addr - 1 \notin avail
    /\ b.addr + b.size \notin avail
    /\ owned' = owned \ {b}
    /\ UNCHANGED <<avail, answer>>

Next ==
    \/ \E n \in Sizes : Alloc(n) \/ Refuse(n)
    \/ \E b \in owned : Free(b) \/ Lose(b)

Spec == Init /\ [][Next]_vars

=============================================================================
