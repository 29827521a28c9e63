CONSTANTS
    Readers = {r1, r2}
    Writers = {w1, w2}
    Nil = Nil
    END = 2
    MaxData = 4
SYMMETRY Alike
SPECIFICATION Spec
INVARIANT Exclusion
INVARIANT ListsAreQueues
INVARIANT NoIncrementLost
\* All processes may sleep, with no datum left to come.
CHECK_DEADLOCK FALSE
