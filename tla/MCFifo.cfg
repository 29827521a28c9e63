CONSTANTS
    Size = 3
    Data = {d1, d2}
    NoDatum = NoDatum
SPECIFICATION FifoSpec
INVARIANT RingIsExact
INVARIANT NoLostWakeup
PROPERTY IsBoundedQueue
PROPERTY DatumServed
