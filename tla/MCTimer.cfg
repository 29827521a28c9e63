CONSTANTS
    t1 = t1
    t2 = t2
    u1 = u1
    u2 = u2
    Pool = {t1, t2}
    TaskTimer = tt
    Sentinel = s
    Nil = Nil
    User = {u1, u2}
    Delays = {0, 2, 15}
    Slices = {1, 2}
    Word = 16
    MaxCount = 5
SYMMETRY Alike
SPECIFICATION Spec
CHECK_DEADLOCK FALSE
INVARIANT ListIsExact
PROPERTY IsTimerService
