CONSTANTS
    TaskA = a
    Idle = idle
    Consoles = {c1, c2}
    LastLevel = 3
    Nobody = Nobody
SPECIFICATION RaceSpec
INVARIANT NoneForgotten
