CONSTANTS
    TaskA = a
    Idle = idle
    Consoles = {c1, c2, c3}
    LastLevel = 3
    LeftOver = {0}
    MaxExcess = 1
SPECIFICATION ListSpec
INVARIANT ListsAreExact
INVARIANT RightTaskRuns
INVARIANT TopIsSound
PROPERTY IsPriorityScheduler
PROPERTY ConsoleServed
