SPECIFICATION Spec

CONSTANTS
    Back = Back
    Mouse = Mouse
    Menu = Menu
    PinLength = 6
    Cells = 16
    MaxWindows = 2
    MaxTasks = 2
    MaxTyped = 1
    ConsoleSize = 42240
    LogSize = 337920
    MessageSize = 161294

CHECK_DEADLOCK FALSE

INVARIANTS
    WindowsAreOwned
    ClosedOnce

PROPERTIES
    FaultsFromInput
    AskedIsClosed
    PinOpens
