SPECIFICATION ShellSpec
CONSTANTS
    Consoles = {c1, c2}
    Keys = {"c", "s"}
    Width = 6
    Height = 2
    EditLimit = 4
    GameLimit = 9
    MaxDepth = 2
    MaxBelow = 1
    CdLine <- Cd
    ClsLine <- Cls
    StampLine <- Stamp
SYMMETRY ConsoleSymmetry
CHECK_DEADLOCK FALSE
INVARIANTS LineIsShown FaultsAreKnown
PROPERTY WindowLeftByGames
