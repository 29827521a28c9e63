SPECIFICATION FilesSpec
CONSTANTS
    Consoles = {c1, c2}
    Bases = {"A", "LONGNAME"}
    LongBases = {"LONGNAME"}
    Exts = {"", "T"}
    NoExt = ""
    Lines <- MCLines
    Blank = " "
    Garbage = "?"
    DiskFile = "NOODLE"
    DirNames <- MCDirNames
    FileNames <- MCFileNames
    MaxFinfo = 3
    MaxMade = 3
    MaxText = 4
    DiskBlocks = 3
    Frames = 3
    Chars = 2
    StackBuffer = 3
SYMMETRY ConsoleSymmetry
VIEW AliveView
CHECK_DEADLOCK FALSE
INVARIANTS SavedIsKept TypedIsKept ChainsAreExact BlocksAccounted NamesFound PathLeadsBack
