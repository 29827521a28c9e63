CONSTANTS
    Size = 3
    Data = {d1, d2}
    NoDatum = NoDatum
SPECIFICATION RaceSpec
INVARIANT QuietCursorsAgree
