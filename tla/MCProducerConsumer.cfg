SPECIFICATION DemoSpec

CONSTANTS
    BUFFER_SIZE = 2
    Builds = {"memory", "register"}
    VAR_MAX_NUM = 3
    W = 6

INVARIANTS
    MutualExclusion
    SumsAreKept

PROPERTIES
    TakenInOrder
    EntersIfReadAgain
    TakenUnlessLost
