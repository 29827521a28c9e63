CONSTANTS
    Areas <- TwoAreas
    Sizes = {1, 2, 3}
    MaxFrees = 3
SPECIFICATION Spec
INVARIANT TableIsNormal
INVARIANT Accounted
PROPERTY IsAllocator
