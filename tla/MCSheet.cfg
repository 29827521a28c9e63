SPECIFICATION Spec
CONSTANTS
    XSize = 2
    MaxSheets = 4
    Shapes <- Windows
    Positions <- Places
    Colours = {0, 1}
INVARIANTS HeightsAgree MapIsTop ScreenShowsTop
PROPERTY OrderKept
