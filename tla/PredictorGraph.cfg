SPECIFICATION Spec
CONSTANTS
    AuditP = 4001
    Bound = 127
    WMax = 7
    MaxShift = 8
    Half = 8
    IntWidth = 64
    Silu <- MCSilu
    Gelu <- MCGelu
    ExpEntry <- MCExpEntry
    Draws = {1, 1723}
    Models <- MCModels
INVARIANTS
    ScalesMeet
    RunsToTheEnd
    OutputIsForward
CHECK_DEADLOCK FALSE
