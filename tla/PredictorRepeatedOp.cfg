SPECIFICATION PSpec
CONSTANTS
    AuditP = 29
    Bound = 6
    WMax = 1
    MaxShift = 2
    PHalf = 20
    MaxK = 3
    Programs <- MCRepeatedOp
    Claims <- MCClaims
    Draws <- MCDraws
    MayAlter <- MCMayAlter
    MaxForged = 1
INVARIANTS
    CommittedModelRan
CHECK_DEADLOCK FALSE
