SPECIFICATION Spec
CONSTANTS
    AuditP = 29
    Bound = 6
    WMax = 1
    MaxShift = 2
    Programs <- MCPrograms
    Claims <- MCClaims
    Draws <- MCDraws
    MaxForged = 2
INVARIANTS
    ForgeryCaught
    HonestAccepted
PROPERTIES
    Evaluates
CHECK_DEADLOCK FALSE
