SPECIFICATION Spec
CONSTANTS
    AuditP = 29
    Bound = 6
    WMax = 1
    MaxShift = 2
    PHalf = 20
    MaxK = 3
    Models <- MCModels
    Inputs <- MCInputs
    Records <- MCRecords
    Outputs <- MCOutputs
    Draws <- MCDraws
    Samples = {0, 1, 2}
    MaxPicks = 2
    Secrets <- MCSecrets
    MaxFaults = 1
INVARIANTS
    CommittedModelRan
    ForgeryCaught
    HonestAccepted
    CoverageReported
PROPERTIES
    PickingEnds
CHECK_DEADLOCK FALSE
