SPECIFICATION Spec
CONSTANTS
    Models = {"a", "b"}
    Vecs <- MCVecs
    Run <- MCRun
    Starts <- MCStarts
    Windows = {0, 1, 2}
    Horizons = {0, 1, 3}
    Forged <- MCForged
    Recorded <- MCRecorded
    MaxSteps = 2
INVARIANTS
    TrajectorySound
    HonestRolloutAccepted
CHECK_DEADLOCK FALSE
