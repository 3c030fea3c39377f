SPECIFICATION CemSpec
CONSTANTS
    MaxShift = 62
    NumSamples = 3
    Words = {1, 3}
    Table <- MCTable
    Mu <- MCMu
    Std <- MCStd
    StdShift = 1
    Scores = {1, 2}
    Ks = {0, 2, 3}
    MaxSelected = 3
INVARIANTS
    SampledPrefix
    EliteSound
    HonestElite
    UpdateBounded
CHECK_DEADLOCK FALSE
