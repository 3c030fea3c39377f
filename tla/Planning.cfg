SPECIFICATION BSpec
CONSTANTS
    Models = {"a", "b", "c"}
    Unbound = {"c"}
    Vecs <- MCVecs
    Run <- MCRun
    CostMax = 8
    Requests <- MCRequests
    Goals <- MCGoals
    Forged <- MCForged
    Costs = {1, 4, 9}
    MaxSent = 2
INVARIANTS
    TypeOK
    SelectionSound
    HonestPlanAccepted
    SameVerdict
PROPERTIES
    BothAnswer
CHECK_DEADLOCK FALSE
