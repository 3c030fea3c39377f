SPECIFICATION Spec
CONSTANTS
    AuditP = 13
    Bound = 3
    WMax = 1
    Layers <- MCLayers
    Claims <- MCClaims
    Draws <- MCDraws
INVARIANTS
    TypeOK
    HonestNeverFailsEquation
    CongruenceImpliesEquality
    FewFoolingChallenges
CHECK_DEADLOCK FALSE
