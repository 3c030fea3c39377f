SPECIFICATION ChainSpec
CONSTANTS
    PHalf = 7
    MaxK = 3
    Terms <- MCTerms
    Splits <- MCSplits
INVARIANTS
    ChainTypeOK
    NoWrap
    PendingEnclosed
    TwoLimbRoundTrip
    OverflowNeedsLimbs
CHECK_DEADLOCK FALSE
