SPECIFICATION MSpec
CONSTANTS
    Radix = 32
    W32 = 1
    M31P = 31
    Signed31 = 2
    TextBytes = {1, 2, 3}
    MaxDims = 2
    Documents <- MCManifestDocuments
    Noise = {0, 1, 31}
    MaxDamage <- MCMaxDamage
    Hash <- MCHash
    Version <- MCVersion
    WireVersion <- MCWireVersion
    Prefix <- MCPrefix
    Dot = 3
    WeightOps <- MCWeightOps
    MaxEdits = 1
INVARIANTS
    TypeOK
    RoundTrip
    CanonicalButShifts
    SealBinds
    SealHolds
    ChallengesBind
CHECK_DEADLOCK FALSE
