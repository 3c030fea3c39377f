SPECIFICATION Spec
CONSTANTS
    Radix = 32
    W32 = 1
    M31P = 31
    Signed31 = 2
    TextBytes = {1, 2, 3}
    MaxDims = 2
    Documents <- MCDocuments
    Noise = {0, 1, 31}
    MaxDamage <- OneDamage
INVARIANT
    Canonical
CHECK_DEADLOCK FALSE
