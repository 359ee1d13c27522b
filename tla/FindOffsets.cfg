\* Two captures of up to four paired records; three of four, and no less than two, must vary.
CONSTANTS
    None = None
    Req <- MCReq
    Layout <- MCLayout
    KnownFds <- MCKnownFds
    MinVaryCount = 2
    VaryPercent = 70
    MaxPairs = 4
SPECIFICATION Spec
INVARIANTS
    TypeOK
    OnlyVaryingWords
    HandlesFound
    OutputFound
    FindInv
