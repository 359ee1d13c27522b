\* A program that writes no trace leaves the one before it.
CONSTANTS
    matmul = matmul
    vector_add = vector_add
    Stems <- MCStems
    MaxPrograms = 2
    MaxSkipped = 1
    MaxCommon = 2
    MaxSkipRegression = 0
SPECIFICATION Spec
\* An evaluation ends.
CHECK_DEADLOCK FALSE
INVARIANTS
    PairsAreTwoCaptures
