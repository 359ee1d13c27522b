\* The table at its limit: collisions, wrap-around, updates, a full table.
CONSTANTS
    Capacity = 4
    Modulus = 16
    Multiplier = 9
    Key <- MCKey
    Val <- MCVal
SPECIFICATION Spec
INVARIANTS
    TableInv
PROPERTIES
    RefinesMap
