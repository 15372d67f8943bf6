\* All variables may be fixed or eliminated: then nothing is left to do.
CONSTANTS
    Variables <- MCVariables
    None = 0
    MaxStamp = 4
    MaxVars = 4
    MaxSize = 4
    Score <- MCScore
    Garbage = Garbage
    NoElement = NoElement
    Vector = {a, b}
    Datum = {1, 2}
    Addresses = {10, 30}
    LdMaxVectors = 3
SPECIFICATION StructuresSpec
SYMMETRY MCSymmetry
INVARIANTS
    QueueInv
    VectorsInv
PROPERTIES
    OrderSpec
    PrioritiesSpec
    ListsSpec
CHECK_DEADLOCK FALSE
