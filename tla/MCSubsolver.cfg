CONSTANTS
    Formulas <- Several
    Calls = 2
    Flips = 1
SPECIFICATION SubSpec
INVARIANTS
    CoreDerives
    ModelFound
CHECK_DEADLOCK FALSE
