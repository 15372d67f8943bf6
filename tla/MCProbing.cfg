CONSTANTS
    Formulas <- MCFormulas
    Steps = 2
    SweepLimit = 4
SPECIFICATION ProbingSpec
INVARIANTS
    GatesImplied
    Congruent
    ModelsKept
    ChainsAccepted
CHECK_DEADLOCK FALSE
