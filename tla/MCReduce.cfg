CONSTANTS
    NVars = 4
    Formulas <- MCFormulas
    JumpReasons = TRUE
    BigBig = TRUE
    ChronoLevels = 100
    Otfs = TRUE
    EagerSubsume = 4
    MaxReductions = 1
SPECIFICATION ReduceSpec
INVARIANTS
    ReasonsSupport
    ProofMatchesSolver
    CollectedReferences
    AnswerSound
PROPERTIES
    ProofAccepted
