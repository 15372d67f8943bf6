CONSTANTS
    NVars = 4
    Formulas <- ChronoFormulas
    JumpReasons = TRUE
    BigBig = TRUE
    ChronoLevels = 0
    Otfs = TRUE
    EagerSubsume = 4
SPECIFICATION FairSpec
INVARIANTS
    TrailInv
    RecordsAgree
    PropagationComplete
PROPERTIES
    StackSpec
    Ends
