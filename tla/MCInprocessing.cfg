CONSTANTS
    Formulas <- MCFormulas
    Steps = 3
SPECIFICATION Spec
INVARIANTS
    Reconstructs
    RedundantFollows
    ProofFollows
    NamesInverse
CHECK_DEADLOCK FALSE
