CONSTANTS
    NVars = 3
    Formulas <- MCFormulas
    Offered <- MCOffered
    MaxClauses = 4
SPECIFICATION CheckerSpec
INVARIANTS
    Implied
    NeverAborts
    AcceptsSoundly
CHECK_DEADLOCK FALSE
