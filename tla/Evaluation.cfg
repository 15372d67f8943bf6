CONSTANTS
    Limit = 2
    MaxClock = 3
    Helpers = {h1}
SPECIFICATION FairEvaluation
INVARIANTS
    TimedOutHonest
    VerdictStands
    
    NothingLeft
PROPERTIES
    ComesToRest
