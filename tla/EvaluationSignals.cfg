CONSTANTS
    Limit = 2
    MaxClock = 3
    Helpers = {h1}
SPECIFICATION EvaluationSpec
INVARIANT FailuresProveNothing
