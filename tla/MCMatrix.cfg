CONSTANTS
    NLits = 9
    MinTripleReplace = 16
    TernaryLimit = 2048
    Instances <- MatrixInstances
    SchreierDomainLimit = 6
    MaxIterations = 2
    Factors = 1
SPECIFICATION SatSpec
INVARIANT AnswerKept
CHECK_DEADLOCK FALSE
