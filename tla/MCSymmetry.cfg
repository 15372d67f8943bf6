\* The run ends when the output is written.
CONSTANTS
    NLits = 10
    MinTripleReplace = 1
    TernaryLimit = 3
    Instances <- MCInstances
    SchreierDomainLimit = 6
    MaxIterations = 2
    Factors = 1
SPECIFICATION SatSpec
INVARIANTS
    ProofChecks
    AnswerKept
    ChainSound
    Equitable
CHECK_DEADLOCK FALSE
