CONSTANTS
    LocalFormulas <- MCFormulas
    MaxRephases = 6
    MaxFlips = 6
SPECIFICATION LocalSpec
INVARIANTS
    LuckyAnswers
    PhasesHoldLargest
PROPERTIES
    WalkChecked
