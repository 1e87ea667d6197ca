SPECIFICATION FairSpec
CONSTANTS
    AnswerCap = 2
    CandCap = 1
INVARIANTS
    TypeOK
    GateOpen
    AnswersAreOfTheRound
PROPERTIES
    NextRoundAfterBrowser
    NextRoundAfterTask
CHECK_DEADLOCK FALSE
