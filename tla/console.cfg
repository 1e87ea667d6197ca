SPECIFICATION FairSpec
CONSTANTS
    MaxPc = 3
    MaxWs = 2
    MaxRound = 2
INVARIANTS
    TypeOK
    AnswersAreApplied
    AnswersKeepToTheirSocket
PROPERTIES
    LastOfferAnswered
    DisconnectFreesAgent
CHECK_DEADLOCK FALSE
