SPECIFICATION FairSpec
CONSTANTS
    AnswerCap = 2
    CandCap = 1
PROPERTY BrowserGoneIsNoticed
CHECK_DEADLOCK FALSE
