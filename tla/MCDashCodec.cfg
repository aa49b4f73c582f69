SPECIFICATION FairSpec
CONSTANTS
    NumInput = 1
    NumOutput = 3
    HasWindow = TRUE
    MinUndequeued = 1
    Assumed = {"final"}
    Budget <- Ports
INVARIANTS
    NoFailedCheck
    AnswerOwed
    BuffersGoAround
    ActiveIsBusy
    ResumedIsActive
PROPERTIES
    FlushAnswered
    ShutdownAnswered
CHECK_DEADLOCK FALSE
