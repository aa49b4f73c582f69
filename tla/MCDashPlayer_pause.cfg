SPECIFICATION FairSpec
CONSTANTS
    Outputs = {"video"}
    HasText = FALSE
    FeedResults = {"ok"}
    DataResults = {"ok"}
    SeekResults = {"ok"}
    DiscTypes <- NoDisc
    Coupled = TRUE
    Budgets <- PauseCalls
PROPERTIES
    ResetCompletes
    FlushCompletes
CHECK_DEADLOCK FALSE
