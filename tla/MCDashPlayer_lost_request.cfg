SPECIFICATION FairSpec
CONSTANTS
    Outputs = {"video", "audio"}
    HasText = TRUE
    FeedResults = {"ok", "eos"}
    DataResults = {"wouldblock"}
    SeekResults = {"ok"}
    DiscTypes <- NoDisc
    Coupled = TRUE
    Budgets <- SeekAndReset
PROPERTIES
    ResetCompletes
CHECK_DEADLOCK FALSE
