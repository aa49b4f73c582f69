SPECIFICATION FairSpec
CONSTANTS
    Outputs = {"video", "audio"}
    HasText = TRUE
    FeedResults = {"ok"}
    DataResults = {"wouldblock"}
    SeekResults = {"ok"}
    DiscTypes <- FormatDisc
    Coupled = TRUE
    Budgets <- LiveCalls
PROPERTIES
    ResetCompletes
CHECK_DEADLOCK FALSE
