SPECIFICATION Spec
CONSTANTS
    Outputs = {"video", "audio"}
    HasText = TRUE
    FeedResults = {"ok"}
    DataResults = {"ok"}
    SeekResults = {"ok"}
    DiscTypes <- TimeDisc
    Coupled = TRUE
    Budgets <- DiscAndReset
INVARIANTS
    NoFailedCheck
CHECK_DEADLOCK FALSE
