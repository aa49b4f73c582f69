SPECIFICATION Spec
CONSTANTS
    Outputs = {"video"}
    HasText = FALSE
    FeedResults = {"ok"}
    DataResults = {"ok", "wouldblock"}
    SeekResults = {"ok"}
    DiscTypes <- NoDisc
    Coupled = FALSE
    Budgets <- VideoCalls
INVARIANTS
    NoFailedCheck
    BuffersConserved
CHECK_DEADLOCK FALSE
