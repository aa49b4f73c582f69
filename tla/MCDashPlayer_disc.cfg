SPECIFICATION Spec
CONSTANTS
    Outputs = {"video", "audio"}
    HasText = TRUE
    FeedResults = {"ok"}
    DataResults = {"ok", "eos", "wouldblock"}
    SeekResults = {"ok"}
    DiscTypes <- AnyDisc
    Coupled = TRUE
    Budgets <- OneDisc
INVARIANTS
    FlushedTrackIsQuiet
    ResumedCodecRuns
PROPERTIES
    CompleteOnlyAtTheEnd
CHECK_DEADLOCK FALSE
