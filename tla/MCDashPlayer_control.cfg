SPECIFICATION Spec
CONSTANTS
    Outputs = {"video", "audio"}
    HasText = TRUE
    FeedResults = {"ok"}
    DataResults = {"ok"}
    SeekResults = {"ok"}
    DiscTypes <- FormatDisc
    Coupled = TRUE
    Budgets <- Teardowns
INVARIANTS
    TypeOK
    NoFailedCheck
    WaitedForHasDecoder
    FlushAccounted
    ResetHasOwner
    MissingTrackIsScanned
PROPERTIES
    NoDecoderDuringFlush
CHECK_DEADLOCK FALSE
