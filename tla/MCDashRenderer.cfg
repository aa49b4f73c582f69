SPECIFICATION FairSpec
CONSTANTS
    NumBuffers = 1
    Limits <- Few
INVARIANTS
    NoFailedCheck
    DrainIsPosted
    NoBufferLost
PROPERTIES
    TimedAfterPause
    BuffersComeBack
CHECK_DEADLOCK FALSE
