SPECIFICATION Spec
CONSTANTS
    NumInput = 1
    NumOutput = 1
    HasWindow = TRUE
    MinUndequeued = 0
    Assumed = {}
    Budget <- Small
PROPERTIES
    ImplementsContract
CHECK_DEADLOCK FALSE
