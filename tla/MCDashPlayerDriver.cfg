SPECIFICATION DriverSpec
CONSTANTS
    Budgets <- Separately
INVARIANTS
    DriverNeverHalts
    DriverAgrees
    PositionIsCurrent
PROPERTIES
    SeekIsAnswered
CHECK_DEADLOCK FALSE
