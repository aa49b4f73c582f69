SPECIFICATION PartsSpec
CONSTANTS
    Readers = {r1, r2}
    Times = {0, 5}
    PacketBudget = 6
    TableOrder = 12
    Saturated = 3
    Orders = {0, 1, 2, 3, 4, 5, 8, 10, 11, 12, 13}
    Addresses = {0, 1, 16, 31}
    Messages <- AMessages
    RefusalBudget = 2
    Trusted = {"settled", "one port"}
    LastFormat = 4
    Depth = 4
    MinUndequeued = 2
    Outputs = 3
    Partitions <- DataPartitions
    Images = {90, 150, 390}
    BlocksPerGroup = 100
    InodeBlocks = 4
    DescPerBlock = 2
    ReservedGdt = 3
    ReserveBlocks = 10
    Slack = 5
    BootBudget = 4
INVARIANTS
    SomebodyIsTold
    StreamIsTrue
    LayoutFits
    TwiddlesRight
    ConfiguredAsAsked
    FormatFitsFrame
    WindowIsLeftClean
    ResizeSettles
CHECK_DEADLOCK FALSE
