SPECIFICATION FairSpec
CONSTANTS
    c1 = c1
    Commands <- OneCommand
    WriteChannelSize = 2
    MaxChunks = 3
INVARIANTS TypeOK LogsInOrder
PROPERTIES LogsDelivered SessionEnds
CHECK_DEADLOCK FALSE
