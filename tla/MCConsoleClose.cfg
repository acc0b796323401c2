SPECIFICATION Spec
CONSTANTS
    c1 = c1
    Commands <- OneCommand
    WriteChannelSize = 2
    MaxChunks = 1
INVARIANT CloseStopsOnlyTheWriter
CHECK_DEADLOCK FALSE
