SPECIFICATION Spec
CONSTANTS
    c1 = c1
    Commands <- OneCommand
    WriteChannelSize = 2
    MaxChunks = 1
INVARIANT SingleWriter
CHECK_DEADLOCK FALSE
