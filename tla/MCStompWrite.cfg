SPECIFICATION Spec
CONSTANTS
    Frames <- MCFrames
    NULL = NULL
    MaxWrites = 3
PROPERTIES
    ImplementsWriteChannel
    WriteReturns
