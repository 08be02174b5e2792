SPECIFICATION Spec
CONSTANTS
    Frames <- MCFrames
    Number <- MCNumber
    MaxFrames = 2
INVARIANT TypeOK
PROPERTIES
    ImplementsFrameChannel
    ErrorsAreExplained
    CallReturns
