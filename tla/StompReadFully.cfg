SPECIFICATION Spec
CONSTANTS
    Frames <- MCFrames
    Number <- MCNumber
    MaxFrames = 1
INVARIANT BodyReadFully
