SPECIFICATION Spec
CONSTANTS
    a = a
    b = b
    c = c
    Messages <- ThreeMessages
    Wrap = 4
    NoId = NoId
    Ids <- SmallIds
INVARIANTS
    QueueAsAsked
    NeverRefused
SYMMETRY MessageSymmetry
