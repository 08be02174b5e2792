SPECIFICATION Spec
CONSTANTS
    a = a
    NUL = NUL
    LF = LF
    Byte <- Bytes
    BlockSize = 3
    MaxBytes = 8
INVARIANTS
    TypeOK
    InsideMemory
    DataIsReceived
    NoEmptyBlock
CHECK_DEADLOCK FALSE
