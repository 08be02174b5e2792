SPECIFICATION Spec
CONSTANTS
    Messages = {m1, m2}
    NULL = NULL
    Names <- MCNames
    Texts <- Data
    FromOthers <- MCFromOthers
    Dropped <- MCDropped
INVARIANT HoldsTheData
CHECK_DEADLOCK FALSE
