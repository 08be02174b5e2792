SPECIFICATION Spec
CONSTANTS
    Messages = {m1, m2}
    NULL = NULL
    Names <- MCNames
    Texts <- MCTexts
    FromOthers <- MCFromOthers
    Dropped <- MCDropped
INVARIANT PropertiesDurable
CHECK_DEADLOCK FALSE
