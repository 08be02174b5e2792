SPECIFICATION Spec
CONSTANTS
    Messages = {m1, m2}
    NULL = NULL
    Names <- MCNames
    Texts <- MCTexts
    FromOthers <- MCFromOthers
    Dropped <- MCDropped
INVARIANTS
    HeadersAsAsked
    TextSurvives
    PropertiesStay
SYMMETRY MessageSymmetry
CHECK_DEADLOCK FALSE
