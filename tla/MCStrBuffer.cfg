\* Safe calls only: every call of the OwnedStr interface and reserve.
CONSTANTS
    Chars <- MCChars
    Texts <- MCTexts
    MaxLen = 5
    RawOps = FALSE
    RawBytes = {}
    Undef = Undef
    NoChar = NoChar
SPECIFICATION Spec
INVARIANTS
    TypeOK
    BufferWellFormed
PROPERTIES
    CharStringRefinement
