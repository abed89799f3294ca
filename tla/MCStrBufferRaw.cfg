\* The safe calls together with the raw:: byte calls.  0xC3 is a UTF-8
\* lead byte, so a byte call can leave the content invalid.
CONSTANTS
    Chars <- MCChars
    Texts <- MCTexts
    MaxLen = 4
    RawOps = TRUE
    RawBytes = {195}
    Undef = Undef
    NoChar = NoChar
SPECIFICATION Spec
INVARIANTS
    BufferWellFormed
