\* raw::push_byte with an ASCII byte: does the byte end up in the string?
CONSTANTS
    Chars <- MCChars
    Texts <- MCTexts
    MaxLen = 3
    RawOps = TRUE
    RawBytes = {65}
    Undef = Undef
    NoChar = NoChar
SPECIFICATION Spec
PROPERTIES
    PushByteAppendsByte
