\* split_within on every string of up to four characters from a, space,
\* LF, CR and é, with limits 0 to 5.
CONSTANTS
    DecodeInputs = {}
    SearchStrings = {}
    SearchChars = {97}
    Preds = {{97}}
    Needles = {}
    AnyOffsets = FALSE
    CompareStrings = {}
    IterStrings = {}
    IterCalls = {}
    Stops = {0}
    SliceStrings = {}
    CharSets = {{}}
    Whitespace <- MCWhitespace
    Counts = {0}
    Utf16Calls = {}
    Utf16Strings = {}
    Utf16Units = {}
    TransformCalls = {"split_within"}
    TextStrings <- MCTextStrings
    JoinVectors = {}
    JoinSeps = {}
    EachStrings = {}
    TextChars = {}
    WrapLimits = {0, 1, 2, 3, 4, 5}
    CaseStrings = {}
    InteropCalls = {}
    CBuffers = {}
    OwnerStrings = {}
SPECIFICATION Spec
INVARIANTS
    WrapNoEmptyRow
