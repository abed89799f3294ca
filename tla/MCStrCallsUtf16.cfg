\* is_utf16 and from_utf16 on every unit vector of up to two units over a
\* 0 unit, a, high and low surrogates, surrogate pairs of planes 1 and 2
\* among them.
CONSTANTS
    DecodeInputs = {}
    SearchStrings = {}
    SearchChars = {97}
    Preds = {{97}}
    Needles = {}
    AnyOffsets = FALSE
    CompareStrings = {}
    IterStrings = {}
    IterCalls = {}
    Stops = {0}
    SliceStrings = {}
    CharSets = {{}}
    Whitespace = {32}
    Counts = {0}
    Utf16Calls = {"is_utf16", "from_utf16"}
    Utf16Strings = {}
    Utf16Units <- MCUtf16Units
    TransformCalls = {}
    TextStrings = {}
    JoinVectors = {}
    JoinSeps = {}
    EachStrings = {}
    TextChars = {}
    WrapLimits = {}
    CaseStrings = {}
    InteropCalls = {}
    CBuffers = {}
    OwnerStrings = {}
SPECIFICATION Spec
INVARIANTS
    Utf16DecodingMatchesSpec
