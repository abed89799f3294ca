CONSTANTS
    DecodeInputs = {}
    SearchStrings = {}
    SearchChars = {97}
    Preds = {{97}}
    Needles = {}
    AnyOffsets = FALSE
    CompareStrings = {}
    IterStrings <- MCIterStrings
    IterCalls <- MCReverseCharCalls
    Stops = {0, 1, 2}
    SliceStrings = {}
    CharSets = {{}}
    Whitespace = {32}
    Counts = {0}
    Utf16Calls = {}
    Utf16Strings = {}
    Utf16Units = {}
    TransformCalls = {}
    TextStrings = {}
    JoinVectors = {}
    JoinSeps = {}
    EachStrings = {}
    TextChars = {}
    WrapLimits = {}
    CaseStrings = {}
    InteropCalls = {}
    CBuffers = {}
    OwnerStrings = {}
SPECIFICATION Spec
INVARIANTS
    VisitsPromisedPrefix
