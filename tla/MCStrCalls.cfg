CONSTANTS
    DecodeInputs <- MCDecodeInputs
    SearchStrings <- MCSearchStrings
    SearchChars = {97, 233}
    Preds = {{97}, {233, 36864}}
    Needles <- MCNeedles
    AnyOffsets = TRUE
    CompareStrings <- MCCompareStrings
    IterStrings <- MCIterStrings
    IterCalls <- MCIterCalls
    Stops = {0, 1, 2}
    SliceStrings <- MCSliceStrings
    CharSets <- MCCharSets
    Whitespace <- MCWhitespace
    Counts = {0, 1, 2, 3, 4}
    Utf16Calls = {"to_utf16"}
    Utf16Strings <- MCUtf16Strings
    Utf16Units = {}
    TransformCalls <- TransformApis
    TextStrings <- MCTextStrings
    JoinVectors <- MCJoinVectors
    JoinSeps <- MCJoinSeps
    EachStrings <- MCEachStrings
    TextChars = {97, 233, 36864, 65536}
    WrapLimits = {0, 1, 2, 3, 4, 5}
    CaseStrings <- MCCaseStrings
    InteropCalls <- InteropApis
    CBuffers <- MCCBuffers
    OwnerStrings <- MCOwnerStrings
SPECIFICATION Spec
INVARIANTS
    DecodersAcceptValidated
    BackwardMatchesForward
    BoundaryAgreement
    SearchMatchesReference
    SearchHitIsOccurrence
    ComparisonMatchesReference
    ByteOrderIsCharOrder
    VisitsPromisedPrefix
    TrimMatchesReference
    CountsMatchReference
    PredicatesMatchReference
    ToUtf16MatchesSpec
    JoinMatchesSpec
    LinesAnyMatchesSpec
    EachVisitsPieces
    WrapRowsFit
    WrapKeepsWords
    WrapIsGreedy
    CharAccessMatchesChars
    CaseMapIdempotent
    CaseMapKeepsAscii
    ForeignBytesValidated
    CStrViewIsSlice
