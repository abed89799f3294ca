\* All eight split functions, an ASCII and a non-ASCII separator, and
\* splitn counts 0, 1 and 2.
CONSTANTS
    Haystacks <- MCHaystacks
    SepChars = {44, 233}
    SepSets <- MCSepSets
    Counts = {0, 1, 2}
SPECIFICATION Spec
INVARIANTS
    FieldStartsOnBoundary
    SplitMatchesReference
