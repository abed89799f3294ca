CONSTANTS
    Strings <- MCAsciiStrings
SPECIFICATION Spec
INVARIANTS
    RowInvariant
    LevMatchesReference
