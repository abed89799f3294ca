CONSTANTS
    Strings <- MCMixedStrings
SPECIFICATION Spec
INVARIANTS
    LevMatchesReference
