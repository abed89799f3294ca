\* split_str, split_str_nonempty and replace over every haystack of up to
\* five characters and every separator of MCSeps.
CONSTANTS
    Haystacks <- MCHaystacks
    Seps <- MCSeps
    Tos <- MCTos
    Callers = {"split_str", "split_str_nonempty", "replace"}
SPECIFICATION Spec
INVARIANTS
    ScanInvariant
    OutputMatchesReference
PROPERTIES
    Termination
