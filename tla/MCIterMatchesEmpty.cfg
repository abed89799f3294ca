\* split_str and replace with an empty separator.
CONSTANTS
    Haystacks <- MCHaystacks
    Seps <- MCEmptySep
    Tos <- MCTos
    Callers = {"split_str", "replace"}
SPECIFICATION Spec
INVARIANTS
    EmptySeparatorIsNoOp
