SPECIFICATION Spec
CONSTANTS
    Keys <- MCKeys
    Directions <- MCDirections
    MaxItems = 5
    MaxKeys = 6
INVARIANTS
    TypeOK
    PermutationKept
    SortedStably
    UnorderableReported
PROPERTY
    Terminates
CHECK_DEADLOCK FALSE
