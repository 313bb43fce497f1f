CONSTANTS
    MaxDepth = 1
    MaxIter = 1
    MaxEval = 1
    CodeSize = 2
    MaxNatives = 1
SPECIFICATION Spec
INVARIANT BodiesInOwnArena
CHECK_DEADLOCK FALSE
