CONSTANTS
    MaxDepth = 2
    MaxIter = 1
    MaxEval = 2
    CodeSize = 2
    MaxNatives = 1
SPECIFICATION Spec
INVARIANTS TypeOK CountersMatchStack RefusalReported
PROPERTIES OverflowOnlyAtLimit ImplementsLimits Terminates
CHECK_DEADLOCK FALSE
