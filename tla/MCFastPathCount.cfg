CONSTANTS
    Exprs <- CountExprs
    Documents <- Roots
    Value <- AllValues
    Height <- AllHeights
SPECIFICATION Spec
INVARIANT CountsAgree
CHECK_DEADLOCK FALSE
