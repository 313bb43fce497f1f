CONSTANTS
    Exprs <- AllExprs
    Documents <- Roots
    Value <- AllValues
    Height <- AllHeights
SPECIFICATION Spec
INVARIANTS
    PathsTransparent
    FunctionsTransparent
    BindingsWin
CHECK_DEADLOCK FALSE
