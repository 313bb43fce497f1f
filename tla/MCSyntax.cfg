SPECIFICATION Spec
CONSTANTS
    MaxParseDepth = 7
    Dialects <- MCDialects
    MaxEdits <- MCMaxEdits
    MaxComments <- MCMaxComments
PROPERTIES
    DecorationsFit
    FormatKeepsTree
    FormatIsStable
    FlagsMirrorWalks
    TailWalksAgree
    OnlyEvaluableNodes
CHECK_DEADLOCK FALSE
