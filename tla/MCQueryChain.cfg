SPECIFICATION Spec
CONSTANTS
    MaxParseDepth = 12
    MaxRangeSize = 3
    TextOrder <- MCTextOrder
    Openings <- ChainOpenings
    Phrases <- ChainPhrases
    Documents <- ChainDocuments
    MaxEdits <- ChainMaxEdits
PROPERTIES ChainIsApplication
CHECK_DEADLOCK FALSE
