SPECIFICATION Spec
CONSTANTS
    MaxParseDepth = 12
    MaxRangeSize = 3
    TextOrder <- MCTextOrder
    Openings <- BlockOpenings
    Phrases <- BlockPhrases
    Documents <- BlockDocuments
    MaxEdits <- BlockMaxEdits
PROPERTIES BlocksBindIndex
CHECK_DEADLOCK FALSE
