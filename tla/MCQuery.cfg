SPECIFICATION Spec
CONSTANTS
    MaxParseDepth = 12
    MaxRangeSize = 3
    TextOrder <- MCTextOrder
    Openings <- MCOpenings
    Phrases <- MCPhrases
    Documents <- MCDocuments
    MaxEdits <- MCMaxEdits
PROPERTIES
    AnswersAreValues
    LiftsTransparent
    SortedByTerms
    PredicatesFollowRule
    StreamsAreLoops
    GroupsCollectMembers
CHECK_DEADLOCK FALSE
