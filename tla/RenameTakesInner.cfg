SPECIFICATION Spec
CONSTANTS
    Keys <- OneKey
    Registry <- Nothing
    Vocabulary <- LoopVocabulary
    MaxTags <- SixTags
    FreeTags = 5
    Similar <- NotSimilar
    NewNames = {}
    OpenSets <- NoneOpened
INVARIANT RenameLeavesInnerBinding
CHECK_DEADLOCK FALSE
