SPECIFICATION Spec
CONSTANTS
    Keys <- InheritanceKeys
    Registry <- Nothing
    Vocabulary <- InheritanceVocabulary
    MaxTags <- InheritanceLength
    FreeTags = 2
    Similar <- NotSimilar
    NewNames = {}
    OpenSets <- NoneOpened
INVARIANT InheritanceIsOne
INVARIANT CyclesAreReported
INVARIANT FixesResolveFindings
CHECK_DEADLOCK FALSE
