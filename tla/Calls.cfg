SPECIFICATION Spec
CONSTANTS
    Keys <- CallKeys
    Registry <- Nothing
    Vocabulary <- CallVocabulary
    MaxTags <- CallLength
    FreeTags = 2
    Similar <- CallSimilar
    NewNames = {"n"}
    OpenSets <- CallOpened
INVARIANT WrongCallsAreReported
INVARIANT CallsResolveAlike
INVARIANT HierarchyIsSymmetric
INVARIANT FixesResolveFindings
INVARIANT RemovalsBreakNothing
INVARIANT ExtractionIsCalled
INVARIANT CallsAreShownAlike
PROPERTY RenameKeepsMeaning
CHECK_DEADLOCK FALSE
