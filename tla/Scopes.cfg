SPECIFICATION Spec
CONSTANTS
    Keys <- OneKey
    Registry <- Nothing
    Vocabulary <- ScopeVocabulary
    MaxTags <- SixTags
    FreeTags = 5
    Similar <- NotSimilar
    NewNames = {}
    OpenSets <- NoneOpened
INVARIANT ScopesAreLexical
INVARIANT UsesAreDefinedAlike
INVARIANT ViewsFollowNesting
INVARIANT PlacesFollowText
INVARIANT TypeOK
INVARIANT FeaturesAgreeOnBinding
INVARIANT EditsTakeNothing
CHECK_DEADLOCK FALSE
