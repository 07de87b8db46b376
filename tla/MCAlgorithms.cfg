SPECIFICATION AlgoSpec
CONSTANTS
    Dirs <- OneDir
    Texts <- FolderSlugs
    Tarballs <- FolderBatches
    MaxEntries = 7
    Names <- TwoAndGone
    CardFacets <- ThreeFacets
    Vocabulary <- TwoFacets
    Projects <- NoOrTwoEntries
    Legacies <- NoOrOneBody
    MaxLines = 5
INVARIANT PlanIsOrderFree
INVARIANT ViewsAreExact
INVARIANT LinksAreIndexed
INVARIANT ConversionKeepsSecrets
CHECK_DEADLOCK FALSE
