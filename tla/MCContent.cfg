SPECIFICATION ContentSpec
CONSTANTS
    d1 = d1
    d1Slash = d1Slash
    d2 = d2
    slashD1 = slashD1
    plain = plain
    linking = linking
    None = None
    Ids = {e1, e2}
    Dirs = {d1, d1Slash, d2}
    Slugs <- NaturalSlugs
    Texts = {plain, linking}
    Spelt = {d1, d2, slashD1}
    SplitDir <- Trimmed
    JoinDir <- TrimmedRight
    LinksOf <- Linking
    Batches <- OneOrTwo
    Workers = {w1, w2}
    MaxRequests = 4
    c1 = c1
    c2 = c2
    x = x
    Names <- MCNames
    Kebab <- MCKebab
    Seeds <- MCSeeds
    CardSets <- MCCardSets
    Uploads <- MCUploads
    Docs = {x}
    Callers = {c1, c2}
    MaxCalls = 3
INVARIANTS
    SettledAgrees
    BodyNeverLost
    LinkAddressesEntry
    SearchFindsEntries
    UsedIsKnown
SYMMETRY MCContentSymmetry
CHECK_DEADLOCK FALSE
