SPECIFICATION CalmEntrySpec
CONSTANTS
    d1 = d1
    d1Slash = d1Slash
    d2 = d2
    slashD1 = slashD1
    plain = plain
    linking = linking
    None = None
    Ids = {e1, e2}
    Dirs = {d1, d1Slash, d2}
    Slugs <- NaturalSlugs
    Texts = {plain, linking}
    Spelt = {d1, d2, slashD1}
    SplitDir <- Trimmed
    JoinDir <- TrimmedRight
    LinksOf <- Linking
    Batches <- OneOrTwo
    Workers = {w1, w2}
    MaxRequests = 3
INVARIANT HashDescribesBody
CHECK_DEADLOCK FALSE
