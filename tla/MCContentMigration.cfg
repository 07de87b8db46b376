SPECIFICATION MigrationSpec
CONSTANTS
    p = p
    q = q
    none = none
    w = w
    Projects = {p, q}
    Words = {w}
    Legacies <- MCLegacies
    NoProject = none
INVARIANT MigrationKeepsAll
INVARIANT CleanedIsInContent
INVARIANT DroppedIsAccounted
INVARIANT SkippedForCause
