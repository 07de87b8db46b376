SPECIFICATION CliSpec
CONSTANTS
    f = f
    g = g
    Projects = {p, q}
    Facets = {f, g}
    DefaultFacets = {f}
    Sessions = {session}
    Terminals = {t1, t2}
    MaxCommands = 3
    Names = {"a", "b"}
    Folders <- MCFolders
    Texts <- MCTexts
    Malformed <- MCMalformed
    Unfit <- MCUnfit
    Start <- MCStart
    Pushes <- MCPushes
    Before <- MCBefore
    Shells = {c1, c2}
    Budgets <- MCBudgets
SYMMETRY MCSymmetry
INVARIANT HomeIsKept
INVARIANT IndexIsTrue
INVARIANT BundleIsOfTheText
INVARIANT DeltaSkipsForCause
CHECK_DEADLOCK FALSE
