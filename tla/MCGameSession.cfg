SPECIFICATION FairGameSpec
CONSTANTS
    Projects = {p1}
    Clients = {c1, c2, c3}
    ProjectOf <- SameRoom
    MaxCasts = 1
    RoomConnCap = 2
    ServerConnCap = 2
    MaxSessions = 2
    MaxMessages = 1
INVARIANTS
    HistoryMatchesRoom
    LeftBehindOnlyByRace
PROPERTIES
    StopEmptiesRoom
    StoredReachesRoom
CHECK_DEADLOCK FALSE
