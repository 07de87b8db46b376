SPECIFICATION FairHubSpec
CONSTANTS
    p1 = p1
    c1 = c1
    c2 = c2
    u1 = u1
    u2 = u2
    Projects = {p1}
    Clients = {c1, c2}
    People = {u1, u2}
    ProjectOf <- OneRoom
    UserOf <- TwoUsers
    SendBuf = 2
    MaxCasts = 2
INVARIANTS
    TotalAgrees
    RoomOwnsChannel
    RosterCurrent
PROPERTIES
    ClosedChannelQuiet
    PumpsReturn
    ImplementsRoomService
CHECK_DEADLOCK FALSE
