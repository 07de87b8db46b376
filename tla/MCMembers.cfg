SPECIFICATION MembersSpec
CONSTANTS
    gm = gm
    u1 = u1
    u2 = u2
    i1 = i1
    e1 = e1
    w1 = w1
    w2 = w2
    Creator = gm
    Users <- MCUsers
    Invites <- MCInvites
    Entries <- MCEntries
    Handlers <- MCWorkers
    Keys <- MCKeys
    Workers <- MCWorkers
    FreshTTL = 1
    StaleTolerance = 2
    HttpTimeout = 1
    MaxTime = 4
SYMMETRY MCSymmetry
INVARIANTS
    DeletedIsEmpty
    ToldIsOrphaned
PROPERTY InviteSharedOnlyByOverlap
PROPERTY AnswerIsRecent
PROPERTY RefusalStands
PROPERTY OutageTolerated
CHECK_DEADLOCK FALSE
