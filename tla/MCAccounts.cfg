SPECIFICATION AccountsSpec
CONSTANTS
    u1 = u1
    u2 = u2
    s1 = s1
    s2 = s2
    w1 = w1
    w2 = w2
    Accounts <- MCAccounts
    EmailOf <- MCEmailOf
    Sessions <- MCSessions
    Workers <- MCWorkers
    JwtTTL = 3
    RevalidateTTL = 1
    MaxTrip = 1
    LoginBy = 0
    MaxOps = 2
    MaxTime = 5
    Users <- MCUsers
    Tokens <- MCTokens
    Handlers <- MCWorkers
    ResetTTL = 2
    MaxWait = 1
    LastTime = 3
SYMMETRY MCSymmetry
INVARIANT DisabledIsOut
INVARIANT RefusedForCause
INVARIANT NewestIsOpen
PROPERTY ClosedTokenIsShut
\* The clock of the resets stops at LastTime, when no account may be left.
CHECK_DEADLOCK FALSE
