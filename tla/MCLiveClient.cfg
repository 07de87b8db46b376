SPECIFICATION FairLiveSpec
CONSTANTS
    Projects = {"a", "b"}
    NumHandles = 2
    NumTasks = 2
    NumSessions = 1
    Budgets <- MCBudgets
INVARIANT HeldIsAlive
INVARIANT ChatIsShown
PROPERTY LetsGo
CHECK_DEADLOCK FALSE
