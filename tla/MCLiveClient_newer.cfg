SPECIFICATION FairLiveSpec
CONSTANTS
    Projects = {"a", "b"}
    NumHandles = 2
    NumTasks = 2
    NumSessions = 1
    Budgets <- MCBudgets
PROPERTY NewerIsSpared
CHECK_DEADLOCK FALSE
