SPECIFICATION FairSpec
CONSTANTS
    MaxScheduled = 4
    Space = 1
    MaxReads = 2
    PauseTime = 0
    Budgets <- MCBudgets
INVARIANTS
    SleepSound
PROPERTIES
    PacketsMove
CHECK_DEADLOCK FALSE
