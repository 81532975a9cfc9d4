CONSTANTS
    SeqMod = 4
    Budgets <- MCBudgets
SPECIFICATION FairSpec
CHECK_DEADLOCK FALSE
INVARIANTS
    LinkSound
    OwnAnswer
    CarriedOutOnce
PROPERTIES
    CallAnswered
    ResetCompletes
