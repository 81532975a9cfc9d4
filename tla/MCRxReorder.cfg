SPECIFICATION FairSpec
CONSTANTS
    SnMod = 16
    Tid = {0, 1}
    First = 13
    Left = 13
    Budgets <- MCBudgets
    Window = 2
    BufferSizes = {4}
    ListMax = 4
    Hold = 2
    Protected = FALSE
INVARIANTS
    ListSound
    OutdatedWereOvertaken
PROPERTIES
    DeliversInOrder
    HeldAreReleased
CHECK_DEADLOCK FALSE
