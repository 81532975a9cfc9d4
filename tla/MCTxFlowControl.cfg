SPECIFICATION FairSpec
CONSTANTS
    App = {a1}
    LOOP = LOOP
    DRV = DRV
    BlocksOf <- MCBlocks
    EvtRoom = 1
    MaxReports = 1
    MaxPausesOf <- MCMaxPauses
INVARIANTS
    PacketsSound
    MaskFollowsPool
    WaiterWoken
    ToldTheState
PROPERTY
    PoolResumes
CHECK_DEADLOCK FALSE
