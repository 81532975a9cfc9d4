CONSTANTS
    Loop = {l1, l2}
    NULL = NULL
    PoolSize = 3
    MaxDispatch = 2
    MaxDrvEvents = 2
    Assumed = {"PatientUp", "LoneFatal"}
SPECIFICATION FairSpec
CHECK_DEADLOCK FALSE
INVARIANTS
    LoopSound
    ShutDownAtHandler
    NoFault
PROPERTY
    CallReturns
