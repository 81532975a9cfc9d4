SPECIFICATION FairSpec
CONSTANTS
    MaxScans = 5
    MaxAborts = 2
    MaxRestarts = 2
    MaxFails = 2
    Refusable = {"command"}
    Aborters = {"app", "supp"}
    DwellOnHome = {"app"}
INVARIANTS
    ScanSound
PROPERTIES
    RequestCompletes
CHECK_DEADLOCK FALSE
