CONSTANTS
    MaxRetry = 3
    MaxQueries = 3
    MaxRestarts = 2
    Powerdown = {TRUE, FALSE}
SPECIFICATION FairSpec
CHECK_DEADLOCK FALSE
INVARIANTS
    TypeOK
    NoEventFault
    MonitorFollows
    SleepFollows
    RequestOwned
    DriverFollows
    PowerSaveFollows
PROPERTIES
    EntrySuccessMeansAsleep
    RequestAnswered
