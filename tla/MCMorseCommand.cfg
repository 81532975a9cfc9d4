SPECIFICATION FairSpec
CONSTANTS
    Loop = Loop
    App = App
    None = None
    Ids = {id}
    MaxRetry = 2
    MaxSeq = 2
    MaxCommands = 3
    MaxFaults = 1
    MaxRestarts = 1
INVARIANTS
    QueueSound
    OwnResponse
PROPERTIES
    CommandReturns
CHECK_DEADLOCK FALSE
