SPECIFICATION FairSpec
CONSTANTS
    Tokens = {1, 2, 3}
    BackoffMax = 3
    MaxRequests = 4
    MaxFails = 2
    MaxLeaves = 1
INVARIANTS
    SessionSound
    BackoffReached
PROPERTIES
    RequestEnds
CHECK_DEADLOCK FALSE
