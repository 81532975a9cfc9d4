CONSTANTS
    Node = {n1, n2, n3}
    NULL = NULL
    Key = {k1, k2}
    NoKey = NoKey
    Task = {api, loop}
    Loop = loop
    TimeBits = 3
    Deltas = {0, 1}
    MaxLate = 2
    MaxDispatch = 2
SPECIFICATION SafeSpec
SYMMETRY Symmetry
VIEW Relative
CHECK_DEADLOCK FALSE
INVARIANTS
    PoolSound
PROPERTY
    ImplementsTimerList
