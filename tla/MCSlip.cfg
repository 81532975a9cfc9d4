CONSTANTS
    Packets <- MCPackets
    Noise <- MCNoise
    BufferLength = 4
    MaxFrames = 3
    MaxFaults = 2
    Faulty = {"wire", "alloc", "transport"}
    Oversize = FALSE
SPECIFICATION Spec
CHECK_DEADLOCK FALSE
INVARIANTS
    ReceiverSound
