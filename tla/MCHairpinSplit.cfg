CONSTANTS
    PacketCounts <- MCPacketCounts
    BurstSize = 2
    MaxRetries = 2
    Modulus = 65536
SPECIFICATION Spec
PROPERTIES
    PassedMeansSplit
\* the test ends
CHECK_DEADLOCK FALSE
