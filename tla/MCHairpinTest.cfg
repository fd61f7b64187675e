CONSTANTS
    PacketCounts <- MCPacketCounts
    BurstSize = 2
    MaxRetries = 2
    Modulus = 8
SPECIFICATION FairSpec
INVARIANTS
    ExpectedIsSent
    PassedMeansAllRead
    HealthyPasses
PROPERTIES
    TestEnds
\* the test ends
CHECK_DEADLOCK FALSE
