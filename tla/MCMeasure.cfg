CONSTANTS
    NbPorts = 2
    next_stats_delay = 1
    MaxPackets = 1
    PacketSizes <- MCPacketSizes
    Times <- MCTimes
    PipeSizes <- MCPipeSizes
    MaxInterrupts = 1
SPECIFICATION FairSpec
INVARIANTS
    RowsTruthful
    WindowsAddUp
    CleanEnd
PROPERTIES
    WaitEnds
\* the driver ends, or waits for ever
CHECK_DEADLOCK FALSE
