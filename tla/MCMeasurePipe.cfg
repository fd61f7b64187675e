CONSTANTS
    NbPorts = 1
    next_stats_delay = 1
    MaxPackets = 0
    PacketSizes <- MCPacketSizes
    Times <- MCLongTime
    PipeSizes <- MCPipeSizes
    MaxInterrupts = 0
SPECIFICATION FairSpec
PROPERTIES
    ProducesCsv
CHECK_DEADLOCK FALSE
