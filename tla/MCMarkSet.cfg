CONSTANTS
    Marks <- MCMarks
    MarkIdModulus = 4
    PktCntModulus = 3
    InitialSize = 1
    AddedSpace = 2
    BurstSize = 2
    MaxPackets = 5
SPECIFICATION Spec
INVARIANTS
    DistinctIds
    NeverOvercounts
    TotalsOnZeroedHeap
PROPERTIES
    RecordsKept
\* no packets beyond MaxPackets
CHECK_DEADLOCK FALSE
