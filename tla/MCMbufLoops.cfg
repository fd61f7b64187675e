CONSTANTS
    Lcores <- MCLcores
    Setups <- MCSetups
    CacheSize = 1
    NbTxModulus = 16
SPECIFICATION FairSpec
INVARIANTS
    SingleOwner
    NothingLost
    PoolSuffices
    TemplateBehindFlag
PROPERTIES
    StopEndsWorkers
\* the process ends
CHECK_DEADLOCK FALSE
