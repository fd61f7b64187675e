CONSTANTS
    Lcores <- MCLcores
    Setups <- MCLoopback
    CacheSize = 0
    NbTxModulus = 65536
SPECIFICATION Spec
INVARIANTS
    SendsBackOnce
\* the process ends
CHECK_DEADLOCK FALSE
