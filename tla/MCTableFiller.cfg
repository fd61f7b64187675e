CONSTANTS
    CommandLines <- MCCommandLines
    LcoreCount = 4
    UintModulus = 268435456
    LongModulus = 1073741824
    Capacities <- MCCapacities
    Modulus = 8
    MaxFaults = 2
    MaxFailed = 3
SPECIFICATION FairSpec
INVARIANTS
    RulesCounted
    SettingsAsGiven
    AcceptedIsConsistent
    PoolCoversRings
PROPERTIES
    FillEnds
\* the process ends
CHECK_DEADLOCK FALSE
