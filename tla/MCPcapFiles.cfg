CONSTANTS
    Lcores <- MCLcores
    Setups <- MCSetups
    BurstSize = 2
    MaxPackets = 2
SPECIFICATION FairSpec
INVARIANTS
    CaptureFaithful
    ReplayFaithful
PROPERTIES
    ThresholdEnds
\* both programs end
CHECK_DEADLOCK FALSE
