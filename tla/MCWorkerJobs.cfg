CONSTANTS
    WorkerCores = 4
    Settings <- MCSettings
SPECIFICATION FairSpec
INVARIANTS
    TypeOK
    QueuesExclusive
    PollsExistingQueue
    AllQueuesServed
    BalancedLoad
PROPERTIES
    ArgsStable
    ImplementsPartition
    EveryQueuePolled
\* main ends at "joined" once every worker has finished
CHECK_DEADLOCK FALSE
