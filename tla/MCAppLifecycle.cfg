CONSTANTS
    WorkerCores = 3
    Settings <- MCSettings
    Apps <- MCApps
SPECIFICATION FairSpec
INVARIANTS
    WorkersHaveDevice
    StatsReadable
    NothingLeftBehind
PROPERTIES
    StopEnds
    EndsWithWorkers
\* the process ends
CHECK_DEADLOCK FALSE
