\* Two problems, one C++ and one Python, two runs of any kind, and two source
\* notifications: both sources appear, or one appears and disappears again;
\* attempts may panic and threads fail to spawn.
CONSTANTS
    p1 = p1
    p2 = p2
    Problems <- MCProblems
    Cpp <- MCCpp
    RunIds <- MCRunIds
    Revisions <- MCRevisions
    MaxRunId = 2
    MaxRevision = 2
    MaxCommandsPerTick = 2
    Faults = TRUE
    None = None
SPECIFICATION FairEngineSpec
INVARIANTS
    ShownRunsAreInPipeline
    OneRunOnScreen
    InvariantsHold
PROPERTIES
    ShutdownIsSilent
    RemovedInputNeverSpawned
    RunOfP1AndShutdownComplete
    KeepsSampleDuty
