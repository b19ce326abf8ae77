\* One C++ problem whose source is opened and removed while a stress run
\* executes and a user-input run waits.
CONSTANTS
    p1 = p1
    p2 = p2
    Problems <- MCCpp
    Cpp <- MCCpp
    RunIds <- MCRunIds
    Revisions <- MCRevisions
    MaxRunId = 2
    MaxRevision = 2
    MaxCommandsPerTick = 2
    Faults = FALSE
    None = None
SPECIFICATION EngineSpec
INVARIANTS
    RunningStressIsStoppable
