\* Every batch of up to four events, in a session inside a workspace.
CONSTANTS
    WorkspaceAvailable = TRUE
    BatchBound = 4

SPECIFICATION Spec
INVARIANTS
    QuitIsOrderedElsewhere
    RefreshLosesNoEdit
CHECK_DEADLOCK FALSE
