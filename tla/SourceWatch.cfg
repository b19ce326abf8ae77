\* One problem with a source in two languages, up to three notifications,
\* paths and messages on their way when a file changes.
CONSTANTS
    Problems = {A}
    Languages = {Cpp, Python}
    NoSource = NoSource
    InFlightBound = 3

SPECIFICATION FairSpec
INVARIANTS
    NoStaleSource
    LastSaveWins
PROPERTIES
    EverySaveIsTested
CHECK_DEADLOCK FALSE
