\* One screen with two threads, two logins, two rotations and one trouble.
CONSTANTS
    Logins = {a, b}
    Workers = {w1, w2}
    Verdicts = {Authenticated}
    Missing = Missing
    Malformed = Malformed
    None = None
    MaxIssued = 2
    MaxTroubles = 1
SPECIFICATION FairSpec
INVARIANTS
    VerdictIsAboutStored
PROPERTIES
    OnlySuccessorsReplace
    ScreenSettles
CHECK_DEADLOCK FALSE
