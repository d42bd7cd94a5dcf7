\* Three changes and one error, a failing fetch or a broken watch; the watch may
\* never come up.
SPECIFICATION FairSpec
CONSTANTS
    None = None  Failure = Failure
    MaxChanges = 3  MaxErrors = 1
INVARIANTS
    CaughtUp
PROPERTIES
    MirrorsCluster
    LeftEnds
CHECK_DEADLOCK FALSE
