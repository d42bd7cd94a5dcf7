\* Two pods, three changes, two errors: deltas, relists and events in flight, with
\* fairness (and so without symmetry).
SPECIFICATION FairSpec
CONSTANTS
    a = a  b = b
    Keys = {a, b}
    MaxChanges = 3
    MaxErrors = 2
INVARIANTS
    NothingLost
PROPERTIES
    FeedsTable
CHECK_DEADLOCK FALSE
