\* Rows to act on in one context; keys in quick succession in two.
SPECIFICATION FairSpec
CONSTANTS
    None = None
    A = A  B = B  n1 = n1  n2 = n2
    Sittings <- Both
INVARIANTS
    WatchesAreOwned
PROPERTIES
    Settles
CHECK_DEADLOCK FALSE
