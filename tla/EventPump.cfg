\* Three shells or editors; the waits may give up on a thread that is slow.
SPECIFICATION FairPump
CONSTANTS
    MaxSuspends = 3
INVARIANTS
    OneReader
PROPERTIES
    KeysComeBack
CHECK_DEADLOCK FALSE
