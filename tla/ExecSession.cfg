\* Two chunks of output and two of input or sizes; any order of the ends.
SPECIFICATION FairSpec
CONSTANTS
    MaxOutput = 2  MaxTyped = 2
INVARIANTS
    EndIsComplete
PROPERTIES
    ExitIsReported
    EndsClean
CHECK_DEADLOCK FALSE
