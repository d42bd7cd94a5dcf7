\* Commands in a row, and a command racing external writers and crashes.
SPECIFICATION MCSpec
CONSTANTS
    None = None  NoExtras = NoExtras
    p1 = p1  p2 = p2  a = a  b = b  c = c  d = d  u = u  X1 = X1  X2 = X2
    Paths = {p1, p2}
    LoadOrder <- TwoFiles
    HomePath = p2
    InitContents <- MCContents
    Contents <- Outside
    Specs <- MCSpecs
    DeleteNames = {a, b}
    BackupKeep = 1
    MaxExternal = 2  MaxCommands = 2  MaxFailures = 1  MaxCrashes = 1
INVARIANTS
    MergedViewAgrees
    MemoryMatchesDisk
    EditIsLocal
    EditsBuildOnLatest
    OverwrittenIsBackedUp
    NoDuplicateAdded
    ExtrasPreservedWhenSynced
PROPERTIES
    SavesAreWhole
    LastGoodKept
    SeenChangesAreLoaded
CHECK_DEADLOCK FALSE
