\* A form that names a new cluster and a new user, the latter for a file that
\* does not parse.
SPECIFICATION MCSpec
CONSTANTS
    None = None  NoExtras = NoExtras
    p1 = p1  p2 = p2  a = a  b = b  c = c  d = d  u = u  X1 = X1  X2 = X2
    Paths = {p1, p2}
    LoadOrder <- TwoFiles
    HomePath = p2
    InitContents <- MCContents
    Contents <- Outside
    Specs <- CrossFile
    DeleteNames = {a, b}
    BackupKeep = 1
    MaxExternal = 0  MaxCommands = 1  MaxFailures = 0  MaxCrashes = 0
PROPERTY
    ChecksComeFirst
CHECK_DEADLOCK FALSE
