\* One window editor and two commands, two pods one of which is a daemon's.
SPECIFICATION Spec
CONSTANTS
    None = None
    p1 = p1  p2 = p2  d1 = d1
    Pods = {p1, p2, d1}
    Daemons = {d1}
    Menus <- TheMenus
    MaxDepth = 3
    MaxTasks = 2  MaxTyping = 2  MaxOthers = 1  MaxFailures = 1
INVARIANTS
    NoBlindOverwrite
    CleanMeansSaved
    DrainEvictsAll
PROPERTIES
    EditsOnlyWhatChanged
    UndoRestores
CHECK_DEADLOCK FALSE
