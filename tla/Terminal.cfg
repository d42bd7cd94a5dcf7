\* MCTerminal: every sitting.
SPECIFICATION Spec
CONSTANTS
    None = None
    AnyName <- MCNames
    Scenes <- MCScenes
    MaxFavorites = 1
    MaxHistory = 2
    Ring = 4
    Height = 2
    MaxPings = 2
    Screen = 2
    MaxReplicas = 20
INVARIANTS
    MemoryAgrees
    WatchedIsShown
    PingsAreUnderWay
    EscGoesHome
PROPERTIES
    SelectionKept
    PausedStaysPut
CHECK_DEADLOCK FALSE
