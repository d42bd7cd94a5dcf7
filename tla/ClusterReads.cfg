CONSTANTS
    None = None
    MaxRestarts = 1
    Chunk = 1
    Limit = 2
    MaxTablePages = 2
    LogBatch = 2
    Scenes <- MCScenes
SPECIFICATION Spec
INVARIANTS
    LoadCoversUse
    FaultsAreShown
    AnswersHoldTogether
CHECK_DEADLOCK FALSE
