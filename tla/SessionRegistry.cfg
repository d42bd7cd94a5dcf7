\* One tab that connects, retries and closes, whose page is reloaded once, so that
\* its sessions replace each other; every command under way is polled to its end.
SPECIFICATION FairSpec
CONSTANTS
    None = None
    t1 = t1  t2 = t2
    Tabs = {t1}
    MaxOpens = 2  MaxStreams = 2  MaxReloads = 1
INVARIANTS
    NeverStoppedForAnother
    StreamsUseTheirSession
    NoEntryLeftBehind
PROPERTIES
    NothingRunsOn
CHECK_DEADLOCK FALSE
