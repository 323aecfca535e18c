CONSTANTS
    w1 = w1
    w2 = w2
    p1 = p1
    Handler = Handler
    Watcher = Watcher
    Main = Main
    Callers <- MCCallers
    Children = {w1, w2, p1}
    Workers = {w1, w2}
    Timeout = 3
    MaxElapsed = 0
    PostTimeout = 2
    KillAfter = 3
    BootTimeout = 1
    MaxStubborn = 2
    TokenMayExpire = TRUE
    StartMayFail = TRUE
SPECIFICATION FairSpec
INVARIANTS
    ExitLeavesNoChild
    ExitLeavesNoReadyFile
    CloseIsOrderly
PROPERTIES
    CloseEndsBoth
CHECK_DEADLOCK FALSE
