CONSTANTS
    w1 = w1
    w2 = w2
    p1 = p1
    Handler = Handler
    Watcher = Watcher
    Main = Main
    Callers <- MCCallers
    Children = {w1}
    Workers = {w1}
    Timeout = 3
    MaxElapsed = 0
    PostTimeout = 2
    KillAfter = 3
    BootTimeout = 1
    MaxStubborn = 0
    TokenMayExpire = TRUE
    StartMayFail = FALSE
SPECIFICATION Spec
INVARIANTS
    WorkersCanTerminate
CHECK_DEADLOCK FALSE
