CONSTANTS
    t1 = t1
    t2 = t2
    t3 = t3
    p1 = p1
    p2 = p2
    quota = quota
    Blank = Blank
    DefaultCode = DefaultCode
    NoCode = NoCode
    Callers <- MCCallers
    Plugins <- MCPlugins
    Prefixes <- MCPrefixes
    MayAbort = TRUE
SPECIFICATION FairSpec
INVARIANTS
    AnswersAgree
    SleepersHaveAWaker
PROPERTIES
    ImplementsOneShot
    EveryCallReturns
CHECK_DEADLOCK FALSE
