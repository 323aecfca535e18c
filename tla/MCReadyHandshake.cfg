CONSTANTS
    first = first
    second = second
    NoFile = NoFile
    Torn = Torn
    Leftover = Leftover
    Apps = {first, second}
    Talkers = {first}
    Polls = 2
    MaxLines = 2
    MaxBytes = 5
    LineSizes = {1, 4}
    StatusSize = 2
    ShutdownSize = 3
    MaxSaid = 2
SPECIFICATION FairSpec
INVARIANTS
    NeverInvalid
    CloseLeavesNothing
    StatusTellsTheStart
    RingKeepsTheNewest
PROPERTIES
    ImplementsLaunch
    LonelyStartSucceeds
CHECK_DEADLOCK FALSE
