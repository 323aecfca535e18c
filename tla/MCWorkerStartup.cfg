CONSTANTS
    handler = handler
    watcher = watcher
    Children = {1, 2}
    Callers <- MCCallers
    Timeout = 1
    MaxElapsed = 3
    Manifests <- MCManifests
    Hosts <- MCHosts
    Names = {"a", "b"}
    TrustedNames = {"b"}
    AllowedModes = {"in_process"}
    Malformed = {"Read All", ""}
    Blank = {""}
SPECIFICATION FairSpec
INVARIANTS
    ServesTheEntitled
    HardenedAsDeclared
    BadDirectoryLeavesNothing
    PassedAreDoomed
    NothingForgotten
    CallBounded
PROPERTIES
    EveryCallReturns
CHECK_DEADLOCK FALSE
