SPECIFICATION Spec
CONSTANTS
    Threads = {main, w1}
    Main = main
    LastGranule = 5
    Capacity = 2
    Iterations = 4
    MaxAppRounds = 3
    Faults = {"mremap", "prctl", "getgs"}
    Free = Free
CHECK_DEADLOCK FALSE
INVARIANT NoFault
INVARIANT MetadataMatches
INVARIANT NoLeak
INVARIANT DestructorsFirst
