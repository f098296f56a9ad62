SPECIFICATION FairSpecBoth
CONSTANTS
    Threads = {main, w1}
    Main = main
    LastGranule = 4
    Capacity = 1
    Iterations = 4
    MaxAppRounds = 3
    Faults = {"mremap"}
    Free = Free
    Regions = {1, 2, 3, 4, 5, 6}
    SignalPlaces = {"run", "exit", "info", "period", "mapmeta", "maparea", "copy", "remap", "unmap", "clear"}
    MaxSignals = 2
    Ratio = 2
    FsGsIterations = 3
CHECK_DEADLOCK FALSE
PROPERTY StacksReclaimed
PROPERTY OwnersImplemented
