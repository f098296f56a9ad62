SPECIFICATION FairSpec
CONSTANTS
    Threads = {main, w1, w2}
    Main = main
    LastGranule = 5
    Capacity = 1
    Iterations = 1
    MaxAppRounds = 0
    Faults = {}
    Free = Free
PROPERTY ExitEnds
