SPECIFICATION Spec
CONSTANTS
    Threads = {main, w1, w2}
    Main = main
    LastGranule = 6
    Capacity = 1
    Iterations = 2
    MaxAppRounds = 1
    Faults = {"mremap"}
    Free = Free
SYMMETRY WorkerSymmetry
INVARIANT StackIsOwn
INVARIANT EntriesMapped
INVARIANT SingleCleaner
INVARIANT IInv
PROPERTY LostOnlyWhenFull
PROPERTY OthersKeepOut
