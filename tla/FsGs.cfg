\* Two handlers of the thread that moves, in all guarded places and before the page is
\* closed; two threads that exit and a table of one entry; six regions.
CONSTANTS
    t1 = t1
    t2 = t2
    t3 = t3
    Threads = {t1, t2, t3}
    Main = t1
    Movers = {t2}
    Regions = {r1, r2, r3, r4, r5, r6}
    None = None
    AnyRegion = TRUE
    Ratio = 2
    Capacity = 1
    Iterations = 2
    SignalPlaces = {"run", "exit", "info", "period", "mapmeta", "maparea", "copy", "remap", "unmap", "clear", "protect"}
    MaxSignals = 2
SYMMETRY Perms
SPECIFICATION Spec
CHECK_DEADLOCK FALSE
INVARIANT Safe
INVARIANT ReadOnlyPages
