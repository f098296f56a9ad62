SPECIFICATION SpecAll
CONSTANTS
    Region = 4
    Extra = 3
    MetaIn = 2
    UserSpace = 64
    MaxAddr = 28
    MaxGs = 63
    MaxAttempts = 2
    Starts = {20, 33, 61}
    Depth = 3
    Above = 1
    Randoms = {0, 5, 13, 23, 27, 61, 100}
    Processes = {m, a, b}
    Main = m
    Capacity = 2
    Grace = 1
    Skew = 0
    Modulus = 4
    Threads = {t1, t2}
    Kinds = {"trap", "bug"}
    MaxFaults = 2
    MaxBugs = 1
    SYS_SENDMMSG = 4
    SYS_RECVFROM = 2
    SYS_RECVMSG = 3
    DIPC = 1
    Versions = {0, 1}
    AddressSpace = 32
    MemoryFirst = 8
    MemoryEnd = 24
    BaseRegisters = {2, 13}
    Pointers = {10, 17}
    Offsets = {1, 255}
    Registers = {1, 3, 17}
    MaxAccesses = 1
CHECK_DEADLOCK FALSE
INVARIANT MetadataFound
INVARIANT ShadowSafe
INVARIANT ForkSafe
INVARIANT FaultsAreSorted
INVARIANT FilterSafe
PROPERTY Progress
