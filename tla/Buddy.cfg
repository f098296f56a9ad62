\* Stacks that end at two places of a granule, two changes, handlers nested once; three
\* threads of every size.
SPECIFICATION SpecBoth
CONSTANTS
    S = 16
    Page = 4
    Vector = 4
    Highs = {64, 68}
    Offsets = {1}
    FrameSizes = {2, 5}
    SignalPlaces = {"check", "open", "buddy", "add", "clear", "close"}
    MaxDepth = 4
    MaxRands = 2
    Main = m
    Others = {a, b}
    Default = 4
    EnvSizes = {2, 4, 8}
    Limits = {32, 40}
    Tops = {63, 64, 65, 70, 72}
CHECK_DEADLOCK FALSE
INVARIANT ReturnsHome
INVARIANT FindsMetadata
INVARIANT ChangesAreWhole
INVARIANT StartsInOrder
