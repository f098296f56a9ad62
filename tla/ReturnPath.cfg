SPECIFICATION Spec
CONSTANTS
    Sites = {s1, s2}
    Restorer = restorer
    NoSite = nosite
    Nowhere = nowhere
    Bases = {b1, b2}
    Size = 4
    RedZone = 1
    CallInstrumented = TRUE
    SignalsAt <- OutsideWindows
SYMMETRY Symmetric
INVARIANT SlotsAgree
INVARIANT SafeOutsideWindows
