\* Two threads share attributes and create two more, with two objects on the heap; a handler
\* may interrupt a hook.
SPECIFICATION SpecAll
CONSTANTS
    Creators = {c1, c2}
    Attrs = {shared}
    Routines = {r1, r2}
    Sizes = {small, buddy}
    BUDDY_STACK_SIZE = buddy
    Cells = {x1, x2}
    NewThreads = {n1, n2}
    Hookers = {main, t2}
    Main = main
    Enabled <- MCEnabled
    Period = 1
    MaxTime = 2
    MaxCalls = 3
    MaxDepth = 2
SYMMETRY Alike
CHECK_DEADLOCK FALSE
INVARIANT CreatesAsAsked
INVARIANT HooksInOrder
