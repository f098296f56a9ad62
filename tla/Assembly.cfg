\* Any file of two functions in the default build, with the switches that turn insertion off;
\* the output of a compiler with up to five functions, in every build; one call in every
\* build, at every place of the stack.
SPECIFICATION SpecAll
CONSTANTS
    Funcs = {"main", "malloc", "trap", "holder", "f"}
    Class <- MCClass
    LibcNamed <- MCLibcNamed
    Options <- MCOptions
    None = none
    HandFuncs = {"malloc", "f"}
    HandProcs = 1
    CompilerProcs = 5
    Builds = {"shadow_stack", "via_reg", "buddy_tls", "buddy_size", "gs_rsp", "fs_gs", "fs_gs_msr", "shadesmar", "global", "init", "count"}
    Size = 8
    User = 1000
    Masks = {0, 5}
    Rets = {100, 107}
    MaxMoves = 2
CHECK_DEADLOCK FALSE
INVARIANT ReturnsThroughOwnCopy
INVARIANT InsertsOnlyWhenAsked
INVARIANT CompilerFileComplete
INVARIANT CodeIsSound
