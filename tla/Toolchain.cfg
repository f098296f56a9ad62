\* Five functions in two files; commands of two words; three blocks of at most four bytes;
\* three files and two runs over them.
SPECIFICATION SpecAll
CONSTANTS
    Names <- MCNames
    None <- MCNone
    ByteOrder <- MCOrder
    FileOrder <- MCOrder
    Chop <- MCChop
    Prefixed <- MCPrefixed
    Jobs <- MCJobs
    Defines <- MCDefines
    Newlines = {TRUE, FALSE}
    Commands <- MCCommands
    Outcomes = {"ended_0", "ended_1", "killed"}
    Ptrs = {p1, p2}
    Null = null
    Hash <- MCHash
    Sizes = {0, 1, 2, 5}
    MaxAlloc = 4
    BlockInc = 2
    Operations <- MCOperations
    Wrap = 16
    exe = exe
    so = so
    obj = obj
    Files <- MCFiles
    Elf <- MCElf
    Original <- MCOriginal
    Old = 2
    New = 1
    Limits = {"number", "unlimited"}
    MaxRuns = 2
CHECK_DEADLOCK FALSE
INVARIANT SearchIsExact
INVARIANT BuildInOrder
INVARIANT BlocksAreWhole
INVARIANT FilesInOrder
PROPERTY ProgramsEnd
