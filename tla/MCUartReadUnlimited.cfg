SPECIFICATION UartSpec
CONSTANTS
    NumTasks = 1
    MaxTasks = 2
    StackBlocks = {s1, s2}
    NoStack = NoStack
    Millis = {3}
    ONE_MS_CYCLES = 1
    TEN_MS_CYCLES = 2
    Word = 16
    MaxTime = 4
    MaxEntries = 2
    LateSpawn = FALSE
    BufferSize = 2
    MaxChars = 3
    MaxWaiters = 2
    MAX = MAX
SYMMETRY StackSymmetry
PROPERTIES
    UnlimitedReadGetsChar
