SPECIFICATION UartFairSpec
CONSTANTS
    NumTasks = 2
    MaxTasks = 3
    StackBlocks = {s1, s2, s3}
    NoStack = NoStack
    Millis = {1}
    ONE_MS_CYCLES = 1
    TEN_MS_CYCLES = 2
    Word = 16
    MaxTime = 2
    MaxEntries = 2
    LateSpawn = FALSE
    BufferSize = 1
    MaxChars = 1
    MaxWaiters = 2
    MAX = MAX
PROPERTIES
    NoStarvation
    SleepersWake
