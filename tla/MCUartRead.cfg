SPECIFICATION UartSpec
CONSTANTS
    NumTasks = 2
    MaxTasks = 3
    StackBlocks = {s1, s2, s3}
    NoStack = NoStack
    Millis = {1, 15}
    ONE_MS_CYCLES = 1
    TEN_MS_CYCLES = 2
    Word = 16
    MaxTime = 3
    MaxEntries = 2
    LateSpawn = TRUE
    BufferSize = 2
    MaxChars = 3
    MaxWaiters = 2
    MAX = MAX
SYMMETRY StackSymmetry
INVARIANTS
    TypeOK
    ReadyQueueExact
    OneRunning
    NextTaskPresent
    StacksExclusive
    ZombiesExact
    NoCharBesideWaiter
    BlockedReaderQueued
PROPERTIES
    StacksConserved
    CurrentStackKept
    TimerReclaimsZombies
    IdleOnlyWhenNothingReady
    DeliveredInOrder
    ImplementsScheduler
