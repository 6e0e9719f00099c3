SPECIFICATION SwitchSpec
CONSTANTS
    Tasks <- BootTasks
    NoTask = NoTask
    InitContext = InitContext
INVARIANTS
    ContextOfCurrent
    ContextsKept
PROPERTIES
    EveryTaskStarts
