SPECIFICATION BootSpec
CONSTANTS
    MAX_REGIONS = 5
    AddressSpace = 250
    ENTRIES = 5
    PAGE_SIZE = 2
    PHYS_VIRT_OFFSET = 100
    MapPages = 1
    NoTable = NoTable
    NoCall = NoCall
    Sections <- MCSections
    DeviceTrees <- Trees
CHECK_DEADLOCK FALSE
INVARIANTS
    ArraysSorted
    AvailableExact
    HandoverExact
    FinalMapExact
    NoPageFault
PROPERTIES
    AllocationsFresh
