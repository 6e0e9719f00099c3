SPECIFICATION LockSpec
CONSTANTS
    Locks = {1, 2}
CHECK_DEADLOCK FALSE
INVARIANTS
    LockNeverStuck
