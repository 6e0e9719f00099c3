SPECIFICATION LockSpec
CONSTANTS
    Locks = {1, 2, 3, 4}
CHECK_DEADLOCK FALSE
INVARIANTS
    TrapsDoNotNest
    HeldLocksMasked
