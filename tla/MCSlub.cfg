SPECIFICATION SlubSpec
CONSTANTS
    Frames = {8, 9, 10}
    PAGE_SIZE = 4
    Caches = {c1, c2}
    Objects <- TwoObjects
    Free = Free
    None = None
SYMMETRY SlubSymmetry
INVARIANT SlabAccounting
INVARIANT ForgottenAreFull
PROPERTY NullOnlyWhenExhausted
PROPERTY PanicsOnlyAtStaleHead
