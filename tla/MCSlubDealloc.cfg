SPECIFICATION HeapSpec
CONSTANTS
    Frames = {8, 9, 10}
    PAGE_SIZE = 4
    Caches = {c1, c2}
    Objects <- TwoObjects
    Free = Free
    None = None
SYMMETRY SlubSymmetry
PROPERTY FreedObjectReturns
