CONSTANTS
    PageShift = 5
    PoolHeader = 5
    LargeHeader = 2
    HeapPages = 1
    PageCount = 3
    Sizes = {12, 31}
    CallSizes = {9}
SPECIFICATION Spec
INVARIANTS BlocksDisjoint PoolsExact VcOwnsItsBuffer OutstandingExact
