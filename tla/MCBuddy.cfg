SPECIFICATION Spec
CONSTANTS
    PageCount = 9
    MaxOrder = 3
    Size <- Sizes
    Reservable = {0, 5}
INVARIANTS BlocksTile ListsExact MaximallyMerged OwnersExact
