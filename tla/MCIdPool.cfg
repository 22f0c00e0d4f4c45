SPECIFICATION Spec
CONSTANTS
    SlotCount = 6
    Requests <- MCRequests
INVARIANTS
    TypeOK
    LinkInv
    ExhaustedOnlyWhenAllAllocated
PROPERTIES
    ImplementsFifo
