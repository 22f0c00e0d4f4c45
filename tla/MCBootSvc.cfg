\* The system stops in the EL0 program of svc, which runs with interrupts masked.
CONSTANTS
    MaxDepth = 3
    CellBase = 256
    HeaderSize = 2
    Blobs <- MCBlobs
    BlobBase = 160
    PageSize = 16
    PageMetadata = 2
    FallbackMemory <- MCFallbackMemory
    DefaultInitramfs <- MCDefaultInitramfs
    SpinTable <- MCSpinTable
    KernelStack <- MCKernelStack
    KernelImage <- MCKernelImage
    StartupHeap <- MCStartupHeap
    UserArea <- MCUserArea
    ArchiveHeader = 5
    ArchiveAlignment = 4
    NameSizes = {0, 2, 9}
    FileSizes = {0, 3, 8, 20}
    MaxUsed = 2
SPECIFICATION Spec
INVARIANT SvcOwnsItsArea
CHECK_DEADLOCK FALSE
