\* The system stops in the EL0 program of svc, which runs with interrupts masked, and at the
\* loader's prompt when the uploader was not to boot the image.
CONSTANTS
    MaxDepth = 3
    CellBase = 256
    HeaderSize = 2
    Blobs <- MCBlobs
    BlobBase = 160
    PageSize = 16
    PageMetadata = 2
    FallbackMemory <- MCFallbackMemory
    DefaultInitramfs <- MCDefaultInitramfs
    SpinTable <- MCSpinTable
    KernelStack <- MCKernelStack
    KernelImage <- MCKernelImage
    StartupHeap <- MCStartupHeap
    UserArea <- MCUserArea
    ArchiveHeader = 5
    ArchiveAlignment = 4
    NameSizes = {0, 2, 9}
    FileSizes = {0, 3, 8, 20}
    MaxUsed = 2
    Kernel <- MCKernel
    ValueOf <- MCValueOf
    WordSize = 5
    Place = 2
    Magic <- MCMagic
    SizeWord <- MCSizeWord
    Newline = "NL"
    Return = "CR"
    UploadByte = "u"
    BootByte = "b"
    Printable = {"u", "b", "k", "n", "m1", "m2"}
    Erase = {"e"}
    LineSize = 2
    KernelMaxSize = 16
    MaxInterrupts = 3
    MaxLost = 2
SPECIFICATION PowerOnSpec
INVARIANTS LookupExact InUseNotFree ArchiveReadsOwned UploadExact
PROPERTIES UploadsRecover
CHECK_DEADLOCK FALSE
