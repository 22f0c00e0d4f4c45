SPECIFICATION Spec
CONSTANTS
    Threads = {t1, t2}
    Boot = boot
    Idle = idle
    Images = {i1}
    KernelText = kernel_text
    NULL = NULL
    IdCount = 4
    Signals = {1, 9}
    ReapLimit = 1
INVARIANTS
    MemoryAccounting
    OwnContext
    NothingPendingAtEl0
PROPERTIES
    PendingKept
SYMMETRY Blocks
