SPECIFICATION Spec
CONSTANTS
    Threads = {t1, t2, t3}
    Boot = boot
    Idle = idle
    Images = {i1, i2}
    KernelText = kernel_text
    NULL = NULL
    IdCount = 5
    Signals = {}
    ReapLimit = 2
INVARIANTS
    TypeOK
    QueueIntegrity
    IdAccounting
    ImageAccounting
PROPERTIES
    OnlyIdleFrees
    ImplementsProcessTable
SYMMETRY Blocks
