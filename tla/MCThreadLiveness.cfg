SPECIFICATION LiveSpec
CONSTANTS
    Threads = {t1, t2}
    Boot = boot
    Idle = idle
    Images = {i1}
    KernelText = kernel_text
    NULL = NULL
    IdCount = 4
    Signals = {9}
    ReapLimit = 1
PROPERTIES
    ZombiesReclaimed
    NoStarvation
