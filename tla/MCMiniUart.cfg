SPECIFICATION Spec
CONSTANTS
    TxCapacity = 4
    RxCapacity = 4
    FifoSize = 2
    MaxTasks = 2
    CacheSize = 1
    MaxPrinted = 5
    MaxReceived = 1
INVARIANT OutputExact
