SPECIFICATION LiveSpec
CONSTANTS
    Tick = Tick
    Timeouts = {t1}
    MaxTasks = 1
    CacheSize = 0
    RxSize = 1
    TxSize = 1
PROPERTIES TicksNeverStop RequestsServed OutputMoves
