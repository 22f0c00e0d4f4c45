SPECIFICATION Spec
CONSTANTS
    Tick = Tick
    Timeouts = {t1, t2}
    MaxTasks = 3
    CacheSize = 1
    RxSize = 2
    TxSize = 2
INVARIANTS TasksNest NothingUrgentWaits NoLostWakeup
PROPERTIES SwitchesOutermost
