\* Three IDs: one event waits, one runs and one is added.  Seven ticks and two milliseconds a
\* second: the second request is 3.5 ticks, the third overflows.
CONSTANTS
    MaxCounter = 7
    MaxTval = 2
    Frequency = 7
    MsPerSecond = 2
    Ids = {2, 3, 4}
    CacheSize = 1
    Arguments = {a1}
    NoArgument = NoArgument
    Requests <- SomeRequests
    Horizon = 4
SPECIFICATION Spec
INVARIANTS ArmedInTime EventsExact DeadlinesExact
PROPERTY StopIsFinal
