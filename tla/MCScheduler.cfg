CONSTANTS
    t1 = t1  t2 = t2  t3 = t3
    Tasks = {t1, t2, t3}
    InitTask = t1
    NoTask = NoTask
    ProcessOf <- MCProcessOf
    MAX_PRIORITY = 2
    DEFAULT_PRIORITY = 1
    SettablePriorities = {0}
    TIME_SLICE_TICKS = 2
    AGING_INTERVAL_TICKS = 1
SYMMETRY Symmetry
SPECIFICATION MCSpec
INVARIANTS ReadyIffQueuedOnce BooksAgree CurrentIsRunning
    LoopComputesRefresh SleepersKept
PROPERTIES NoInversionAfterCheck LongestWaiterFirst ImplementsPolicy
