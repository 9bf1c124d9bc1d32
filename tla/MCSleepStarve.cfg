CONSTANTS
    t1 = t1  t2 = t2  t3 = t3
    Tasks = {t1, t2}
    InitTask = t1
    NoTask = NoTask
    ProcessOf <- MCProcessOf
    MAX_PRIORITY = 1
    DEFAULT_PRIORITY = 1
    SettablePriorities = {0}
    TIME_SLICE_TICKS = 1
    AGING_INTERVAL_TICKS = 1
SPECIFICATION FairSleepSpec
PROPERTY QueuedEventuallyRuns
