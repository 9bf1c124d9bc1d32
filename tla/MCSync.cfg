CONSTANTS
    Threads = {0, 1, 2, 3, 4}
    Mutexes <- MCMutexes
    Blocking <- MCBlocking
    Semaphores <- MCSemaphores
    res_count <- MCResCount
    Condvars <- MCCondvars
    NoObject = NoObject
    MaxCount = 3
    AnyThreads = {0, 1, 2}
    AnyMutexes = {mb, ms}
    AnyBlocking = {mb}
    AnySemaphore = s1
    AnyCondvar = c1
    N = 4
    ROUND = 2
    BarrierThreads = {0, 1, 2}
    Barriers = 2
    Producers = {1, 2, 3}
    Consumer = 0
    NoId = NoId
    BUFFER_SIZE = 2
    NUMBER_PER_PRODUCER = 2
    SEM_MUTEX = SEM_MUTEX
    SEM_EMPTY = SEM_EMPTY
    SEM_AVAIL = SEM_AVAIL
SPECIFICATION Spec
INVARIANTS BlockedIffQueued LocksExact ProgramsExclude
PROPERTIES ImplementsFifoLock ProgramsFinish
CHECK_DEADLOCK FALSE
