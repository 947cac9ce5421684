CONSTANTS
    t1 = t1
    t2 = t2
    h1 = h1
    h2 = h2
    h3 = h3
    NoHandle = NoHandle
    Nobody = Nobody
    Threads = {t1, t2}
    Handles = {h1, h2, h3}
    Requests <- MCRequests
    Budget = 5
    s1 = s1
    i1 = i1
    i2 = i2
    m1 = m1
    m2 = m2
    NoSemaphore = NoSemaphore
    NoMemory = NoMemory
    AppSemaphores = {s1}
    StagingSemaphores = {i1, i2}
    Calls <- MCCalls
    MaxCalls = 2
    ExtensionFormats <- MCExtensionFormats
    Size = 3
    Alignment = 2
    Faults = {"semaphore", "staging", "record", "submit", "stage", "wait", "fence", "reclaim"}
SPECIFICATION SparseSpec
INVARIANTS
    ShapesStandard
    BudgetKept
    CommittedCovers
    ShadowsOwned
    MapExact
    BindsOrdered
    SemaphoresSettled
    ContentsFollow
PROPERTIES
    CallReturns
\* A thread that has locked itself out, or the bound on calls, ends a behaviour.
CHECK_DEADLOCK FALSE
