SPECIFICATION MCSpec
CONSTANTS
    t1 = t1
    t2 = t2
    l1 = l1
    l2 = l2
    s1 = s1
    s2 = s2
    s3 = s3
    h1 = h1
    h2 = h2
    m1 = m1
    p1 = p1
    Threads = {t1, t2}
    Layouts = {l1, l2}
    Bindings = {1, 2}
    LayoutOf <- MCLayoutOf
    Pipelines <- MCPipelines
    Calls <- MCCalls
    MaxFailures = 1
    NoLayout = NoLayout
    NoCall = NoCall
    NoThread = NoThread
    App = App
    Garbage = Garbage
    Null = Null
    Uncached = Uncached
    HintThreads = {t1, t2}
    LayoutHandles = {h1, h2}
    PipelineLayoutHandles = {p1}
    ModuleHandles = {m1}
    Codes <- MCCodes
    SetLayoutLists <- MCSetLayoutLists
    StageLists <- MCStageLists
    MaxLayouts = 3
    Unreadable = Unreadable
    Nothing = Nothing
CHECK_DEADLOCK FALSE
INVARIANTS
    NullsReplaced
    HintsFollowed
    OnlyLosersLeak
    HintsTrue
    HintsKept
