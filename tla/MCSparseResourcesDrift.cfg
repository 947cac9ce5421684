CONSTANTS
    t1 = t1
    h1 = h1
    h2 = h2
    NoHandle = NoHandle
    Nobody = Nobody
    Threads = {t1}
    Handles = {h1, h2}
    Requests <- MCRequests
    Budget = 5
SPECIFICATION Spec
INVARIANT
    RefusalJustified
