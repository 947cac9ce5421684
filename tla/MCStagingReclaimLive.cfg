SPECIFICATION FairSpec
CONSTANTS
    Submitters = {t1}
    Batches = {b1, b2}
    Pairs = {p1, p2}
    NoBatch = NoBatch
    NoPair = NoPair
    Nobody = Nobody
    Finalizer = Finalizer
    Destroyer = Destroyer
    Faults = {"record", "submit", "wait", "idle"}
    HostGated = FALSE
PROPERTIES
    QueuedReclaimed
    OneShotReturns
    DestroyReturns
\* The device may be gone, and a known hang leaves nothing to do.
CHECK_DEADLOCK FALSE
