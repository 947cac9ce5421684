SPECIFICATION Spec
CONSTANTS
    Submitters = {t1, t2}
    Batches = {b1, b2}
    Pairs = {p1, p2}
    NoBatch = NoBatch
    NoPair = NoPair
    Nobody = Nobody
    Finalizer = Finalizer
    Destroyer = Destroyer
    Faults = {"record", "submit", "stage", "pair", "wait", "fence", "idle"}
    HostGated = FALSE
SYMMETRY Symmetry
PROPERTIES
    LifetimeSpec
INVARIANTS
    PendingWorkKept
    FreePairsQuiet
    PairsExclusive
    QueueServed
\* The device may be gone, and some hangs are the subject of other runs.
CHECK_DEADLOCK FALSE
