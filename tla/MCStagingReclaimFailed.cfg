SPECIFICATION FairSpec
CONSTANTS
    Submitters = {t1}
    Batches = {b1}
    Pairs = {p1}
    NoBatch = NoBatch
    NoPair = NoPair
    Nobody = Nobody
    Finalizer = Finalizer
    Destroyer = Destroyer
    Faults = {"submit"}
    HostGated = FALSE
PROPERTIES
    CompletedFenceSignaled
\* A finalizer that waits for ever has nothing to do.
CHECK_DEADLOCK FALSE
