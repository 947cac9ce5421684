SPECIFICATION FairSpec
CONSTANTS
    Submitters = {t1}
    Batches = {b1}
    Pairs = {p1}
    NoBatch = NoBatch
    NoPair = NoPair
    Nobody = Nobody
    Finalizer = Finalizer
    Destroyer = Destroyer
    Faults = {}
    HostGated = TRUE
PROPERTIES
    AsyncOneShotReturns
\* A device that waits for the application has nothing to do.
CHECK_DEADLOCK FALSE
