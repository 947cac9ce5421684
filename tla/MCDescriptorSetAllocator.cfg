SPECIFICATION Spec
CONSTANTS
    Pools = {p1, p2, p3, p4, p5, p6}
    Sets = {s1, s2, s3, s4}
    NoPool = NoPool
    MaxSets = 2
    MaxEmptyPoolsToReserve = 2
SYMMETRY HandleSymmetry
INVARIANTS
    TypeOK
    PoolsTracked
    OccupancyExact
    VacancyBounded
    PoolsBounded
PROPERTIES
    LifetimeSpec
\* After Cleanup the device is gone and nothing is left to do.
CHECK_DEADLOCK FALSE
