SPECIFICATION Spec
CONSTANTS
    CommandPools = {p1, p2}
    CommandBuffers = {c1, c2, c3}
    Sets = {s1, s2, s3}
    NoPool = NoPool
    NoBuffer = NoBuffer
    NoSet = NoSet
    Nobody = Nobody
    EmulatePush = TRUE
SYMMETRY Symmetry
INVARIANTS
    BoundExact
    IssuedOwned
    TrackedExact
    RegistryExact
