SPECIFICATION Spec
CONSTANTS
    CommandPools = {p1}
    CommandBuffers = {c1}
    Sets = {s1}
    NoPool = NoPool
    NoBuffer = NoBuffer
    NoSet = NoSet
    Nobody = Nobody
    EmulatePush = FALSE
INVARIANTS
    NativePushAllocatesNothing
