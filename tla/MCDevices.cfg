CONSTANTS
    None = None
    Environments <- MCEnvironments
    Compositions <- MCCompositions
    d1 = d1
    d2 = d2
    DeviceThreads = {d1, d2}
    a1 = a1
    a2 = a2
    Addresses = {a1, a2}
    k1 = k1
    k2 = k2
    k3 = k3
    Keys = {k1, k2, k3}
    MaxDevices = 4
    NoId = NoId
    NoKey = NoKey
    NoAddress = NoAddress
    s1 = s1
    s2 = s2
    s3 = s3
    s4 = s4
    SamplerThreads = {d1, d2}
    SamplerHandles = {s1, s2, s3, s4}
    NoSampler = NoSampler
SPECIFICATION Spec
INVARIANTS
    OnlySupported
    WishesKept
    DevicesFound
    FallbackServes
\* A device that is destroyed, or the bound on devices, may end a behaviour.
CHECK_DEADLOCK FALSE
