SPECIFICATION Spec
CONSTANTS
    Threads = {t1, t2}
    Pools = {p1, p2}
    Sets = {s1, s2}
    Layouts = {l1, l2}
    Handles = {h1}
    NoPool = NoPool
    NoLayout = NoLayout
    NoObject = NoObject
SYMMETRY Symmetry
INVARIANTS
    EntriesTrue
    EntriesKept
    VectorsOwned
    ObjectsKnown
