CONSTANTS
    Keys = {k1, k2}
    Bodies = {b1, b2}
    None = None
    Callers = {c1, c2}
    Calls <- MCCalls
    MaxWork = 1
    MaxParts = 3
    Concurrency = 2
SPECIFICATION Spec
SYMMETRY Symmetry
INVARIANTS
    TypeOK
    CommittedWhole
    OrphanOnlyIfLost
PROPERTIES
    PromiseSpec
