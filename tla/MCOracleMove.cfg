CONSTANTS
    Keys = {k1, k2}
    Bodies = {b1}
    None = None
    Callers = {c1}
    Calls <- MCMoves
    MaxWork = 1
    MaxParts = 1
    Concurrency = 1
SPECIFICATION Spec
INVARIANTS
    MoveKeepsObject
