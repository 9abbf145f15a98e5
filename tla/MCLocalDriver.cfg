\* Two callers on two keys of one directory, bodies of one and of two chunks.
CONSTANTS
    k1 = k1
    k2 = k2
    b1 = b1
    b2 = b2
    Keys = {k1, k2}
    Bodies = {b1, b2}
    None = None
    Callers = {c1, c2}
    Calls <- MCCalls
    Length <- MCLength
    Inodes = {1, 2, 3, 4}
    NoInode = 0
    MaxCalls = 3
SYMMETRY Symmetry
SPECIFICATION Spec
INVARIANTS
    TypeOK
    LoneCallsKeepTheirWord
    FilesAtRestAreWhole
CHECK_DEADLOCK FALSE
