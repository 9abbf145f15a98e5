\* One caller of s3, whose HEAD may be answered with 400 for an object that exists.
CONSTANTS
    Keys = {k1, k2}
    Bodies = {b1, b2}
    None = None
    Callers = {c1}
    Drivers = {"s3"}
    Calls <- MCCalls
    MaxWork = 1
    Unknown = Unknown
SPECIFICATION Spec
INVARIANTS
    WriteOnceKeeps
