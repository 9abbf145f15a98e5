\* Two concurrent callers on two keys, three drivers: minio's steps are s3's without the 400.
CONSTANTS
    Keys = {k1, k2}
    Bodies = {b1, b2}
    None = None
    Callers = {c1, c2}
    Drivers = {"s3", "azure", "gcs"}
    Calls <- MCCalls
    MaxWork = 1
    Unknown = Unknown
SYMMETRY Symmetry
SPECIFICATION Spec
INVARIANTS
    TypeOK
    WriteOnceWindow
    MoveNeverLoses
    MoveRelocates
    UploadReportsItsObject
PROPERTIES
    PromiseSpec
