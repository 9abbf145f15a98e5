\* A bucket that may hold the marker of a folder, as a console makes it.
CONSTANTS
    Empty = ""
    Dot = "."
    Up = ".."
    Refused <- MCRefused
    Pieces <- MCNoPieces
    Beginnings <- MCBeginnings
    Order <- MCMarkerOrder
    Root <- MCNoRoot
    Drivers = {"s3", "minio", "azure", "gcs", "oracle"}
    Scopes <- MCNoScope
    Asks <- MCMarkerPrefixes
    PageSize = 2
    BatchSize = 2
    ChunkSize = 1
    MaxChanges = 0
SPECIFICATION Spec
INVARIANTS
    DeletedWereGone
CHECK_DEADLOCK FALSE
