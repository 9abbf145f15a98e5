\* Pages, batches and chunks shorter than the listing; one change by others.
CONSTANTS
    Empty = ""
    Dot = "."
    Up = ".."
    Refused <- MCRefused
    Pieces <- MCPieces
    Beginnings <- MCBeginnings
    Order <- MCOrder
    Root <- MCRoot
    Drivers = {"s3", "minio", "azure", "gcs", "oracle", "local"}
    Scopes <- MCScopes
    Asks <- MCPrefixes
    PageSize = 2
    BatchSize = 2
    ChunkSize = 1
    MaxChanges = 1
SPECIFICATION Spec
INVARIANTS
    TypeOK
    ReportAddsUp
    PathsNameTheirKeys
    NormalDeletedWereGone
    SteadyEmptied
    OnlyNamesReject
PROPERTIES
    OutsideUntouched
    Settles
CHECK_DEADLOCK FALSE
