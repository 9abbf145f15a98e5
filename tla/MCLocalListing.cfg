CONSTANTS
    Names = {"a", "b", "c"}
    LocaleRank <- MCAgreeing
    CodeRank <- MCAgreeing
    Paths <- MCPaths
    Empty = ""
    Limit = 2
    MaxChanges = 3
    None = None
SPECIFICATION Spec
INVARIANTS
    TypeOK
    EverySteadyFileOnce
PROPERTIES
    IterateEnds
CHECK_DEADLOCK FALSE
