CONSTANTS
    Names = {"a", "B"}
    LocaleRank <- MCMixedLocale
    CodeRank <- MCMixedCode
    Paths <- MCMixedPaths
    Empty = ""
    Limit = 1
    MaxChanges = 0
    None = None
SPECIFICATION Spec
INVARIANTS
    EverySteadyFileOnce
CHECK_DEADLOCK FALSE
