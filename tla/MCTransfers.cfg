CONSTANTS
    short = short
    long = long
    None = None
    Drivers <- MCDrivers
    Objects <- MCObjects
    Kinds <- MCKinds
    Length <- MCLength
    HighWater = 2
    MaxChanges = 3
SPECIFICATION Spec
INVARIANTS
    TypeOK
    AnswersAreTrue
    StoredWhole
    StreamsReleased
    RemovalTakesItsOwn
CHECK_DEADLOCK FALSE
