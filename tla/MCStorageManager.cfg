CONSTANTS
    Callers = {c1, c2}
    Disks = {d1, d2}
    MaxFailures = 2
SPECIFICATION FairSpec
INVARIANTS
    TypeOK
    CreatedOnce
    NeverPoisoned
    LoadedOnce
PROPERTIES
    EveryoneServed
