CONSTANTS
    Keys = {k1}
    Bodies = {b1}
    None = None
    Callers = {c1, c2}
    Calls <- MCCalls
    Listeners = {l1, l2}
    Rearming = {}
SPECIFICATION FairSpec
INVARIANTS
    TypeOK
    OneTrueEvent
    FirstErrorWins
PROPERTIES
    EveryListenerOnce
    PromiseSpec
    EveryCallSettles
