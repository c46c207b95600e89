\* a READ|PERSIST event with a timeout
CONSTANTS
    rd = rd
    wr = wr
    tm = tm
    ox = ox
    Events <- MCEventsCalls
    Kinds <- MCKinds
    OnceEv = ox
    NULL = NULL
    Tvs = {0, 1}
    MaxTime = 1
    MaxCalls = 1
    MaxPri = 1
    MaxOps = 4
    BackendResults <- MCBackendResults
    SafeReprioritise = TRUE
SPECIFICATION Spec
PROPERTY PersistStaysRegistered
