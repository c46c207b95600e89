\* a callback re-activating its own event while calls remain
CONSTANTS
    rd = rd
    wr = wr
    tm = tm
    ox = ox
    Events <- MCEventsCalls
    Kinds <- MCKinds
    OnceEv = ox
    NULL = NULL
    Tvs = {0, 1}
    MaxTime = 1
    MaxCalls = 2
    MaxPri = 1
    MaxOps = 4
    BackendResults <- MCBackendResults
    SafeReprioritise = TRUE
SPECIFICATION Spec
INVARIANT ActiveOwesCall
