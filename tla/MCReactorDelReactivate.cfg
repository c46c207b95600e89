\* del from a callback after event_active on the same event
CONSTANTS
    rd = rd
    wr = wr
    tm = tm
    ox = ox
    Events <- MCEventsCalls
    Kinds <- MCKinds
    OnceEv = ox
    NULL = NULL
    Tvs = {0, 1}
    MaxTime = 1
    MaxCalls = 2
    MaxPri = 1
    MaxOps = 4
    BackendResults <- MCBackendResults
    SafeReprioritise = TRUE
SPECIFICATION Spec
PROPERTY NoCallbackAfterDel
