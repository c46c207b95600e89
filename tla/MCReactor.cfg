\* The reactor core: registration, the dispatch loop and callbacks that
\* call the API, with single-call activations.
CONSTANTS
    rd = rd
    wr = wr
    tm = tm
    ox = ox
    Events <- MCEvents
    Kinds <- MCKinds
    OnceEv = ox
    NULL = NULL
    Tvs = {0, 1}
    MaxTime = 1
    MaxCalls = 1
    MaxPri = 2
    MaxOps = 4
    BackendResults <- MCBackendResults
    SafeReprioritise = TRUE
SPECIFICATION Spec
INVARIANT TypeOK
INVARIANT QueuesCoherent
 
