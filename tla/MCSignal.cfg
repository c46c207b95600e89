\* One base, one signal with a PERSIST and a one-shot subscriber, the
\* subtraction compiled as one instruction (a handler may still run between
\* the snapshot and the subtraction).
CONSTANTS
    A = A
    B = B
    p1 = p1
    o1 = o1
    q1 = q1
    q2 = q2
    NONE = NONE
    Bases = {A}
    NSig = 1
    SigEvents = {p1, o1}
    BaseOf <- MCBaseOf
    SigOf <- MCSigOf
    Persist = {p1, q1, q2}
    PipeAddResults = {0}
    PipeCap = 2
    MaxRaise = 5
    MaxOps = 7
    OneSignalBase = TRUE
    SplitSub = FALSE
SPECIFICATION Spec
CHECK_DEADLOCK FALSE
INVARIANT TypeOK
INVARIANT HandlerIffSubscribed
INVARIANT SavedIsNotRelay
 
