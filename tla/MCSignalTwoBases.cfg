\* Two bases, used one after the other as the spec allows: evsignal_base follows the wrong one.
CONSTANTS
    A = A
    B = B
    p1 = p1
    o1 = o1
    q1 = q1
    q2 = q2
    NONE = NONE
    Bases = {A, B}
    NSig = 2
    SigEvents = {p1, q2}
    BaseOf <- MCBaseOf
    SigOf <- MCSigOf
    Persist = {p1, q1, q2}
    PipeAddResults = {0}
    PipeCap = 2
    MaxRaise = 4
    MaxOps = 5
    OneSignalBase = TRUE
    SplitSub = TRUE
SPECIFICATION Spec
CHECK_DEADLOCK FALSE
PROPERTY CountedAtSubscriber
