\* Two READ events on fd 0: the second takes over the first one's slot.
CONSTANTS
    r0 = r0
    w0 = w0
    b1 = b1
    r3 = r3
    s0 = s0
    NULL = NULL
    FdEvents = {r0, s0, w0}
    FdOf <- MCFdOf
    Dirs <- MCDirs
    Persist = {r0, b1}
    Fds = {0, 1, 3}
    InitNFiles = 1
    InitNEvents = 1
    MaxNEvents = 2
    MayFail = {"add"}
    MaxOps = 7
    TM = TM
    TimerDelays = {0, 1500, 3000000}
    CbTimes = {0, 500000}
    IntBits = 16
    MaxTimeoutMs = 2100
    T0 = 1000000
SPECIFICATION Spec
INVARIANT InsertedKnown
