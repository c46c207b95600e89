\* TM armed for 33 s: 33000 ms does not fit the 16-bit int of the model
\* (as 24.9 days does not fit 32 bits), the stored timeout is negative and
\* passes the clamp, and epoll_wait waits for a descriptor only.
CONSTANTS
    r0 = r0
    w0 = w0
    b1 = b1
    r3 = r3
    s0 = s0
    NULL = NULL
    FdEvents = {r0}
    FdOf <- MCFdOf
    Dirs <- MCDirs
    Persist = {r0, b1}
    Fds = {0, 1, 3}
    InitNFiles = 1
    InitNEvents = 1
    MaxNEvents = 2
    MayFail = {"add"}
    MaxOps = 3
    TM = TM
    TimerDelays = {33000000}
    CbTimes = {0, 500000}
    IntBits = 16
    MaxTimeoutMs = 2100
    T0 = 1000000
SPECIFICATION FairSpec
PROPERTY TimerFires
