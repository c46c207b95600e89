\* Four events on fds 0, 1 and 3 with distinct fd and direction and the
\* timer TM (armed for 0, 1.5 ms or 3 s, past the 2.1 s clamp); the fds
\* table starts with one slot and the result array with one entry.
CONSTANTS
    r0 = r0
    w0 = w0
    b1 = b1
    r3 = r3
    s0 = s0
    NULL = NULL
    FdEvents = {r0, w0, b1, r3}
    FdOf <- MCFdOf
    Dirs <- MCDirs
    Persist = {r0, b1}
    Fds = {0, 1, 3}
    InitNFiles = 1
    InitNEvents = 1
    MaxNEvents = 2
    MayFail = {"add"}
    MaxOps = 6
    TM = TM
    TimerDelays = {0, 1500, 3000000}
    CbTimes = {0, 500000}
    IntBits = 16
    MaxTimeoutMs = 2100
    T0 = 1000000
SPECIFICATION FairSpec
INVARIANT TypeOK
INVARIANT InsertedKnown
INVARIANT KernelMatchesSlots
INVARIANT SlotsInTable
PROPERTY TimerFires
