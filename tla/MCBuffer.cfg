\* Two byte values, an allocation unit of 2 and EVBUFFER_MAX_READ of 2
\* (256 and 4096 scaled down), FIONREAD reporting failure (the same branch
\* as a report of 0), less and more than EVBUFFER_MAX_READ.  The user may stop calling at any
\* time, so a state with no call left is not a deadlock.
CONSTANTS
    a = a
    b = b
    JUNK = JUNKV
    JUNKV = JUNKV
    Bytes = {a, b}
    MinLen = 2
    MaxRead = 2
    MaxAdd = 3
    IoctlResults <- MCIoctlResults
    HowMuch <- MCHowMuch
    AllocFails = {FALSE, TRUE}
    MaxOps = 5
SPECIFICATION Spec
CHECK_DEADLOCK FALSE
INVARIANT TypeOK
INVARIANT LayoutInBounds
INVARIANT CbTracksLength
PROPERTY ImplementsByteQueue
