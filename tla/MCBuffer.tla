------------------------------ MODULE MCBuffer -------------------------------
EXTENDS Buffer

CONSTANTS a, b, JUNKV

\* FIONREAD fails (-1), reports less than EVBUFFER_MAX_READ (1) or more (3).
MCIoctlResults == {-1, 1, 3}
\* evbuffer_read with no limit (-1) or a limit of one byte.
MCHowMuch == {-1, 1}
=============================================================================
