\* Six elements, keys {0,1,2}, a first allocation of 2 (8 in the code) so
\* that it doubles twice: heap shape, allocation and the refinement.
CONSTANTS
    Elements = {e1, e2, e3, e4, e5, e6}
    Keys = {0, 1, 2}
    InitCap = 2
    NULL = NULL
SPECIFICATION Spec
INVARIANT HeapWellFormed
INVARIANT HeapInAllocation
PROPERTY ImplementsPriorityQueue
