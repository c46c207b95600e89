------------------------------ MODULE TimerHeap ------------------------------
(***************************************************************************)
(* The timer heap (minheap.cpp) as a state machine: any sequence of        *)
(* min_heap_push, min_heap_pop and min_heap_erase calls, with keys from a  *)
(* small set so that ties occur.  A key is only changed while its element  *)
(* is outside the heap, as event_add does (it erases, sets ev_timeout,     *)
(* pushes).                                                                *)
(***************************************************************************)
EXTENDS Integers, FiniteSets

CONSTANTS
    Elements,
    Keys,
    InitCap,   \* the first allocation of min_heap_reserve (8)
    NULL

VARIABLES
    heap,    \* the min_heap_t
    key,     \* ev_timeout of each element
    popped,  \* what the last min_heap_pop returned (NULL after other calls)
    cap      \* s->a, the slots allocated for p

vars == <<heap, key, popped, cap>>

H == INSTANCE MinHeap

\* A mutant of Reserve: it grows only when n exceeds the allocation by two.
ReserveOffByOne(a, n) ==
    IF a + 1 < n
    THEN LET d == IF a # 0 THEN a * 2 ELSE InitCap IN IF d < n THEN n ELSE d
    ELSE a

\* min_heap_reserve: room for n: double (or take the first allocation), and
\* take n itself if that is still short.  realloc is taken to succeed.
Reserve(a, n) ==
    IF a < n
    THEN LET d == IF a # 0 THEN a * 2 ELSE InitCap IN IF d < n THEN n ELSE d
    ELSE a

Init ==
    /\ cap = 0
    /\ heap = H!EmptyHeap(Elements, Cardinality(Elements))
    /\ key \in [Elements -> Keys]
    /\ popped = NULL

\* min_heap_push of an element not in the heap, with a new ev_timeout:
\* reserve room for n + 1, then shift up from slot n.
PushOp(e, k) ==
    /\ heap.idx[e] = -1
    /\ cap' = Reserve(cap, heap.n + 1)
    /\ key' = [key EXCEPT ![e] = k]
    /\ heap' = H!Push(heap, key', e)
    /\ popped' = NULL

\* min_heap_pop (only called by the reactor on a non-empty heap).
PopOp ==
    /\ heap.n > 0
    /\ heap' = H!Pop(heap, key)
    /\ popped' = heap.p[0]
    /\ UNCHANGED <<key, cap>>

\* min_heap_erase of an element in the heap.
EraseOp(e) ==
    /\ heap.idx[e] # -1
    /\ heap' = H!Erase(heap, key, e)
    /\ popped' = NULL
    /\ UNCHANGED <<key, cap>>

Next ==
    \/ \E e \in Elements, k \in Keys : PushOp(e, k)
    \/ PopOp
    \/ \E e \in Elements : EraseOp(e)

Spec == Init /\ [][Next]_vars

\* After any sequence of pushes, pops and erases, every parent's deadline
\* is at most its children's and every element's min_heap_idx is its slot
\* (the sift loops of minheap.cpp write the index of every element moved).
HeapWellFormed == H!Ordered(heap, key) /\ H!Indexed(heap)

\* Every element of the heap lies in the allocation (n <= a): min_heap_push
\* writes slot n only after min_heap_reserve made room for n + 1, and the
\* allocation is only grown, doubling from its first size.
HeapInAllocation == heap.n <= cap

\* The heap implements a priority queue: the element min_heap_pop returns
\* has the earliest deadline and is the one that leaves the heap, erase
\* removes exactly the given element, push adds it.
PQ == INSTANCE PriorityQueue WITH elems <- H!Elems(heap)
ImplementsPriorityQueue == PQ!Spec
=============================================================================
