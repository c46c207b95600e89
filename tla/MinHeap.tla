------------------------------- MODULE MinHeap -------------------------------
(***************************************************************************)
(* The timer heap of minheap.cpp as pure operators.                        *)
(*                                                                         *)
(* A heap h is a record [p |-> array, n |-> size, idx |-> heap index]:     *)
(*   p   : 0..Cap-1 -> Elements \cup {NULL}   (min_heap::p, 0-based)       *)
(*   n   : Nat                                (min_heap::n)                *)
(*   idx : Elements -> Int, -1 when absent    (event::min_heap_idx)        *)
(* key[e] is the element's ev_timeout.  Slots at or beyond n are set to    *)
(* NULL after each operation: the code leaves stale pointers there but     *)
(* never reads them, so the abstraction hides nothing it can observe.      *)
(* The capacity field a (min_heap_reserve) is not kept: the reactor        *)
(* reserves before it mutates anything, so a push never fails.            *)
(***************************************************************************)
EXTENDS Integers

CONSTANT NULL

\* min_heap_elem_greater: timercmp(a->ev_timeout, b->ev_timeout, >)
Greater(key, a, b) == key[a] > key[b]

\* The slots below n, the rest cleared (see the module comment).
Mask(h) == [h EXCEPT !.p = [i \in DOMAIN h.p |-> IF i < h.n THEN h.p[i] ELSE NULL]]

\* Move the element in slot from into slot to, recording its new index.
MoveTo(h, from, to) == [h EXCEPT !.p[to] = h.p[from], !.idx[h.p[from]] = to]

\* Place e in slot hole.
PlaceAt(h, hole, e) == [h EXCEPT !.p[hole] = e, !.idx[e] = hole]

RECURSIVE ShiftUp(_, _, _, _), ShiftDown(_, _, _, _)

\* Mutant of ShiftUp: compares with slot hole \div 2, an off-by-one of
\* the parent slot (hole - 1) \div 2.
ShiftUpParentOffByOne(h, key, hole, e) ==
    LET parent == hole \div 2
    IN  IF hole > 0 /\ Greater(key, h.p[parent], e)
        THEN ShiftUp(MoveTo(h, parent, hole), key, parent, e)
        ELSE PlaceAt(h, hole, e)

\* min_heap_shift_up_: move the hole towards the root while its parent is
\* greater than e, then store e in it.
ShiftUp(h, key, hole, e) ==
    LET parent == (hole - 1) \div 2
    IN  IF hole > 0 /\ Greater(key, h.p[parent], e)
        THEN ShiftUp(MoveTo(h, parent, hole), key, parent, e)
        ELSE PlaceAt(h, hole, e)

\* min_heap_shift_down_: move the hole towards the smaller child while e is
\* greater than it; the child is the left one when only it exists or when
\* the right one is greater; finish with a shift up from the hole.
ShiftDown(h, key, hole, e) ==
    LET c  == 2 * (hole + 1)
        mc == IF c = h.n \/ Greater(key, h.p[c], h.p[c - 1]) THEN c - 1 ELSE c
    IN  IF c <= h.n /\ Greater(key, e, h.p[mc])
        THEN ShiftDown(MoveTo(h, mc, hole), key, mc, e)
        ELSE ShiftUp(h, key, hole, e)

\* min_heap_top
Top(h) == IF h.n > 0 THEN h.p[0] ELSE NULL

\* min_heap_push: shift e up from the new last slot (s->n++).
Push(h, key, e) == ShiftUp([h EXCEPT !.n = @ + 1], key, h.n, e)

\* A mutant of Pop: the element taken is the last one, p[--n], not *p.
PopLast(h, key) ==
    LET last == h.p[h.n - 1]
    IN  Mask([h EXCEPT !.n = @ - 1, !.idx[last] = -1])

\* min_heap_pop: move the last element into the root hole and shift it
\* down; the popped element's index becomes -1.  Requires h.n > 0.
Pop(h, key) ==
    LET e    == h.p[0]
        last == h.p[h.n - 1]
    IN  Mask([ShiftDown([h EXCEPT !.n = @ - 1], key, 0, last) EXCEPT !.idx[e] = -1])

\* min_heap_erase: fill e's slot with the last element, shifting it up when
\* its new parent is greater, down otherwise.  Requires h.idx[e] # -1 (the
\* reactor only erases events flagged EVLIST_TIMEOUT).
Erase(h, key, e) ==
    LET i      == h.idx[e]
        last   == h.p[h.n - 1]
        h1     == [h EXCEPT !.n = @ - 1]
        filled == IF i > 0 /\ Greater(key, h.p[(i - 1) \div 2], last)
                  THEN ShiftUp(h1, key, i, last)
                  ELSE ShiftDown(h1, key, i, last)
    IN  Mask([filled EXCEPT !.idx[e] = -1])

\* The empty heap over elements Elems with room for Cap entries
\* (min_heap_ctor, min_heap_elem_init).
EmptyHeap(Elems, Cap) ==
    [p |-> [i \in 0..Cap - 1 |-> NULL], n |-> 0, idx |-> [e \in Elems |-> -1]]

\* The set of elements in the heap.
Elems(h) == {h.p[i] : i \in 0..h.n - 1}

(***************************************************************************)
(* Reference definitions the operators are checked against.               *)
(***************************************************************************)

\* Heap order: no parent is greater than its child.
Ordered(h, key) ==
    \A i \in 1..h.n - 1 : ~Greater(key, h.p[(i - 1) \div 2], h.p[i])

\* idx is the inverse of p on the live slots and -1 elsewhere.
Indexed(h) ==
    /\ \A i \in 0..h.n - 1 : h.idx[h.p[i]] = i
    /\ \A e \in DOMAIN h.idx : e \notin Elems(h) => h.idx[e] = -1
=============================================================================
