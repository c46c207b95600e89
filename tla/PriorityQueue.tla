---------------------------- MODULE PriorityQueue ----------------------------
(***************************************************************************)
(* What the timer heap promises the reactor: a set of elements, each with  *)
(* a key, from which a minimal element can be removed and from which any   *)
(* element can be removed.  popped is what the last remove-min returned    *)
(* (NULL after the other operations).                                      *)
(***************************************************************************)
EXTENDS Integers

CONSTANTS Elements, Keys, NULL

VARIABLES elems, key, popped

Insert(e, k) ==
    /\ e \notin elems
    /\ elems' = elems \cup {e}
    /\ key' = [key EXCEPT ![e] = k]
    /\ popped' = NULL

\* Only an element with a minimal key may be taken, and it is returned.
RemoveMin ==
    \E e \in elems :
        /\ \A f \in elems : key[e] <= key[f]
        /\ elems' = elems \ {e}
        /\ popped' = e
        /\ UNCHANGED key

Remove(e) ==
    /\ e \in elems
    /\ elems' = elems \ {e}
    /\ popped' = NULL
    /\ UNCHANGED key

Init == elems = {} /\ key \in [Elements -> Keys] /\ popped = NULL

Next ==
    \/ \E e \in Elements, k \in Keys : Insert(e, k)
    \/ RemoveMin
    \/ \E e \in Elements : Remove(e)

Spec == Init /\ [][Next]_<<elems, key, popped>>
=============================================================================
