------------------------------ MODULE ByteQueue ------------------------------
(***************************************************************************)
(* What an evbuffer promises its user: a queue of bytes.  Bytes are        *)
(* appended at the end and taken from the front, any number at a time;     *)
(* the bytes in the queue are never changed or reordered.                  *)
(***************************************************************************)
EXTENDS Naturals, Sequences

CONSTANTS Bytes

VARIABLE content

\* Append the bytes of s, each one a byte the caller or the peer supplied.
Put(s) ==
    /\ \A i \in 1..Len(s) : s[i] \in Bytes
    /\ content' = content \o s

\* Take the first n bytes (n at most the length).
Take(n) ==
    /\ n <= Len(content)
    /\ content' = SubSeq(content, n + 1, Len(content))

Init == content = <<>>

\* The appended bytes are named by the next state: a step appends exactly
\* when the old content is a prefix of the new.
Next ==
    \/ /\ Len(content') >= Len(content)
       /\ SubSeq(content', 1, Len(content)) = content
       /\ Put(SubSeq(content', Len(content) + 1, Len(content')))
    \/ \E n \in 0..Len(content) : Take(n)

Spec == Init /\ [][Next]_content
=============================================================================
