------------------------------ MODULE MCSignal ------------------------------
(***************************************************************************)
(* Model values for Signal: one or two bases, and signal events           *)
(*   p1 : a PERSIST subscriber of signal 1 on base A                       *)
(*   o1 : a one-shot subscriber of signal 1 on base A                      *)
(*   q2 : a PERSIST subscriber of signal 2 on base B                       *)
(*   q1 : a PERSIST subscriber of signal 1 on base B                       *)
(***************************************************************************)
EXTENDS Signal, TLC

CONSTANTS A, B, p1, o1, q1, q2

MCBaseOf == (p1 :> A) @@ (o1 :> A) @@ (q1 :> B) @@ (q2 :> B)
MCSigOf == (p1 :> 1) @@ (o1 :> 1) @@ (q1 :> 1) @@ (q2 :> 2)
MCPipeAddFails == {0, -1}
=============================================================================
