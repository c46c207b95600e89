------------------------------ MODULE MCReactor ------------------------------
(***************************************************************************)
(* Model values and bounds for checking Reactor.                           *)
(*   rd : a READ|PERSIST event on a descriptor (a listening socket)       *)
(*   wr : a one-shot WRITE event on another descriptor                     *)
(*   tm : a pure timer (evtimer_set)                                       *)
(*   ox : the carrier of event_base_loopexit                               *)
(***************************************************************************)
EXTENDS Reactor, TLC

CONSTANTS rd, wr, tm, ox

MCEvents == {rd, wr, tm, ox}
MCEventsCalls == {rd, tm, ox}
MCBackendResults == {0, -1}
MCKinds == (rd :> {"READ", "PERSIST"}) @@ (wr :> {"WRITE"}) @@ (tm :> {}) @@ (ox :> {})
=============================================================================
