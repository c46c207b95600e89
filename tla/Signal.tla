------------------------------- MODULE Signal -------------------------------
(***************************************************************************)
(* The signal relay of signal.cpp with the dispatch thread that drives it *)
(* (event_base_loop and epoll_dispatch of event.cpp and epoll.cpp), and   *)
(* the asynchronous handler evsignal_handler as a second actor.  The      *)
(* handler runs to completion whenever the relay's disposition is          *)
(* installed; the dispatch thread's steps are the statements between      *)
(* which it may run.                                                       *)
(*                                                                         *)
(* Only signal events are registered here, so event_count (what           *)
(* event_haveevents reads) counts the subscribers and the events still    *)
(* active; the self-pipe event ev_signal is EVLIST_INTERNAL and uncounted. *)
(* No timer is armed, so the backend wait blocks until woken.             *)
(***************************************************************************)
EXTENDS Integers, Sequences, SequencesExt, FiniteSets

CONSTANTS
    Bases,          \* the event_base objects of the program
    NSig,           \* signals are numbered 1..NSig
    SigEvents,      \* the signal events (evsignal_set) of the program
    BaseOf,         \* ev_base of each event
    SigOf,          \* ev_fd (the signal number) of each event
    Persist,        \* the events with EV_PERSIST
    PipeAddResults, \* outcomes of event_add(ev_signal): subset of {0, -1}
    PipeCap,        \* bytes the self-pipe holds before send gives EAGAIN
    MaxRaise,       \* bound on the signals delivered to the process
    MaxOps,         \* bound on the event_add / event_del calls
    OneSignalBase,  \* the program keeps signal events on one base at a time
                    \* (the spec's usage rule for the global evsignal_base)
    SplitSub,       \* the build compiles evsigcaught[i] -= ncalls as a load
                    \* and a separate store (TRUE) or as one instruction
    NONE

Sigs == 1..NSig

ASSUME 0 \in PipeAddResults

VARIABLES
    disp,       \* the process-wide disposition of each signal: "dfl" or "lib"
    saved,      \* sh_old[s] of each base: the disposition saved, or NONE
    subs,       \* evsigevents[s] of each base: its subscriber list
    sigAdded,   \* ev_signal_added of each base
    caught,     \* evsigcaught[s] of each base
    flag,       \* evsignal_caught of each base
    pipe,       \* bytes queued in each base's socket pair
    sigBase,    \* the global evsignal_base
    mpc,        \* the dispatch thread: "idle", "top", "wait", "proc", "sub",
                \* "store", "fan" or "cb"
    lb,         \* the base whose loop runs
    intr,       \* the handler ran during epoll_wait (EINTR)
    pipeReady,  \* epoll_wait reported the self-pipe readable
    ps,         \* the signal evsignal_process is on
    snap,       \* its local ncalls
    tmp,        \* the loaded value of a split subtraction
    act,        \* events activated by the relay, awaiting their callback
    ops,        \* API calls made so far
    raised,     \* signals delivered to the process so far
    counted,    \* history: handler increments of evsigcaught[s] per base
    taken,      \* history: counts evsignal_process subtracted per base
    dropped,    \* history: counts event_reinit's evsignal_init cleared
    freed       \* the bases event_base_free has released

vars == <<disp, saved, subs, sigAdded, caught, flag, pipe, sigBase, mpc, lb,
          intr, pipeReady, ps, snap, tmp, act, ops, raised, counted, taken,
          dropped, freed>>

relay == <<disp, saved, subs, sigAdded, freed>>
loop  == <<mpc, lb, intr, pipeReady, ps, snap, tmp>>

Subscribed(b) == {e \in SigEvents : \E s \in Sigs : e \in ToSet(subs[b][s])}
HasSub(b, s) == subs[b][s] # <<>>

-----------------------------------------------------------------------------
(* The relay's operations on its own state.                                *)

\* _evsignal_set_handler: save the current disposition in sh_old[s] and
\* install evsignal_handler (the allocations are assumed to succeed).
SetHandler(b, s) ==
    /\ saved' = [saved EXCEPT ![b][s] = disp[s]]
    /\ disp' = [disp EXCEPT ![s] = "lib"]

\* _evsignal_restore_handler: reinstall sh_old[s] and free it.
RestoreHandler(b, s) ==
    /\ disp' = [disp EXCEPT ![s] = saved[b][s]]
    /\ saved' = [saved EXCEPT ![b][s] = NONE]

\* A mutant of SigDel: the handler is restored whatever subscribers remain.
SigDelAlwaysRestore(e) ==
    /\ subs' = [subs EXCEPT ![BaseOf[e]][SigOf[e]] = Remove(@, e)]
    /\ RestoreHandler(BaseOf[e], SigOf[e])

\* evsignal_del: unlink the subscriber; when the list is empty restore the
\* saved disposition (_evsignal_restore_handler) and free sh_old[s].
SigDel(e) ==
    LET b == BaseOf[e]  s == SigOf[e]  rest == Remove(subs[b][s], e)
    IN  /\ subs' = [subs EXCEPT ![b][s] = rest]
        /\ IF rest = <<>> THEN RestoreHandler(b, s) ELSE UNCHANGED <<disp, saved>>

\* event_add of a signal event that is neither inserted nor active, through
\* epoll_add to evsignal_add: the first subscriber of s installs the handler,
\* points evsignal_base at this base and adds the self-pipe event once; then
\* the event is appended to the list.  A failing event_add(ev_signal)
\* returns -1 with the handler already installed.
Add(e, res) ==
    LET b == BaseOf[e]  s == SigOf[e]  first == ~HasSub(b, s)
    IN  /\ mpc \in {"idle", "cb"} /\ ops < MaxOps /\ b \notin freed
        /\ e \notin Subscribed(b) \cup act
        /\ OneSignalBase => \A c \in Bases \ {b} : Subscribed(c) = {}
        /\ ops' = ops + 1
        /\ IF first THEN SetHandler(b, s) ELSE UNCHANGED <<disp, saved>>
        /\ sigBase' = IF first THEN b ELSE sigBase
        /\ IF first /\ ~sigAdded[b] /\ res = -1
           THEN UNCHANGED <<subs, sigAdded>>
           ELSE /\ sigAdded' = [sigAdded EXCEPT ![b] = TRUE]
                /\ subs' = [subs EXCEPT ![b][s] = Append(@, e)]
        /\ UNCHANGED <<caught, flag, pipe, loop, act, raised, counted, taken, freed, dropped>>

\* event_del: leave the active queue, and when inserted unsubscribe.
Del(e) ==
    /\ mpc \in {"idle", "cb"} /\ ops < MaxOps
    /\ e \in Subscribed(BaseOf[e]) \cup act
    /\ ops' = ops + 1
    /\ act' = act \ {e}
    /\ IF e \in Subscribed(BaseOf[e]) THEN SigDel(e) ELSE UNCHANGED <<subs, disp, saved>>
    /\ UNCHANGED <<sigAdded, caught, flag, pipe, sigBase, loop, raised, counted, taken, freed, dropped>>

\* The dispositions after evsignal_dealloc: each one b saved is restored.
Restored(b) == [s \in Sigs |-> IF saved[b][s] # NONE THEN saved[b][s] ELSE disp[s]]

\* evsignal_dealloc: the self-pipe event deleted, and every sh_old[s] the
\* base still holds restored and freed.
SigDealloc(b) ==
    /\ sigAdded' = [sigAdded EXCEPT ![b] = FALSE]
    /\ disp' = Restored(b)
    /\ saved' = [saved EXCEPT ![b] = [s \in Sigs |-> NONE]]

\* event_base_free, outside the loop: event_del of every event still set in
\* the base (each signal's last evsignal_del restores and frees its sh_old,
\* which is what SigDealloc does for the signals left), then epoll_dealloc
\* and evsignal_dealloc.  The global evsignal_base is not touched.
EventBaseFree(b) ==
    /\ mpc = "idle" /\ ops < MaxOps /\ b \notin freed
    /\ ops' = ops + 1
    /\ freed' = freed \cup {b}
    /\ subs' = [subs EXCEPT ![b] = [s \in Sigs |-> <<>>]]
    /\ SigDealloc(b)
    /\ UNCHANGED <<caught, flag, pipe, sigBase, loop, act, raised, counted, taken, dropped>>

\* A mutant of Reinit: the dispositions are not restored before the
\* events are re-added, so evsignal_add saves the relay's own handler.
ReinitNoRestore(b) ==
    LET r == disp
    IN  /\ mpc \in {"idle", "cb"} /\ ops < MaxOps /\ b \notin freed
        /\ ops' = ops + 1
        /\ disp' = [s \in Sigs |-> IF HasSub(b, s) THEN "lib" ELSE r[s]]
        /\ saved' = [saved EXCEPT ![b] = [s \in Sigs |->
                                            IF HasSub(b, s) THEN r[s] ELSE NONE]]
        /\ sigAdded' = [sigAdded EXCEPT ![b] = Subscribed(b) # {}]
        /\ sigBase' = IF Subscribed(b) # {} THEN b ELSE sigBase
        /\ caught' = [caught EXCEPT ![b] = [s \in Sigs |-> 0]]
        /\ flag' = [flag EXCEPT ![b] = FALSE]
        /\ pipe' = [pipe EXCEPT ![b] = 0]
        /\ pipeReady' = (pipeReady /\ lb # b)
        /\ dropped' = [dropped EXCEPT ![b] = [s \in Sigs |-> @[s] + caught[b][s]]]
        /\ UNCHANGED <<subs, mpc, lb, intr, ps, snap, tmp, act, raised, counted, taken, freed>>

\* The signal half of event_reinit, from the program or a callback
\* (epoll's need_reinit is 1): ev_signal leaves the inserted and active
\* queues and ev_signal_added is cleared; epoll_dealloc's evsignal_dealloc
\* restores every saved disposition and closes the socket pair; epoll_init's
\* evsignal_init clears evsigcaught and evsignal_caught and gives every
\* signal a fresh, empty list.  Then epoll_add of every INSERTED event, in
\* eventqueue order, goes through evsignal_add: the first event of a signal
\* saves the disposition now in force, installs the handler, points
\* evsignal_base at b and adds the new ev_signal; each is appended, so the
\* lists come back as they were.  The event_add(ev_signal) made inside the
\* walk is taken to succeed.  The cleared counts are recorded in the
\* history dropped: they are discarded, not relayed.
Reinit(b) ==
    LET r == Restored(b)
    IN  /\ mpc \in {"idle", "cb"} /\ ops < MaxOps /\ b \notin freed
        /\ ops' = ops + 1
        /\ disp' = [s \in Sigs |-> IF HasSub(b, s) THEN "lib" ELSE r[s]]
        /\ saved' = [saved EXCEPT ![b] = [s \in Sigs |->
                                            IF HasSub(b, s) THEN r[s] ELSE NONE]]
        /\ sigAdded' = [sigAdded EXCEPT ![b] = Subscribed(b) # {}]
        /\ sigBase' = IF Subscribed(b) # {} THEN b ELSE sigBase
        /\ caught' = [caught EXCEPT ![b] = [s \in Sigs |-> 0]]
        /\ flag' = [flag EXCEPT ![b] = FALSE]
        /\ pipe' = [pipe EXCEPT ![b] = 0]
        /\ pipeReady' = (pipeReady /\ lb # b)
        /\ dropped' = [dropped EXCEPT ![b] = [s \in Sigs |-> @[s] + caught[b][s]]]
        /\ UNCHANGED <<subs, mpc, lb, intr, ps, snap, tmp, act, raised, counted, taken, freed>>

-----------------------------------------------------------------------------
(* The signal handler, run asynchronously when the signal is delivered.    *)

Handle(s) ==
    /\ disp[s] = "lib" /\ raised < MaxRaise
    /\ SplitSub \/ mpc # "store"
    /\ raised' = raised + 1
    /\ caught' = [caught EXCEPT ![sigBase][s] = @ + 1]
    /\ counted' = [counted EXCEPT ![sigBase][s] = @ + 1]
    /\ flag' = [flag EXCEPT ![sigBase] = TRUE]
    /\ pipe' = [pipe EXCEPT ![sigBase] = IF @ < PipeCap THEN @ + 1 ELSE @]
    /\ intr' = (intr \/ mpc = "wait")
    /\ UNCHANGED <<relay, sigBase, mpc, lb, pipeReady, ps, snap, tmp, act, ops, taken, dropped>>

-----------------------------------------------------------------------------
(* The dispatch thread.                                                    *)

\* event_base_loop entered: evsignal_base follows the base whose loop runs
\* when its self-pipe event was ever added.
EnterLoop(b) ==
    /\ mpc = "idle" /\ b \notin freed
    /\ mpc' = "top" /\ lb' = b
    /\ sigBase' = IF sigAdded[b] THEN b ELSE sigBase
    /\ UNCHANGED <<relay, caught, flag, pipe, intr, pipeReady, ps, snap, tmp, act, ops, raised, counted, taken, dropped>>

\* No events registered: event_base_loop returns 1.
LoopReturn ==
    /\ mpc = "top" /\ Subscribed(lb) = {} /\ act = {}
    /\ mpc' = "idle"
    /\ UNCHANGED <<relay, caught, flag, pipe, sigBase, lb, intr, pipeReady, ps, snap, tmp, act, ops, raised, counted, taken, dropped>>

\* epoll_dispatch enters epoll_wait with no timeout.
Wait ==
    /\ mpc = "top" /\ (Subscribed(lb) # {} \/ act # {})
    /\ mpc' = "wait" /\ intr' = FALSE
    /\ UNCHANGED <<relay, caught, flag, pipe, sigBase, lb, pipeReady, ps, snap, tmp, act, ops, raised, counted, taken, dropped>>

\* epoll_wait returns: with EINTR, evsignal_process runs and dispatch
\* returns; otherwise the self-pipe is readable (registered and holding a
\* byte) and evsignal_process runs when evsignal_caught is set.
WaitReturn ==
    /\ mpc = "wait"
    /\ \/ /\ intr
          /\ pipeReady' = FALSE /\ mpc' = "proc"
       \/ /\ ~intr /\ sigAdded[lb] /\ pipe[lb] > 0
          /\ pipeReady' = TRUE
          /\ mpc' = IF flag[lb] THEN "proc" ELSE "cb"
    /\ flag' = IF mpc' = "proc" THEN [flag EXCEPT ![lb] = FALSE] ELSE flag
    /\ ps' = 1
    /\ UNCHANGED <<relay, caught, pipe, sigBase, lb, intr, snap, tmp, act, ops, raised, counted, taken, dropped>>

\* The next signal of evsignal_process's for loop, or the end of it.
NextSig == IF ps < NSig THEN ps' = ps + 1 /\ mpc' = "proc" ELSE ps' = ps /\ mpc' = "cb"

\* ncalls = evsigcaught[i]; a zero count goes on to the next signal.
Snapshot ==
    /\ mpc = "proc"
    /\ snap' = caught[lb][ps]
    /\ IF caught[lb][ps] = 0 THEN NextSig ELSE mpc' = "sub" /\ UNCHANGED ps
    /\ UNCHANGED <<relay, caught, flag, pipe, sigBase, lb, intr, pipeReady, tmp, act, ops, raised, counted, taken, dropped>>

\* evsigcaught is a plain sig_atomic_t, not volatile, so the build may
\* compile evsigcaught[i] -= ncalls as one read-modify-write or as a load
\* and a later store.  Both take the two steps below; with one instruction
\* (~SplitSub) no handler runs between them (Handle's guard).  The load ...
SubLoad ==
    /\ mpc = "sub"
    /\ tmp' = caught[lb][ps]
    /\ mpc' = "store"
    /\ UNCHANGED <<relay, caught, flag, pipe, sigBase, lb, intr, pipeReady, ps, snap, act, ops, raised, counted, taken, dropped>>

\* A mutant of SubStore: the operands of the subtraction swapped.
SubStoreSwapped ==
    /\ mpc = "store"
    /\ caught' = [caught EXCEPT ![lb][ps] = snap - tmp]
    /\ taken' = [taken EXCEPT ![lb][ps] = @ + snap]
    /\ mpc' = "fan"
    /\ UNCHANGED <<relay, flag, pipe, sigBase, lb, intr, pipeReady, ps, snap, tmp, act, ops, raised, counted, dropped>>

\* ... and a later store.
SubStore ==
    /\ mpc = "store"
    /\ caught' = [caught EXCEPT ![lb][ps] = tmp - snap]
    /\ taken' = [taken EXCEPT ![lb][ps] = @ + snap]
    /\ mpc' = "fan"
    /\ UNCHANGED <<relay, flag, pipe, sigBase, lb, intr, pipeReady, ps, snap, tmp, act, ops, raised, counted, dropped>>

\* Every subscriber of the signal: a non-PERSIST one is event_del'ed (so
\* unsubscribed, the last one restoring the disposition), and each is
\* event_active'd with EV_SIGNAL and ncalls.
FanOut ==
    /\ mpc = "fan"
    /\ LET s    == ps
           all  == ToSet(subs[lb][s])
           keep == SelectSeq(subs[lb][s], LAMBDA e : e \in Persist)
       IN  /\ act' = act \cup all
           /\ subs' = [subs EXCEPT ![lb][s] = keep]
           /\ IF keep = <<>> /\ all # {}
              THEN RestoreHandler(lb, s)
              ELSE UNCHANGED <<disp, saved>>
    /\ NextSig
    /\ UNCHANGED <<sigAdded, caught, flag, pipe, sigBase, lb, intr, pipeReady, snap, tmp, ops, raised, counted, taken, freed, dropped>>

\* event_process_active runs the callbacks of the activated events and, when
\* the self-pipe was reported readable, evsignal_cb's recv of one byte;
\* the loop goes round.
Callbacks ==
    /\ mpc = "cb"
    /\ act' = {}
    /\ pipe' = IF pipeReady THEN [pipe EXCEPT ![lb] = @ - 1] ELSE pipe
    /\ pipeReady' = FALSE
    /\ mpc' = "top"
    /\ UNCHANGED <<relay, caught, flag, sigBase, lb, intr, ps, snap, tmp, ops, raised, counted, taken, dropped>>

-----------------------------------------------------------------------------

Init ==
    /\ disp = [s \in Sigs |-> "dfl"]
    /\ saved = [b \in Bases |-> [s \in Sigs |-> NONE]]
    /\ subs = [b \in Bases |-> [s \in Sigs |-> <<>>]]
    /\ sigAdded = [b \in Bases |-> FALSE]
    /\ caught = [b \in Bases |-> [s \in Sigs |-> 0]]
    /\ flag = [b \in Bases |-> FALSE]
    /\ pipe = [b \in Bases |-> 0]
    /\ sigBase = NONE
    /\ mpc = "idle" /\ lb \in Bases /\ intr = FALSE /\ pipeReady = FALSE
    /\ ps = 1 /\ snap = 0 /\ tmp = 0 /\ act = {}
    /\ ops = 0 /\ raised = 0
    /\ counted = [b \in Bases |-> [s \in Sigs |-> 0]]
    /\ taken = [b \in Bases |-> [s \in Sigs |-> 0]]
    /\ dropped = [b \in Bases |-> [s \in Sigs |-> 0]]
    /\ freed = {}

LoopStep ==
    \/ \E b \in Bases : EnterLoop(b)
    \/ LoopReturn \/ Wait \/ WaitReturn \/ Snapshot
    \/ SubLoad \/ SubStore \/ FanOut \/ Callbacks

Next ==
    \/ LoopStep
    \/ \E e \in SigEvents, res \in PipeAddResults : Add(e, res)
    \/ \E e \in SigEvents : Del(e)
    \/ \E b \in Bases : EventBaseFree(b)
    \/ \E b \in Bases : Reinit(b)
    \/ \E s \in Sigs : Handle(s)

\* The dispatch thread does not stop while it has a step to take: the
\* kernel returns from epoll_wait once the self-pipe is readable or a
\* handler interrupts it, and the program keeps calling event_dispatch.
Fairness == WF_vars(LoopStep)

Spec == Init /\ [][Next]_vars /\ Fairness

-----------------------------------------------------------------------------
(* Properties.                                                             *)

\* Every variable has its type; in particular evsigcaught[s] stays between
\* 0 and the signals delivered, so evsignal_process's subtraction never
\* takes more than the handler counted.
TypeOK ==
    /\ disp \in [Sigs -> {"dfl", "lib"}]
    /\ saved \in [Bases -> [Sigs -> {"dfl", "lib", NONE}]]
    /\ \A b \in Bases, s \in Sigs : ToSet(subs[b][s]) \subseteq SigEvents
    /\ caught \in [Bases -> [Sigs -> 0..MaxRaise]]
    /\ pipe \in [Bases -> 0..PipeCap]
    /\ sigBase \in Bases \cup {NONE}
    /\ act \subseteq SigEvents
    /\ snap \in 0..MaxRaise /\ tmp \in 0..MaxRaise
    /\ freed \subseteq Bases

\* No signal the handler counted is lost: every increment of evsigcaught[s]
\* is either still pending or was taken by evsignal_process's snapshot and
\* handed to the subscribers.  The subtraction (not an assignment) is what
\* keeps a signal that arrives between the snapshot and the update.
\* event_reinit's discarded counts are in dropped.
SignalsConserved ==
    \A b \in Bases, s \in Sigs : counted[b][s] = caught[b][s] + taken[b][s] + dropped[b][s]

\* The relay's handler is installed for exactly the signals that some base
\* has a subscriber for: evsignal_add installs it for the first subscriber
\* and evsignal_del (directly or from evsignal_process) restores the saved
\* disposition when the last one leaves.
HandlerIffSubscribed ==
    \A s \in Sigs : disp[s] = "lib" <=> \E b \in Bases : HasSub(b, s)

\* No base keeps the relay's own handler as the disposition to restore:
\* sh_old[s] holds what the program had installed, so the last evsignal_del
\* of s gives the program its disposition back.  event_reinit restores the
\* saved dispositions before evsignal_add saves the current one again.
SavedIsNotRelay == \A b \in Bases, s \in Sigs : saved[b][s] # "lib"

CountedAtSubscriber ==
    [][\A s \in Sigs : Handle(s) => sigBase \notin freed /\ HasSub(sigBase, s)]_vars

=============================================================================
