------------------------------- MODULE Reactor -------------------------------
(***************************************************************************)
(* The reactor core of event.cpp: event registration (event_add,          *)
(* event_del, event_active, event_priority_set, event_base_priority_init, *)
(* event_set, event_base_loopexit, event_base_loopbreak) and the dispatch *)
(* loop (event_base_loop, timeout_process, event_process_active), with    *)
(* the user's callbacks free to call the registration API while the loop  *)
(* is running.  The readiness backend is abstract here: it holds a set of *)
(* registered events, and in each wait any of them may turn out ready.    *)
(*                                                                         *)
(* The per-event fields and base queues live in one record r, so that the *)
(* library's internal calls (event_del inside timeout_process, and so on) *)
(* compose as functions of it.  The clock is monotonic (use_monotonic on  *)
(* Linux), so timeout_correct does nothing and is not modelled.           *)
(***************************************************************************)
EXTENDS Integers, Sequences, SequencesExt, FiniteSets

CONSTANTS
    Events,         \* the struct event objects of the program
    Kinds,          \* Kinds[e] \subseteq {"READ","WRITE","PERSIST"}: ev_events
    OnceEv,         \* the carrier event of event_base_once used by loopexit
    NULL,
    Tvs,            \* relative timeouts a caller passes to event_add
    MaxTime,        \* horizon of the monotonic clock
    MaxCalls,       \* largest ncalls an activation carries
    MaxPri,         \* largest band count passed to event_priority_init
    BackendResults, \* outcomes of the backend's add: subset of {0, -1}
    SafeReprioritise, \* caller gives every event a valid band before priority_init
    MaxOps          \* bound on the number of API calls the program makes

ASSUME OnceEv \in Events /\ Kinds[OnceEv] = {}
ASSUME BackendResults \subseteq {0, -1} /\ 0 \in BackendResults

Flag == {"INSERTED", "ACTIVE", "TIMEOUT"}      \* EVLIST_* queue flags
Reason == {"TIMEOUT", "READ", "WRITE"}          \* EV_* result bits
Bands == 0..MaxPri - 1
Cap == Cardinality(Events)
FRAME == "frame"    \* the address of event_process_active's local ncalls

VARIABLES
    r,          \* per-event fields and base queues, see TypeOK
    pc,         \* where the dispatch thread is: "idle", "top", "next",
                \* "calls" (the while (ncalls) loop) or "callback"
    cur,        \* the event event_process_active is on
    band,       \* the active queue event_process_active drains
    loopFlags,  \* EVLOOP_ONCE / EVLOOP_NONBLOCK of the running loop
    gotterm,    \* base->event_gotterm
    brk,        \* base->event_break
    now,        \* the monotonic clock
    cache,      \* base->tv_cache, NULL when tv_sec == 0
    cancelled,  \* history: events the caller deleted and has not re-armed
    ops         \* API calls made so far (bounded by MaxOps)

vars == <<r, pc, cur, band, loopFlags, gotterm, brk, now, cache, cancelled, ops>>

H == INSTANCE MinHeap

-----------------------------------------------------------------------------
(* Queue bookkeeping: event_queue_insert and event_queue_remove.           *)

\* event_queue_insert.  Re-inserting into the active queue is a no-op; the
\* other double inserts are never attempted by the callers.
QInsert(s, e, queue) ==
    IF queue = "ACTIVE" /\ "ACTIVE" \in s.flags[e] THEN s
    ELSE LET s1 == [s EXCEPT !.cnt = @ + 1, !.flags[e] = @ \cup {queue}]
         IN CASE queue = "INSERTED" -> s1
              [] queue = "ACTIVE" ->
                    [s1 EXCEPT !.acnt = @ + 1,
                               !.aq[s.pri[e]] = Append(@, e)]
              [] queue = "TIMEOUT" ->
                    [s1 EXCEPT !.heap = H!Push(s.heap, s.tmo, e)]

\* A mutant of QRemove: leaving the active queue keeps event_count_active.
QRemoveKeepCount(s, e, queue) ==
    LET s1 == [s EXCEPT !.cnt = @ - 1, !.flags[e] = @ \ {queue}]
    IN  CASE queue = "INSERTED" -> s1
          [] queue = "ACTIVE" -> [s1 EXCEPT !.aq[s.pri[e]] = Remove(@, e)]
          [] queue = "TIMEOUT" ->
                [s1 EXCEPT !.heap = H!Erase(s.heap, s.tmo, e)]

\* event_queue_remove (its callers only remove from queues the event is on).
QRemove(s, e, queue) ==
    LET s1 == [s EXCEPT !.cnt = @ - 1, !.flags[e] = @ \ {queue}]
    IN  CASE queue = "INSERTED" -> s1
          [] queue = "ACTIVE" ->
                [s1 EXCEPT !.acnt = @ - 1, !.aq[s.pri[e]] = Remove(@, e)]
          [] queue = "TIMEOUT" ->
                [s1 EXCEPT !.heap = H!Erase(s.heap, s.tmo, e)]

\* if (ev->ev_ncalls && ev->ev_pncalls) *ev->ev_pncalls = 0;  pncalls
\* only ever points at event_process_active's local, whose stack slot is
\* r.slot (the same address for every call from event_base_loop).
ZeroPending(s, e) ==
    IF s.ncalls[e] # 0 /\ s.pncalls[e] = FRAME THEN [s EXCEPT !.slot = 0] ELSE s

\* Removal from one queue when the event is on it.
IfOn(s, e, queue) == IF queue \in s.flags[e] THEN QRemove(s, e, queue) ELSE s

\* event_del: cancel remaining calls, leave the timeout, active and inserted
\* queues, and unregister from the backend when inserted.
EvDel(s, e) ==
    LET s1 == IfOn(IfOn(ZeroPending(s, e), e, "TIMEOUT"), e, "ACTIVE")
    IN  IF "INSERTED" \in s1.flags[e]
        THEN [QRemove(s1, e, "INSERTED") EXCEPT !.reg = @ \ {e}]
        ELSE s1

\* A mutant of EvActive: a coalesced activation adds its calls.
EvActiveAddCalls(s, e, rs, n) ==
    IF "ACTIVE" \in s.flags[e]
    THEN [s EXCEPT !.res[e] = @ \cup rs, !.ncalls[e] = @ + n]
    ELSE QInsert([s EXCEPT !.res[e] = rs, !.ncalls[e] = n, !.pncalls[e] = NULL],
                 e, "ACTIVE")

\* event_active: fold the reasons into an active event, else queue it.
EvActive(s, e, rs, n) ==
    IF "ACTIVE" \in s.flags[e]
    THEN [s EXCEPT !.res[e] = @ \cup rs]
    ELSE QInsert([s EXCEPT !.res[e] = rs, !.ncalls[e] = n, !.pncalls[e] = NULL],
                 e, "ACTIVE")

\* Does event_add call the backend for e?
NeedsBackend(s, e) ==
    /\ Kinds[e] \cap {"READ", "WRITE"} # {}
    /\ s.flags[e] \cap {"INSERTED", "ACTIVE"} = {}

ArmTimer(s, e, tv, t) ==
    LET s1 == IfOn(s, e, "TIMEOUT")
        s2 == IF "ACTIVE" \in s1.flags[e] /\ "TIMEOUT" \in s1.res[e]
              THEN QRemove(ZeroPending(s1, e), e, "ACTIVE")
              ELSE s1
    IN  QInsert([s2 EXCEPT !.tmo[e] = t + tv], e, "TIMEOUT")

\* event_add(e, tv) at clock reading t, the backend answering res.
EvAdd(s, e, tv, t, res) ==
    LET s1 == IF NeedsBackend(s, e) /\ res = 0
              THEN [QInsert(s, e, "INSERTED") EXCEPT !.reg = @ \cup {e}]
              ELSE s
        failed == NeedsBackend(s, e) /\ res = -1
    IN  IF failed \/ tv = NULL THEN s1 ELSE ArmTimer(s1, e, tv, t)

\* gettime: the cached tick time when valid, else the clock.
GetTime == IF cache # NULL THEN cache ELSE now

\* timeout_process: activate every timer whose deadline is at most t.
RECURSIVE TimeoutProcess(_, _)
TimeoutProcess(s, t) ==
    LET e == H!Top(s.heap)
    IN  IF e = NULL \/ s.tmo[e] > t THEN s
        ELSE TimeoutProcess(EvActive(EvDel(s, e), e, {"TIMEOUT"}, 1), t)

\* timeout_next: NULL (block) on an empty heap, else the time to the top.
TimeoutNext(s) ==
    LET e == H!Top(s.heap)
    IN  IF e = NULL THEN NULL
        ELSE IF s.tmo[e] <= GetTime THEN 0 ELSE s.tmo[e] - GetTime

\* The backend's activations: each ready event made active with the
\* directions that are ready, in the order the kernel reports them.
ActivateReady(s, ready, dirs) ==
    FoldLeft(LAMBDA acc, e : EvActive(acc, e, dirs[e], 1), s, ready)

\* The directions the kernel may report for each ready event.
ReadyDirs(S) ==
    {d \in [S -> SUBSET {"READ", "WRITE"}] : \A e \in S : d[e] # {} /\ d[e] \subseteq Kinds[e]}

\* The first non-empty active queue (event_process_active's search).
FirstBand(s) == CHOOSE i \in 0..s.nq - 1 : s.aq[i] # <<>> /\ \A j \in 0..i - 1 : s.aq[j] = <<>>

-----------------------------------------------------------------------------
(* The dispatch loop, event_base_loop.                                     *)

\* The loop's exit: break out of the while and clear the time cache.
ExitLoop == pc' = "idle" /\ cache' = NULL

\* After event_process_active returns: done when ONCE and nothing active.
AfterProcess(s) ==
    IF s.acnt = 0 /\ "ONCE" \in loopFlags THEN ExitLoop
    ELSE pc' = "top" /\ UNCHANGED cache

\* event_base_loop entered by the program.
EnterLoop ==
    /\ pc = "idle"
    /\ \E f \in SUBSET {"ONCE", "NONBLOCK"} : loopFlags' = f
    /\ pc' = "top"
    /\ cache' = NULL
    /\ UNCHANGED <<ops, r, cur, band, gotterm, brk, now, cancelled>>

\* event_haveevents false: the loop returns 1 at once, leaving tv_cache as
\* it was.
NoEventsReturn == r.cnt = 0 /\ pc' = "idle" /\ UNCHANGED <<gotterm, brk, cache>>

\* Top of the while loop: gotterm, then break, end the loop; with nothing
\* registered the loop returns.
LoopReturn ==
    /\ pc = "top"
    /\ \/ gotterm /\ gotterm' = FALSE /\ ExitLoop /\ UNCHANGED brk
       \/ ~gotterm /\ brk /\ brk' = FALSE /\ ExitLoop /\ UNCHANGED gotterm
       \/ ~gotterm /\ ~brk /\ NoEventsReturn
    /\ UNCHANGED <<ops, r, cur, band, loopFlags, now, cancelled>>

\* One wait: timeout_next (zero when something is active or NONBLOCK), the
\* backend wait (returning ready events, or early on EINTR, no later than
\* the timeout), tv_cache re-sampled, timeout_process, and then either
\* event_process_active, the NONBLOCK exit or the next iteration.
Dispatch ==
    /\ pc = "top" /\ ~gotterm /\ ~brk /\ r.cnt > 0
    /\ LET tv    == IF r.acnt = 0 /\ "NONBLOCK" \notin loopFlags
                    THEN TimeoutNext(r) ELSE 0
           limit == IF tv = NULL THEN MaxTime ELSE IF now + tv > MaxTime THEN MaxTime ELSE now + tv
       IN  \E w \in now..limit, S \in SUBSET r.reg :
           \E ready \in SetToSeqs(S), dirs \in ReadyDirs(S) :
              LET s == TimeoutProcess(ActivateReady(r, ready, dirs), w)
                 IN  /\ r' = s
                     /\ now' = w
                     /\ IF s.acnt > 0
                        THEN pc' = "next" /\ band' = FirstBand(s) /\ cache' = w
                        ELSE IF "NONBLOCK" \in loopFlags
                             THEN ExitLoop /\ UNCHANGED band
                             ELSE pc' = "top" /\ cache' = w /\ UNCHANGED band
    /\ UNCHANGED <<ops, cur, loopFlags, gotterm, brk, cancelled>>

\* The backend's dispatch fails with an error other than EINTR: the loop
\* returns -1 at once, tv_cache having been invalidated before the wait.
DispatchFail ==
    /\ pc = "top" /\ ~gotterm /\ ~brk /\ r.cnt > 0
    /\ pc' = "idle" /\ cache' = NULL
    /\ UNCHANGED <<ops, r, cur, band, loopFlags, gotterm, brk, now, cancelled>>

\* event_process_active takes the head of its queue: a PERSIST event only
\* leaves the active queue, any other is deleted; its ncalls is copied to
\* the local and ev_pncalls pointed at it.  An empty queue ends the call.
ProcessNext ==
    /\ pc = "next"
    /\ IF r.aq[band] = <<>>
       THEN AfterProcess(r) /\ UNCHANGED <<r, cur>>
       ELSE LET e  == Head(r.aq[band])
                s1 == IF "PERSIST" \in Kinds[e] THEN QRemove(r, e, "ACTIVE")
                      ELSE EvDel(r, e)
            IN  /\ r' = [s1 EXCEPT !.slot = s1.ncalls[e], !.pncalls[e] = FRAME]
                /\ cur' = e
                /\ pc' = "calls"
                /\ UNCHANGED cache
    /\ UNCHANGED <<ops, band, loopFlags, gotterm, brk, now, cancelled>>

\* while (ncalls) { ncalls--; ev->ev_ncalls = ncalls; callback }
CallsStep ==
    /\ pc = "calls"
    /\ IF r.slot = 0
       THEN pc' = "next" /\ UNCHANGED r
       ELSE /\ r' = [r EXCEPT !.slot = @ - 1, !.ncalls[cur] = r.slot - 1]
            /\ pc' = "callback"
    /\ UNCHANGED <<ops, cur, band, loopFlags, gotterm, brk, now, cache, cancelled>>

\* event_once_cb of the loopexit carrier: event_loopexit_cb sets
\* event_gotterm, then the carrier is freed (it is in no queue by now).
OnceCb == gotterm' = (gotterm \/ cur = OnceEv)

\* The callback returns; event_process_active returns at once on a break.
CallbackReturn ==
    /\ pc = "callback"
    /\ OnceCb
    /\ IF brk THEN AfterProcess(r) ELSE pc' = "calls" /\ UNCHANGED cache
    /\ UNCHANGED <<ops, r, cur, band, loopFlags, brk, now, cancelled>>

-----------------------------------------------------------------------------
(* The registration API, called by the program between loops or by a     *)
(* callback (not by the loopexit carrier's own callback).                 *)

UserMayCall ==
    /\ pc = "idle" \/ (pc = "callback" /\ cur # OnceEv)
    /\ ops < MaxOps /\ ops' = ops + 1

User == Events \ {OnceEv}

Add(e, tv, res) ==
    /\ UserMayCall
    /\ r' = EvAdd(r, e, tv, GetTime, res)
    /\ cancelled' = cancelled \ {e}
    /\ UNCHANGED <<pc, cur, band, loopFlags, gotterm, brk, now, cache>>

Del(e) ==
    /\ UserMayCall
    /\ r' = EvDel(r, e)
    /\ cancelled' = cancelled \cup {e}
    /\ UNCHANGED <<pc, cur, band, loopFlags, gotterm, brk, now, cache>>

\* event_active with a READ reason and n calls (a forced TIMEOUT reason is
\* left out: it would make a callback see a timeout that is not due).
Activate(e, n) ==
    /\ UserMayCall
    /\ r' = EvActive(r, e, {"READ"}, n)
    /\ cancelled' = cancelled \ {e}
    /\ UNCHANGED <<pc, cur, band, loopFlags, gotterm, brk, now, cache>>

\* event_priority_set: refused while active or out of range.
PrioritySet(e, p) ==
    /\ UserMayCall
    /\ "ACTIVE" \notin r.flags[e] /\ p < r.nq
    /\ r' = [r EXCEPT !.pri[e] = p]
    /\ UNCHANGED <<pc, cur, band, loopFlags, gotterm, brk, now, cache, cancelled>>

\* event_base_priority_init: refused while any event is active; a new band
\* count replaces the (empty) active queues.
PriorityInit(n) ==
    /\ UserMayCall
    /\ r.acnt = 0 /\ n # r.nq
    /\ SafeReprioritise => \A e \in Events : r.pri[e] < n
    /\ r' = [r EXCEPT !.nq = n, !.aq = [i \in Bands |-> <<>>]]
    /\ UNCHANGED <<pc, cur, band, loopFlags, gotterm, brk, now, cache, cancelled>>

\* event_set on an event in no queue: default band nactivequeues / 2.
EventSet(e) ==
    /\ UserMayCall
    /\ r.flags[e] = {}
    /\ r' = [r EXCEPT !.res[e] = {}, !.ncalls[e] = 0, !.pncalls[e] = NULL,
                      !.pri[e] = r.nq \div 2]
    /\ UNCHANGED <<pc, cur, band, loopFlags, gotterm, brk, now, cache, cancelled>>

\* event_base_once(EV_TIMEOUT): a fresh carrier set up as a pure timer in
\* the default band (evtimer_set, event_base_set) and added with tv (0 when
\* NULL).
BaseOnce(tv) ==
    LET s == [r EXCEPT !.res[OnceEv] = {}, !.ncalls[OnceEv] = 0,
                       !.pncalls[OnceEv] = NULL, !.pri[OnceEv] = r.nq \div 2]
    IN  r' = EvAdd(s, OnceEv, IF tv = NULL THEN 0 ELSE tv, GetTime, 0)

\* event_base_loopexit(tv): event_base_once with event_loopexit_cb.  One
\* carrier is outstanding at a time.
LoopExit(tv) ==
    /\ UserMayCall
    /\ r.flags[OnceEv] = {}
    /\ BaseOnce(tv)
    /\ UNCHANGED <<pc, cur, band, loopFlags, gotterm, brk, now, cache, cancelled>>

\* event_base_loopbreak
LoopBreak ==
    /\ UserMayCall
    /\ brk' = TRUE
    /\ UNCHANGED <<r, pc, cur, band, loopFlags, gotterm, now, cache, cancelled>>

\* Time passes while the program or a callback runs.
Tick ==
    /\ pc \in {"idle", "callback"}
    /\ now < MaxTime
    /\ now' = now + 1
    /\ UNCHANGED <<ops, r, pc, cur, band, loopFlags, gotterm, brk, cache, cancelled>>

-----------------------------------------------------------------------------

Init ==
    /\ r = [flags  |-> [e \in Events |-> {}],
            res    |-> [e \in Events |-> {}],
            ncalls |-> [e \in Events |-> 0],
            pncalls |-> [e \in Events |-> NULL],
            pri    |-> [e \in Events |-> 0],
            tmo    |-> [e \in Events |-> 0],
            heap   |-> H!EmptyHeap(Events, Cap),
            aq     |-> [i \in Bands |-> <<>>],
            nq     |-> 1,
            cnt    |-> 0,
            acnt   |-> 0,
            reg    |-> {},
            slot   |-> 0]
    /\ pc = "idle" /\ cur = NULL /\ band = 0 /\ loopFlags = {}
    /\ gotterm = FALSE /\ brk = FALSE
    /\ now = 0 /\ cache = NULL /\ cancelled = {} /\ ops = 0

UserNext ==
    \/ \E e \in User, tv \in Tvs \cup {NULL}, res \in BackendResults : Add(e, tv, res)
    \/ \E e \in User : Del(e)
    \/ \E e \in User, n \in 1..MaxCalls : Activate(e, n)
    \/ \E e \in User, p \in Bands : PrioritySet(e, p)
    \/ \E n \in 1..MaxPri : PriorityInit(n)
    \/ \E e \in User : EventSet(e)
    \/ \E tv \in Tvs \cup {NULL} : LoopExit(tv)
    \/ LoopBreak

LoopNext ==
    \/ EnterLoop
    \/ LoopReturn
    \/ Dispatch
    \/ DispatchFail
    \/ ProcessNext
    \/ CallsStep
    \/ CallbackReturn

Next == LoopNext \/ UserNext \/ Tick

Spec == Init /\ [][Next]_vars

-----------------------------------------------------------------------------
(* Properties.                                                             *)

TypeOK ==
    /\ r.flags \in [Events -> SUBSET Flag]
    /\ r.res \in [Events -> SUBSET Reason]
    /\ r.ncalls \in [Events -> 0..MaxCalls]
    /\ r.pncalls \in [Events -> {NULL, FRAME}]
    /\ r.pri \in [Events -> Bands]
    /\ r.nq \in 1..MaxPri
    /\ r.aq \in [Bands -> Seq(Events)]
    /\ r.reg \subseteq Events
    /\ r.slot \in 0..MaxCalls
    /\ pc \in {"idle", "top", "next", "calls", "callback"}
    /\ cur \in Events \cup {NULL}
    /\ band \in Bands
    /\ now \in 0..MaxTime
    /\ cache \in 0..MaxTime \cup {NULL}
    /\ cancelled \subseteq Events
    /\ ops \in 0..MaxOps

\* The queue bookkeeping of event_queue_insert / event_queue_remove stays
\* coherent through every interleaving of the loop and the callbacks'
\* API calls: TIMEOUT iff the event is in the timer heap at its recorded
\* index, the heap is ordered by ev_timeout, ACTIVE iff the event is in
\* exactly one active queue (its own band), event_count_active is the
\* total length of the active queues, event_count the number of queue
\* memberships, and INSERTED iff the backend has the event.
QueuesCoherent ==
    /\ H!Indexed(r.heap) /\ H!Ordered(r.heap, r.tmo)
    /\ \A e \in Events :
          /\ ("TIMEOUT" \in r.flags[e]) <=> e \in H!Elems(r.heap)
          /\ ("INSERTED" \in r.flags[e]) <=> e \in r.reg
          /\ ("ACTIVE" \in r.flags[e]) <=>
                \E i \in Bands : e \in ToSet(r.aq[i])
          /\ \A i \in Bands : \A j, k \in 1..Len(r.aq[i]) :
                r.aq[i][j] = e /\ r.aq[i][k] = e => j = k /\ i = r.pri[e]
    /\ r.acnt = FoldFunctionOnSet(LAMBDA x, y : x + y, 0,
                   [i \in Bands |-> Len(r.aq[i])], Bands)
    /\ r.cnt = FoldFunctionOnSet(LAMBDA x, y : x + y, 0,
                   [e \in Events |-> Cardinality(r.flags[e])], Events)

NoCallbackAfterDel ==
    [][pc = "calls" /\ pc' = "callback" => cur \notin cancelled]_vars

\* An event on an active queue is owed at least one callback: otherwise
\* event_process_active takes it off the queue and never calls it.  The
\* write-back ev->ev_ncalls = ncalls after the decrement in the while
\* (ncalls) loop must not clobber a re-activation made by the callback.
ActiveOwesCall ==
    \A e \in Events : "ACTIVE" \in r.flags[e] => r.ncalls[e] > 0

\* event_del cancels only the deleted event's own remaining calls: deleting
\* an event other than the one being called leaves the while (ncalls)
\* counter of the current event alone.
DelCancelsOnlyOwnCalls ==
    [][\A e \in User : Del(e) /\ e # cur => r'.slot = r.slot]_vars

\* The dispatch loop itself never unregisters a PERSIST event: such an
\* event stays registered with the backend after it fires (it only leaves
\* the active queue), also when it fires by its timeout.
PersistStaysRegistered ==
    [][LoopNext => \A e \in Events :
          "PERSIST" \in Kinds[e] /\ e \in r.reg => e \in r'.reg]_vars

=============================================================================
