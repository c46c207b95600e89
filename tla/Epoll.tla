------------------------------- MODULE Epoll --------------------------------
(***************************************************************************)
(* The epoll backend of epoll.cpp under the descriptor half of the reactor *)
(* API: event_add and event_del of event.cpp calling epoll_add and         *)
(* epoll_del, and event_base_loop calling epoll_dispatch and then          *)
(* event_process_active, whose callbacks may call the API again.           *)
(*                                                                         *)
(* The kernel's interest set is part of the state: the registered fds and  *)
(* the direction mask of each.  epoll_ctl fails as the kernel does (ADD of *)
(* a registered fd: EEXIST; MOD or DEL of an unregistered one: ENOENT) and *)
(* may in addition fail for want of memory when the caller's side says so. *)
(* Directions are "rd" (EV_READ, EPOLLIN) and "wr" (EV_WRITE, EPOLLOUT).   *)
(* One pure timer event TM (no fd events) runs beside them: event_add     *)
(* arms it from gettime, event_base_loop's timeout_next turns its deadline *)
(* into the tv that epoll_dispatch converts to milliseconds, and           *)
(* timeout_process activates it.  Time is in microseconds; it passes only  *)
(* in epoll_wait and in callbacks.  No signal event is registered here.    *)
(***************************************************************************)
EXTENDS Integers, FiniteSets

CONSTANTS
    FdEvents,      \* the descriptor events of the program
    FdOf,          \* ev_fd of each event
    Dirs,          \* the directions (subset of {"rd", "wr"}) of each event
    Persist,       \* the events with EV_PERSIST
    Fds,           \* the descriptor numbers the events use
    InitNFiles,    \* INITIAL_NFILES: first size of the fds table
    InitNEvents,   \* INITIAL_NEVENTS: first size of the result array
    MaxNEvents,    \* MAX_NEVENTS: the result array is not grown beyond it
    MayFail,       \* the epoll_ctl calls that may fail with ENOMEM: a subset
                   \* of {"add", "del", "reinit"} (from epoll_add called by
                   \* event_add, from epoll_del, from epoll_add called by
                   \* event_reinit)
    MaxOps,        \* bound on the API calls of the program and callbacks
    TM,            \* a timer event: event_set with no fd and no events
    TimerDelays,   \* the tv (in microseconds) event_add is given for TM
    CbTimes,       \* how long a callback may take, in microseconds
    IntBits,       \* the width of C int, the type of epoll_dispatch's timeout
    MaxTimeoutMs,  \* MAX_EPOLL_TIMEOUT_MSEC
    T0,            \* the monotonic clock when the program starts
    NULL

DirSet == {"rd", "wr"}

ASSUME \A e \in FdEvents : Dirs[e] # {} /\ Dirs[e] \subseteq DirSet
ASSUME T0 >= 1000000   \* gettime's cache test is on tv_sec

Events == FdEvents \cup {TM}

VARIABLES
    slots,    \* epollop->fds[fd]: the evread and evwrite of each fd
    nfds,     \* epollop->nfds
    nevents,  \* epollop->nevents
    kreg,     \* the fds registered in the kernel's interest set
    kmask,    \* the directions requested for each registered fd
    ins,      \* the events with EVLIST_INSERTED
    act,      \* the events with EVLIST_ACTIVE
    mpc,      \* the dispatch thread: "idle", "top", "proc" or "cb"
    ops,      \* API calls made so far
    now,      \* the monotonic clock
    cache,    \* base->tv_cache (0: cleared)
    deadline  \* TM's ev_timeout while EVLIST_TIMEOUT, else NULL

vars == <<slots, nfds, nevents, kreg, kmask, ins, act, mpc, ops, now, cache, deadline>>
kernel == <<kreg, kmask>>
timer == <<now, cache, deadline>>

Empty == [d \in DirSet |-> NULL]

-----------------------------------------------------------------------------
(* epoll_ctl and the table arithmetic.                                     *)

\* epoll_ctl succeeds when the kernel state allows op on fd, unless an
\* allocation failure is possible for this caller and happens.
CtlOk(op, f, caller, enomem) ==
    /\ ~(enomem /\ caller \in MayFail)
    /\ op = "ADD" => f \notin kreg
    /\ op \in {"MOD", "DEL"} => f \in kreg

\* The kernel's interest set after a successful epoll_ctl.
CtlApply(op, f, mask) ==
    /\ kreg' = IF op = "DEL" THEN kreg \ {f} ELSE kreg \cup {f}
    /\ kmask' = [kmask EXCEPT ![f] = IF op = "DEL" THEN {} ELSE mask]

\* A mutant of GrowNFiles: the loop stops at nfds = max.
RECURSIVE GrowStopsAtMax(_, _)
GrowStopsAtMax(n, max) == IF n < max THEN GrowStopsAtMax(2 * n, max) ELSE n

\* epoll_recalc: double nfds while nfds <= max.
RECURSIVE GrowNFiles(_, _)
GrowNFiles(n, max) == IF n <= max THEN GrowNFiles(2 * n, max) ELSE n

\* A mutant of GrowNEvents: the array doubles past MAX_NEVENTS.
GrowNEventsNoCap(n, res) == IF res = n THEN 2 * n ELSE n

\* The result array doubles when a wait filled it, up to MAX_NEVENTS.
GrowNEvents(n, res) == IF res = n /\ n < MaxNEvents THEN 2 * n ELSE n

-----------------------------------------------------------------------------
(* The backend's add and del, as called by event_add and event_del.        *)

\* A mutant of EpollAdd: the request carries only the new event's bits.
EpollAddOwnBits(e, enomem) ==
    LET f == FdOf[e]  had == {d \in DirSet : slots[f][d] # NULL}
        op == IF had = {} THEN "ADD" ELSE "MOD"
    IN  /\ nfds' = IF f >= nfds THEN GrowNFiles(nfds, f) ELSE nfds
        /\ IF CtlOk(op, f, "add", enomem)
           THEN /\ CtlApply(op, f, Dirs[e])
                /\ slots' = [slots EXCEPT ![f] = [d \in DirSet |-> IF d \in Dirs[e] THEN e ELSE @[d]]]
                /\ ins' = ins \cup {e}
           ELSE UNCHANGED <<kernel, slots, ins>>

\* epoll_add: grow the table to cover fd, ADD when the fd has no event yet
\* and MOD otherwise, requesting the union of the old and new directions;
\* on success store the event in its slots, and event_add marks it
\* INSERTED.  A failing epoll_ctl leaves everything as it was.
EpollAdd(e, enomem) ==
    LET f == FdOf[e]  had == {d \in DirSet : slots[f][d] # NULL}
        op == IF had = {} THEN "ADD" ELSE "MOD"
    IN  /\ nfds' = IF f >= nfds THEN GrowNFiles(nfds, f) ELSE nfds
        /\ IF CtlOk(op, f, "add", enomem)
           THEN /\ CtlApply(op, f, had \cup Dirs[e])
                /\ slots' = [slots EXCEPT ![f] = [d \in DirSet |-> IF d \in Dirs[e] THEN e ELSE @[d]]]
                /\ ins' = ins \cup {e}
           ELSE UNCHANGED <<kernel, slots, ins>>

\* A mutant of EpollDel: the remaining direction is kept in the slots but
\* the kernel's mask is not narrowed to it.
EpollDelKeepMask(e, enomem) ==
    LET f == FdOf[e]  sl == slots[f]  one == Dirs[e] # DirSet
        keepWr == one /\ "rd" \in Dirs[e] /\ sl["wr"] # NULL
        keepRd == one /\ ~keepWr /\ "wr" \in Dirs[e] /\ sl["rd"] # NULL
        op == IF keepWr \/ keepRd THEN "MOD" ELSE "DEL"
    IN  /\ slots' = [slots EXCEPT ![f] = [d \in DirSet |->
                        IF (d = "rd" /\ keepRd) \/ (d = "wr" /\ keepWr) THEN sl[d] ELSE NULL]]
        /\ IF CtlOk(op, f, "del", enomem)
           THEN CtlApply(op, f, kmask[f])
           ELSE UNCHANGED kernel

\* epoll_del: when the fd keeps an event of the other direction, MOD to
\* that direction, otherwise DEL; the slots of the directions not kept are
\* cleared before epoll_ctl, whose failure is returned but undoes nothing.
EpollDel(e, enomem) ==
    LET f == FdOf[e]  sl == slots[f]  one == Dirs[e] # DirSet
        keepWr == one /\ "rd" \in Dirs[e] /\ sl["wr"] # NULL
        keepRd == one /\ ~keepWr /\ "wr" \in Dirs[e] /\ sl["rd"] # NULL
        op == IF keepWr \/ keepRd THEN "MOD" ELSE "DEL"
    IN  /\ slots' = [slots EXCEPT ![f] = [d \in DirSet |->
                        IF (d = "rd" /\ keepRd) \/ (d = "wr" /\ keepWr) THEN sl[d] ELSE NULL]]
        /\ IF CtlOk(op, f, "del", enomem)
           THEN CtlApply(op, f, IF keepWr THEN {"wr"} ELSE IF keepRd THEN {"rd"} ELSE {})
           ELSE UNCHANGED kernel

\* event_del: leave the timer heap and the active queue; when INSERTED,
\* leave the inserted queue and call epoll_del.
EvDel(e, enomem) ==
    /\ deadline' = IF e = TM THEN NULL ELSE deadline
    /\ act' = act \ {e}
    /\ IF e \in ins
       THEN /\ ins' = ins \ {e}
            /\ EpollDel(e, enomem)
       ELSE UNCHANGED <<ins, slots, kernel>>
    /\ UNCHANGED nfds

-----------------------------------------------------------------------------
(* Time: gettime and the millisecond timeout of epoll_dispatch.            *)

\* gettime: the cached time while tv_cache.tv_sec is set, else the clock.
Gettime == IF cache \div 1000000 # 0 THEN cache ELSE now

\* A mutant of LoopTv: a due timer gives no tv instead of a cleared one.
LoopTvNullWhenDue ==
    IF act # {} THEN 0
    ELSE IF deadline = NULL THEN NULL
    ELSE IF deadline <= Gettime THEN NULL
    ELSE deadline - Gettime

\* timeout_next: a cleared tv (0) while events are active, NULL with no
\* timer, 0 for a due timer, else the time left before the deadline.
LoopTv ==
    IF act # {} THEN 0
    ELSE IF deadline = NULL THEN NULL
    ELSE IF deadline <= Gettime THEN 0
    ELSE deadline - Gettime

\* The value a wider integer leaves in a C int of IntBits bits.
IntOf(x) ==
    LET m == x % (2 ^ IntBits)
    IN  IF m >= 2 ^ (IntBits - 1) THEN m - 2 ^ IntBits ELSE m

\* epoll_dispatch: -1 without tv, else tv_sec * 1000 plus the microseconds
\* rounded up, stored in an int and clamped to MAX_EPOLL_TIMEOUT_MSEC.
WaitMs(tv) ==
    IF tv = NULL THEN -1
    ELSE LET t == IntOf((tv \div 1000000) * 1000 + ((tv % 1000000) + 999) \div 1000)
         IN  IF t > MaxTimeoutMs THEN MaxTimeoutMs ELSE t

-----------------------------------------------------------------------------
(* The program's calls, made outside the loop or from a callback.          *)

UserMayCall == mpc \in {"idle", "cb"} /\ ops < MaxOps

\* event_add of an event that is neither INSERTED nor ACTIVE (otherwise it
\* does not call the backend and, with no timeout, changes nothing).
Add(e, enomem) ==
    /\ UserMayCall /\ e \notin ins \cup act
    /\ ops' = ops + 1
    /\ EpollAdd(e, enomem)
    /\ UNCHANGED <<nevents, act, mpc, timer>>

\* event_add(TM, tv): a pending timeout is replaced, an activation by a
\* timeout is taken off the active queue, and the deadline is gettime + tv.
AddTimer(d) ==
    /\ UserMayCall
    /\ ops' = ops + 1
    /\ act' = act \ {TM}
    /\ deadline' = Gettime + d
    /\ UNCHANGED <<slots, nfds, nevents, kernel, ins, mpc, now, cache>>

\* event_reinit (epoll's need_reinit is 1): epoll_dealloc and epoll_init
\* leave a fresh epoll instance, a table of INITIAL_NFILES slots and
\* INITIAL_NEVENTS results; then epoll_add is called for every INSERTED
\* event.  Each call first grows the table past its fd; the events in F
\* are those whose epoll_ctl fails, and they stay INSERTED (the function
\* only returns -1).  Successful adds leave the same table in any order,
\* except for two events of one fd and direction, where the queue's last
\* one wins (here: some one).
Reinit(F) ==
    LET ok == ins \ F
        On(f, d) == {e \in ok : FdOf[e] = f /\ d \in Dirs[e]}
        fds == {FdOf[e] : e \in ins}
        top == CHOOSE m \in fds : \A x \in fds : x <= m
    IN  /\ UserMayCall
        /\ F # {} => "reinit" \in MayFail
        /\ ops' = ops + 1
        /\ slots' = [f \in Fds |-> [d \in DirSet |->
                        IF On(f, d) = {} THEN NULL ELSE CHOOSE e \in On(f, d) : TRUE]]
        /\ kreg' = {FdOf[e] : e \in ok}
        /\ kmask' = [f \in Fds |-> UNION {Dirs[e] : e \in {x \in ok : FdOf[x] = f}}]
        /\ nfds' = IF fds = {} THEN InitNFiles ELSE GrowNFiles(InitNFiles, top)
        /\ nevents' = InitNEvents
        /\ UNCHANGED <<ins, act, mpc, timer>>

\* event_del of an event on some queue.
Del(e, enomem) ==
    /\ UserMayCall /\ (e \in ins \cup act \/ (e = TM /\ deadline # NULL))
    /\ ops' = ops + 1
    /\ EvDel(e, enomem)
    /\ UNCHANGED <<nevents, mpc, now, cache>>

-----------------------------------------------------------------------------
(* The dispatch thread.                                                    *)

\* event_base_loop clears tv_cache on entry.
EnterLoop ==
    /\ mpc = "idle"
    /\ mpc' = "top"
    /\ cache' = 0
    /\ UNCHANGED <<slots, nfds, nevents, kernel, ins, act, ops, now, deadline>>

\* event_haveevents is false: event_base_loop returns 1, after
\* timeout_next and before tv_cache is cleared.
LoopReturn ==
    /\ mpc = "top" /\ ins \cup act = {} /\ deadline = NULL
    /\ mpc' = "idle"
    /\ UNCHANGED <<slots, nfds, nevents, kernel, ins, act, ops, timer>>

\* The directions whose slots epoll_dispatch reads for a reported event
\* set: both on EPOLLHUP or EPOLLERR ("hup"), else those reported.
Fired(w) == IF "hup" \in w THEN DirSet ELSE w

\* After epoll_dispatch returns at time t: tv_cache is set to t, and
\* timeout_process event_dels a due TM and activates it.
TimeoutProcess(t, a) ==
    /\ cache' = t
    /\ IF deadline # NULL /\ deadline <= t
       THEN act' = a \cup {TM} /\ deadline' = NULL
       ELSE act' = a /\ deadline' = deadline
    /\ mpc' = IF act' = {} THEN "top" ELSE "proc"

\* epoll_dispatch returning before its timeout: epoll_wait reports up to
\* nevents registered fds, each with some of its requested directions or a
\* hang-up, or none at all (EINTR); the event in each fired slot is made
\* active (event_active adds an already active event once); a full result
\* array is doubled up to MAX_NEVENTS.  No time is taken.
Dispatch ==
    /\ mpc = "top" /\ (ins \cup act # {} \/ deadline # NULL)
    /\ \E R \in SUBSET kreg :
       \E w \in [R -> SUBSET (DirSet \cup {"hup"}) \ {{}}] :
          /\ Cardinality(R) <= nevents
          /\ \A f \in R : w[f] \subseteq kmask[f] \cup {"hup"}
          /\ TimeoutProcess(now, act \cup (UNION {{slots[f][d] : d \in Fired(w[f])} : f \in R} \ {NULL}))
          /\ nevents' = GrowNEvents(nevents, Cardinality(R))
    /\ UNCHANGED <<slots, nfds, kernel, ins, ops, now>>

\* epoll_wait returning 0 when its timeout has passed; with a negative
\* timeout it never does.
DispatchTimeout ==
    /\ mpc = "top" /\ (ins \cup act # {} \/ deadline # NULL)
    /\ WaitMs(LoopTv) >= 0
    /\ now' = now + 1000 * WaitMs(LoopTv)
    /\ TimeoutProcess(now', act)
    /\ UNCHANGED <<slots, nfds, nevents, kernel, ins, ops>>

\* event_process_active takes an active event: a PERSIST one only leaves
\* the active queue, any other is event_del'ed; then its callback runs.
Process ==
    /\ mpc = "proc"
    /\ \E e \in act, enomem \in BOOLEAN :
          IF e \in Persist
          THEN /\ act' = act \ {e}
               /\ UNCHANGED <<ins, slots, kernel, nfds, deadline>>
          ELSE EvDel(e, enomem)
    /\ mpc' = "cb"
    /\ UNCHANGED <<nevents, ops, now, cache>>

\* The callback returns after taking c microseconds: on to the next active
\* event, or round the loop.  The clock is only advanced while TM is
\* pending, the only time it is read against a deadline.
CallbackReturn(c) ==
    /\ mpc = "cb"
    /\ c > 0 => deadline # NULL
    /\ now' = now + c
    /\ mpc' = IF act = {} THEN "top" ELSE "proc"
    /\ UNCHANGED <<slots, nfds, nevents, kernel, ins, act, ops, cache, deadline>>

-----------------------------------------------------------------------------

\* epoll_init: an empty table of INITIAL_NFILES slots, INITIAL_NEVENTS
\* results, an empty interest set; no timer armed.
Init ==
    /\ slots = [f \in Fds |-> Empty]
    /\ nfds = InitNFiles /\ nevents = InitNEvents
    /\ kreg = {} /\ kmask = [f \in Fds |-> {}]
    /\ ins = {} /\ act = {} /\ mpc = "idle" /\ ops = 0
    /\ now = T0 /\ cache = 0 /\ deadline = NULL

\* The steps the dispatch thread takes by itself, without the kernel.
LoopStep == LoopReturn \/ Process \/ \E c \in CbTimes : CallbackReturn(c)

Next ==
    \/ \E e \in FdEvents, enomem \in BOOLEAN : Add(e, enomem)
    \/ \E e \in Events, enomem \in BOOLEAN : Del(e, enomem)
    \/ \E d \in TimerDelays : AddTimer(d)
    \/ \E F \in SUBSET ins : Reinit(F)
    \/ EnterLoop \/ Dispatch \/ DispatchTimeout
    \/ LoopStep


Spec == Init /\ [][Next]_vars

\* The dispatch thread keeps running; the program's calls are not assumed.
\* epoll_wait returning early (a ready fd, EINTR) is up to the kernel and
\* the peers and is not assumed either; but time passes: a timeout return
\* that is possible again and again eventually happens.
FairSpec == Spec /\ WF_vars(LoopStep) /\ SF_vars(DispatchTimeout)

-----------------------------------------------------------------------------
(* Properties.                                                             *)

TypeOK ==
    /\ slots \in [Fds -> [DirSet -> FdEvents \cup {NULL}]]
    /\ nfds \in {InitNFiles * 2^k : k \in 0..Cardinality(Fds)}
    /\ nevents \in {InitNEvents * 2^k : k \in 0..MaxNEvents} /\ nevents <= MaxNEvents
    /\ kreg \subseteq Fds /\ kmask \in [Fds -> SUBSET DirSet]
    /\ ins \subseteq FdEvents /\ act \subseteq Events
    /\ now \in Nat /\ cache \in Nat /\ deadline \in Nat \cup {NULL}

\* Spec section 8, invariant 2: an INSERTED event is known to the backend:
\* its slots hold it and the kernel watches its fd for its directions, so
\* epoll_dispatch can activate it.
InsertedKnown ==
    \A e \in ins : \A d \in Dirs[e] :
        /\ slots[FdOf[e]][d] = e
        /\ FdOf[e] \in kreg /\ d \in kmask[FdOf[e]]

\* The kernel's interest set mirrors the slots: an fd is registered exactly
\* when it has an event, for exactly the directions that have one, after
\* any sequence of epoll_add and epoll_del with their ADD/MOD/DEL choice
\* (spec: add(e); del(e) leaves the backend as if never added).  An extra
\* kernel direction with no slot makes every epoll_wait return at once.
KernelMatchesSlots ==
    \A f \in Fds :
        /\ f \in kreg <=> \E d \in DirSet : slots[f][d] # NULL
        /\ kmask[f] = {d \in DirSet : slots[f][d] # NULL}

\* epoll_add writes only slots inside the table: epoll_recalc grows nfds
\* past the fd first.
SlotsInTable ==
    \A f \in Fds : f >= nfds => slots[f] = Empty

\* A timer armed while the loop runs eventually fires (or is deleted):
\* timeout_next's tv, converted to epoll_wait's timeout by
\* epoll_dispatch, bounds every wait.  A tv whose milliseconds do not fit
\* in an int wraps; a negative result passes the MAX_EPOLL_TIMEOUT_MSEC
\* clamp and makes epoll_wait wait until a descriptor is ready.
TimerFires == (deadline # NULL /\ mpc # "idle") ~> (deadline = NULL)
=============================================================================
