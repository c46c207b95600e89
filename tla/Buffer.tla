------------------------------- MODULE Buffer --------------------------------
(***************************************************************************)
(* One evbuffer of buffer.cpp under the calls of its user: add, remove,    *)
(* drain, expand, read from a descriptor and write to one.  The record     *)
(* buf holds orig_buffer as the sequence mem (its length is totallen),     *)
(* misalign and off; buffer is orig_buffer + misalign throughout the code, *)
(* so it is not kept apart.  The live bytes are mem[mis+1 .. mis+off].    *)
(* Bytes the code leaves uninitialized are JUNK.  The change callback is   *)
(* the flag cb (set by evbuffer_setcb); its user is a watcher that keeps   *)
(* the length as seen, adding newoff - oldoff at every call.  Every cb     *)
(* call is the last statement of its function, so a call the cb makes on  *)
(* the buffer is the same as the user's next call, and is modelled so.    *)
(* evbuffer_free ends the buffer: no call follows it.                      *)
(***************************************************************************)
EXTENDS Integers, Sequences

CONSTANTS
    Bytes,        \* the byte values written by the user and the peer
    JUNK,         \* the content of memory realloc has not initialized
    MinLen,       \* the least allocation of evbuffer_expand (256)
    MaxRead,      \* EVBUFFER_MAX_READ (4096)
    MaxAdd,       \* bound on the length of the data of one evbuffer_add
    IoctlResults, \* what FIONREAD may report: -1 for a failing ioctl
    HowMuch,      \* the howmuch arguments of evbuffer_read (-1: no limit)
    AllocFails,   \* {FALSE} or {FALSE, TRUE}: whether realloc may fail
    MaxOps        \* bound on the calls made

VARIABLES buf, ops, cb, seen, freed

vars == <<buf, ops, cb, seen, freed>>

\* The bytes the buffer holds, in order.
Live(b) == SubSeq(b.mem, b.mis + 1, b.mis + b.off)

-----------------------------------------------------------------------------
(* Helpers of evbuffer_expand.                                             *)

\* A mutant of Align: buffer is reset to orig_buffer without the memmove.
AlignNoMove(b) == [b EXCEPT !.mis = 0]

\* evbuffer_align: memmove the off live bytes to the start of orig_buffer;
\* the bytes behind them keep what they held.
Align(b) ==
    [b EXCEPT !.mem = [i \in 1..Len(b.mem) |->
                          IF i <= b.off THEN b.mem[b.mis + i] ELSE b.mem[i]],
              !.mis = 0]

\* The doubling loop: length <<= 1 while length < need.
RECURSIVE Doubled(_, _)
Doubled(length, need) ==
    IF length < need THEN Doubled(2 * length, need) ELSE length

\* realloc to length bytes: the old bytes are kept, the new ones are junk.
Realloc(b, length) ==
    [b EXCEPT !.mem = [i \in 1..length |->
                          IF i <= Len(b.mem) THEN b.mem[i] ELSE JUNK]]

\* A mutant of Expand: it aligns whenever the buffer is misaligned, not
\* only when the misalignment alone makes room for datlen bytes.
ExpandAlignAnyMisalign(b, datlen, fail) ==
    LET need == b.mis + b.off + datlen
        length == Doubled(IF Len(b.mem) < MinLen THEN MinLen ELSE Len(b.mem), need)
        a == IF b.mis # 0 THEN Align(b) ELSE b
    IN  CASE Len(b.mem) >= need -> [buf |-> b, ret |-> 0]
          [] b.mis > 0          -> [buf |-> Align(b), ret |-> 0]
          [] fail               -> [buf |-> a, ret |-> -1]
          [] OTHER              -> [buf |-> Realloc(a, length), ret |-> 0]

\* evbuffer_expand: nothing when need fits; align when the misalignment
\* alone makes room; otherwise align a misaligned buffer and realloc it to
\* the first power-of-two multiple of max(totallen, MinLen) that is at
\* least need.  A failing realloc returns -1 with the alignment done.
Expand(b, datlen, fail) ==
    LET need == b.mis + b.off + datlen
        length == Doubled(IF Len(b.mem) < MinLen THEN MinLen ELSE Len(b.mem), need)
        a == IF b.mis # 0 THEN Align(b) ELSE b
    IN  CASE Len(b.mem) >= need -> [buf |-> b, ret |-> 0]
          [] b.mis >= datlen    -> [buf |-> Align(b), ret |-> 0]
          [] fail               -> [buf |-> a, ret |-> -1]
          [] OTHER              -> [buf |-> Realloc(a, length), ret |-> 0]

\* The buffer after data is copied at buffer + off and off grows.
Appended(b, data) ==
    [b EXCEPT !.mem = [i \in 1..Len(b.mem) |->
                          IF i > b.mis + b.off /\ i <= b.mis + b.off + Len(data)
                          THEN data[i - b.mis - b.off] ELSE b.mem[i]],
              !.off = @ + Len(data)]

\* A mutant of Drain: the length is taken off without the reset branch.
DrainNoReset(b, len) == [b EXCEPT !.mis = @ + len, !.off = @ - len]

\* evbuffer_drain: draining everything resets buffer to orig_buffer;
\* otherwise the front moves by len.
Drain(b, len) ==
    IF len >= b.off
    THEN [b EXCEPT !.off = 0, !.mis = 0]
    ELSE [b EXCEPT !.mis = @ + len, !.off = @ - len]

\* The n of evbuffer_read after FIONREAD reported r: a failure or nothing
\* gives EVBUFFER_MAX_READ; more than that (and than howmuch) is clamped
\* to 4 * totallen, but not below EVBUFFER_MAX_READ.
ReadSize(b, r, howmuch) ==
    LET cap == IF r > 4 * Len(b.mem) THEN 4 * Len(b.mem) ELSE r
    IN  IF r = -1 \/ r <= 0 THEN MaxRead
        ELSE IF r > MaxRead /\ r > howmuch
             THEN IF cap < MaxRead THEN MaxRead ELSE cap
             ELSE r

-----------------------------------------------------------------------------
(* The calls.                                                              *)

Call == ~freed /\ ops < MaxOps /\ ops' = ops + 1 /\ UNCHANGED <<cb, freed>>

\* (*buf->cb)(buf, oldoff, buf->off, cbarg) when the code's condition holds
\* and a cb is set: the watcher adds the reported change to its length.
Reported(oldoff, newoff, cond) ==
    seen' = IF cond /\ cb THEN seen + newoff - oldoff ELSE seen

Datas(k) == UNION {[1..m -> Bytes] : m \in 0..k}

\* evbuffer_add: expand when need exceeds totallen, fail if that fails,
\* otherwise copy the data in and report a non-empty add to the cb.
Add(data, fail) ==
    LET need == buf.mis + buf.off + Len(data)
        e == Expand(buf, Len(data), fail)
    IN  /\ Call
        /\ buf' = IF Len(buf.mem) >= need THEN Appended(buf, data)
                  ELSE IF e.ret = -1 THEN e.buf
                  ELSE Appended(e.buf, data)
        /\ Reported(buf.off, buf'.off,
                    Len(data) # 0 /\ (Len(buf.mem) >= need \/ e.ret = 0))

\* A mutant of DrainCb: the full drain returns instead of goto done, and
\* skips the cb.
DrainCbResetReturns(len) ==
    /\ buf' = Drain(buf, len)
    /\ Reported(buf.off, buf'.off, buf'.off # buf.off /\ len < buf.off)

\* evbuffer_drain as called, with its cb call at done: when off changed.
DrainCb(len) ==
    /\ buf' = Drain(buf, len)
    /\ Reported(buf.off, buf'.off, buf'.off # buf.off)

\* evbuffer_remove: copy out min(datlen, off) bytes and drain them.
Remove(datlen) ==
    /\ Call
    /\ DrainCb(IF datlen >= buf.off THEN buf.off ELSE datlen)

\* evbuffer_drain called by the user with any length.
DrainCall(len) == Call /\ DrainCb(len)

\* evbuffer_expand called by the user: no cb call.
ExpandCall(datlen, fail) ==
    Call /\ buf' = Expand(buf, datlen, fail).buf /\ UNCHANGED seen

\* evbuffer_read: size the read from FIONREAD and howmuch, expand by it,
\* then read(2) returns -1, 0 (nothing changes) or n bytes appended.
Read(r, howmuch, fail) ==
    LET n0 == ReadSize(buf, r, howmuch)
        hm == IF howmuch < 0 \/ howmuch > n0 THEN n0 ELSE howmuch
        e == Expand(buf, hm, fail)
    IN  /\ Call
        /\ IF e.ret = -1 THEN buf' = e.buf
           ELSE \E data \in Datas(hm) \cup {<<-1>>} :
                    buf' = IF data = <<-1>> THEN e.buf ELSE Appended(e.buf, data)
        /\ Reported(buf.off, buf'.off, buf'.off # buf.off)

\* evbuffer_write: write(2) takes n of the off bytes (-1 or 0: nothing
\* changes), and those n are drained.
Write(n) ==
    /\ Call
    /\ IF n <= 0 THEN UNCHANGED <<buf, seen>> ELSE DrainCb(n)

\* evbuffer_setcb with a callback (on) or NULL; a watcher registering a cb
\* starts from the length the buffer has then.
SetCb(on) ==
    /\ ~freed /\ ops < MaxOps /\ ops' = ops + 1
    /\ cb' = on
    /\ seen' = IF on THEN buf.off ELSE 0
    /\ UNCHANGED <<buf, freed>>

\* evbuffer_free: orig_buffer and the evbuffer are freed.
Free ==
    /\ ~freed
    /\ freed' = TRUE
    /\ UNCHANGED <<buf, ops, cb, seen>>

-----------------------------------------------------------------------------

\* evbuffer_new: calloc, every field zero.
Init ==
    /\ buf = [mem |-> <<>>, mis |-> 0, off |-> 0]
    /\ ops = 0
    /\ cb = FALSE
    /\ seen = 0
    /\ freed = FALSE

Next ==
    \/ \E data \in Datas(MaxAdd), fail \in AllocFails : Add(data, fail)
    \/ \E d \in 0..buf.off + 1 : Remove(d)
    \/ \E d \in 0..buf.off + 1 : DrainCall(d)
    \/ \E d \in 0..MaxAdd, fail \in AllocFails : ExpandCall(d, fail)
    \/ \E r \in IoctlResults, h \in HowMuch, fail \in AllocFails : Read(r, h, fail)
    \/ \E n \in {-1} \cup 0..buf.off : Write(n)
    \/ \E on \in BOOLEAN : SetCb(on)
    \/ Free

Spec == Init /\ [][Next]_vars

-----------------------------------------------------------------------------
(* Properties.                                                             *)

\* Every field has its type: misalign and off are sizes and the memory
\* holds bytes or junk (a drain past off would make off wrap).
TypeOK ==
    /\ buf.mis \in Nat /\ buf.off \in Nat
    /\ buf.mem \in Seq(Bytes \cup {JUNK})
    /\ ops \in 0..MaxOps
    /\ cb \in BOOLEAN /\ seen \in Int /\ freed \in BOOLEAN

\* The live bytes lie inside the allocation: misalign + off <= totallen.
\* evbuffer_add and evbuffer_read copy to buffer + off right after
\* evbuffer_expand returned 0, trusting it made room for the whole length.
LayoutInBounds == buf.mis + buf.off <= Len(buf.mem)

\* The buffer is a byte queue: every call appends bytes at the end, takes
\* bytes from the front, or leaves the bytes as they are, whatever
\* alignment and reallocation evbuffer_expand does on the way.
\* A cb that keeps the buffer's length from the (oldoff, newoff) pairs it
\* is given agrees with off after every call: every call that changes off
\* calls the cb exactly once, after the change and with the length from
\* before it, on every path (the full drain's goto done included), and the
\* calls that fail or change only the alignment never call it.
CbTracksLength == cb => seen = buf.off

BQ == INSTANCE ByteQueue WITH content <- Live(buf)
ImplementsByteQueue == BQ!Spec
=============================================================================
