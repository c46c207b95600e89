------------------------------ MODULE MCEpoll -------------------------------
EXTENDS Epoll, TLC

\* r0: fd 0 READ|PERSIST, w0: fd 0 WRITE, b1: fd 1 READ|WRITE|PERSIST,
\* r3: fd 3 READ; s0: a second READ event on fd 0.
CONSTANTS r0, w0, b1, r3, s0

MCFdOf == (r0 :> 0) @@ (w0 :> 0) @@ (b1 :> 1) @@ (r3 :> 3) @@ (s0 :> 0)
MCDirs == (r0 :> {"rd"}) @@ (w0 :> {"wr"}) @@ (b1 :> {"rd", "wr"})
          @@ (r3 :> {"rd"}) @@ (s0 :> {"rd"})

=============================================================================
