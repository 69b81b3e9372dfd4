----------------------------- MODULE MCDispatch -----------------------------
(* Small instances of Dispatch: who calls, from where and for what.         *)
EXTENDS Dispatch

CONSTANTS g1, g2, c1, c2, c3, s1, s2, lane, other, ui, work, chore

Call(home, mode, request, reuse, source, u, sid, key) ==
  [home |-> home, mode |-> mode, request |-> request, reuse |-> reuse, source |-> source,
   ui |-> u, sid |-> sid, key |-> key]

\* A messaging lane whose session is compressed between two equal requests,
\* made from two processes, and a stranger's request.
Lane(m1, m2, m3) ==
  [c \in {c1, c2, c3} |->
     IF c = c1 THEN Call(g1, m1, work, TRUE, "messaging", None, s1, lane)
     ELSE IF c = c2 THEN Call(g2, m2, work, TRUE, "messaging", None, s2, lane)
     ELSE Call(g1, m3, work, TRUE, "messaging", None, None, other)]

\* A user interface session: three calls, two of them equal, one of them made
\* with the guard off.
Interface(m1, m2, m3) ==
  [c \in {c1, c2, c3} |->
     IF c = c1 THEN Call(g1, m1, work, TRUE, "tui", ui, s1, None)
     ELSE IF c = c2 THEN Call(g1, m2, work, TRUE, "tui", ui, s2, None)
     ELSE Call(g2, m3, chore, FALSE, "tui", ui, s2, None)]

MCScenarios ==
  {Lane("detached", "detached", "detached"), Lane("foreground", "foreground", "thread"),
   Lane("detached", "thread", "thread"),
   Lane("thread", "thread", "thread"), Interface("detached", "detached", "detached"),
   Interface("thread", "thread", "detached"), Interface("foreground", "thread", "thread")}

MCContinuation == {<<s1, s2>>}
=============================================================================
