------------------------------- MODULE Output -------------------------------
(***************************************************************************)
(* push, mg_write with its throttle, and mg_printf.  A connection is the   *)
(* clock in seconds, what was written when, and the two fields mg_write    *)
(* keeps.                                                                  *)
(***************************************************************************)
EXTENDS Content

CONSTANT MaxTime    \* no text of the model lasts longer

\* room: how much more the peer takes before the connection breaks.
NewConn(room) ==
  [now |-> 0, last_time |-> 0, last_bytes |-> 0, room |-> room, total |-> 0,
   n |-> 0, out |-> [t \in 0 .. MaxTime |-> 0]]

\* n is how much of len was sent.
Push(conn, len) ==
  LET n == SmallerOf(len, conn.room)
  IN [conn EXCEPT !.n = n, !.room = @ - n, !.out[conn.now] = @ + n]

\* Mutant: what was sent before the sleep is not counted.
SleptForgetting(conn, sent) ==
  [conn EXCEPT !.now = @ + 1, !.last_time = conn.now + 1, !.last_bytes = 0,
               !.total = @ + sent]

\* A second later, the bytes sent before count for the new second.
Slept(conn, sent) ==
  [conn EXCEPT !.now = @ + 1, !.last_time = conn.now + 1, !.last_bytes = sent,
               !.total = @ + sent]

\* The loop of mg_write; stop is when stop_flag is set.
RECURSIVE WriteRest(_, _, _, _)
WriteRest(conn, len, throttle, stop) ==
  IF conn.total >= len \/ conn.now >= stop THEN conn
  ELSE LET allowed == SmallerOf(throttle, len - conn.total)
           p == Push(conn, allowed)
       IN IF p.n # allowed THEN p
          ELSE WriteRest(Slept(p, allowed), len, throttle, stop)

\* mg_write; total is what it returns.
Write(conn, len, throttle, stop) ==
  LET c == IF conn.now # conn.last_time
           THEN [conn EXCEPT !.last_time = conn.now, !.last_bytes = 0] ELSE conn
      allowed == SmallerOf(throttle - c.last_bytes, len)
      p == IF throttle > 0 THEN Push(c, allowed) ELSE Push(conn, len)
      q == [p EXCEPT !.total = p.n]
  IN IF throttle > 0 /\ p.n = allowed
     THEN WriteRest([q EXCEPT !.last_bytes = @ + p.n], len, throttle, stop)
     ELSE q

\* A sequence of writes, each some seconds after the one before has returned.
Writes(writes, throttle, room, stop) ==
  LET step(conn, w) ==
        Write([conn EXCEPT !.now = @ + w.gap], w.len, throttle, stop)
  IN FoldLeft(step, NewConn(room), writes)

-----------------------------------------------------------------------------
(* alloc_vprintf and mg_vprintf, with a buffer of size bytes.              *)

\* The message does not fit the buffer.
TooLong(len, size) == len > size

\* What is sent: len bytes of a buffer that vsnprintf has cut to its size.
Printf(msg, size) ==
  LET room == IF TooLong(Len(msg), size) THEN Len(msg) + 1 ELSE size
      kept == SubSeq(msg, 1, SmallerOf(Len(msg), room - 1))
  IN kept \o [k \in 1 .. Len(msg) - Len(kept) |-> Nul]
=============================================================================
