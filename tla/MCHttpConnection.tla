-------------------------- MODULE MCHttpConnection --------------------------
(* A few requests of a few bytes each against a buffer of four.              *)
EXTENDS HttpConnection

Msg(h, l, p, v, k) == [hdr |-> h, has_len |-> l # 99, len |-> l, post |-> p,
                       verdict |-> v, keep |-> k]

\* Plain requests, with and without bodies of which some exceed the buffer.
Plain == {Msg(1, 99, FALSE, "ok", TRUE), Msg(2, 1, TRUE, "ok", TRUE),
          Msg(1, 4, TRUE, "ok", TRUE), Msg(1, 2, TRUE, "bad_uri", TRUE)}
\* Requests that end the connection: no or negative length, Connection: close,
\* malformed in each way, or too large for the buffer.
Last  == Plain \cup
         {Msg(1, 99, TRUE, "ok", TRUE), Msg(1, -2, TRUE, "ok", TRUE),
          Msg(2, 1, TRUE, "ok", FALSE), Msg(1, 0, FALSE, "bad_version", TRUE),
          Msg(2, 99, FALSE, "bad_char", TRUE),
          Msg(2, 99, FALSE, "bad_line", TRUE), Msg(5, 99, FALSE, "ok", TRUE)}

\* Short ones: three of them are in the buffer at a time.
Short == {Msg(1, 99, FALSE, "ok", TRUE), Msg(1, 1, TRUE, "ok", TRUE)}

MCStreams == {<<a, b>> : a \in Plain, b \in Last} \cup
             {<<a, b, c>> : a \in Short, b \in Short, c \in Short}
MCReadSizes == {3}
MCStaleLens == {2}
=============================================================================
