----------------------------- MODULE MCWebSocket -----------------------------
(* Sessions of up to three frames, with every header layout.                 *)
EXTENDS WebSocket

\* A frame whose text starts with the flags t.
F(m, e, l, c, t) ==
  [mask |-> m, ext |-> e, len |-> l, close |-> c, text |-> t]

Empty  == F(FALSE, 0, 0, FALSE, << >>)
Letter == F(TRUE, 0, 1, FALSE, <<TRUE>>)

\* Unmasked and masked, each length format, payloads that are empty, that fit
\* mem, and that need an allocation (longer than three bytes).
Data == {Empty, Letter, F(FALSE, 2, 3, FALSE, <<FALSE, TRUE>>),
         F(TRUE, 8, 5, FALSE, <<TRUE, FALSE>>)}
Close == {F(FALSE, 0, 0, TRUE, << >>), F(TRUE, 0, 2, FALSE, <<TRUE, TRUE>>)}

\* A message that the echo cuts.
Long == F(FALSE, 8, 17, FALSE, <<FALSE, TRUE>>)

MCSessions == {<<Long>>} \cup
              {<<a, b>> : a \in Data, b \in Data \cup Close} \cup
              {<<a, b, Empty>> : a \in {Empty, Letter}, b \in Close}

\* No body, a POST or PUT without Content-Length, and a body.
AnyLength   == {0, -1, 1}
AnyFailures == {{}, {"pull", "malloc"}}
=============================================================================
