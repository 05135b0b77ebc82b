--------------------------- MODULE HttpConnection ---------------------------
(***************************************************************************)
(* One connection in a worker: process_new_connection reads requests into  *)
(* conn->buf, handles each, discards it from the buffer and goes round     *)
(* again while the connection is kept alive.                               *)
(*                                                                         *)
(* The client's bytes are a stream of messages, a header of some length    *)
(* and a body.  Positions of the stream stand for the bytes themselves:    *)
(* conn->buf holds the data_len bytes after position base, and `pulled'    *)
(* bytes have left the socket.  A handler is abstracted to how it reads    *)
(* the body: not at all, with mg_read, or with forward_body_data.          *)
(***************************************************************************)
EXTENDS Integers, Sequences

CONSTANTS
  Streams,     \* what a client may send: a set of sequences of messages
  BufSize,     \* conn->buf_size
  ReadSizes,   \* buffer sizes a handler passes to mg_read
  FwdSize,     \* sizeof(buf) in forward_body_data
  StaleLens    \* content_len left behind by the connection served before

(* A message: hdr bytes up to and including the empty line, the header     *)
(* Content-Length if it has one, whether the method is POST or PUT, and    *)
(* what parsing makes of it: "ok", "bad_char" (get_request_len),           *)
(* "bad_line" (parse_http_message), "bad_uri" or "bad_version"             *)
(* (process_new_connection).  keep is what should_keep_alive reads off the *)
(* headers and the configuration.                                          *)
Verdicts == {"ok", "bad_char", "bad_line", "bad_uri", "bad_version"}
Message  == [hdr : Nat \ {0}, has_len : BOOLEAN, len : Int, post : BOOLEAN,
             verdict : Verdicts, keep : BOOLEAN]

ASSUME ConnectionAssumption ==
  /\ Streams \subseteq Seq(Message)
  /\ BufSize \in Nat \ {0} /\ FwdSize \in Nat \ {0}
  /\ ReadSizes \subseteq Nat \ {0} /\ StaleLens \subseteq Int

VARIABLES
  stream,      \* the messages of this client
  sent,        \* how many bytes of them it sends before it closes
  pulled,      \* bytes taken from the socket
  base,        \* stream position of conn->buf
  data_len, request_len, content_len, consumed_content, must_close,
  want,        \* bytes mg_read or forward_body_data still asks for
  n,           \* whether read_request's last pull returned data: 0 or 1
  pc,
  stop_flag,
  handled,     \* positions of the requests accepted, in order
  unread       \* a body was left in the socket of a connection kept alive

vars == <<stream, sent, pulled, base, data_len, request_len, content_len,
          consumed_content, must_close, want, n, pc, stop_flag, handled,
          unread>>
conn == <<data_len, request_len, content_len, consumed_content, must_close>>

BodyLen(m) == IF m.has_len /\ m.len > 0 THEN m.len ELSE 0

\* Start[k] is the position of message k; Start[Len(stream)+1] is the end.
Start ==
  LET f[k \in 1 .. Len(stream) + 1] ==
        IF k = 1 THEN 0
        ELSE f[k-1] + stream[k-1].hdr + BodyLen(stream[k-1])
  IN f
Total == Start[Len(stream) + 1]

\* The message that starts at a position, if one does.
MessagesAt(p) == {k \in 1 .. Len(stream) : Start[k] = p}

Init ==
  /\ stream \in Streams /\ sent \in 0 .. Total
  /\ pulled = 0 /\ base = 0
  /\ data_len = 0 /\ request_len = 0 /\ consumed_content = 0
  /\ content_len \in StaleLens /\ must_close = FALSE
  /\ want = 0 /\ n = 0 /\ pc = "getreq"
  /\ stop_flag = FALSE
  /\ handled = << >> /\ unread = FALSE

-----------------------------------------------------------------------------
(* Reading from the socket.                                                *)

SmallerOf(a, b) == IF a < b THEN a ELSE b

\* What pull(NULL, conn, buf, len) may return: some of the bytes not read yet,
\* 0 when the client has closed, -1 on a timeout, an error or when stopping.
PullResults(len) ==
  IF stop_flag THEN {-1}
  ELSE IF pulled = sent THEN {-1, 0}
  ELSE {-1} \cup 1 .. SmallerOf(len, sent - pulled)

\* What get_request_len may say of the first len bytes of the buffer.  Bytes
\* in the middle of a message can be anything.
RequestLens(len) ==
  IF base = Total \/ len = 0 THEN {0}
  ELSE IF MessagesAt(base) = {} THEN {-1} \cup 0 .. len
  ELSE LET m == stream[CHOOSE k \in MessagesAt(base) : TRUE] IN
    {IF m.verdict = "bad_char" THEN -1 ELSE IF m.hdr <= len THEN m.hdr ELSE 0}

\* getreq: reset_per_request_attributes, and the start of read_request on
\* what the buffer already holds.
GetReq ==
  /\ pc = "getreq"
  /\ consumed_content' = 0 /\ must_close' = FALSE
  /\ n' = 0
  /\ request_len' \in RequestLens(data_len)
  /\ pc' = "read_request"
  /\ UNCHANGED <<stream, sent, pulled, base, data_len, content_len, want,
                 stop_flag, handled, unread>>

\* One turn of the loop of read_request.
ReadRequest ==
  /\ pc = "read_request"
  /\ data_len < BufSize /\ request_len = 0
  /\ \E r \in PullResults(BufSize - data_len) :
       /\ IF r > 0
          THEN /\ n' = 1
               /\ data_len' = data_len + r
               /\ pulled' = pulled + r
               /\ request_len' \in RequestLens(data_len + r)
               /\ pc' = pc
          ELSE /\ n' = 0
               /\ UNCHANGED <<data_len, pulled>>
               /\ request_len' = -1
               /\ pc' = "parse"
  /\ UNCHANGED <<stream, sent, base, content_len, consumed_content, must_close,
                 want, stop_flag, handled, unread>>

ReadRequestReturn ==
  /\ pc = "read_request"
  /\ data_len >= BufSize \/ request_len # 0
  /\ request_len' = IF request_len <= 0 /\ n <= 0 THEN -1 ELSE request_len
  /\ pc' = "parse"
  /\ UNCHANGED <<stream, sent, pulled, base, data_len, content_len,
                 consumed_content, must_close, want, n, stop_flag, handled,
                 unread>>

-----------------------------------------------------------------------------
(* The rest of getreq and the tests of process_new_connection.             *)

\* What parsing the buffer may find: the message there, or, when reading has lost
\* its place, a request with a short body or an error.
Parsed ==
  IF MessagesAt(base) # {} THEN {stream[k] : k \in MessagesAt(base)}
  ELSE {[hdr |-> request_len, has_len |-> h, len |-> c, post |-> TRUE,
         verdict |-> v, keep |-> TRUE] :
          h \in BOOLEAN, c \in 0 .. 1, v \in Verdicts \ {"bad_char"}}

\* send_http_error(conn, 500, ...) and must_close; content_len is whatever the
\* last request left.
BadRequest ==
  /\ pc = "parse"
  /\ \/ request_len <= 0
     \/ \E m \in Parsed : m.verdict = "bad_line"
  /\ must_close' = TRUE
  /\ pc' = "end_request"
  /\ UNCHANGED <<stream, sent, pulled, base, data_len, request_len,
                 content_len, consumed_content, want, n, stop_flag,
                 handled, unread>>

\* A valid request: set content_len, then answer 400 or 505, or handle it.
\* must_close stands for all should_keep_alive looks at.
GoodRequest ==
  /\ pc = "parse"
  /\ request_len > 0
  /\ \E m \in Parsed :
       /\ m.verdict \notin {"bad_char", "bad_line"}
       /\ content_len' = IF m.has_len THEN m.len ELSE IF m.post THEN -1 ELSE 0
       /\ must_close' = ~m.keep
       /\ pc' = IF m.verdict = "ok" THEN "handle" ELSE "end_request"
  /\ handled' = Append(handled, base)
  /\ UNCHANGED <<stream, sent, pulled, base, data_len, request_len,
                 consumed_content, want, n, stop_flag, unread>>

-----------------------------------------------------------------------------
(* Handlers, as far as they read the body.                                 *)

\* The handler is done; some set must_close (CGI, SSI, directories).
HandlerReturns ==
  /\ pc = "handle"
  /\ \/ must_close' = must_close
     \/ must_close' = TRUE
  /\ pc' = "end_request"
  /\ UNCHANGED <<stream, sent, pulled, base, data_len, request_len,
                 content_len, consumed_content, want, n, stop_flag,
                 handled, unread>>

\* &conn->buf[conn->data_len] - (conn->buf + request_len + consumed_content)
Buffered == data_len - (request_len + consumed_content)

\* mg_read(conn, buf, len): return what is buffered, then pull_all the rest.
MgRead ==
  /\ pc = "handle" /\ consumed_content < content_len
  /\ \E len \in ReadSizes :
       LET ask == SmallerOf(len, content_len - consumed_content)
           got == IF Buffered > 0 THEN SmallerOf(Buffered, ask) ELSE 0
       IN  /\ consumed_content' = consumed_content + got
           /\ want' = ask - got
  /\ pc' = "pull_all"
  /\ UNCHANGED <<stream, sent, pulled, base, data_len, request_len,
                 content_len, must_close, n, stop_flag, handled, unread>>

\* One turn of the loop of pull_all, or its end.  A handler stops reading
\* when mg_read fails or returns nothing.
PullAll ==
  /\ pc = "pull_all"
  /\ IF want = 0
     THEN /\ pc' = "handle"
          /\ UNCHANGED <<pulled, consumed_content, want>>
     ELSE \E r \in PullResults(want) :
            /\ IF r > 0
               THEN /\ pulled' = pulled + r
                    /\ consumed_content' = consumed_content + r
                    /\ want' = want - r
                    /\ pc' = pc
               ELSE /\ pc' = "end_request"
                    /\ want' = 0
                    /\ UNCHANGED <<pulled, consumed_content>>
  /\ UNCHANGED <<stream, sent, base, data_len, request_len, content_len,
                 must_close, stop_flag, handled, unread, n>>

\* forward_body_data with an acceptable Expect header, up to its loop: push
\* the buffered part of the body into the file or pipe.
Forward ==
  /\ pc = "handle" /\ consumed_content = 0 /\ content_len # -1
  /\ consumed_content' = IF Buffered > 0 THEN SmallerOf(Buffered, content_len)
                                         ELSE 0
  /\ pc' = "forward"
  /\ UNCHANGED <<stream, sent, pulled, base, data_len, request_len,
                 content_len, must_close, want, n, stop_flag, handled, unread>>

\* Mutant: the loop always asks for a full buffer.
ForwardGreedy ==
  /\ pc = "forward"
  /\ IF consumed_content >= content_len
     THEN /\ pc' = "end_request"
          /\ UNCHANGED <<pulled, consumed_content>>
     ELSE \E r \in PullResults(FwdSize) :
            /\ pulled' = IF r > 0 THEN pulled + r ELSE pulled
            /\ \/ /\ r > 0
                  /\ consumed_content' = consumed_content + r
                  /\ pc' = pc
               \/ /\ pc' = "end_request"
                  /\ UNCHANGED consumed_content
  /\ UNCHANGED <<stream, sent, base, data_len, request_len, content_len,
                 must_close, want, stop_flag, handled, unread, n>>

\* One turn of its loop, or its end.  A push that fails ends the loop before
\* consumed_content is advanced.
ForwardMore ==
  /\ pc = "forward"
  /\ IF consumed_content >= content_len
     THEN /\ pc' = "end_request"
          /\ UNCHANGED <<pulled, consumed_content>>
     ELSE \E r \in PullResults(SmallerOf(FwdSize,
                                         content_len - consumed_content)) :
            /\ pulled' = IF r > 0 THEN pulled + r ELSE pulled
            /\ \/ /\ r > 0
                  /\ consumed_content' = consumed_content + r
                  /\ pc' = pc
               \/ /\ pc' = "end_request"
                  /\ UNCHANGED consumed_content
  /\ UNCHANGED <<stream, sent, base, data_len, request_len, content_len,
                 must_close, want, stop_flag, handled, unread, n>>

-----------------------------------------------------------------------------
(* The end of the loop of process_new_connection.                          *)

\* Mutants: everything buffered is dropped; the whole request is, also when
\* only a part of it is buffered.
DiscardAll     == data_len
DiscardRequest == IF content_len >= 0 /\ request_len > 0
                  THEN request_len + content_len
                  ELSE data_len

\* How much of the buffer belongs to this request.
DiscardLen ==
  IF content_len >= 0 /\ request_len > 0
     /\ request_len + content_len < data_len
  THEN request_len + content_len
  ELSE data_len

\* Mutant: must_close is not looked at.
KeepAliveForced == ~stop_flag /\ content_len >= 0

KeepAlive == ~stop_flag /\ content_len >= 0 /\ ~must_close

EndRequest ==
  /\ pc = "end_request"
  /\ data_len' = data_len - DiscardLen
  /\ base' = IF DiscardLen = data_len THEN pulled ELSE base + DiscardLen
  /\ unread' = (unread \/ (KeepAlive /\ request_len > 0 /\
                           pulled < base + request_len + content_len))
  /\ pc' = IF KeepAlive THEN "getreq" ELSE "closed"
  /\ UNCHANGED <<stream, sent, pulled, request_len, content_len,
                 consumed_content, must_close, want, n, stop_flag, handled>>

\* mg_stop, at any time.
Stop ==
  /\ pc # "closed"
  /\ ~stop_flag /\ stop_flag' = TRUE
  /\ UNCHANGED <<stream, sent, pulled, base, conn, want, n, pc, handled,
                 unread>>

Closed == pc = "closed" /\ UNCHANGED vars

Step == \/ GetReq \/ ReadRequest \/ ReadRequestReturn
        \/ BadRequest \/ GoodRequest
        \/ HandlerReturns \/ MgRead \/ PullAll \/ Forward \/ ForwardMore
        \/ EndRequest

Next == Step \/ Stop \/ Closed

Spec     == Init /\ [][Next]_vars
\* The worker keeps running; a pull ends because the socket has a timeout.
FairSpec == Spec /\ WF_vars(Step)

-----------------------------------------------------------------------------
PCs == {"getreq", "read_request", "parse", "handle", "pull_all", "forward",
        "end_request", "closed"}

\* The assertions on the buffer in getreq, forward_body_data and
\* process_new_connection: the request lies inside the data, a body is
\* forwarded from where the header ends, and what is discarded was buffered.
\* And the buffer never has a gap: when the next request is read, it holds
\* exactly the bytes taken off the socket and not discarded, although handlers
\* read the rest of a body from the socket past the buffer.
BufferSound ==
  /\ pc = "parse" => request_len < 0 \/ data_len >= request_len
  /\ pc = "handle" /\ consumed_content = 0 => Buffered >= 0
  /\ pc = "end_request" => DiscardLen \in 0 .. data_len
  /\ pc = "getreq" => base + data_len = pulled

\* Requests are handled in the order in which they were sent, none skipped and
\* none twice, pipelined or not, unless the body of an earlier one was left in
\* the socket (process_new_connection only discards buffered data).
InOrder ==
  ~unread => \A i \in 1 .. Len(handled) :
               i <= Len(stream) /\ handled[i] = Start[i]

\* A handler that reads a body through mg_read or forward_body_data never
\* takes a byte of the next request.
BodyOnly ==
  pc \in {"handle", "pull_all", "forward", "end_request"} /\ request_len > 0
    => /\ pulled <= base + data_len
          \/ pulled <= base + request_len + content_len
       /\ consumed_content > 0 => consumed_content <= content_len

\* Every connection ends: the bytes are finite, each turn of the keep-alive
\* loop discards some, and a read of a silent client times out.
ConnectionEnds == <>(pc = "closed")
=============================================================================
