----------------------------- MODULE WebSocket -----------------------------
(***************************************************************************)
(* A websocket session in a worker: handle_websocket_request answers the   *)
(* upgrade, read_websocket cuts the byte stream into frames and hands each *)
(* payload to the callback, tinyweb's echo handler.                        *)
(*                                                                         *)
(* As in HttpConnection, positions of the client's byte stream stand for   *)
(* bytes: `buf' holds the body_len bytes after position base.  Of a        *)
(* payload only the first CloseLen bytes matter, and of each only whether  *)
(* it is the byte ".close" has there.  The array mem is reused for every   *)
(* frame and never cleared, so those flags outlive the frame.              *)
(***************************************************************************)
EXTENDS Integers, Sequences

CONSTANTS
  Sessions,    \* what a client may send: a set of sequences of frames
  Room,        \* conn->buf_size - conn->request_len
  MemSize,     \* sizeof(mem)
  CloseLen,    \* strlen(".close")
  MaxShort,    \* largest payload length that fits the length bits: 125
  Radix,       \* 256: values of a byte of the 16-bit length
  ContentLens, \* what conn->content_len may be after getreq
  Failures     \* the sets of calls, of {"pull", "malloc"}, that may fail

(* A frame: mask bit, size of the extended length (0, 2 or 8 bytes),       *)
(* payload length, whether the opcode is 8, and the flags of its text.     *)
Frame == [mask : BOOLEAN, ext : {0, 2, 8}, len : Nat, close : BOOLEAN,
          text : Seq(BOOLEAN)]

ASSUME WebSocketAssumption ==
  /\ Sessions \subseteq Seq(Frame)
  /\ \A s \in Sessions : \A k \in 1 .. Len(s) :
       Len(s[k].text) = IF s[k].len < CloseLen THEN s[k].len ELSE CloseLen
  /\ Room \in Nat /\ CloseLen \in Nat /\ MemSize \in Nat
  /\ CloseLen <= MemSize
  /\ Radix \in Nat \ {0} /\ MaxShort \in Nat
  /\ ContentLens \subseteq Int
  /\ Failures \subseteq SUBSET {"pull", "malloc"}

VARIABLES
  frames,      \* the frames of this client
  sent,        \* how many bytes of them it sends before it closes
  pulled,      \* bytes taken from the socket
  base,        \* stream position of buf
  body_len,    \* bytes in buf
  mem,         \* flags of the first CloseLen bytes of mem
  frame,       \* the frame being read
  at,          \* and its position
  got,         \* bytes of its payload read so far
  echo,        \* the URI is one that is echoed
  content_len, \* of the upgrade request
  fails,       \* the calls that may fail in this session
  ret,         \* what the callback returned last
  pc,
  delivered,   \* calls of the callback, up to one with a partial payload
  out          \* the frame written to the client last

stream  == <<frames, sent, echo, content_len, fails>>
vars    == <<stream, pulled, base, body_len, mem, frame, at, got, ret, pc,
             delivered, out>>

Flags    == [1 .. CloseLen -> BOOLEAN]
MaskLen(f) == IF f.mask THEN 4 ELSE 0
HeaderLen(f) == 2 + f.ext + MaskLen(f)

\* Position of each frame; the last entry is the end of the stream.
Start ==
  LET p[k \in 1 .. Len(frames) + 1] ==
        IF k = 1 THEN 0
        ELSE p[k-1] + HeaderLen(frames[k-1]) + frames[k-1].len
  IN p
Total == Start[Len(frames) + 1]
FramesAt(p) == {k \in 1 .. Len(frames) : Start[k] = p}

NoFrame == [mask |-> FALSE, ext |-> 0, len |-> 0, close |-> FALSE,
            text |-> << >>]

\* mem is on the stack and not initialised.
Init ==
  /\ frames \in Sessions /\ sent \in 0 .. Total
  /\ pulled = 0 /\ base = 0 /\ body_len = 0
  /\ mem \in Flags
  /\ frame = NoFrame /\ at = 0 /\ got = 0
  /\ echo \in BOOLEAN /\ content_len \in ContentLens
  /\ fails \in Failures /\ ret = 1
  /\ pc = "upgrade"
  /\ delivered = << >> /\ out = [close |-> FALSE, size |-> <<0>>, payload |-> 0]

\* handle_websocket_request: 426 unless the version is 13; otherwise the
\* handshake, websocket_ready_handler, and on to read_websocket, which asserts
\* that the upgrade request has no body.
HandleWebsocketRequest ==
  /\ pc = "upgrade"
  /\ pc' \in {"closed", IF content_len = 0 THEN "loop" ELSE "abort"}
  /\ UNCHANGED <<stream, pulled, base, body_len, mem, frame, at, got, ret,
                 delivered, out>>

-----------------------------------------------------------------------------
\* What pull(NULL, conn, buf, len) may return; with no room recv returns 0.
PullResults(len) ==
  (IF "pull" \in fails THEN {-1} ELSE {}) \cup
  (IF pulled = sent \/ len = 0 THEN {0}
   ELSE 1 .. (IF len < sent - pulled THEN len ELSE sent - pulled))

\* The header in buf: the next frame's, or, when reading has lost its place,
\* whatever the bytes there look like, here some header of an empty frame.
Headers ==
  IF FramesAt(base) # {} THEN {frames[k] : k \in FramesAt(base)}
  ELSE {[mask |-> m, ext |-> e, len |-> 0, close |-> c, text |-> << >>] :
          m \in BOOLEAN, e \in {0, 2, 8}, c \in BOOLEAN}

\* Mutant: a header alone is not enough.
ParseableLate(f) == body_len > HeaderLen(f)

\* Mutant: the mask of a frame with an extended length is not waited for.
ParseableUnmasked(f) ==
  body_len >= 2 /\ body_len >= (IF f.ext = 0 THEN MaskLen(f) ELSE 2 + f.ext)

\* Whether read_websocket takes the header to be complete.  For a short
\* length it asks for the mask only, not for the two bytes before it.
Parseable(f) ==
  /\ body_len >= 2
  /\ body_len >= (IF f.ext = 0 THEN 0 ELSE 2 + f.ext) + MaskLen(f)

Free == Room - body_len

\* Buffering: no complete header yet.
Buffer(f) ==
  /\ ~Parseable(f)
  /\ \E r \in PullResults(Free) :
       IF r <= 0
       THEN /\ pc' = "closed"
            /\ UNCHANGED <<pulled, body_len>>
       ELSE /\ pulled' = pulled + r
            /\ body_len' = body_len + r
            /\ pc' = pc
  /\ UNCHANGED <<stream, base, mem, frame, at, got, ret, delivered, out>>

\* The header is there: allocate, check the assertion, and copy the part of
\* the payload that is buffered.
ReadFrame(f) ==
  /\ Parseable(f)
  /\ frame' = f /\ at' = base
  /\ \/ /\ f.len > MemSize /\ "malloc" \in fails
        /\ pc' = "closed" /\ got' = 0
        /\ UNCHANGED <<base, body_len>>
     \/ /\ body_len < HeaderLen(f)               \* assert
        /\ pc' = "abort" /\ got' = 0
        /\ UNCHANGED <<base, body_len>>
     \/ /\ body_len >= HeaderLen(f)
        /\ body_len < HeaderLen(f) + f.len
        /\ got' = body_len - HeaderLen(f)
        /\ pc' = "pull_all"
        /\ UNCHANGED <<base, body_len>>
     \/ /\ body_len >= HeaderLen(f) + f.len
        /\ got' = f.len
        /\ body_len' = body_len - (HeaderLen(f) + f.len)
        /\ base' = base + (HeaderLen(f) + f.len)
        /\ pc' = "callback"
  /\ UNCHANGED <<stream, pulled, mem, ret, delivered, out>>

Loop == pc = "loop" /\ \E f \in Headers : Buffer(f) \/ ReadFrame(f)

\* Mutant: what was buffered stays in the buffer.
PullAllKeep ==
  /\ pc = "pull_all"
  /\ \/ /\ got < frame.len
        /\ \E r \in PullResults(frame.len - got) :
             /\ r > 0
             /\ pulled' = pulled + r /\ got' = got + r
        /\ UNCHANGED <<base, body_len, pc>>
     \/ /\ got = frame.len \/ PullResults(frame.len - got) \cap {-1, 0} # {}
        /\ pc' = "callback"
        /\ UNCHANGED <<pulled, got, base, body_len>>
  /\ UNCHANGED <<stream, mem, frame, at, ret, delivered, out>>

\* pull_all of the rest of the payload, a turn of its loop at a time.  That it
\* may end early goes unnoticed; buf is empty afterwards.  The rest is shorter
\* than 2^31 bytes: pull_all takes its length as an int.
PullAll ==
  /\ pc = "pull_all"
  /\ \/ /\ got < frame.len
        /\ \E r \in PullResults(frame.len - got) :
             /\ r > 0
             /\ pulled' = pulled + r /\ got' = got + r
        /\ UNCHANGED <<base, body_len, pc>>
     \/ /\ got = frame.len \/ PullResults(frame.len - got) \cap {-1, 0} # {}
        /\ body_len' = 0 /\ base' = pulled
        /\ pc' = "callback"
        /\ UNCHANGED <<pulled, got>>
  /\ UNCHANGED <<stream, mem, frame, at, ret, delivered, out>>

-----------------------------------------------------------------------------
(* websocket_data_handler and websocket_data.                              *)

\* memcmp(data, ".close", 6) == 0
IsClose(data) == frame.close \/ \A i \in 1 .. CloseLen : data[i]

\* Echoed length.
EchoLen == IF frame.len > Radix * Radix THEN Radix * Radix ELSE frame.len

\* Mutant: a length of 126 is written as if it fitted the length bits.
ReplyOffByOne(data) ==
  IF IsClose(data) THEN <<EchoLen % Radix>>
  ELSE IF EchoLen <= MaxShort + 1 THEN <<EchoLen>>
  ELSE <<MaxShort + 1, (EchoLen \div Radix) % Radix, EchoLen % Radix>>

\* The length field of the reply, a byte at a time; 126 announces two bytes.
Reply(data) ==
  IF IsClose(data) THEN <<EchoLen % Radix>>
  ELSE IF EchoLen <= MaxShort THEN <<EchoLen>>
  ELSE <<MaxShort + 1, (EchoLen \div Radix) % Radix, EchoLen % Radix>>

\* The flags of the payload buffer, `old' being there before.  Unmasking
\* rewrites the whole payload, so a masked payload that did not arrive in full
\* ends in arbitrary bytes.
Filled(old) ==
  {d \in Flags :
     \A i \in 1 .. CloseLen :
       \/ i <= got /\ d[i] = frame.text[i]
       \/ i > got /\ i <= frame.len /\ (frame.mask \/ d[i] = old[i])
       \/ i > frame.len /\ d[i] = old[i]}

\* The payload as the callback may find it: in mem, or, if it is larger, in
\* fresh and uninitialised memory.
Payloads ==
  IF frame.len <= MemSize THEN Filled(mem)
                          ELSE UNION {Filled(old) : old \in Flags}

Complete(d) == d.got = d.len

Callback ==
  /\ pc = "callback"
  /\ delivered' =
       IF \A i \in 1 .. Len(delivered) : Complete(delivered[i])
       THEN Append(delivered, [at |-> at, len |-> frame.len, got |-> got])
       ELSE delivered
  /\ \E data \in Payloads :
       /\ mem' = IF frame.len <= MemSize THEN data ELSE mem
       /\ IF echo
          THEN /\ ret' = IF IsClose(data) THEN 0 ELSE 1
               /\ out' = [close |-> IsClose(data), size |-> Reply(data),
                        payload |-> EchoLen]
          ELSE ret' = 0 /\ UNCHANGED out
  /\ IF ret' = 0 \/ frame.close
     THEN pc' = "closed" /\ UNCHANGED <<frame, at, got>>
     ELSE pc' = "loop" /\ frame' = NoFrame /\ at' = 0 /\ got' = 0
  /\ UNCHANGED <<stream, pulled, base, body_len>>

Done == pc \in {"closed", "abort"} /\ UNCHANGED vars

Step == HandleWebsocketRequest \/ Loop \/ PullAll \/ Callback
Next == Step \/ Done

Spec     == Init /\ [][Next]_vars
\* The worker keeps running; a silent client runs into the socket's timeout.
FairSpec == Spec /\ WF_vars(Step)

-----------------------------------------------------------------------------
\* The callback is called once for every frame, in the order in which the
\* frames were sent, however the stream is cut into segments and although
\* payloads are read partly from buf and partly past it; after a close frame
\* it is not called again.  It gets part of a payload only when a read failed or
\* the client closed before the end, never because it came in segments; only
\* such a payload makes read_websocket lose its place.
FramesInOrder ==
  \A i \in 1 .. Len(delivered) :
    /\ i <= Len(frames)
    /\ delivered[i].at = Start[i] /\ delivered[i].len = frames[i].len
    /\ i < Len(delivered) => ~frames[i].close
    /\ Complete(delivered[i]) \/ "pull" \in fails \/ sent < Start[i + 1]

\* How a client reads a length field.
Decoded(size) == IF size[1] <= MaxShort THEN size[1]
                 ELSE IF Len(size) = 3 THEN size[2] * Radix + size[3] ELSE -1

\* The length websocket_data announces is the number of bytes it writes, so
\* that the client stays in step with the echoes, whatever the payload buffer
\* held before and whether or not the payload arrived in full.  Two replies are
\* excepted, whose length it announces wrongly: the echo of a message that is
\* not shorter than 65536 bytes, and a closing reply with more than 125 bytes.
ReplyInStep ==
  \/ Decoded(out.size) = out.payload
  \/ ~out.close /\ out.payload = Radix * Radix
  \/ out.close /\ out.payload > MaxShort

\* When a session ends and no read failed, every frame the client sent in full has
\* been delivered: none is left in buf because its last bytes came in the
\* same segment as another frame, or because nothing followed them.
FramesDelivered ==
  pc = "loop" /\ fails = {} ~>
    (\/ pc = "abort" \/ ret = 0 \/ frame.close
     \/ /\ pc = "closed"
        /\ \A k \in 1 .. Len(frames) :
             Start[k+1] <= sent => k <= Len(delivered))

\* When read_websocket aborts the server: for an upgrade request with a body,
\* or that getreq takes to have one, before the first frame; and for a masked
\* frame with a short length of which four or five bytes have come.  No other
\* cut of the stream, and no state of the buffer after an earlier frame, does.
AbortCauses ==
  pc = "abort" =>
    \/ content_len # 0 /\ frame = NoFrame /\ delivered = << >>
    \/ frame.mask /\ frame.ext = 0 /\ body_len \in 4 .. 5

\* What read_websocket asserts of the frame it parses, that its header lies in
\* the buffer (body_len >= header_len), and of the request, that it has no body.
AssertionsHold == pc # "abort"
=============================================================================
