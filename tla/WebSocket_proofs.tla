------------------------- MODULE WebSocket_proofs --------------------------
(***************************************************************************)
(* A websocket session, for any frames, however they are cut, and any size *)
(* of the buffers: when the assertions of read_websocket can fail.  It     *)
(* needs that no more of a payload is ever read than its frame announced,  *)
(* and that an aborted server takes no further step.                       *)
(***************************************************************************)
EXTENDS WebSocket, TLAPS

Types ==
  /\ frames \in Seq(Frame) /\ frame \in Frame
  /\ sent \in Int /\ pulled \in Int /\ base \in Int
  /\ body_len \in Nat /\ got \in Nat

SessionInv ==
  /\ Types
  /\ pc \in {"pull_all", "callback"} => got <= frame.len
  /\ pc = "upgrade" => frame = NoFrame /\ delivered = << >>
  /\ AbortCauses

\* recv returns no more than it was asked for.
LEMMA PullBound ==
  ASSUME Types, NEW len \in Int, NEW r \in PullResults(len)
  PROVE  r \in Int /\ (r > 0 => r <= len)
<1>1. sent - pulled \in Int
  BY DEF Types
<1> QED BY <1>1 DEF PullResults

\* A parsed header is one of a frame.
LEMMA HeaderType ==
  ASSUME Types, NEW f \in Headers
  PROVE  /\ f \in Frame /\ f.len \in Nat /\ f.ext \in {0, 2, 8}
         /\ f.mask \in BOOLEAN
<1>1. f \in Frame
  <2>1. CASE FramesAt(base) # {}
    BY <2>1 DEF Headers, FramesAt, Types
  <2>2. CASE FramesAt(base) = {}
    <3>1. << >> \in Seq(BOOLEAN)
      OBVIOUS
    <3>2. PICK m \in BOOLEAN, e \in {0, 2, 8}, c \in BOOLEAN :
            f = [mask |-> m, ext |-> e, len |-> 0, close |-> c, text |-> << >>]
      BY <2>2 DEF Headers
    <3> QED BY <3>1, <3>2 DEF Frame
  <2> QED BY <2>1, <2>2
<1> QED BY <1>1 DEF Frame

\* Before the first frame.
LEMMA SessionInit == Init => SessionInv
<1> SUFFICES ASSUME Init PROVE SessionInv
  OBVIOUS
<1>1. << >> \in Seq(BOOLEAN)
  OBVIOUS
<1>2. NoFrame \in Frame
  BY <1>1 DEF NoFrame, Frame
<1>3. frames \in Seq(Frame) /\ sent \in Int
  BY WebSocketAssumption DEF Init
<1> QED BY <1>2, <1>3 DEF Init, SessionInv, Types, AbortCauses

\* Every step of the session keeps it.
LEMMA SessionStep == SessionInv /\ [Next]_vars => SessionInv'
<1> SUFFICES ASSUME SessionInv, [Next]_vars PROVE SessionInv'
  OBVIOUS
<1>t. Types
  BY DEF SessionInv
<1>1. CASE UNCHANGED vars \/ Done
  BY <1>1 DEF SessionInv, Types, vars, stream, Done, AbortCauses
<1>2. CASE HandleWebsocketRequest
  BY <1>2 DEF SessionInv, Types, stream, HandleWebsocketRequest, AbortCauses
<1>3. ASSUME NEW f \in Headers, pc = "loop", Buffer(f)
      PROVE  SessionInv'
  <2>1. Free \in Int
    BY <1>t, WebSocketAssumption DEF Free, Types
  <2>2. PICK r \in PullResults(Free) :
          IF r <= 0 THEN pc' = "closed" /\ UNCHANGED <<pulled, body_len>>
          ELSE pulled' = pulled + r /\ body_len' = body_len + r /\ pc' = pc
    BY <1>3 DEF Buffer
  <2>3. r \in Int
    BY <1>t, <2>1, PullBound
  <2> QED BY <1>3, <2>2, <2>3 DEF SessionInv, Types, stream, Buffer,
                                  AbortCauses
<1>4. ASSUME NEW f \in Headers, pc = "loop", ReadFrame(f)
      PROVE  SessionInv'
  <2>1. f \in Frame /\ f.len \in Nat /\ f.ext \in {0, 2, 8} /\ f.mask \in BOOLEAN
    BY <1>t, HeaderType
  <2>2. /\ frame' = f /\ ret' = ret /\ UNCHANGED stream /\ pulled' = pulled
        /\ Parseable(f)
    BY <1>4 DEF ReadFrame
  <2>3. MaskLen(f) \in Nat /\ HeaderLen(f) \in Nat
    BY <2>1 DEF MaskLen, HeaderLen
  <2>4. Types'
    BY <1>4, <2>1, <2>2, <2>3, <1>t DEF Types, stream, ReadFrame
  <2>5. (pc \in {"pull_all", "callback"} => got <= frame.len)'
    BY <1>4, <2>1, <2>2, <2>3, <1>t DEF Types, ReadFrame
  <2>6. AbortCauses'
    <3>1. SUFFICES ASSUME pc' = "abort"
                   PROVE  frame'.mask /\ frame'.ext = 0 /\ body_len' \in 4 .. 5
      BY DEF AbortCauses
    <3>2. body_len < HeaderLen(f) /\ body_len' = body_len
      BY <1>4, <3>1 DEF ReadFrame
    <3> QED BY <1>t, <2>1, <2>2, <3>2 DEF Types, Parseable, HeaderLen, MaskLen
  <2>7. pc' # "upgrade"
    BY <1>4 DEF ReadFrame
  <2> QED BY <2>4, <2>5, <2>6, <2>7 DEF SessionInv
<1>5. CASE PullAll
  <2>1. pc = "pull_all" /\ UNCHANGED <<stream, frame, ret>>
    BY <1>5 DEF PullAll
  <2>2. frame.len \in Nat
    BY <1>t DEF Types, Frame
  <2>3. CASE pc' = "callback" /\ body_len' = 0 /\ base' = pulled
             /\ UNCHANGED <<pulled, got>>
    BY <2>1, <2>3 DEF SessionInv, Types, stream, AbortCauses
  <2>4. CASE ~(pc' = "callback" /\ body_len' = 0 /\ base' = pulled
               /\ UNCHANGED <<pulled, got>>)
    <3>1. PICK r \in PullResults(frame.len - got) :
            /\ r > 0 /\ pulled' = pulled + r /\ got' = got + r
            /\ UNCHANGED <<base, body_len, pc>>
      BY <1>5, <2>4 DEF PullAll
    <3>2. frame.len - got \in Int
      BY <1>t, <2>2 DEF Types
    <3>3. r \in Int /\ r <= frame.len - got
      BY <1>t, <3>1, <3>2, PullBound
    <3> QED BY <2>1, <2>2, <3>1, <3>3
            DEF SessionInv, Types, stream, AbortCauses
  <2> QED BY <2>3, <2>4
<1>6. CASE Callback
  <2>1. /\ pc = "callback" /\ UNCHANGED <<stream, pulled, base, body_len>>
        /\ \/ /\ pc' = "closed" /\ UNCHANGED <<frame, at, got>>
           \/ /\ pc' = "loop" /\ frame' = NoFrame /\ got' = 0
    BY <1>6 DEF Callback
  <2>2. << >> \in Seq(BOOLEAN)
    OBVIOUS
  <2>3. NoFrame \in Frame
    BY <2>2 DEF NoFrame, Frame
  <2>4. Types'
    BY <1>t, <2>1, <2>3 DEF Types, stream
  <2> QED BY <2>1, <2>4 DEF SessionInv, AbortCauses
<1> QED BY <1>1, <1>2, <1>3, <1>4, <1>5, <1>6 DEF Next, Step, Loop

\* It holds throughout.
LEMMA SessionAlways == Spec => []SessionInv
  BY SessionInit, SessionStep, PTL DEF Spec

\* The server aborts in a session only at once, for an upgrade request whose
\* content_len is not 0, or on a masked frame with a short length, after its
\* fourth or fifth byte, whatever is sent and however it is cut.
THEOREM AbortsForKnownCauses == Spec => []AbortCauses
<1>1. SessionInv => AbortCauses
  BY DEF SessionInv
<1> QED BY <1>1, SessionAlways, PTL
=============================================================================
