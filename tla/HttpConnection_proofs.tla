----------------------- MODULE HttpConnection_proofs -----------------------
(***************************************************************************)
(* The buffer of a connection, for any stream of messages and any sizes:   *)
(* BufferSound and BodyOnly.  They need to know how many bytes a handler   *)
(* took past the buffer, and that it took them only when the buffer had no *)
(* more of the body.                                                       *)
(***************************************************************************)
EXTENDS HttpConnection, TLAPS

\* Bytes taken off the socket that never were in the buffer.
Past == pulled - (base + data_len)

\* What the buffer holds of the body.
InBuffer == data_len - request_len

Types ==
  /\ stream \in Seq(Message) /\ pc \in PCs
  /\ sent \in Int /\ pulled \in Int /\ base \in Int /\ data_len \in Nat
  /\ request_len \in Int /\ content_len \in Int /\ consumed_content \in Int
  /\ want \in Int

\* Where reading stands while a request is handled.
Reading ==
  /\ request_len > 0 /\ InBuffer >= 0
  /\ Past >= 0
  /\ consumed_content <= InBuffer + Past
  /\ Past > 0 => consumed_content = InBuffer + Past
  /\ consumed_content > 0 => consumed_content <= content_len

BufInv ==
  /\ Types
  /\ pc \notin {"getreq", "closed"} => request_len \in -1 .. data_len
  /\ pc \in {"getreq", "read_request", "parse"} => Past = 0
  /\ pc \in {"read_request", "parse"} => consumed_content = 0
  /\ pc = "handle" => Reading /\ consumed_content >= 0
  /\ pc = "pull_all" =>
       /\ Reading /\ consumed_content >= 0 /\ want >= 0
       /\ want > 0 => /\ consumed_content = InBuffer + Past
                      /\ want <= content_len - consumed_content
  /\ pc = "forward" =>
       /\ Reading
       /\ consumed_content < content_len => consumed_content = InBuffer + Past
  /\ pc = "end_request" =>
       /\ Past >= 0
       /\ Past > 0 => request_len > 0 /\ Past + data_len <= request_len + content_len
       /\ request_len > 0 /\ consumed_content > 0 =>
            consumed_content <= content_len

\* recv returns no more than it was asked for.
LEMMA PullBound ==
  ASSUME Types, NEW len \in Int, NEW r \in PullResults(len)
  PROVE  r \in Int /\ (r > 0 => r <= len)
<1>1. sent - pulled \in Int
  BY DEF Types
<1>2. SmallerOf(len, sent - pulled) \in Int /\ SmallerOf(len, sent - pulled) <= len
  BY <1>1 DEF SmallerOf
<1> QED BY <1>2 DEF PullResults

\* get_request_len finds the end of a request within the bytes it looks at.
LEMMA LensBound ==
  ASSUME Types, NEW len \in Nat, NEW k \in RequestLens(len)
  PROVE  k \in -1 .. len
<1>1. CASE base = Total \/ len = 0
  BY <1>1 DEF RequestLens
<1>2. CASE ~(base = Total \/ len = 0) /\ MessagesAt(base) = {}
  BY <1>2 DEF RequestLens
<1>3. CASE ~(base = Total \/ len = 0) /\ MessagesAt(base) # {}
  <2> DEFINE m == stream[CHOOSE j \in MessagesAt(base) : TRUE]
  <2>1. (CHOOSE j \in MessagesAt(base) : TRUE) \in 1 .. Len(stream)
    BY <1>3 DEF MessagesAt
  <2>2. m \in Message
    BY <2>1 DEF Types
  <2>3. m.hdr \in Nat
    BY <2>2 DEF Message
  <2>4. k = IF m.verdict = "bad_char" THEN -1
            ELSE IF m.hdr <= len THEN m.hdr ELSE 0
    BY <1>3 DEF RequestLens
  <2> HIDE DEF m
  <2> QED BY <2>3, <2>4
<1> QED BY <1>1, <1>2, <1>3

\* The Content-Length of what parsing finds is an integer.
LEMMA ParsedLen ==
  ASSUME Types, NEW m \in Parsed
  PROVE  m.len \in Int
<1>1. CASE MessagesAt(base) # {}
  <2>1. PICK k \in MessagesAt(base) : m = stream[k]
    BY <1>1 DEF Parsed
  <2>2. stream[k] \in Message
    BY <2>1 DEF MessagesAt, Types
  <2> QED BY <2>1, <2>2 DEF Message
<1>2. CASE MessagesAt(base) = {}
  <2>1. PICK h \in BOOLEAN, c \in 0 .. 1, v \in Verdicts \ {"bad_char"} :
          m = [hdr |-> request_len, has_len |-> h, len |-> c, post |-> TRUE,
               verdict |-> v, keep |-> TRUE]
    BY <1>2, SMTT(30) DEF Parsed
  <2> QED BY <2>1
<1> QED BY <1>1, <1>2

\* Every step keeps the account of the bytes.
LEMMA BufStep == BufInv /\ [Next]_vars => BufInv'
<1> SUFFICES ASSUME BufInv, [Next]_vars PROVE BufInv'
  OBVIOUS
<1> USE DEF BufInv, Past, InBuffer
<1>t. Types
  OBVIOUS
<1>1. CASE UNCHANGED vars \/ Stop \/ Closed
  BY <1>1, ZenonT(60) DEF vars, conn, Stop, Closed, Types, Reading
<1>2. CASE GetReq
  <2>1. request_len' \in -1 .. data_len
    BY <1>2, <1>t, LensBound DEF GetReq, Types
  <2> QED BY <1>2, <2>1 DEF GetReq, Types, PCs
<1>3. CASE ReadRequest
  <2>1. PICK r \in PullResults(BufSize - data_len) :
          \/ /\ r > 0 /\ data_len' = data_len + r /\ pulled' = pulled + r
             /\ request_len' \in RequestLens(data_len + r) /\ pc' = pc
          \/ /\ UNCHANGED <<data_len, pulled>> /\ request_len' = -1
             /\ pc' = "parse"
    BY <1>3 DEF ReadRequest
  <2>2. BufSize - data_len \in Int
    BY <1>t, ConnectionAssumption DEF Types
  <2>3. r \in Int
    BY <1>t, <2>1, <2>2, PullBound
  <2>4. request_len' \in -1 .. data_len' /\ data_len' \in Nat
    <3>1. CASE r > 0 /\ data_len' = data_len + r
               /\ request_len' \in RequestLens(data_len + r)
      <4>1. data_len + r \in Nat
        BY <1>t, <2>3, <3>1 DEF Types
      <4> QED BY <1>t, <3>1, <4>1, LensBound
    <3>2. CASE data_len' = data_len /\ request_len' = -1
      BY <1>t, <3>2 DEF Types
    <3> QED BY <2>1, <3>1, <3>2
  <2> QED BY <1>3, <2>1, <2>3, <2>4, SMTT(30) DEF ReadRequest, Types, PCs
<1>4. CASE ReadRequestReturn
  BY <1>4 DEF ReadRequestReturn, Types, PCs
<1>5. CASE BadRequest
  BY <1>5 DEF BadRequest, Types, PCs
<1>6. CASE GoodRequest
  <2>1. /\ pc = "parse" /\ request_len > 0 /\ pc' \in {"handle", "end_request"}
        /\ UNCHANGED <<stream, sent, pulled, base, data_len, request_len,
                       consumed_content, want>>
    BY <1>6 DEF GoodRequest
  <2>2. content_len' \in Int
    <3>1. PICK m \in Parsed :
            content_len' = IF m.has_len THEN m.len ELSE IF m.post THEN -1 ELSE 0
      BY <1>6 DEF GoodRequest
    <3>2. m.len \in Int
      BY <1>t, ParsedLen
    <3> QED BY <3>1, <3>2
  <2>3. CASE pc' = "handle"
    BY <2>1, <2>2, <2>3 DEF Types, PCs, Reading
  <2>4. CASE pc' = "end_request"
    BY <2>1, <2>2, <2>4 DEF Types, PCs
  <2> QED BY <2>1, <2>3, <2>4
<1>7. CASE HandlerReturns
  BY <1>7 DEF HandlerReturns, Types, PCs, Reading
<1>8. CASE MgRead
  <2>1. PICK len \in ReadSizes :
          LET ask == SmallerOf(len, content_len - consumed_content)
              got == IF Buffered > 0 THEN SmallerOf(Buffered, ask) ELSE 0
          IN  /\ consumed_content' = consumed_content + got
              /\ want' = ask - got
    BY <1>8 DEF MgRead
  <2>2. len \in Nat \ {0}
    BY ConnectionAssumption
  <2>3. /\ pc = "handle" /\ consumed_content < content_len /\ pc' = "pull_all"
        /\ UNCHANGED <<stream, sent, pulled, base, data_len, request_len,
                       content_len>>
    BY <1>8 DEF MgRead
  <2> QED BY <2>1, <2>2, <2>3 DEF Types, PCs, Reading, Buffered, SmallerOf
<1>9. CASE PullAll
  <2>1. /\ pc = "pull_all"
        /\ UNCHANGED <<stream, sent, base, data_len, request_len, content_len>>
    BY <1>9 DEF PullAll
  <2>2. CASE want = 0
    <3>1. pc' = "handle" /\ UNCHANGED <<pulled, consumed_content, want>>
      BY <1>9, <2>2 DEF PullAll
    <3> QED BY <2>1, <3>1 DEF Types, PCs, Reading
  <2>3. CASE want # 0
    <3>1. PICK r \in PullResults(want) :
            \/ /\ r > 0 /\ pulled' = pulled + r
               /\ consumed_content' = consumed_content + r
               /\ want' = want - r /\ pc' = pc
            \/ /\ pc' = "end_request" /\ want' = 0
               /\ UNCHANGED <<pulled, consumed_content>>
      BY <1>9, <2>3 DEF PullAll
    <3>2. r \in Int /\ (r > 0 => r <= want)
      BY <1>t, <3>1, PullBound DEF Types
    <3>3. CASE r > 0 /\ pulled' = pulled + r
               /\ consumed_content' = consumed_content + r
               /\ want' = want - r /\ pc' = pc
      BY <2>1, <2>3, <3>2, <3>3 DEF Types, PCs, Reading
    <3>4. CASE pc' = "end_request" /\ want' = 0
               /\ UNCHANGED <<pulled, consumed_content>>
      BY <2>1, <3>4 DEF Types, PCs, Reading
    <3> QED BY <3>1, <3>3, <3>4
  <2> QED BY <2>2, <2>3
<1>10. CASE Forward
  <2>1. /\ pc = "handle" /\ consumed_content = 0 /\ content_len # -1
        /\ consumed_content' = IF Buffered > 0 THEN SmallerOf(Buffered, content_len)
                               ELSE 0
        /\ pc' = "forward"
        /\ UNCHANGED <<stream, sent, pulled, base, data_len, request_len,
                       content_len, want>>
    BY <1>10 DEF Forward
  <2> QED BY <2>1 DEF Types, PCs, Reading, Buffered, SmallerOf
<1>11. CASE ForwardMore
  <2>1. /\ pc = "forward"
        /\ UNCHANGED <<stream, sent, base, data_len, request_len, content_len,
                       want>>
    BY <1>11 DEF ForwardMore
  <2>2. CASE consumed_content >= content_len
    <3>1. pc' = "end_request" /\ UNCHANGED <<pulled, consumed_content>>
      BY <1>11, <2>2 DEF ForwardMore
    <3> QED BY <2>1, <2>2, <3>1 DEF Types, PCs, Reading
  <2>3. CASE ~(consumed_content >= content_len)
    <3> DEFINE ask == SmallerOf(FwdSize, content_len - consumed_content)
    <3>1. PICK r \in PullResults(ask) :
            /\ pulled' = IF r > 0 THEN pulled + r ELSE pulled
            /\ \/ /\ r > 0 /\ consumed_content' = consumed_content + r
                  /\ pc' = pc
               \/ pc' = "end_request" /\ UNCHANGED consumed_content
      BY <1>11, <2>3 DEF ForwardMore
    <3>2. ask \in Int /\ ask <= content_len - consumed_content
      BY ConnectionAssumption DEF Types, SmallerOf
    <3>3. r \in Int /\ (r > 0 => r <= ask)
      <4> HIDE DEF ask
      <4> QED BY <1>t, <3>1, <3>2, PullBound
    <3> HIDE DEF ask
    <3> QED BY <2>1, <2>3, <3>1, <3>2, <3>3 DEF Types, PCs, Reading
  <2> QED BY <2>2, <2>3
<1>12. CASE EndRequest
  <2>1. /\ pc = "end_request" /\ pc' \in {"getreq", "closed"}
        /\ data_len' = data_len - DiscardLen
        /\ base' = IF DiscardLen = data_len THEN pulled ELSE base + DiscardLen
        /\ UNCHANGED <<stream, sent, pulled, request_len, content_len,
                       consumed_content, want>>
    BY <1>12 DEF EndRequest
  <2> QED BY <2>1 DEF Types, PCs, DiscardLen
<1> QED BY <1>1, <1>2, <1>3, <1>4, <1>5, <1>6, <1>7, <1>8, <1>9, <1>10, <1>11,
           <1>12 DEF Next, Step

\* At first nothing has been read.
LEMMA BufInit == Init => BufInv
<1> SUFFICES ASSUME Init PROVE BufInv
  OBVIOUS
<1>1. stream \in Seq(Message) /\ content_len \in Int /\ sent \in Int
  BY ConnectionAssumption DEF Init
<1> QED BY <1>1 DEF Init, BufInv, Types, PCs, Past

\* The account of the bytes holds throughout.
LEMMA BufAlways == Spec => []BufInv
  BY BufInit, BufStep, PTL DEF Spec

\* The assertions of getreq, forward_body_data and process_new_connection on
\* data_len, request_len and consumed_content hold for every stream, however
\* recv cuts it, and every size of the buffers; when process_new_connection
\* comes back to getreq, nothing taken off the socket is missing in the buffer.
THEOREM BufferIsSound == Spec => []BufferSound
<1>1. BufInv => BufferSound
  BY DEF BufInv, Types, Past, InBuffer, Reading, BufferSound, Buffered,
         DiscardLen
<1> QED BY <1>1, BufAlways, PTL

\* No handler is given a byte past the body it was promised, by mg_read or by
\* forward_body_data.
THEOREM HandlersStayInBody == Spec => []BodyOnly
<1>1. BufInv => BodyOnly
  BY DEF BufInv, Types, Past, InBuffer, Reading, BodyOnly
<1> QED BY <1>1, BufAlways, PTL
=============================================================================
