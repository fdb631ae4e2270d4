-------------------------- MODULE FramerAsync_proofs --------------------------
(***************************************************************************)
(* Proofs about FramerAsync, for all lengths and buffer sizes.  This       *)
(* framer keeps everything in one buffer: the proofs are about how much of *)
(* it the bytes that are not decoded yet can take, what is written around  *)
(* them, and what a framer that calls the codec once for each frame makes  *)
(* of the stream.                                                          *)
(***************************************************************************)
EXTENDS FramerAsync, ByteStream_proofs, SequenceTheorems

-----------------------------------------------------------------------------
(* read reports a message of one of its types, or an error.                *)
LEMMA ReadNames ==
  ASSUME NEW w \in WebSocket, NEW f \in Frame, NEW status,
         NEW from \in Nat, NEW to \in Nat,
         read(w, f, status, from, to).ret.err = "None"
  PROVE  read(w, f, status, from, to).ret.message_type # "None"
<1> DEFINE r == read(w, f, status, from, to)
<1>0. r.ret.err = "None"
  OBVIOUS
<1>1. ASSUME NEW v, NEW frame, NEW starved,
             v.continuation_frame_op_code \in DataOpCode \cup {"None"},
             frame.op_code \in WebSocketOpCode,
             r = dispatch_frame(v, frame, starved)
      PROVE  r.ret.message_type # "None"
  <2>1. \A op_code \in WebSocketOpCode \ {"ConnectionClose",
                                          "ContinuationFrame"} :
          message_type_of(op_code) # "None"
    BY DEF message_type_of, WebSocketOpCode, DataOpCode, ControlOpCode
  <2>2. \A op_code \in DataOpCode : message_type_of(op_code) # "None"
    BY DEF message_type_of, DataOpCode
  <2> HIDE DEF r
  <2> QED
    BY <1>0, <1>1, <2>1, <2>2 DEF dispatch_frame, to_readresult, returns
<1>2. w.state \in {"Open", "CloseSent"}
  BY <1>0 DEF read, returns
<1>3. CASE w.continuation_read.op_code # "None"
  <2> DEFINE q == read_continuation(w.continuation_read, status, from, to)
             v == continue_frame(w, q)
  <2>1. r = dispatch_frame(v, q.frame, from = 0 \/ to = 0)
    BY <1>2, <1>3 DEF read
  <2>2. w.continuation_read.op_code \in WebSocketOpCode
    BY <1>3 DEF WebSocket, ContinuationRead
  <2>3. q.frame.op_code \in WebSocketOpCode
    BY <2>2 DEF read_continuation, decode_close_frame, frame_read
  <2> HIDE DEF q, r
  <2>4. v.continuation_frame_op_code \in DataOpCode \cup {"None"}
    BY DEF continue_frame, WebSocket
  <2> QED
    BY <1>1, <2>1, <2>3, <2>4 DEF r
<1>4. CASE w.continuation_read.op_code = "None"
  <2> DEFINE q == read_payload(f, from, to)
             v == start_frame(w, q)
             g == override_op_code(v, q.frame)
  <2>1. read_frame_error(f, from) = "None"
    BY <1>0, <1>2, <1>4 DEF read, returns
  <2>2. r = dispatch_frame(v, g, from = 0 \/ to = 0)
    BY <1>2, <1>4, <2>1 DEF read
  <2>3. f.op_code \in WebSocketOpCode
    BY <2>1 DEF read_frame_error
  <2>4. q.frame.op_code \in WebSocketOpCode
    BY <2>3 DEF read_payload, decode_close_frame, frame_read
  <2>5. DOMAIN q.frame = {"op_code", "num_bytes_from", "num_bytes_to",
                          "is_fin_bit_set", "close_status"}
    BY DEF read_payload, decode_close_frame, frame_read
  <2> HIDE DEF q, r
  <2>6. v.continuation_frame_op_code \in DataOpCode \cup {"None"}
    BY DEF start_frame, WebSocket
  <2> HIDE DEF v
  <2>7. g.op_code \in WebSocketOpCode
    BY <2>4, <2>5, <2>6 DEF override_op_code, WebSocketOpCode
  <2> QED
    BY <1>1, <2>2, <2>6, <2>7 DEF r
<1> QED
  BY <1>3, <1>4

(* An error comes without a message type.                                  *)
LEMMA ReadFails ==
  ASSUME NEW w, NEW f, NEW status, NEW from, NEW to,
         read(w, f, status, from, to).ret.err # "None"
  PROVE  read(w, f, status, from, to).ret.message_type = "None"
<1>1. \A v, frame, starved :
        dispatch_frame(v, frame, starved).ret.err # "None"
          => dispatch_frame(v, frame, starved).ret.message_type = "None"
  BY DEF dispatch_frame, to_readresult, returns
<1>2. \A error : returns("read", error).message_type = "None"
  BY DEF returns
<1> QED
  BY <1>1, <1>2 DEF read

-----------------------------------------------------------------------------
(* The steps of the framer.                                                *)

\* The application writes a frame whose payload has len bytes.
Writing(s, len) ==
  /\ pc = "idle" /\ ws.state = "Open"
  /\ len \in {1, 2} /\ Writes(ws, s, len, BufLen)
  /\ s.ws.state \in {"Open", "CloseSent"}
  /\ AppFragments = FALSE =>
       \A p : OnWire(ws, p) => WritesWhole(ws, p, s)
  /\ WritesFrame(s)

(* Write and Close do so.                                                  *)
LEMMA WritingMeans ==
  ASSUME TypeOK, Write \/ Close
  PROVE  \E s, len : Writing(s, len)
<1>1. ws \in WebSocket /\ BufLen \in Nat
  BY FramerAsyncAssumption DEF TypeOK
<1>2. CASE Write
  <2> PICK e \in BOOLEAN :
        /\ AppFragments \/ e
        /\ WritesFrame(write(ws, "Text", e, 1, "InternalServerError", BufLen))
    BY <1>2 DEF Write
  <2> DEFINE s == write(ws, "Text", e, 1, "InternalServerError", BufLen)
  <2>1. pc = "idle" /\ ws.state = "Open"
    BY <1>2 DEF Write
  <2>2. "Text" \in SendMessageType /\ 1 \in Nat
    BY DEF SendMessageType
  <2>3. Writes(ws, s, 1, BufLen) /\ s.ws.state = "Open"
    BY <1>1, <2>1, <2>2, WriteWrites DEF WritesMessage
  <2>4. ASSUME AppFragments = FALSE, NEW p, OnWire(ws, p)
        PROVE  WritesWhole(ws, p, s)
    <3>1. e = TRUE
      BY <2>4
    <3>2. WritesWhole(ws, p, write(ws, "Text", TRUE, 1, "InternalServerError",
                                   BufLen))
      BY <1>1, <2>2, <2>4, WriteWhole
    <3> QED
      BY <3>1, <3>2
  <2>5. WritesFrame(s)
    OBVIOUS
  <2> HIDE DEF s
  <2>6. Writing(s, 1)
    BY <2>1, <2>3, <2>4, <2>5 DEF Writing
  <2> QED
    BY <2>6
<1>3. CASE Close
  <2> DEFINE s == close(ws, "InternalServerError", 0, BufLen)
  <2>1. pc = "idle" /\ ws.state = "Open" /\ WritesFrame(s)
    BY <1>3 DEF Close
  <2>2. Writes(ws, s, 2, BufLen) /\ s.ws.state = "CloseSent"
    BY <1>1, <2>1, CloseWrites
  <2>3. \A p : OnWire(ws, p) => WritesWhole(ws, p, s)
    BY <1>1, CloseWhole
  <2> HIDE DEF s
  <2>4. Writing(s, 2)
    BY <2>1, <2>2, <2>3 DEF Writing
  <2> QED
    BY <2>4
<1> QED
  BY <1>2, <1>3

\* connect has received a chunk of n bytes.
Connected(n, r) ==
  /\ pc = "connecting" /\ n \in 1..(http + Bytes(inbox))
  /\ r.ws \in WebSocket /\ OpeningStep(ws, r) /\ r.ret.err \in Error
  /\ r.ws.is_write_continuation = ws.is_write_continuation
  /\ r.ret.err = "None" => r.ws.state = "Open" /\ n >= HttpLen
  /\ r.ret.err = "HttpHeaderIncomplete" => n < HttpLen
  /\ r.ret.err \in {"None", "HttpHeaderIncomplete", "HttpError"}
       \/ ws.state = "Open"
  /\ IF n < http THEN Cuts = "anywhere" ELSE CutAt(n - http)
  /\ ws' = r.ws /\ http' \in Nat
  /\ \/ /\ r.ret.err = "None" /\ n - HttpLen <= BufLen - RequestLen
        /\ rx_remainder_len' = n - HttpLen
        /\ pc' = "idle" /\ result' = result
     \/ /\ r.ret.err = "None" => ~(n - HttpLen <= BufLen - RequestLen)
        /\ Fails(IF r.ret.err \in {"None", "HttpHeaderIncomplete"}
                 THEN "Panic" ELSE r.ret.err)
        /\ rx_remainder_len' = rx_remainder_len
  /\ UNCHANGED <<frame_cursor, garbled, lost, inbox, off, ended, sender, got,
                 tx>>

(* ConnectReceives does so.                                                *)
LEMMA ConnectReceivesMeans ==
  ASSUME TypeOK, ConnectReceives
  PROVE  \E n, r : Connected(n, r)
<1>1. ws \in WebSocket /\ http \in Nat /\ Bytes(inbox) \in Nat
      /\ HttpLen \in Nat
  BY BytesType, FramerAsyncAssumption DEF TypeOK, StreamTypeOK
<1> PICK n \in 1..(http + Bytes(inbox)), answer \in {"None", "HttpError"} :
      LET r == client_accept(ws, IF n < HttpLen THEN "HttpHeaderIncomplete"
                                 ELSE answer)
      IN  /\ IF n < http THEN Cuts = "anywhere" ELSE CutAt(n - http)
          /\ Failures \/ answer = "None"
          /\ ws' = r.ws
          /\ http' = IF n <= http THEN http - n ELSE 0
          /\ IF r.ret.err = "None" /\ remaining_len(n) <= BufLen - RequestLen
             THEN /\ rx_remainder_len' = remaining_len(n)
                  /\ pc' = "idle" /\ UNCHANGED result
             ELSE /\ Fails(IF r.ret.err \in {"None", "HttpHeaderIncomplete"}
                           THEN "Panic" ELSE r.ret.err)
                  /\ UNCHANGED rx_remainder_len
  BY DEF ConnectReceives
<1> DEFINE a == IF n < HttpLen THEN "HttpHeaderIncomplete" ELSE answer
           c == client_accept(ws, a)
<1>2. /\ n \in Nat /\ a \in Error /\ a # "UnexpectedContinuationFrame"
      /\ a = "HttpHeaderIncomplete" <=> n < HttpLen
      /\ a \in {"None", "HttpHeaderIncomplete", "HttpError"}
  BY <1>1 DEF Error
<1>3. /\ IF n < http THEN Cuts = "anywhere" ELSE CutAt(n - http)
      /\ ws' = c.ws
      /\ IF c.ret.err = "None" /\ n - HttpLen <= BufLen - RequestLen
         THEN /\ rx_remainder_len' = n - HttpLen
              /\ pc' = "idle" /\ result' = result
         ELSE /\ Fails(IF c.ret.err \in {"None", "HttpHeaderIncomplete"}
                       THEN "Panic" ELSE c.ret.err)
              /\ rx_remainder_len' = rx_remainder_len
  BY DEF remaining_len
<1>4. http' \in Nat
  BY <1>1, <1>2
<1> HIDE DEF a
<1>5. /\ OpeningStep(ws, c) /\ c.ws \in WebSocket /\ c.ret \in Return
      /\ c.ret.err = IF ws.state = "Open" THEN "WebsocketAlreadyOpen" ELSE a
      /\ c.ret.err = "None" => c.ws.state = "Open"
  BY <1>1, <1>2, AcceptReturns
<1>11. c.ws.is_write_continuation = ws.is_write_continuation
  BY <1>1 DEF client_accept, handshake, WebSocket
<1> HIDE DEF c
<1>6. c.ret.err \in Error
  BY <1>5 DEF Return
<1>7. c.ret.err = "None" => n >= HttpLen
  <2>1. ~(n < HttpLen) => n >= HttpLen
    BY <1>1, <1>2
  <2> QED
    BY <1>2, <1>5, <2>1
<1>8. pc = "connecting"
      /\ UNCHANGED <<frame_cursor, garbled, lost, inbox, off, ended, sender,
                     got, tx>>
  BY DEF ConnectReceives
<1>9. /\ c.ret.err = "HttpHeaderIncomplete" => n < HttpLen
      /\ c.ret.err \in {"None", "HttpHeaderIncomplete", "HttpError"}
           \/ ws.state = "Open"
  BY <1>2, <1>5
<1>10. Connected(n, c)
  BY <1>3, <1>4, <1>5, <1>6, <1>7, <1>8, <1>9, <1>11 DEF Connected
<1> QED
  BY <1>10

\* What an answer to a frame whose payload has len bytes does.
AnswerOf(w, m, s, len) ==
  /\ m \in {"Pong", "CloseReply"}
  /\ Writes(w, s, len, len + 14)
  /\ \A p : OnWire(w, p) => WritesWhole(w, p, s)
  /\ IF w.state \in {"Open", "CloseReceived"}
     THEN /\ s.ret.err = "None"
          /\ s.ws.state = IF m = "CloseReply" THEN "Closed" ELSE w.state
     ELSE s.ws = w /\ s.ret.err = "WebSocketNotOpen"

(* encode_answer does so.                                                  *)
LEMMA AnswerWrites ==
  ASSUME NEW w \in WebSocket, NEW m \in {"Pong", "CloseReply"},
         NEW ret \in Return
  PROVE  AnswerOf(w, m, encode_answer(w, m, ret), ret.len_to)
<1> DEFINE len == ret.len_to
           to == len + 14
           s == write(w, m, TRUE, len, "InternalServerError", to)
<1>1. len \in Nat /\ to \in Nat /\ m \in SendMessageType
      /\ TRUE \in BOOLEAN
  BY DEF Return, SendMessageType
<1>2. encode_answer(w, m, ret) = s
  BY DEF encode_answer, tx_buf_len
<1>3. \A p : OnWire(w, p) => WritesWhole(w, p, s)
  BY <1>1, WriteWhole
<1> HIDE DEF len
<1>4. length_bytes(len) \in {0, 2, 8}
  BY DEF length_bytes
<1>5. len + length_bytes(len) + 6 <= to
  BY <1>1, <1>4
<1> HIDE DEF to
<1>6. WritesMessage(w, m, s, len, to)
  BY <1>1, WriteWrites
<1> HIDE DEF s
<1>7. AnswerOf(w, m, s, len)
  BY <1>3, <1>5, <1>6 DEF AnswerOf, WritesMessage, to
<1> QED
  BY <1>2, <1>7 DEF len, s, to

\* An answer is sent, or there is no room or no reason for one.
Answered(w, ret, room, m, s) ==
  /\ AnswerOf(w, m, s, ret.len_to)
  /\ m = IF ret.message_type = "Ping" THEN "Pong" ELSE "CloseReply"
  /\ \/ /\ \/ tx_start(ret, room) < 0
           \/ frame_cursor + ret.len_to > tx_start(ret, room)
        /\ ws' = w /\ Fails("Panic")
        /\ UNCHANGED <<garbled, lost, got, tx, frame_cursor>>
     \/ /\ ~(tx_start(ret, room) < 0) /\ ws' = s.ws
        /\ garbled' \in BOOLEAN /\ (InPlace(ret) => garbled' = garbled)
        /\ lost' \in BOOLEAN
        /\ lost' => \/ lost
                    \/ /\ s.sent # <<>>
                       /\ tx_start(ret, room) + FrameLen(Head(s.sent))
                            > BufLen - rx_remainder_len'
        /\ Sends(s, IF ret.message_type = "Ping" THEN Pinged(ret)
                    ELSE /\ Returns("Close") /\ frame_cursor' = 0
                         /\ UNCHANGED got)

(* Answers does so.                                                        *)
LEMMA AnswersMeans ==
  ASSUME TypeOK, NEW w \in WebSocket, NEW ret \in Return, NEW room,
         Answers(w, ret, room)
  PROVE  \E m, s : Answered(w, ret, room, m, s)
<1> DEFINE m == IF ret.message_type = "Ping" THEN "Pong" ELSE "CloseReply"
           s == encode_answer(w, m, ret)
<1>1. AnswerOf(w, m, s, ret.len_to)
  BY AnswerWrites
<1>2. IF \/ tx_start(ret, room) < 0
         \/ frame_cursor + ret.len_to > tx_start(ret, room)
      THEN /\ ws' = w /\ Fails("Panic")
           /\ UNCHANGED <<garbled, lost, got, tx, frame_cursor>>
      ELSE /\ ws' = s.ws
           /\ garbled' = (garbled \/ ~InPlace(ret))
           /\ lost' = (lost \/ (s.sent # <<>> /\
                tx_start(ret, room) + FrameLen(Head(s.sent))
                  > BufLen - rx_remainder_len'))
           /\ Sends(s, IF ret.message_type = "Ping" THEN Pinged(ret)
                       ELSE /\ Returns("Close") /\ frame_cursor' = 0
                            /\ UNCHANGED got)
  BY DEF Answers
<1> HIDE DEF m, s
<1>3. garbled \in BOOLEAN /\ lost \in BOOLEAN
  BY DEF TypeOK
<1>4. CASE \/ tx_start(ret, room) < 0
           \/ frame_cursor + ret.len_to > tx_start(ret, room)
  <2>1. Answered(w, ret, room, m, s)
    BY <1>1, <1>2, <1>4 DEF Answered, m
  <2> QED
    BY <2>1
<1>5. CASE ~(\/ tx_start(ret, room) < 0
             \/ frame_cursor + ret.len_to > tx_start(ret, room))
  <2>1. /\ garbled' = (garbled \/ ~InPlace(ret))
        /\ lost' = (lost \/ (s.sent # <<>> /\
             tx_start(ret, room) + FrameLen(Head(s.sent))
               > BufLen - rx_remainder_len'))
    BY <1>2, <1>5
  <2>2. garbled' \in BOOLEAN /\ (InPlace(ret) => garbled' = garbled)
    BY <1>3, <2>1
  <2>3. /\ lost' \in BOOLEAN
        /\ lost' => \/ lost
                    \/ /\ s.sent # <<>>
                       /\ tx_start(ret, room) + FrameLen(Head(s.sent))
                            > BufLen - rx_remainder_len'
    BY <2>1
  <2>4. Answered(w, ret, room, m, s)
    BY <1>1, <1>2, <1>5, <2>2, <2>3 DEF Answered, m
  <2> QED
    BY <2>4
<1> QED
  BY <1>4, <1>5

\* The bytes from lo to hi are written.
Overwritten(lo, hi, n) ==
  /\ garbled' \in BOOLEAN /\ lost' \in BOOLEAN
  /\ ~(lo < frame_cursor) => garbled' = garbled
  /\ lost' => lost \/ hi > BufLen - n

(* Overwrites does so.                                                     *)
LEMMA OverwritesMeans ==
  ASSUME TypeOK, NEW lo, NEW hi, NEW n, Overwrites(lo, hi, n)
  PROVE  Overwritten(lo, hi, n)
<1>1. garbled \in BOOLEAN /\ lost \in BOOLEAN
  BY DEF TypeOK
<1>2. /\ garbled' = (garbled \/ (lo < hi /\ lo < frame_cursor))
      /\ lost' = (lost \/ (lo < hi /\ hi > BufLen - n))
  BY DEF Overwrites
<1>3. garbled' \in BOOLEAN /\ lost' \in BOOLEAN
  BY <1>2
<1>4. ~(lo < frame_cursor) => garbled' = garbled
  BY <1>1, <1>2
<1>5. lost' => lost \/ hi > BufLen - n
  BY <1>2
<1> QED
  BY <1>3, <1>4, <1>5 DEF Overwritten

\* What the framer makes of what read has returned.
Outcome(r, room) ==
  \/ /\ r.ret.err # "None" /\ ws' = r.ws /\ Fails(r.ret.err)
     /\ UNCHANGED <<frame_cursor, garbled, lost, got, tx>>
  \/ /\ r.ret.err = "None" /\ r.ret.message_type \in {"Text", "Binary"}
     /\ Collects(r.ws, r.ret, room)
  \/ /\ r.ret.err = "None" /\ r.ret.message_type = "Pong"
     /\ TakesPong(r.ws, r.ret, room)
  \/ /\ r.ret.err = "None" /\ r.ret.message_type = "CloseCompleted"
     /\ ws' = r.ws /\ Returns("None")
     /\ UNCHANGED <<frame_cursor, garbled, lost, got, tx>>
  \/ /\ r.ret.err = "None" /\ r.ret.message_type \in {"Ping", "CloseMustReply"}
     /\ Answers(r.ws, r.ret, room)

\* The call of the codec in a call of the framer.
Decoding(r, from, room) ==
  /\ pc = "decoding" \/ (pc = "idle" /\ rx_remainder_len # 0)
  /\ from = rx_remainder_len /\ room = BufLen - rx_remainder_len
  /\ from \in Nat /\ room \in Nat
  /\ r = read(ws, At(inbox), "InternalServerError", from, room)
  /\ r.ws \in WebSocket /\ r.ret \in Return /\ r.ret.len_from <= from
  /\ rx_remainder_len' = rx_remainder_len - r.ret.len_from
  /\ inbox' = FramesAfter(inbox, off, r.ret.len_from)
  /\ off' = OffAfter(inbox, off, r.ret.len_from)
  /\ Outcome(r, room)
  /\ UNCHANGED <<http, ended, sender>>

(* Decode is such a call.                                                  *)
LEMMA DecodeMeans ==
  ASSUME TypeOK, Decode
  PROVE  \E r, from, room : Decoding(r, from, room)
<1> DEFINE from == rx_remainder_len
           room == BufLen - rx_remainder_len
           r == read(ws, Current, "InternalServerError", from, room)
<1>1. /\ pc = "decoding" \/ (pc = "idle" /\ rx_remainder_len # 0)
      /\ rx_remainder_len' = rx_remainder_len - r.ret.len_from
      /\ Takes(r.ret.len_from)
      /\ CASE r.ret.err # "None" ->
                /\ ws' = r.ws /\ Fails(r.ret.err)
                /\ UNCHANGED <<frame_cursor, garbled, lost, got, tx>>
           [] r.ret.message_type \in {"Text", "Binary"} ->
                Collects(r.ws, r.ret, room)
           [] r.ret.message_type = "Pong" -> TakesPong(r.ws, r.ret, room)
           [] r.ret.message_type = "CloseCompleted" ->
                /\ ws' = r.ws /\ Returns("None")
                /\ UNCHANGED <<frame_cursor, garbled, lost, got, tx>>
           [] r.ret.message_type \in {"Ping", "CloseMustReply"} ->
                Answers(r.ws, r.ret, room)
      /\ UNCHANGED <<http, ended, sender>>
  BY DEF Decode, NeedsChunk
<1>2. from \in Nat /\ room \in Nat
  BY FramerAsyncAssumption DEF TypeOK
<1>3. Current = At(inbox) /\ At(inbox) \in Frame /\ ws \in WebSocket
  BY TakesMeans, AtType DEF TypeOK, StreamTypeOK
<1> HIDE DEF from, room
<1>4. r.ws \in WebSocket /\ r.ret \in Return /\ r.ret.len_from <= from
  BY <1>2, <1>3, ReadType, ReadTakes, CloseStatusAssumption
<1>5. r.ret.err = "None" <=> r.ret.message_type # "None"
  BY <1>2, <1>3, ReadNames, ReadFails
<1>6. r = read(ws, At(inbox), "InternalServerError", from, room)
  BY <1>3
<1> HIDE DEF r
<1>7. Outcome(r, room)
  <2>1. CASE r.ret.err # "None"
    <3>1. r.ret.message_type = "None"
      BY <1>5, <2>1
    <3> QED
      BY <1>1, <2>1, <3>1 DEF Outcome
  <2>2. CASE r.ret.err = "None"
    <3>1. r.ret.message_type \in {"Text", "Binary", "CloseCompleted",
                                  "CloseMustReply", "Ping", "Pong"}
      BY <1>4, <1>5, <2>2 DEF Return, MessageType
    <3>2. CASE r.ret.message_type \in {"Text", "Binary"}
      BY <1>1, <2>2, <3>2 DEF Outcome
    <3>3. CASE r.ret.message_type = "Pong"
      BY <1>1, <2>2, <3>3 DEF Outcome
    <3>4. CASE r.ret.message_type = "CloseCompleted"
      BY <1>1, <2>2, <3>4 DEF Outcome
    <3>5. CASE r.ret.message_type \in {"Ping", "CloseMustReply"}
      BY <1>1, <2>2, <3>5 DEF Outcome
    <3> QED
      BY <3>1, <3>2, <3>3, <3>4, <3>5
  <2> QED
    BY <2>1, <2>2
<1>8. /\ inbox' = FramesAfter(inbox, off, r.ret.len_from)
      /\ off' = OffAfter(inbox, off, r.ret.len_from)
  BY <1>1, TakesMeans
<1>9. Decoding(r, from, room)
  BY <1>1, <1>2, <1>4, <1>6, <1>7, <1>8 DEF Decoding, from, room
<1> QED
  BY <1>9

-----------------------------------------------------------------------------
(* Types.                                                                  *)

(* TypeOK holds in the initial states.                                     *)
LEMMA TypeInit == ASSUME Init PROVE TypeOK
<1>1. ws \in WebSocket
  BY NewWebSocketType DEF Init
<1>2. \A S : <<>> \in Seq(S)
  OBVIOUS
<1>3. inbox \in Seq(Frame) /\ sent \in Seq(Message) /\ got \in Seq(Received)
  BY <1>2 DEF Init, StreamInit
<1>4. http \in Nat /\ off \in Nat /\ partial \in Nat /\ ended \in BOOLEAN
      /\ peer \in Wire
  BY DEF Init, StreamInit, Wire
<1>5. StreamTypeOK
  BY <1>3, <1>4 DEF StreamTypeOK
<1>6. rx_remainder_len \in 0..BufLen
  BY FramerAsyncAssumption DEF Init
<1> QED
  BY <1>1, <1>3, <1>5, <1>6 DEF Init, TypeOK, PC, Result, Wire

(* The place of the frames written in their sequence is one of Wire.       *)
LEMMA EmitsType ==
  ASSUME tx \in Wire, NEW s, Emits(s), NEW f \in Frame, s.sent = <<f>>
  PROVE  tx' \in Wire
<1>1. Head(s.sent) = f
  OBVIOUS
<1> QED
  BY <1>1, WireAfterType DEF Emits

(* The application's frames keep the types.                                *)
LEMMA WritingType ==
  ASSUME TypeOK, NEW s, NEW len, Writing(s, len)
  PROVE  TypeOK'
<1>1. /\ s.ws \in WebSocket /\ s.ret.err \in Error
      /\ SendsWithin(s, len, BufLen) /\ WritesFrame(s)
  BY DEF Writing, Writes, Return
<1>2. /\ ws' = s.ws
      /\ UNCHANGED <<frame_cursor, rx_remainder_len, stream, sender, got>>
  BY <1>1 DEF WritesFrame
<1>3. tx' \in Wire /\ pc' \in PC /\ result' \in Result
  <2>1. tx \in Wire /\ pc \in PC /\ result \in Result
        /\ Error \subseteq Result /\ "Io" \in Result
    BY DEF TypeOK, Result
  <2>2. CASE s.ret.err = "None" /\ Emits(s) /\ UNCHANGED <<pc, result>>
    <3> PICK f \in Frame : s.sent = <<f>>
      BY <1>1, <2>2 DEF SendsWithin
    <3> QED
      BY <2>1, <2>2, EmitsType
  <2>3. CASE UNCHANGED tx /\ (Fails("Io") \/ Fails(s.ret.err))
    BY <1>1, <2>1, <2>3 DEF Fails, PC
  <2> QED
    BY <1>1, <2>2, <2>3 DEF WritesFrame
<1>4. garbled' \in BOOLEAN /\ lost' \in BOOLEAN
  <2>1. garbled \in BOOLEAN /\ lost \in BOOLEAN
    BY DEF TypeOK
  <2>2. \/ UNCHANGED <<garbled, lost>>
        \/ Overwrites(0, FrameLen(Head(s.sent)), rx_remainder_len)
    BY <1>1 DEF WritesFrame
  <2> QED
    BY <2>1, <2>2, OverwritesMeans DEF Overwritten
<1> QED
  BY <1>1, <1>2, <1>3, <1>4 DEF TypeOK, StreamTypeOK, stream, sender

(* A call of the codec keeps the types.                                    *)
LEMMA DecodingType ==
  ASSUME TypeOK, NEW r, NEW from, NEW room, Decoding(r, from, room)
  PROVE  TypeOK'
<1>1. /\ r.ws \in WebSocket /\ r.ret \in Return /\ r.ret.err \in Error
      /\ r.ret.len_from \in Nat /\ r.ret.len_to \in Nat
      /\ r.ret.len_from <= rx_remainder_len
      /\ rx_remainder_len' = rx_remainder_len - r.ret.len_from
  BY DEF Decoding, Return
<1>2. rx_remainder_len' \in 0..BufLen
  BY <1>1, FramerAsyncAssumption DEF TypeOK
<1>3. StreamTypeOK'
  <2>1. inbox' \in Seq(Frame) /\ off' \in Nat
    BY <1>1, AfterType DEF Decoding, TypeOK, StreamTypeOK
  <2> QED
    BY <2>1 DEF Decoding, TypeOK, StreamTypeOK, sender
<1>4. /\ frame_cursor \in Nat /\ got \in Seq(Received) /\ tx \in Wire
      /\ garbled \in BOOLEAN /\ lost \in BOOLEAN
  BY DEF TypeOK
<1> DEFINE Rest == /\ ws' \in WebSocket /\ frame_cursor' \in Nat
                   /\ got' \in Seq(Received) /\ tx' \in Wire
                   /\ garbled' \in BOOLEAN /\ lost' \in BOOLEAN
                   /\ pc' \in PC /\ result' \in Result
<1>5. ASSUME NEW error \in Result, Fails(error)
      PROVE  pc' \in PC /\ result' \in Result
  BY <1>5 DEF Fails, PC
<1>6. ASSUME NEW value \in {"Text", "Binary", "Pong", "Ping", "Close",
                            "None"}, Returns(value)
      PROVE  pc' \in PC /\ result' \in Result
  BY <1>6 DEF Returns, PC, Result
<1>7. ASSUME NEW type \in {"Text", "Binary", "Ping", "Pong"}, NEW len \in Nat,
             NEW intact, HandsOver(type, len, intact)
      PROVE  got' \in Seq(Received)
  <2> DEFINE m == [type |-> IF intact /\ ~lost THEN type ELSE "Garbled",
                   len |-> len]
  <2>1. m \in Received /\ got' = Append(got, m)
    BY <1>7 DEF HandsOver, Received
  <2> HIDE DEF m
  <2> QED
    BY <1>4, <2>1
<1>8. ASSUME NEW hi, Overwrites(0, hi, rx_remainder_len')
      PROVE  garbled' \in BOOLEAN /\ lost' \in BOOLEAN
  BY <1>8, OverwritesMeans DEF Overwritten
<1>9. Error \subseteq Result /\ "Io" \in Result /\ "Panic" \in Result
  BY DEF Result
<1>10. ASSUME Rest PROVE TypeOK'
  BY <1>2, <1>3, <1>10 DEF TypeOK
<1> SUFFICES Rest
  BY <1>10
<1>11. CASE r.ret.err # "None" /\ ws' = r.ws /\ Fails(r.ret.err)
            /\ UNCHANGED <<frame_cursor, garbled, lost, got, tx>>
  BY <1>1, <1>4, <1>5, <1>9, <1>11
<1>12. CASE r.ret.message_type \in {"Text", "Binary"}
            /\ Collects(r.ws, r.ret, room)
  <2>1. frame_cursor + r.ret.len_to \in Nat
    BY <1>1, <1>4
  <2>2. CASE r.ret.end_of_message
    <3> DEFINE cursor == frame_cursor + r.ret.len_to
               intact == ~garbled /\ (frame_cursor = 0 \/ r.ret.len_to = 0)
    <3>1. /\ ws' = r.ws /\ frame_cursor' = 0 /\ garbled' = FALSE
          /\ UNCHANGED <<lost, tx>>
          /\ IF cursor > room THEN Fails("Panic") /\ UNCHANGED got
             ELSE /\ HandsOver(r.ret.message_type, cursor, intact)
                  /\ Returns(r.ret.message_type)
      BY <1>12, <2>2 DEF Collects
    <3> HIDE DEF cursor, intact
    <3>2. pc' \in PC /\ result' \in Result /\ got' \in Seq(Received)
      <4>1. CASE cursor > room
        BY <1>4, <1>5, <1>9, <3>1, <4>1
      <4>2. CASE ~(cursor > room)
        BY <1>6, <1>7, <1>12, <2>1, <3>1, <4>2 DEF cursor
      <4> QED
        BY <4>1, <4>2
    <3> QED
      BY <1>1, <1>4, <3>1, <3>2
  <2>3. CASE ~r.ret.end_of_message
    BY <1>1, <1>4, <1>6, <1>8, <1>12, <2>1, <2>3 DEF Collects
  <2> QED
    BY <2>2, <2>3
<1>13. CASE TakesPong(r.ws, r.ret, room)
  BY <1>1, <1>4, <1>5, <1>6, <1>7, <1>8, <1>9, <1>13 DEF TakesPong
<1>14. CASE ws' = r.ws /\ Returns("None")
            /\ UNCHANGED <<frame_cursor, garbled, lost, got, tx>>
  BY <1>1, <1>4, <1>6, <1>14
<1>15. CASE Answers(r.ws, r.ret, room)
  <2> PICK m, s : Answered(r.ws, r.ret, room, m, s)
    BY <1>1, <1>15, AnswersMeans
  <2>1. /\ s.ws \in WebSocket /\ s.ret.err \in Error
        /\ SendsWithin(s, r.ret.len_to, r.ret.len_to + 14)
    BY DEF Answered, AnswerOf, Writes, Return
  <2>2. CASE /\ ws' = r.ws /\ Fails("Panic")
             /\ UNCHANGED <<garbled, lost, got, tx, frame_cursor>>
    BY <1>1, <1>4, <1>5, <1>9, <2>2
  <2>3. CASE /\ ws' = s.ws /\ garbled' \in BOOLEAN /\ lost' \in BOOLEAN
             /\ Sends(s, IF r.ret.message_type = "Ping" THEN Pinged(r.ret)
                         ELSE /\ Returns("Close") /\ frame_cursor' = 0
                              /\ UNCHANGED got)
    <3>1. CASE UNCHANGED <<tx, got, frame_cursor>>
               /\ (Fails("Io") \/ Fails(s.ret.err))
      BY <1>4, <1>5, <1>9, <2>1, <2>3, <3>1
    <3>2. CASE /\ s.ret.err = "None" /\ Emits(s)
               /\ IF r.ret.message_type = "Ping" THEN Pinged(r.ret)
                  ELSE /\ Returns("Close") /\ frame_cursor' = 0
                       /\ UNCHANGED got
      <4>1. tx' \in Wire
        <5> PICK f \in Frame : s.sent = <<f>>
          BY <2>1, <3>2 DEF SendsWithin
        <5> QED
          BY <1>4, <3>2, EmitsType
      <4>2. CASE Pinged(r.ret)
        BY <1>1, <1>4, <1>6, <1>7, <2>1, <2>3, <4>1, <4>2 DEF Pinged
      <4>3. CASE Returns("Close") /\ frame_cursor' = 0 /\ UNCHANGED got
        BY <1>4, <1>6, <2>1, <2>3, <4>1, <4>3
      <4> QED
        BY <3>2, <4>2, <4>3
    <3> QED
      BY <2>3, <3>1, <3>2 DEF Sends
  <2> QED
    BY <2>2, <2>3 DEF Answered
<1> QED
  BY <1>11, <1>12, <1>13, <1>14, <1>15 DEF Decoding, Outcome

(* TypeOK is preserved by each action.                                     *)
LEMMA TypeStep == ASSUME TypeOK, [Next]_vars PROVE TypeOK'
<1>1. /\ StreamTypeOK /\ ws \in WebSocket /\ frame_cursor \in Nat
      /\ rx_remainder_len \in 0..BufLen
      /\ pc \in PC /\ result \in Result /\ got \in Seq(Received)
      /\ garbled \in BOOLEAN /\ lost \in BOOLEAN /\ tx \in Wire
  BY DEF TypeOK
<1>2. /\ "None" \in Error /\ Error \subseteq Result
      /\ {"Io", "Panic", "None", "Disconnected", "RxBufferTooSmall"}
           \subseteq Result
      /\ {"connecting", "idle", "decoding", "done", "failed"} \subseteq PC
  BY DEF Error, Result, PC
<1>3. BufLen \in Nat /\ HttpLen \in Nat /\ RequestLen \in Nat
  BY FramerAsyncAssumption
<1>4. CASE PeerSends
  <2>1. StreamTypeOK' /\ UNCHANGED <<framer, got, tx>>
    BY <1>1, <1>4, SendsType DEF PeerSends, WebSocket
  <2> QED
    BY <1>1, <2>1 DEF TypeOK, framer
<1>5. CASE PeerEnds
  <2>1. /\ UNCHANGED <<framer, got, tx, http, inbox, off, sender>>
        /\ ended' = TRUE
    BY <1>5 DEF PeerEnds, EndsStream
  <2> QED
    BY <1>1, <2>1 DEF TypeOK, StreamTypeOK, framer, sender
<1>6. CASE Connect
  <2>1. ws' \in WebSocket /\ http' \in Nat
    BY <1>1, <1>2, <1>3, <1>6, HandshakeType DEF Connect, StreamTypeOK
  <2>2. /\ UNCHANGED <<frame_cursor, rx_remainder_len, garbled, lost, inbox,
                       off, ended, peer, partial, sent, got, tx>>
        /\ \/ pc' = "connecting" /\ UNCHANGED result
           \/ pc' = "failed" /\ result' = "Io"
    BY <1>6 DEF Connect, Fails, sender
  <2> QED
    BY <1>1, <1>2, <2>1, <2>2 DEF TypeOK, StreamTypeOK
<1>7. CASE ConnectReceives
  <2> PICK n, r : Connected(n, r)
    BY <1>7, ConnectReceivesMeans
  <2>1. n \in Nat /\ r.ret.err \in Error /\ r.ws \in WebSocket
        /\ (r.ret.err = "None" => n >= HttpLen)
    BY <1>1, BytesType DEF Connected, StreamTypeOK
  <2>2. /\ ws' \in WebSocket /\ http' \in Nat
        /\ UNCHANGED <<frame_cursor, garbled, lost, inbox, off, ended, peer,
                       partial, sent, got, tx>>
    BY <2>1 DEF Connected, sender
  <2>3. /\ rx_remainder_len' \in 0..BufLen
        /\ pc' \in PC /\ result' \in Result
    <3>1. CASE /\ r.ret.err = "None" /\ n - HttpLen <= BufLen - RequestLen
               /\ rx_remainder_len' = n - HttpLen
               /\ pc' = "idle" /\ result' = result
      <4>1. n - HttpLen \in 0..BufLen
        BY <1>3, <2>1, <3>1
      <4> QED
        BY <1>1, <1>2, <3>1, <4>1
    <3>2. CASE /\ rx_remainder_len' = rx_remainder_len
               /\ \/ Fails("Panic")
                  \/ Fails(r.ret.err)
      BY <1>1, <1>2, <2>1, <3>2 DEF Fails
    <3> QED
      BY <3>1, <3>2 DEF Connected
  <2> QED
    BY <1>1, <2>2, <2>3 DEF TypeOK, StreamTypeOK
<1>8. CASE Accept
  <2>1. ws' \in WebSocket
    BY <1>1, <1>2, <1>8, HandshakeType DEF Accept
  <2>2. /\ UNCHANGED <<frame_cursor, rx_remainder_len, garbled, lost, http,
                       inbox, off, ended, peer, partial, sent, got, tx>>
        /\ \/ pc' = "idle" /\ UNCHANGED result
           \/ pc' = "failed" /\ result' = "Io"
    BY <1>8 DEF Accept, Fails, stream, sender
  <2> QED
    BY <1>1, <1>2, <2>1, <2>2 DEF TypeOK, StreamTypeOK
<1>9. CASE Write \/ Close
  BY <1>9, WritingMeans, WritingType
<1>10. CASE Receive
  <2>1. UNCHANGED <<ws, frame_cursor, http, inbox, off, ended, peer, partial,
                    sent, got, tx>>
    BY <1>10 DEF Receive, stream, sender
  <2>2. /\ rx_remainder_len' \in 0..BufLen /\ pc' \in PC
        /\ result' \in Result /\ garbled' \in BOOLEAN /\ lost' \in BOOLEAN
    <3>1. CASE StreamEnds /\ UNCHANGED <<rx_remainder_len, garbled, lost>>
      BY <1>1, <1>2, <3>1 DEF StreamEnds, Returns
    <3>2. CASE \E n \in 1..(Waiting - rx_remainder_len) :
                 IF n > BufLen
                 THEN Fails("RxBufferTooSmall")
                      /\ UNCHANGED <<rx_remainder_len, garbled, lost>>
                 ELSE /\ rx_remainder_len' = n
                      /\ Overwrites(BufLen - n, BufLen, rx_remainder_len)
                      /\ pc' = "decoding" /\ UNCHANGED result
      <4> PICK n \in 1..(Waiting - rx_remainder_len) :
                 IF n > BufLen
                 THEN Fails("RxBufferTooSmall")
                      /\ UNCHANGED <<rx_remainder_len, garbled, lost>>
                 ELSE /\ rx_remainder_len' = n
                      /\ Overwrites(BufLen - n, BufLen, rx_remainder_len)
                      /\ pc' = "decoding" /\ UNCHANGED result
        BY <3>2
      <4>1. CASE n > BufLen
        BY <1>1, <1>2, <4>1 DEF Fails
      <4>2. CASE ~(n > BufLen)
        <5>1. n \in 0..BufLen
          BY <1>3, <4>2
        <5>2. garbled' \in BOOLEAN /\ lost' \in BOOLEAN
          BY <4>2, OverwritesMeans DEF Overwritten
        <5> QED
          BY <1>1, <1>2, <4>2, <5>1, <5>2
      <4> QED
        BY <4>1, <4>2
    <3> QED
      BY <1>10, <3>1, <3>2 DEF Receive
  <2> QED
    BY <1>1, <2>1, <2>2 DEF TypeOK, StreamTypeOK
<1>11. CASE StreamFails
  BY <1>1, <1>2, <1>11
  DEF StreamFails, Fails, stream, sender, TypeOK, StreamTypeOK
<1>12. CASE Decode
  BY <1>12, DecodeMeans, DecodingType
<1>13. CASE UNCHANGED vars
  BY <1>1, <1>13 DEF vars, framer, stream, sender, TypeOK, StreamTypeOK
<1> QED
  BY <1>4, <1>5, <1>6, <1>7, <1>8, <1>9, <1>10, <1>11, <1>12, <1>13 DEF Next

(***************************************************************************)
(* Whatever arrives, in whatever pieces, and whatever the application      *)
(* does, the fields of the framer keep their types: what is left at the    *)
(* end of the buffer never becomes negative, where Rust would panic, nor   *)
(* more than the buffer.                                                   *)
(***************************************************************************)
THEOREM TypeCorrect == Spec => []TypeOK
<1>1. Init => TypeOK
  BY TypeInit
<1>2. TypeOK /\ [Next]_vars => TypeOK'
  BY TypeStep
<1> QED
  BY <1>1, <1>2, PTL DEF Spec

-----------------------------------------------------------------------------
(***************************************************************************)
(* The frames written, if the application writes whole messages.           *)
(***************************************************************************)
WireInv ==
  /\ TypeOK
  /\ OnWire(ws, tx)
  /\ pc \in {"start", "connecting"} => tx = "None"

(* A frame that is sent goes where Emits says, or is not sent.             *)
LEMMA EmitsWhole ==
  ASSUME NEW w, NEW s, NEW len, NEW to, WritesWhole(w, tx, s), ws' = s.ws,
         SendsWithin(s, len, to),
         (s.ret.err = "None" /\ Emits(s)) \/ tx' = tx
  PROVE  OnWire(ws', tx')
<1>1. s.ret.err = "None" => s.sent # <<>>
  <2>1. \A f : <<f>> # <<>>
    OBVIOUS
  <2> QED
    BY <2>1, ZenonT(40) DEF SendsWithin
<1> QED
  BY <1>1 DEF WritesWhole, Emits

(* WireInv is preserved by each action.                                    *)
LEMMA WireStep ==
  ASSUME AppFragments = FALSE, WireInv, [Next]_vars PROVE WireInv'
<1>1. TypeOK /\ TypeOK' /\ ws \in WebSocket /\ OnWire(ws, tx)
  BY TypeStep DEF WireInv, TypeOK
<1>2. CASE Write \/ Close
  <2> PICK s, len : Writing(s, len)
    BY <1>1, <1>2, WritingMeans
  <2>1. /\ WritesWhole(ws, tx, s) /\ SendsWithin(s, len, BufLen)
        /\ pc = "idle" /\ WritesFrame(s)
    BY <1>1 DEF Writing, Writes
  <2>2. /\ ws' = s.ws /\ pc' \in {"idle", "failed"}
        /\ (s.ret.err = "None" /\ Emits(s)) \/ tx' = tx
    BY <2>1 DEF WritesFrame, Fails
  <2>3. OnWire(ws', tx')
    BY <2>1, <2>2, EmitsWhole
  <2> QED
    BY <1>1, <2>2, <2>3 DEF WireInv
<1>3. CASE Connect \/ Accept
  <2>1. tx' = tx /\ tx = "None"
    BY <1>1, <1>3 DEF Connect, Accept, WireInv
  <2>2. ws'.is_write_continuation = ws.is_write_continuation
    BY <1>1, <1>3
    DEF Connect, Accept, client_connect, server_accept, handshake, WebSocket
  <2> QED
    BY <1>1, <2>1, <2>2 DEF WireInv, OnWire
<1>4. CASE ConnectReceives
  <2>1. tx' = tx /\ tx = "None"
    BY <1>1, <1>4 DEF ConnectReceives, WireInv
  <2>2. ws'.is_write_continuation = ws.is_write_continuation
    <3> PICK n, r : Connected(n, r)
      BY <1>1, <1>4, ConnectReceivesMeans
    <3> QED
      BY DEF Connected
  <2> QED
    BY <1>1, <2>1, <2>2 DEF WireInv, OnWire
<1>5. CASE Decode
  <2> PICK r, from, room : Decoding(r, from, room)
    BY <1>1, <1>5, DecodeMeans
  <2>1. /\ r = read(ws, At(inbox), "InternalServerError", from, room)
        /\ from \in Nat /\ room \in Nat /\ r.ws \in WebSocket
        /\ r.ret \in Return /\ pc \in {"idle", "decoding"}
        /\ Outcome(r, room)
    BY DEF Decoding
  <2>2. At(inbox) \in Frame
    BY <1>1, AtType DEF TypeOK, StreamTypeOK
  <2>3. OnWire(r.ws, tx)
    BY <1>1, <2>1, <2>2, ReadWhole, CloseStatusAssumption
  <2> SUFFICES OnWire(ws', tx') /\ pc' \notin {"start", "connecting"}
    BY <1>1 DEF WireInv
  <2>4. CASE ws' = r.ws /\ tx' = tx /\ pc' \in {"idle", "failed", "done"}
    BY <2>3, <2>4
  <2>5. CASE Answers(r.ws, r.ret, room)
    <3> PICK m, s : Answered(r.ws, r.ret, room, m, s)
      BY <1>1, <2>1, <2>5, AnswersMeans
    <3>1. /\ WritesWhole(r.ws, tx, s)
          /\ SendsWithin(s, r.ret.len_to, r.ret.len_to + 14)
      BY <2>3 DEF Answered, AnswerOf, Writes
    <3>2. CASE ws' = r.ws /\ Fails("Panic") /\ UNCHANGED tx
      BY <2>3, <3>2 DEF Fails
    <3>3. CASE /\ ws' = s.ws
               /\ Sends(s, IF r.ret.message_type = "Ping" THEN Pinged(r.ret)
                           ELSE /\ Returns("Close") /\ frame_cursor' = 0
                                /\ UNCHANGED got)
      <4>1. (s.ret.err = "None" /\ Emits(s)) \/ tx' = tx
        BY <3>3 DEF Sends
      <4>2. pc' \in {"idle", "failed"}
        BY <3>3 DEF Sends, Pinged, Returns, Fails
      <4> QED
        BY <3>1, <3>3, <4>1, <4>2, EmitsWhole
    <3> QED
      BY <3>2, <3>3 DEF Answered
  <2> QED
    BY <2>1, <2>4, <2>5
    DEF Outcome, Collects, TakesPong, Returns, Fails
<1>6. CASE PeerSends \/ PeerEnds \/ Receive \/ StreamFails \/ UNCHANGED vars
  <2>1. ws' = ws /\ tx' = tx
    BY <1>6 DEF PeerSends, PeerEnds, Receive, StreamFails, vars, framer
  <2>2. pc' \in {"start", "connecting"} => pc' = pc
    BY <1>6 DEF PeerSends, PeerEnds, Receive, StreamFails, vars, framer,
                StreamEnds, Returns, Fails
  <2> QED
    BY <1>1, <2>1, <2>2 DEF WireInv
<1> QED
  BY <1>2, <1>3, <1>4, <1>5, <1>6 DEF Next

(***************************************************************************)
(* The answers of read to Ping and close frames fit in between the frames  *)
(* that the application writes, whatever arrives, in whatever pieces, as   *)
(* long as the application writes whole messages.                          *)
(***************************************************************************)
THEOREM WireCorrect ==
  ASSUME AppFragments = FALSE PROVE Spec => []WireWellFormed
<1>1. Init => WireInv
  <2> SUFFICES ASSUME Init PROVE WireInv
    OBVIOUS
  <2>1. TypeOK
    BY TypeInit
  <2> QED
    BY <2>1 DEF Init, WireInv, OnWire, new_websocket
<1>2. WireInv /\ [Next]_vars => WireInv'
  BY WireStep
<1>3. WireInv => WireWellFormed
  BY DEF WireInv, OnWire, WireWellFormed
<1> QED
  BY <1>1, <1>2, <1>3, PTL DEF Spec

-----------------------------------------------------------------------------
(***************************************************************************)
(* What is kept at the end of the buffer.                                  *)
(***************************************************************************)

(* What the peer can have under way leaves room for the request of the     *)
(* handshake, and for the longest message with the answer to it.           *)
HasRoom ==
  \E longest, payload \in Nat :
    /\ \A f \in Frame : f.len \in PayloadLens /\ f.ext = length_bytes(f.len)
                          => FrameLen(f) <= longest
    /\ \A len \in PayloadLens : len <= payload
    /\ RequestLen + MaxInbox * longest <= BufLen
    /\ MaxInbox * longest + 2 * payload + 14 <= BufLen

\* The peer has no more under way than it may.
Bounded(in) ==
  /\ in \in Seq(Frame) /\ Len(in) <= MaxInbox
  /\ \A i \in 1..Len(in) : FromPeer(in[i])

\* What its frames leave of the buffer.
Roomy(in) ==
  /\ RequestLen + Bytes(in) <= BufLen /\ Bytes(in) + 14 <= BufLen
  /\ \A i \in 1..Len(in) : Bytes(in) + 2 * in[i].len + 14 <= BufLen

(* They leave what HasRoom says.                                           *)
LEMMA RoomMeans ==
  ASSUME HasRoom, NEW in, Bounded(in)
  PROVE  Roomy(in)
<1> PICK longest \in Nat, payload \in Nat :
      /\ \A f \in Frame : f.len \in PayloadLens /\ f.ext = length_bytes(f.len)
                            => FrameLen(f) <= longest
      /\ \A len \in PayloadLens : len <= payload
      /\ RequestLen + MaxInbox * longest <= BufLen
      /\ MaxInbox * longest + 2 * payload + 14 <= BufLen
  BY DEF HasRoom
<1>1. in \in Seq(Frame) /\ Len(in) <= MaxInbox /\ Len(in) \in Nat
      /\ MaxInbox \in Nat /\ BufLen \in Nat /\ RequestLen \in Nat
  BY ByteStreamAssumption, FramerAsyncAssumption DEF Bounded
<1>2. \A i \in 1..Len(in) : /\ FrameLen(in[i]) <= longest
                            /\ in[i].len <= payload /\ in[i].len \in Nat
  BY <1>1, ByteStreamAssumption DEF Bounded, FromPeer
<1>3. Bytes(in) <= Len(in) * longest /\ Bytes(in) \in Nat
  BY <1>1, <1>2, BytesBound, BytesType
<1>4. Len(in) * longest <= MaxInbox * longest
      /\ Len(in) * longest \in Nat /\ MaxInbox * longest \in Nat
  BY <1>1
<1> DEFINE most == MaxInbox * longest
<1>5. Bytes(in) <= most /\ most \in Nat
  BY <1>3, <1>4
<1>6. RequestLen + most <= BufLen /\ most + 2 * payload + 14 <= BufLen
  OBVIOUS
<1> HIDE DEF most
<1>7. RequestLen + Bytes(in) <= BufLen /\ Bytes(in) + 14 <= BufLen
  BY <1>1, <1>3, <1>5, <1>6
<1>8. ASSUME NEW i \in 1..Len(in)
      PROVE  Bytes(in) + 2 * in[i].len + 14 <= BufLen
  <2>1. \A b, l \in Nat : b <= most /\ l <= payload
                           => b + 2 * l + 14 <= BufLen
    BY <1>1, <1>5, <1>6
  <2> QED
    BY <1>2, <1>3, <1>5, <2>1
<1> QED
  BY <1>7, <1>8 DEF Roomy

(* What is kept in the buffer is part of what waits.                       *)
BufferInv ==
  /\ TypeOK
  /\ Bounded(inbox)
  /\ rx_remainder_len <= Waiting
  /\ pc \in {"start", "connecting"} => off = 0 /\ rx_remainder_len = 0
  /\ pc = "start" => http = 0 /\ inbox = <<>>
  /\ pc = "connecting" => http = HttpLen

(* What the peer sends keeps to its bounds.                                *)
LEMMA SendsBounded ==
  ASSUME StreamTypeOK, Bounded(inbox), NEW masked \in BOOLEAN,
         SendsFrame(masked)
  PROVE  /\ Bounded(inbox') /\ off' = off /\ http' = http
         /\ Bytes(inbox') >= Bytes(inbox)
<1> PICK f : PeerSent(f)
  BY SendsFrameMeans
<1>1. FromPeer(f) /\ f \in Frame /\ inbox' = Append(inbox, f)
      /\ off' = off /\ http' = http
  BY DEF PeerSent, FromPeer
<1>2. Len(inbox) < MaxInbox
  BY DEF SendsFrame
<1>3. /\ Bounded(inbox') /\ inbox \in Seq(Frame)
  <2>1. /\ Len(inbox') = Len(inbox) + 1 /\ inbox' \in Seq(Frame)
        /\ \A i \in 1..Len(inbox') :
             \/ inbox'[i] = f
             \/ i \in 1..Len(inbox) /\ inbox'[i] = inbox[i]
    BY <1>1 DEF Bounded
  <2> QED
    BY <1>1, <1>2, <2>1, ByteStreamAssumption DEF Bounded
<1>4. Bytes(inbox') = Bytes(inbox) + FrameLen(f)
  BY <1>1, <1>3, BytesAppend
<1>5. Bytes(inbox) \in Nat /\ FrameLen(f) \in Nat
  BY <1>1, <1>3, BytesType, FrameLenType
<1> QED
  BY <1>1, <1>3, <1>4, <1>5

(* What is left when frames are taken does too.                            *)
LEMMA TakesBounded ==
  ASSUME NEW in, Bounded(in), NEW o, NEW n
  PROVE  Bounded(FramesAfter(in, o, n))
<1>1. CASE in = <<>> \/ FramesAfter(in, o, n) = in
  BY <1>1 DEF FramesAfter, Ends
<1>2. CASE in # <<>> /\ FramesAfter(in, o, n) = Tail(in)
  <2>1. /\ Tail(in) \in Seq(Frame) /\ Len(Tail(in)) = Len(in) - 1
        /\ \A i \in 1..Len(Tail(in)) : /\ Tail(in)[i] = in[i + 1]
                                       /\ i + 1 \in 1..Len(in)
    BY <1>2 DEF Bounded
  <2> QED
    BY <1>2, <2>1, ByteStreamAssumption DEF Bounded
<1> QED
  BY <1>1, <1>2 DEF FramesAfter

(* BufferInv is preserved by each action.                                  *)
LEMMA BufferStep == ASSUME BufferInv, [Next]_vars PROVE BufferInv'
<1>1. /\ TypeOK /\ TypeOK' /\ StreamTypeOK /\ Bounded(inbox)
      /\ inbox \in Seq(Frame) /\ off \in Nat /\ http \in Nat
      /\ rx_remainder_len \in Nat /\ Bytes(inbox) \in Nat
      /\ rx_remainder_len <= Bytes(inbox) - off
  BY TypeStep, BytesType DEF BufferInv, TypeOK, StreamTypeOK, Bounded, Waiting
<1>2. CASE PeerSends
  <2>1. /\ Bounded(inbox') /\ off' = off /\ http' = http
        /\ Bytes(inbox') >= Bytes(inbox)
    BY <1>1, <1>2, SendsBounded DEF PeerSends, TypeOK, WebSocket
  <2>2. /\ rx_remainder_len' = rx_remainder_len /\ pc' = pc /\ pc # "start"
    BY <1>2 DEF PeerSends, framer
  <2>3. Bytes(inbox') \in Nat
    BY <2>1, BytesType DEF Bounded
  <2>4. rx_remainder_len' <= Waiting'
    BY <1>1, <2>1, <2>2, <2>3 DEF Waiting
  <2> QED
    BY <1>1, <2>1, <2>2, <2>4 DEF BufferInv
<1>3. CASE Connect
  <2>1. /\ UNCHANGED <<rx_remainder_len, inbox, off>> /\ pc = "start"
        /\ (pc' = "connecting" /\ http' = HttpLen) \/ pc' = "failed"
    BY <1>3 DEF Connect, Fails
  <2> QED
    BY <1>1, <2>1 DEF BufferInv, Waiting
<1>4. CASE ConnectReceives
  <2> PICK n, r : Connected(n, r)
    BY <1>1, <1>4, ConnectReceivesMeans
  <2>1. /\ n \in 1..(http + Bytes(inbox)) /\ http = HttpLen /\ HttpLen \in Nat
        /\ off = 0 /\ inbox' = inbox /\ off' = off
        /\ pc' \in {"idle", "failed"}
    BY FramerAsyncAssumption DEF Connected, BufferInv, Fails
  <2>2. rx_remainder_len' = n - HttpLen \/ rx_remainder_len' = rx_remainder_len
    BY DEF Connected
  <2>3. rx_remainder_len' <= Bytes(inbox) - off
    BY <1>1, <2>1, <2>2
  <2>4. rx_remainder_len' <= Waiting'
    BY <2>1, <2>3 DEF Waiting
  <2> QED
    BY <1>1, <2>1, <2>4 DEF BufferInv
<1>5. CASE Receive
  <2>1. /\ UNCHANGED <<inbox, off, http>> /\ pc = "idle"
        /\ pc' \in {"idle", "decoding", "done", "failed"}
    BY <1>5 DEF Receive, stream, Fails, StreamEnds, Returns
  <2>2. \/ rx_remainder_len' = rx_remainder_len
        \/ rx_remainder_len' \in 1..(Waiting - rx_remainder_len)
    BY <1>5 DEF Receive
  <2>3. rx_remainder_len' <= Bytes(inbox) - off
    BY <1>1, <2>2 DEF Waiting
  <2>4. rx_remainder_len' <= Waiting'
    BY <2>1, <2>3 DEF Waiting
  <2> QED
    BY <1>1, <2>1, <2>4 DEF BufferInv
<1>6. CASE Decode
  <2> PICK r, from, room : Decoding(r, from, room)
    BY <1>1, <1>6, DecodeMeans
  <2> DEFINE n == r.ret.len_from
  <2>1. /\ n \in Nat /\ rx_remainder_len' = rx_remainder_len - n
        /\ inbox' = FramesAfter(inbox, off, n)
        /\ off' = OffAfter(inbox, off, n) /\ http' = http
        /\ pc \in {"idle", "decoding"} /\ Outcome(r, room)
    BY DEF Decoding, Return
  <2>2. Takes(n)
    BY <2>1 DEF Takes, FramesAfter, OffAfter, Ends, Current, At
  <2> HIDE DEF n
  <2>3. Bytes(inbox') - off' = (Bytes(inbox) - off) - n
    BY <1>1, <2>1, <2>2, TakesWaiting DEF Waiting
  <2>4. rx_remainder_len' <= Waiting'
    BY <1>1, <2>1, <2>3 DEF Waiting
  <2>5. Bounded(inbox')
    BY <1>1, <2>1, TakesBounded
  <2>6. pc' \in {"idle", "done", "failed"}
    BY <2>1
    DEF Outcome, Collects, TakesPong, Answers, Sends, Pinged, Returns, Fails
  <2> QED
    BY <1>1, <2>1, <2>4, <2>5, <2>6 DEF BufferInv
<1>7. CASE \/ PeerEnds \/ Accept \/ Write \/ Close \/ StreamFails
           \/ UNCHANGED vars
  <2>1. UNCHANGED <<rx_remainder_len, inbox, off, http>>
    BY <1>7 DEF PeerEnds, EndsStream, framer, Accept, stream, Write, Close,
                WritesFrame, StreamFails, vars
  <2>2. pc' \in {"start", "connecting"} => pc' = pc
    BY <1>7 DEF PeerEnds, framer, Accept, Fails, Write, Close, WritesFrame,
                StreamFails, vars
  <2> QED
    BY <1>1, <2>1, <2>2 DEF BufferInv, Waiting
<1> QED
  BY <1>2, <1>3, <1>4, <1>5, <1>6, <1>7 DEF Next

(* BufferInv holds in the initial states.                                  *)
LEMMA BufferInit == ASSUME Init PROVE BufferInv
<1>1. /\ TypeOK /\ inbox = <<>> /\ off = 0 /\ rx_remainder_len = 0
      /\ pc = "start" /\ http = 0
  BY TypeInit DEF Init, StreamInit
<1>2. <<>> \in Seq(Frame) /\ Len(<<>>) = 0
  OBVIOUS
<1>3. Bytes(inbox) = 0
  BY <1>1, <1>2, BytesType
<1>4. Bounded(inbox)
  <2>1. 0 <= MaxInbox /\ \A i : i \notin 1..0
    BY ByteStreamAssumption
  <2> QED
    BY <1>1, <1>2, <2>1 DEF Bounded
<1> QED
  BY <1>1, <1>3, <1>4 DEF BufferInv, Waiting

\* The application writes with a buffer of its own, or there is room.
WritesApart == AppSharesBuffer = FALSE \/ HasRoom

(* The bytes kept are not written over.                                    *)
LEMMA RemainderStep ==
  ASSUME WritesApart, BufferInv, ~lost, [Next]_vars
  PROVE  ~lost'
<1>1. /\ TypeOK /\ TypeOK' /\ ws \in WebSocket /\ StreamTypeOK
      /\ rx_remainder_len \in Nat /\ BufLen \in Nat /\ lost' \in BOOLEAN
      /\ rx_remainder_len <= Bytes(inbox) - off /\ off \in Nat
      /\ Bytes(inbox) \in Nat
  BY TypeStep, FramerAsyncAssumption, BytesType
  DEF BufferInv, TypeOK, StreamTypeOK, Waiting
<1>2. CASE Write \/ Close
  <2> PICK s, len : Writing(s, len)
    BY <1>1, <1>2, WritingMeans
  <2>1. /\ len \in {1, 2} /\ SendsWithin(s, len, BufLen) /\ WritesFrame(s)
    BY DEF Writing, Writes
  <2>2. CASE UNCHANGED lost
    BY <2>2
  <2>3. CASE /\ AppSharesBuffer /\ s.sent # <<>>
             /\ Overwrites(0, FrameLen(Head(s.sent)), rx_remainder_len)
    <3>1. PICK f \in Frame : s.sent = <<f>> /\ FrameLen(f) <= BufLen
             /\ FrameLen(f) <= len + length_bytes(len) + 6
      BY <2>1, <2>3 DEF SendsWithin
    <3>2. length_bytes(len) = 0
      BY <2>1 DEF length_bytes
    <3>3. Head(s.sent) = f /\ FrameLen(f) \in Nat
      BY <3>1, FrameLenType
    <3>4. FrameLen(f) <= 8
      BY <2>1, <3>1, <3>2, <3>3
    <3>5. Bytes(inbox) + 14 <= BufLen
      BY <2>3, RoomMeans DEF WritesApart, Roomy, BufferInv
    <3>6. ~(FrameLen(f) > BufLen - rx_remainder_len)
      BY <1>1, <3>3, <3>4, <3>5
    <3> QED
      BY <1>1, <2>3, <3>3, <3>6, OverwritesMeans DEF Overwritten
  <2> QED
    BY <2>1, <2>2, <2>3 DEF WritesFrame
<1>3. CASE Receive
  <2>1. CASE UNCHANGED lost
    BY <2>1
  <2>2. CASE \E n : Overwrites(BufLen - n, BufLen, rx_remainder_len)
    <3>1. rx_remainder_len = 0
      BY <1>3 DEF Receive, NeedsChunk
    <3>2. ~(BufLen > BufLen - rx_remainder_len)
      BY <1>1, <3>1
    <3> QED
      BY <1>1, <2>2, <3>2, OverwritesMeans DEF Overwritten
  <2> QED
    BY <1>3, <2>1, <2>2 DEF Receive
<1>4. CASE Decode
  <2> PICK r, from, room : Decoding(r, from, room)
    BY <1>1, <1>4, DecodeMeans
  <2>1. /\ r = read(ws, At(inbox), "InternalServerError", from, room)
        /\ from \in Nat /\ room \in Nat
        /\ r.ret.len_from \in Nat /\ r.ret.len_to \in Nat
        /\ r.ws \in WebSocket /\ r.ret \in Return
        /\ room = BufLen - rx_remainder_len
        /\ rx_remainder_len' = rx_remainder_len - r.ret.len_from
        /\ Outcome(r, room)
    BY DEF Decoding, Return
  <2>2. r.ret.len_to <= room
    <3>1. At(inbox) \in Frame
      BY <1>1, AtType DEF StreamTypeOK
    <3> QED
      BY <1>1, <2>1, <3>1, ReadGives, CloseStatusAssumption
  <2>3. room <= BufLen - rx_remainder_len' /\ rx_remainder_len' \in Int
    BY <1>1, <2>1
  <2>4. CASE UNCHANGED lost
    BY <2>4
  <2>5. CASE Overwrites(0, r.ret.len_to, rx_remainder_len')
    <3>1. ~(r.ret.len_to > BufLen - rx_remainder_len')
      BY <1>1, <2>1, <2>2, <2>3
    <3> QED
      BY <1>1, <2>5, <3>1, OverwritesMeans DEF Overwritten
  <2>6. CASE Answers(r.ws, r.ret, room)
    <3> PICK m, s : Answered(r.ws, r.ret, room, m, s)
      BY <1>1, <2>1, <2>6, AnswersMeans
    <3>1. SendsWithin(s, r.ret.len_to, r.ret.len_to + 14)
      BY DEF Answered, AnswerOf, Writes
    <3>2. ASSUME s.sent # <<>>
          PROVE  ~(tx_start(r.ret, room) + FrameLen(Head(s.sent))
                     > BufLen - rx_remainder_len')
      <4>1. PICK f \in Frame : s.sent = <<f>>
                                 /\ FrameLen(f) <= r.ret.len_to + 14
        BY <3>1, <3>2 DEF SendsWithin
      <4>2. Head(s.sent) = f /\ FrameLen(f) \in Nat
        BY <4>1, FrameLenType
      <4>3. tx_start(r.ret, room) = room - (r.ret.len_to + 14)
        BY DEF tx_start, tx_buf_len
      <4> HIDE DEF tx_start
      <4>4. tx_start(r.ret, room) + FrameLen(f) <= room
        BY <2>1, <4>1, <4>2, <4>3
      <4>5. tx_start(r.ret, room) \in Int
        BY <2>1, <4>3
      <4> QED
        BY <1>1, <2>1, <2>3, <4>2, <4>4, <4>5
    <3> QED
      BY <3>2 DEF Answered
  <2> QED
    BY <2>1, <2>4, <2>5, <2>6 DEF Outcome, Collects, TakesPong
<1>5. CASE \/ PeerSends \/ PeerEnds \/ Connect \/ ConnectReceives \/ Accept
           \/ StreamFails \/ UNCHANGED vars
  BY <1>5 DEF PeerSends, PeerEnds, Connect, ConnectReceives, Accept,
              StreamFails, vars, framer
<1> QED
  BY <1>2, <1>3, <1>4, <1>5 DEF Next

(***************************************************************************)
(* Bytes that are kept at the end of the buffer for the next call are not  *)
(* written over, by no answer, decoded payload or chunk, whatever arrives  *)
(* and in whatever pieces; nor by what the application writes, with a      *)
(* buffer of its own, or with this one if there is room for what the peer  *)
(* has under way.                                                          *)
(***************************************************************************)
THEOREM RemainderCorrect ==
  ASSUME AppSharesBuffer = FALSE \/ HasRoom PROVE Spec => []RemainderKept
<1> DEFINE Inv == BufferInv /\ ~lost
<1>1. Init => Inv
  BY BufferInit DEF Init
<1>2. Inv /\ [Next]_vars => Inv'
  BY BufferStep, RemainderStep DEF WritesApart
<1>3. Inv => RemainderKept
  BY DEF RemainderKept
<1> HIDE DEF Inv
<1> QED
  BY <1>1, <1>2, <1>3, PTL DEF Spec

-----------------------------------------------------------------------------
(***************************************************************************)
(* Whole frames: messages are not fragmented, and chunks end between       *)
(* frames.  read then takes one frame at a time.                           *)
(***************************************************************************)

\* A frame that is a message of its own.
Whole(f) ==
  /\ f.op_code \in DataOpCode \cup ControlOpCode
  /\ f.fin = TRUE /\ f.msg = f.op_code

\* What read makes of such a frame.
ReadsWhole(w, f, r) ==
  /\ r.ret.err = "None" /\ r.ret.len_from = FrameLen(f)
  /\ r.ws.continuation_read.op_code = "None"
  /\ IF f.op_code # "ConnectionClose"
     THEN /\ r.ret.message_type = message_type_of(f.op_code)
          /\ r.ret.len_to = f.len /\ r.ret.end_of_message = TRUE
          /\ r.ws.state = w.state
     ELSE /\ r.ret.len_to \in 0..f.len
          /\ IF w.state = "CloseSent"
             THEN /\ r.ret.message_type = "CloseCompleted"
                  /\ r.ws.state = "Closed"
             ELSE /\ r.ret.message_type = "CloseMustReply"
                  /\ r.ws.state = "CloseReceived"

(* How a close frame changes the state.                                    *)
LEMMA CloseChanges ==
  ASSUME NEW w \in WebSocket, w.state \in {"Open", "CloseSent"},
         w.continuation_read.op_code = "None",
         NEW f \in Frame, f.op_code = "ConnectionClose",
         NEW status \in CloseStatus, NEW from \in Nat, NEW to \in Nat,
         read_frame_error(f, from) = "None"
  PROVE  LET r == read(w, f, status, from, to)
         IN  IF w.state = "CloseSent"
             THEN /\ r.ret.message_type = "CloseCompleted"
                  /\ r.ws.state = "Closed"
             ELSE /\ r.ret.message_type = "CloseMustReply"
                  /\ r.ws.state = "CloseReceived"
<1> DEFINE p == read_payload(f, from, to)
           v == start_frame(w, p)
           o == override_op_code(v, p.frame)
           r == read(w, f, status, from, to)
<1>1. p.frame.op_code = "ConnectionClose"
  BY DEF read_payload, decode_close_frame, frame_read
<1>2. v.state = w.state /\ v.continuation_read = p.continuation_read
      /\ DOMAIN v = DOMAIN w /\ "state" \in DOMAIN w
  BY DEF start_frame, WebSocket
<1>3. r = dispatch_frame(v, o, from = 0 \/ to = 0)
  BY DEF read
<1> HIDE DEF p
<1>4. o.op_code = "ConnectionClose"
  BY <1>1 DEF override_op_code
<1> HIDE DEF v, o, r
<1>5. CASE w.state = "CloseSent"
  BY <1>2, <1>3, <1>4, <1>5 DEF dispatch_frame, to_readresult, r
<1>6. CASE w.state # "CloseSent"
  BY <1>2, <1>3, <1>4, <1>6 DEF dispatch_frame, to_readresult, r
<1> QED
  BY <1>5, <1>6

(* read makes this of a frame that it has and has room for.                *)
LEMMA WholeRead ==
  ASSUME NEW w \in WebSocket, w.state \in {"Open", "CloseSent"},
         w.continuation_read.op_code = "None",
         NEW f \in Frame, Whole(f), NEW status \in CloseStatus,
         NEW from \in Nat, NEW to \in Nat,
         from >= FrameLen(f), to >= f.len
  PROVE  ReadsWhole(w, f, read(w, f, status, from, to))
<1> DEFINE n == Payload(f, from, to)
           r == read(w, f, status, from, to)
<1>1. /\ HeaderLen(f) \in Nat /\ f.len \in Nat /\ HeaderLen(f) >= 2
      /\ FrameLen(f) = HeaderLen(f) + f.len
      /\ f.op_code \in WebSocketOpCode /\ f.op_code # "ContinuationFrame"
  BY FrameLenType
  DEF HeaderLen, FrameLen, Frame, Whole, WebSocketOpCode, DataOpCode,
      ControlOpCode
<1>2. from >= HeaderLen(f) /\ from >= 2 /\ from - HeaderLen(f) >= f.len
  BY <1>1
<1>3. read_frame_error(f, from) = "None"
  BY <1>1, <1>2 DEF read_frame_error
<1>4. n = f.len
  BY <1>1, <1>2 DEF Payload, min
<1>5. StartsFrame(w, f, r, from, n)
  BY <1>3, StartRead
<1>6. NoContinuation.op_code = "None"
  BY DEF NoContinuation
<1> HIDE DEF n, r
<1>7. r.ws.continuation_read.op_code = "None"
  BY <1>1, <1>4, <1>5, <1>6 DEF StartsFrame
<1>8. CASE f.op_code # "ConnectionClose"
  BY <1>1, <1>4, <1>5, <1>7, <1>8 DEF StartsFrame, ReadsWhole, Whole, r
<1>9. CASE f.op_code = "ConnectionClose"
  <2>1. r.ret.err = "None" /\ r.ret.len_from = FrameLen(f)
    BY <1>1, <1>4, <1>5, <1>9 DEF StartsFrame
  <2>2. r.ret.len_to \in 0..f.len
    BY <2>1, StartGives DEF r
  <2>3. IF w.state = "CloseSent"
        THEN r.ret.message_type = "CloseCompleted" /\ r.ws.state = "Closed"
        ELSE /\ r.ret.message_type = "CloseMustReply"
             /\ r.ws.state = "CloseReceived"
    BY <1>3, <1>9, CloseChanges DEF r
  <2>4. ReadsWhole(w, f, r)
    BY <1>7, <1>9, <2>1, <2>2, <2>3 DEF ReadsWhole
  <2> QED
    BY <2>4 DEF r
<1> QED
  BY <1>8, <1>9

\* Messages come in one frame each, chunks end between frames, and there is
\* room for what the peer has under way.
WholeStream == Cuts = "frames" /\ FragmentMessages = FALSE /\ HasRoom

\* The peer is between messages, and sends nothing behind a close frame.
Orderly(in, p) ==
  /\ p \in {"None", "Closed"}
  /\ \A i \in 1..Len(in) :
       /\ Whole(in[i])
       /\ in[i].op_code = "ConnectionClose" => i = Len(in) /\ p = "Closed"

\* The framer is between two frames, and the stream has the messages that it
\* has not handed over.
AtFrame ==
  /\ off = 0 /\ frame_cursor = 0 /\ garbled = FALSE
  /\ ws.continuation_read.op_code = "None"
  /\ BetweenFrames(inbox, rx_remainder_len)
  /\ CarriesRest(inbox, Len(got), 0, partial, sent)

\* How far the websocket is, and the peer.
Stages ==
  /\ pc \in {"start", "connecting"} => ws.state # "Open" /\ result = "none"
  /\ pc \in {"idle", "decoding"} =>
       /\ ws.state \in {"Open", "CloseSent", "Closed"}
       /\ ws.state = "Closed" => inbox = <<>> /\ peer = "Closed"
  /\ pc = "decoding" => rx_remainder_len > 0

(***************************************************************************)
(* The inductive invariant: until the framer stops or fails, each call     *)
(* begins where a frame does.                                              *)
(***************************************************************************)
WholeInv ==
  /\ BufferInv /\ lost = FALSE
  /\ Orderly(inbox, peer)
  /\ NoneMeansClosed /\ FailsForAReason
  /\ Stages
  /\ pc \notin {"done", "failed"} => AtFrame

\* A call of the codec has a whole frame, and room for it and its answer.
HasFrame(f, r, room) ==
  /\ inbox # <<>> /\ f = Head(inbox) /\ inbox' = Tail(inbox) /\ off' = 0
  /\ f \in Frame /\ Whole(f) /\ FromPeer(f) /\ f.len \in Nat
  /\ rx_remainder_len >= FrameLen(f)
  /\ rx_remainder_len' = rx_remainder_len - FrameLen(f)
  /\ ws.state \in {"Open", "CloseSent"} /\ ReadsWhole(ws, f, r)
  /\ room \in Nat /\ 2 * f.len + 14 <= room

(* It has.                                                                 *)
LEMMA DecodesFrame ==
  ASSUME WholeStream, WholeInv, NEW r, NEW from, NEW room,
         Decoding(r, from, room)
  PROVE  HasFrame(Head(inbox), r, room)
<1> DEFINE f == Head(inbox)
<1>1. /\ pc \in {"idle", "decoding"} /\ from = rx_remainder_len
      /\ room = BufLen - rx_remainder_len /\ from \in Nat /\ room \in Nat
      /\ r = read(ws, At(inbox), "InternalServerError", from, room)
      /\ rx_remainder_len' = rx_remainder_len - r.ret.len_from
      /\ inbox' = FramesAfter(inbox, off, r.ret.len_from)
      /\ off' = OffAfter(inbox, off, r.ret.len_from)
      /\ rx_remainder_len # 0 \/ pc = "decoding"
  BY DEF Decoding
<1>2. /\ AtFrame /\ BufferInv /\ Stages /\ Bounded(inbox)
      /\ Orderly(inbox, peer)
      /\ inbox \in Seq(Frame) /\ ws \in WebSocket
      /\ BufLen \in Nat
  BY <1>1, FramerAsyncAssumption
  DEF WholeInv, BufferInv, Bounded, TypeOK
<1>3. from > 0
  BY <1>1, <1>2 DEF Stages
<1>4. inbox # <<>> /\ from >= FrameLen(f)
  <2> PICK i \in 0..Len(inbox) : from = Lengths(inbox)[i]
    BY <1>1, <1>2 DEF AtFrame, BetweenFrames
  <2>1. Lengths(inbox)[0] = 0
    BY <1>2, LengthsDef DEF SumsTo
  <2>2. i \in 1..Len(inbox)
    BY <1>2, <1>3, <2>1
  <2>3. Lengths(inbox)[i] >= FrameLen(f)
    BY <1>2, <2>2, LengthsLeast
  <2> QED
    BY <2>2, <2>3
<1>5. f \in Frame /\ 1 \in 1..Len(inbox) /\ f = inbox[1] /\ At(inbox) = f
  BY <1>2, <1>4 DEF At
<1>6. Whole(f) /\ FromPeer(f) /\ f.len \in Nat /\ FrameLen(f) \in Nat
  BY <1>2, <1>5, FrameLenType DEF Orderly, Bounded
<1>7. ws.state \in {"Open", "CloseSent"}
  BY <1>1, <1>2, <1>4 DEF Stages
<1>8. 2 * f.len + 14 <= room
  <2>1. Bytes(inbox) + 2 * f.len + 14 <= BufLen
    BY <1>2, <1>5, RoomMeans DEF WholeStream, Roomy
  <2>2. rx_remainder_len <= Bytes(inbox) /\ Bytes(inbox) \in Nat
    BY <1>1, <1>2, BytesType DEF BufferInv, Waiting, AtFrame
  <2> QED
    BY <1>1, <1>2, <1>6, <2>1, <2>2
<1>9. room >= f.len
  BY <1>1, <1>6, <1>8
<1>10. ReadsWhole(ws, f, r)
  BY <1>1, <1>2, <1>4, <1>5, <1>6, <1>7, <1>9, WholeRead,
     CloseStatusAssumption
  DEF AtFrame
<1>11. inbox' = Tail(inbox) /\ off' = 0
       /\ rx_remainder_len' = rx_remainder_len - FrameLen(f)
  <2>1. off = 0 /\ r.ret.len_from = FrameLen(f)
    BY <1>2, <1>10 DEF AtFrame, ReadsWhole
  <2>2. Ends(inbox, off, r.ret.len_from)
    BY <1>4, <1>5, <1>6, <2>1 DEF Ends
  <2> QED
    BY <1>1, <2>1, <2>2 DEF FramesAfter, OffAfter
<1> QED
  BY <1>1, <1>4, <1>5, <1>6, <1>7, <1>8, <1>10, <1>11 DEF HasFrame

\* What becomes of a frame: its message comes out, or the connection is
\* closed, or the answer is not sent.
Handled(f) ==
  /\ ws'.continuation_read.op_code = "None"
  /\ \/ /\ f.op_code # "ConnectionClose" /\ pc' = "idle"
        /\ got' = Append(got, [type |-> message_type_of(f.op_code),
                               len |-> f.len])
        /\ ws'.state = ws.state /\ result' # "None"
        /\ frame_cursor' = 0 /\ garbled' = FALSE
     \/ /\ f.op_code = "ConnectionClose" /\ pc' \in {"idle", "done"}
        /\ got' = got /\ ws'.state = "Closed"
        /\ frame_cursor' = 0 /\ garbled' = FALSE
     \/ /\ pc' = "failed" /\ got' = got
        /\ result' = "Io" \/ (result' = "WebSocketNotOpen"
                                /\ ws'.state = "CloseSent")

(* This becomes of it.                                                     *)
LEMMA HandlesFrame ==
  ASSUME WholeInv, NEW f, NEW r, NEW from, NEW room,
         Decoding(r, from, room), HasFrame(f, r, room)
  PROVE  Handled(f)
<1> DEFINE m == r.ret.message_type
<1>1. /\ Outcome(r, room) /\ r.ret \in Return /\ r.ws \in WebSocket
      /\ pc \in {"idle", "decoding"} /\ TypeOK
      /\ frame_cursor = 0 /\ garbled = FALSE /\ lost = FALSE
      /\ r.ret.err = "None" /\ f.op_code \in DataOpCode \cup ControlOpCode
      /\ r.ws.continuation_read.op_code = "None"
      /\ r.ret.len_to \in 0..f.len /\ f.len \in Nat /\ room \in Nat
      /\ 2 * f.len + 14 <= room
  BY DEF Decoding, WholeInv, BufferInv, AtFrame, HasFrame, ReadsWhole, Whole
<1>2. f.op_code # "ConnectionClose" =>
        /\ m = message_type_of(f.op_code) /\ r.ret.len_to = f.len
        /\ r.ret.end_of_message = TRUE /\ r.ws.state = ws.state
  BY DEF HasFrame, ReadsWhole
<1>3. ASSUME NEW type, NEW intact, intact = TRUE,
             f.op_code # "ConnectionClose",
             type = message_type_of(f.op_code),
             HandsOver(type, f.len, intact)
      PROVE  got' = Append(got, [type |-> message_type_of(f.op_code),
                                 len |-> f.len])
  BY <1>1, <1>3 DEF HandsOver
<1>4. ASSUME NEW value, value # "None", Returns(value)
      PROVE  pc' = "idle" /\ result' # "None"
  BY <1>4 DEF Returns
<1>5. ASSUME NEW hi, Overwrites(0, hi, rx_remainder_len')
      PROVE  garbled' = FALSE
  BY <1>1, <1>5, OverwritesMeans DEF Overwritten
<1>6. CASE f.op_code \in DataOpCode
  <2>1. m \in {"Text", "Binary"} /\ f.op_code # "ConnectionClose"
    BY <1>2, <1>6 DEF message_type_of, DataOpCode
  <2> DEFINE intact == ~garbled /\ (frame_cursor = 0 \/ r.ret.len_to = 0)
             cursor == frame_cursor + r.ret.len_to
  <2>2. Collects(r.ws, r.ret, room)
    BY <1>1, <2>1 DEF Outcome
  <2>3. cursor = f.len /\ ~(cursor > room) /\ intact = TRUE
    BY <1>1, <1>2, <2>1
  <2>4. /\ ws' = r.ws /\ frame_cursor' = 0 /\ garbled' = FALSE
        /\ IF cursor > room THEN Fails("Panic") /\ UNCHANGED got
           ELSE HandsOver(m, cursor, intact) /\ Returns(m)
    BY <1>2, <2>1, <2>2 DEF Collects
  <2> HIDE DEF cursor, intact
  <2>5. HandsOver(m, f.len, intact) /\ Returns(m) /\ m # "None"
    BY <2>1, <2>3, <2>4
  <2> QED
    BY <1>1, <1>2, <1>3, <1>4, <2>1, <2>3, <2>4, <2>5 DEF Handled
<1>7. CASE f.op_code = "Pong"
  <2>1. m = "Pong" /\ message_type_of(f.op_code) = "Pong"
    BY <1>2, <1>7 DEF message_type_of
  <2>2. TakesPong(r.ws, r.ret, room)
    BY <1>1, <2>1 DEF Outcome
  <2>3. ~(frame_cursor + r.ret.len_to > room) /\ InPlace(r.ret) = TRUE
    BY <1>1 DEF InPlace
  <2>4. /\ ws' = r.ws /\ frame_cursor' = 0 /\ garbled' = FALSE
        /\ HandsOver("Pong", f.len, InPlace(r.ret)) /\ Returns("Pong")
    BY <1>1, <1>2, <1>5, <1>7, <2>2, <2>3 DEF TakesPong
  <2> QED
    BY <1>1, <1>2, <1>3, <1>4, <1>7, <2>1, <2>3, <2>4 DEF Handled
<1>8. CASE f.op_code \in {"Ping", "ConnectionClose"}
           /\ m \in {"Ping", "CloseMustReply"}
  <2>1. Answers(r.ws, r.ret, room)
    BY <1>1, <1>8 DEF Outcome
  <2> PICK k, s : Answered(r.ws, r.ret, room, k, s)
    BY <1>1, <2>1, AnswersMeans
  <2>2. tx_start(r.ret, room) = room - (r.ret.len_to + 14)
    BY DEF tx_start, tx_buf_len
  <2>3. /\ ~(tx_start(r.ret, room) < 0)
        /\ ~(frame_cursor + r.ret.len_to > tx_start(r.ret, room))
    BY <1>1, <2>2
  <2>4. InPlace(r.ret) = TRUE
    BY <1>1 DEF InPlace
  <2>5. /\ ws' = s.ws /\ garbled' = FALSE
        /\ Sends(s, IF m = "Ping" THEN Pinged(r.ret)
                    ELSE /\ Returns("Close") /\ frame_cursor' = 0
                         /\ UNCHANGED got)
        /\ AnswerOf(r.ws, k, s, r.ret.len_to)
        /\ k = IF m = "Ping" THEN "Pong" ELSE "CloseReply"
    BY <1>1, <2>3, <2>4 DEF Answered
  <2>6. s.ws.continuation_read.op_code = "None"
    BY <1>1, <2>5 DEF AnswerOf, Writes, ReaderUntouched
  <2>7. IF r.ws.state \in {"Open", "CloseReceived"}
        THEN /\ s.ret.err = "None"
             /\ s.ws.state = IF m = "Ping" THEN r.ws.state ELSE "Closed"
        ELSE s.ws = r.ws /\ s.ret.err = "WebSocketNotOpen"
    BY <1>8, <2>5 DEF AnswerOf
  <2>8. CASE s.ret.err = "None" /\ UNCHANGED got /\ Fails("Io")
    BY <2>5, <2>6, <2>8 DEF Handled, Fails
  <2>9. CASE f.op_code = "Ping"
    <3>1. m = "Ping" /\ message_type_of(f.op_code) = "Ping"
          /\ ws.state \in {"Open", "CloseSent"}
      BY <1>2, <2>9 DEF message_type_of, HasFrame
    <3>2. CASE s.ret.err = "None" /\ Pinged(r.ret)
      <4>1. r.ws.state = ws.state /\ s.ws.state = ws.state
        BY <1>2, <2>7, <2>9, <3>1, <3>2
      <4> QED
        BY <1>1, <1>2, <1>3, <1>4, <2>4, <2>5, <2>6, <2>9, <3>1, <3>2, <4>1
        DEF Pinged, Handled
    <3>3. CASE s.ret.err # "None" /\ UNCHANGED got /\ Fails(s.ret.err)
      <4>1. s.ret.err = "WebSocketNotOpen" /\ s.ws.state = "CloseSent"
        BY <1>2, <2>7, <2>9, <3>1, <3>3
      <4> QED
        BY <2>5, <2>6, <3>3, <4>1 DEF Handled, Fails
    <3> QED
      BY <2>5, <2>8, <3>1, <3>2, <3>3 DEF Sends
  <2>10. CASE f.op_code = "ConnectionClose"
    <3>1. m = "CloseMustReply" /\ r.ws.state = "CloseReceived"
      BY <1>8, <2>10 DEF HasFrame, ReadsWhole
    <3>2. s.ret.err = "None" /\ s.ws.state = "Closed"
      BY <2>7, <3>1
    <3>3. CASE Returns("Close") /\ frame_cursor' = 0 /\ UNCHANGED got
      BY <1>4, <2>5, <2>6, <2>10, <3>2, <3>3 DEF Handled
    <3> QED
      BY <2>5, <2>8, <3>1, <3>2, <3>3 DEF Sends
  <2> QED
    BY <1>8, <2>9, <2>10
<1>9. CASE f.op_code = "ConnectionClose" /\ m = "CloseCompleted"
  <2>1. r.ws.state = "Closed"
    BY <1>9 DEF HasFrame, ReadsWhole
  <2>2. /\ ws' = r.ws /\ Returns("None")
        /\ UNCHANGED <<frame_cursor, garbled, lost, got, tx>>
    BY <1>1, <1>9 DEF Outcome
  <2>3. pc' \in {"idle", "done"}
    BY <2>2 DEF Returns
  <2> QED
    BY <1>1, <1>9, <2>1, <2>2, <2>3 DEF Handled
<1>10. \/ f.op_code \in DataOpCode \/ f.op_code = "Pong"
       \/ f.op_code = "Ping" /\ m = "Ping"
       \/ f.op_code = "ConnectionClose"
            /\ m \in {"CloseMustReply", "CloseCompleted"}
  BY <1>1, <1>2
  DEF ControlOpCode, message_type_of, HasFrame, ReadsWhole
<1> QED
  BY <1>6, <1>7, <1>8, <1>9, <1>10

\* Nothing comes out, or the next of the messages sent.
Delivers ==
  \/ got' = got
  \/ Len(got) < Len(sent) /\ got' = Append(got, sent[Len(got) + 1])

\* What a step does to the two sequences of the message channel.
Channels ==
  \/ Delivers /\ sent' = sent
  \/ /\ got' = got /\ Len(sent) < MaxSent
     /\ \E m \in Message : sent' = Append(sent, m)

(* What is behind a frame is as orderly; nothing is behind a close frame.  *)
LEMMA OrderlyTail ==
  ASSUME NEW in \in Seq(Frame), in # <<>>, NEW p, Orderly(in, p)
  PROVE  /\ Orderly(Tail(in), p)
         /\ Head(in).op_code = "ConnectionClose"
              => Tail(in) = <<>> /\ p = "Closed"
<1>1. /\ Tail(in) \in Seq(Frame) /\ Len(Tail(in)) = Len(in) - 1
      /\ \A i \in 1..Len(Tail(in)) :
           Tail(in)[i] = in[i + 1] /\ i + 1 \in 1..Len(in)
      /\ Head(in) = in[1] /\ 1 \in 1..Len(in) /\ Len(in) \in Nat
  OBVIOUS
<1>2. Orderly(Tail(in), p)
  <2>1. ASSUME NEW i \in 1..Len(Tail(in))
        PROVE  /\ Whole(Tail(in)[i])
               /\ Tail(in)[i].op_code = "ConnectionClose"
                    => i = Len(Tail(in)) /\ p = "Closed"
    <3> DEFINE n == Len(in)
               m == Len(Tail(in))
    <3>1. n \in Nat /\ m = n - 1 /\ i \in 1..m
      BY <1>1, <2>1
    <3>2. i + 1 = n => i = m
      <4> HIDE DEF n, m
      <4> QED
        BY <3>1
    <3> QED
      BY <1>1, <2>1, <3>2 DEF Orderly
  <2> QED
    BY <2>1 DEF Orderly
<1>3. ASSUME Head(in).op_code = "ConnectionClose"
      PROVE  Tail(in) = <<>> /\ p = "Closed"
  <2>1. 1 = Len(in) /\ p = "Closed"
    BY <1>1, <1>3 DEF Orderly
  <2>2. Len(Tail(in)) = 0
    <3> DEFINE n == Len(in)
               m == Len(Tail(in))
    <3>1. m = n - 1 /\ n = 1
      BY <1>1, <2>1
    <3> HIDE DEF n, m
    <3>2. m = 0
      BY <3>1
    <3> QED
      BY <3>2 DEF m
  <2> QED
    BY <1>1, <2>1, <2>2, EmptySeq
<1> QED
  BY <1>2, <1>3

(* A call of the codec hands over the next message, and begins and ends    *)
(* between frames.                                                         *)
LEMMA DecodeKeepsWhole ==
  ASSUME WholeStream, WholeInv, BufferInv', lost' = FALSE, Decode
  PROVE  WholeInv' /\ Channels
<1> DEFINE f == Head(inbox)
<1>1. /\ TypeOK /\ inbox \in Seq(Frame) /\ sent \in Seq(Message)
      /\ got \in Seq(Received) /\ rx_remainder_len \in Nat
      /\ Orderly(inbox, peer)
  BY DEF WholeInv, BufferInv, TypeOK, StreamTypeOK
<1> PICK r, from, room : Decoding(r, from, room)
  BY <1>1, DecodeMeans
<1>2. HasFrame(f, r, room)
  BY DecodesFrame
<1>3. Handled(f)
  BY <1>2, HandlesFrame
<1>4. /\ pc \in {"idle", "decoding"} /\ AtFrame /\ Stages
      /\ peer' = peer /\ partial' = partial /\ sent' = sent
      /\ ended' = ended
  BY DEF Decoding, WholeInv, sender
<1>5. /\ inbox # <<>> /\ inbox' = Tail(inbox) /\ off' = 0
      /\ f \in Frame /\ Whole(f) /\ f.len \in Nat /\ FrameLen(f) \in Nat
      /\ rx_remainder_len >= FrameLen(f)
      /\ rx_remainder_len' = rx_remainder_len - FrameLen(f)
      /\ ws.state \in {"Open", "CloseSent"}
  BY <1>2, FrameLenType DEF HasFrame
<1>6. /\ Orderly(inbox', peer')
      /\ f.op_code = "ConnectionClose" => inbox' = <<>> /\ peer' = "Closed"
  BY <1>1, <1>4, <1>5, OrderlyTail
<1>7. BetweenFrames(inbox', rx_remainder_len')
  <2>1. BetweenFrames(inbox, rx_remainder_len)
    BY <1>4 DEF AtFrame
  <2>2. CutIn(inbox, rx_remainder_len)
    BY <2>1 DEF CutIn
  <2>3. CutIn(Tail(inbox), rx_remainder_len - FrameLen(f))
    BY <1>1, <1>5, <2>2, CutBehindHead
  <2> QED
    BY <1>5, <2>3 DEF CutIn, WholeStream
<1>8. /\ CarriesRest(inbox', DoneAfter(f, Len(got)), 0, partial, sent)
      /\ Completes(f) =>
           /\ Len(got) < Len(sent)
           /\ sent[Len(got) + 1] = [type |-> message_type_of(f.op_code),
                                    len |-> f.len]
  <2>1. CarriesRest(inbox, Len(got), 0, partial, sent)
    BY <1>4 DEF AtFrame
  <2>2. /\ CarriesRest(Tail(inbox), DoneAfter(f, Len(got)), HeldAfter(f, 0),
                       partial, sent)
        /\ Completes(f) => /\ Len(got) < Len(sent)
                           /\ sent[Len(got) + 1] = MessageOf(f, 0)
    BY <1>1, <1>5, <2>1, TakenIsCarried
  <2>3. HeldAfter(f, 0) = 0
    BY <1>5 DEF HeldAfter, Whole
  <2>4. MessageOf(f, 0) = [type |-> message_type_of(f.op_code),
                           len |-> f.len]
    BY <1>5 DEF MessageOf, Whole
  <2> QED
    BY <1>5, <2>2, <2>3, <2>4
<1>9. Completes(f) <=> f.op_code # "ConnectionClose"
  BY <1>5 DEF Completes, Whole
<1>10. Len(got) \in Nat
  BY <1>1
<1>11. CASE /\ f.op_code # "ConnectionClose" /\ pc' = "idle"
            /\ got' = Append(got, [type |-> message_type_of(f.op_code),
                                   len |-> f.len])
            /\ ws'.state = ws.state /\ result' # "None"
            /\ frame_cursor' = 0 /\ garbled' = FALSE
  <2>1. got' = Append(got, sent[Len(got) + 1]) /\ Len(got) < Len(sent)
    BY <1>8, <1>9, <1>11
  <2>2. Len(got') = Len(got) + 1
    BY <1>1, <1>11
  <2>3. CarriesRest(inbox', Len(got'), 0, partial', sent')
    BY <1>4, <1>8, <1>9, <1>11, <2>2 DEF DoneAfter
  <2>4. AtFrame'
    BY <1>3, <1>5, <1>7, <1>11, <2>3 DEF AtFrame, Handled
  <2>5. Stages' /\ NoneMeansClosed' /\ FailsForAReason'
    BY <1>5, <1>11 DEF Stages, NoneMeansClosed, FailsForAReason
  <2> QED
    BY <1>4, <1>6, <2>1, <2>4, <2>5 DEF WholeInv, Channels, Delivers
<1>12. CASE /\ f.op_code = "ConnectionClose" /\ pc' \in {"idle", "done"}
            /\ got' = got /\ ws'.state = "Closed"
            /\ frame_cursor' = 0 /\ garbled' = FALSE
  <2>1. CarriesRest(inbox', Len(got'), 0, partial', sent')
    BY <1>4, <1>8, <1>9, <1>12 DEF DoneAfter
  <2>2. AtFrame'
    BY <1>3, <1>5, <1>7, <1>12, <2>1 DEF AtFrame, Handled
  <2>3. Stages' /\ NoneMeansClosed' /\ FailsForAReason'
    BY <1>6, <1>12 DEF Stages, NoneMeansClosed, FailsForAReason
  <2> QED
    BY <1>4, <1>6, <1>12, <2>2, <2>3 DEF WholeInv, Channels, Delivers
<1>13. CASE /\ pc' = "failed" /\ got' = got
            /\ result' = "Io" \/ (result' = "WebSocketNotOpen"
                                    /\ ws'.state = "CloseSent")
  <2>1. Stages' /\ NoneMeansClosed' /\ FailsForAReason'
    BY <1>13 DEF Stages, NoneMeansClosed, FailsForAReason
  <2> QED
    BY <1>4, <1>6, <1>13, <2>1 DEF WholeInv, Channels, Delivers
<1> QED
  BY <1>3, <1>11, <1>12, <1>13 DEF Handled

\* A step that leaves the stream, the message collected and what has come out
\* alone, and that begins and ends between frames.
Quiet ==
  /\ UNCHANGED <<frame_cursor, garbled, inbox, off, peer, partial, sent, got>>
  /\ ws'.continuation_read.op_code = ws.continuation_read.op_code
  /\ pc' \notin {"done", "failed"} =>
       /\ pc \notin {"done", "failed"}
       /\ BetweenFrames(inbox, rx_remainder_len')
  /\ Stages' /\ NoneMeansClosed' /\ FailsForAReason'

(* It keeps the invariant.                                                 *)
LEMMA QuietStep ==
  ASSUME WholeInv, BufferInv', lost' = FALSE, Quiet
  PROVE  WholeInv' /\ Channels
<1>1. /\ inbox' = inbox /\ peer' = peer /\ partial' = partial /\ sent' = sent
      /\ got' = got /\ off' = off /\ frame_cursor' = frame_cursor
      /\ garbled' = garbled
  BY DEF Quiet
<1>2. Orderly(inbox', peer')
  BY <1>1 DEF WholeInv
<1>3. pc' \notin {"done", "failed"} => AtFrame'
  BY <1>1 DEF WholeInv, Quiet, AtFrame
<1> QED
  BY <1>1, <1>2, <1>3 DEF WholeInv, Quiet, Channels, Delivers

(* A whole frame at the end of a stream that is not closed keeps it so.    *)
LEMMA OrderlyAppend ==
  ASSUME NEW in \in Seq(Frame), Orderly(in, "None"),
         NEW f \in Frame, Whole(f), NEW p \in {"None", "Closed"},
         f.op_code = "ConnectionClose" => p = "Closed"
  PROVE  Orderly(Append(in, f), p)
<1>1. /\ Len(Append(in, f)) = Len(in) + 1 /\ Len(in) \in Nat
      /\ \A i \in 1..(Len(in) + 1) :
           \/ i = Len(in) + 1 /\ Append(in, f)[i] = f
           \/ i \in 1..Len(in) /\ Append(in, f)[i] = in[i]
  OBVIOUS
<1>2. \A i \in 1..Len(in) : Whole(in[i]) /\ in[i].op_code # "ConnectionClose"
  BY DEF Orderly
<1>3. ASSUME NEW i \in 1..(Len(in) + 1)
      PROVE  /\ Whole(Append(in, f)[i])
             /\ Append(in, f)[i].op_code = "ConnectionClose"
                  => i = Len(in) + 1 /\ p = "Closed"
  BY <1>1, <1>2
<1> QED
  BY <1>1, <1>3 DEF Orderly

(* What the peer sends is one more whole frame, and carries on.            *)
LEMMA SendsKeepsWhole ==
  ASSUME WholeStream, WholeInv, BufferInv', lost' = FALSE, PeerSends
  PROVE  WholeInv' /\ Channels
<1>1. /\ StreamTypeOK /\ inbox \in Seq(Frame) /\ sent \in Seq(Message)
      /\ rx_remainder_len \in Nat /\ Orderly(inbox, peer)
  BY DEF WholeInv, BufferInv, TypeOK, StreamTypeOK
<1>12. (~ws.is_client) \in BOOLEAN
  OBVIOUS
<1>2. /\ pc # "start" /\ SendsFrame(~ws.is_client)
      /\ UNCHANGED <<ws, frame_cursor, rx_remainder_len, pc, result, garbled,
                     got>>
  BY DEF PeerSends, framer
<1>3. ~ended /\ \E f : PeerSent(f)
  BY <1>1, <1>2, <1>12, SendsFrameMeans
<1> PICK f : PeerSent(f)
  BY <1>3
<1>4. /\ f \in Frame /\ inbox' = Append(inbox, f)
      /\ peer' = WireAfter(peer, f) /\ peer' # "Broken" /\ ended' = ended
      /\ off' = off /\ f.op_code \in WebSocketOpCode /\ f.fin = TRUE
      /\ f.op_code \in DataOpCode \cup ControlOpCode => f.msg = f.op_code
  BY DEF PeerSent, PeerMaySend, FromPeer, WholeStream, Frame
<1>5. peer = "None"
  BY <1>1, <1>4 DEF Orderly, WireAfter
<1>6. /\ Whole(f) /\ peer' \in {"None", "Closed"}
      /\ f.op_code = "ConnectionClose" => peer' = "Closed"
  BY <1>4, <1>5
  DEF WireAfter, MessageAfter, WebSocketOpCode, DataOpCode, ControlOpCode,
      Whole
<1>7. Orderly(inbox', peer')
  BY <1>1, <1>4, <1>5, <1>6, OrderlyAppend
<1>8. AtFrame => AtFrame'
  <2> SUFFICES ASSUME AtFrame PROVE AtFrame'
    OBVIOUS
  <2>1. CarriesRest(inbox', Len(got), 0, partial', sent')
    BY <1>1, SentIsCarried DEF AtFrame
  <2>2. CutIn(inbox, rx_remainder_len)
    BY DEF AtFrame, CutIn
  <2>3. CutIn(inbox', rx_remainder_len)
    BY <1>1, <1>4, <2>2, CutBeforeAppend
  <2>4. BetweenFrames(inbox', rx_remainder_len)
    BY <2>3 DEF CutIn, WholeStream
  <2> QED
    BY <1>2, <1>4, <2>1, <2>4 DEF AtFrame
<1>9. Stages'
  BY <1>2, <1>5 DEF WholeInv, Stages
<1>10. NoneMeansClosed' /\ FailsForAReason'
  BY <1>2, <1>3 DEF WholeInv, NoneMeansClosed, FailsForAReason
<1>11. Channels
  BY <1>2 DEF PeerSent, Channels, Delivers
<1> QED
  BY <1>2, <1>7, <1>8, <1>9, <1>10, <1>11 DEF WholeInv

(* The handshake ends between frames, at the first of them.                *)
LEMMA OpensWhole ==
  ASSUME WholeStream, WholeInv, BufferInv', lost' = FALSE,
         Connect \/ Accept
  PROVE  WholeInv' /\ Channels
<1>1. /\ ws \in WebSocket /\ pc = "start" /\ ws.state # "Open"
      /\ result = "none"
  BY DEF Connect, Accept, WholeInv, BufferInv, TypeOK, Stages
<1>2. /\ UNCHANGED <<frame_cursor, rx_remainder_len, garbled, inbox, off,
                     peer, partial, sent, got>>
      /\ \/ pc' = "connecting" /\ result' = result
              /\ ws' = client_connect(ws, "None").ws
         \/ pc' = "idle" /\ result' = result
              /\ ws' = server_accept(ws, "None").ws
         \/ pc' = "failed" /\ result' = "Io"
              /\ ws'.continuation_read = ws.continuation_read
  BY <1>1
  DEF Connect, Accept, Fails, stream, sender, client_connect, server_accept,
      handshake, WebSocket
<1>3. \A e \in {"None"} :
        /\ client_connect(ws, e).ws.continuation_read = ws.continuation_read
        /\ server_accept(ws, e).ws.continuation_read = ws.continuation_read
        /\ client_connect(ws, e).ws.state = "Connecting"
        /\ server_accept(ws, e).ws.state = "Open"
  BY <1>1 DEF client_connect, server_accept, handshake, WebSocket
<1>4. BetweenFrames(inbox, rx_remainder_len')
  BY <1>1, <1>2 DEF WholeInv, AtFrame
<1>5. Stages' /\ NoneMeansClosed' /\ FailsForAReason'
  BY <1>1, <1>2, <1>3 DEF Stages, NoneMeansClosed, FailsForAReason
<1>6. Quiet
  BY <1>1, <1>2, <1>3, <1>4, <1>5 DEF Quiet
<1> QED
  BY <1>6, QuietStep

(* connect has the whole response, and whole frames behind it.             *)
LEMMA ConnectsWhole ==
  ASSUME WholeStream, WholeInv, BufferInv', lost' = FALSE, ConnectReceives
  PROVE  WholeInv' /\ Channels
<1>1. /\ TypeOK /\ Bounded(inbox) /\ inbox \in Seq(Frame) /\ http = HttpLen
      /\ HttpLen \in Nat /\ BufLen \in Nat /\ RequestLen \in Nat
      /\ Bytes(inbox) \in Nat /\ pc = "connecting" /\ ws.state # "Open"
      /\ result = "none"
  BY FramerAsyncAssumption, BytesType
  DEF ConnectReceives, WholeInv, BufferInv, TypeOK, StreamTypeOK, Stages
<1> PICK n, r : Connected(n, r)
  BY <1>1, ConnectReceivesMeans
<1>2. /\ n \in 1..(http + Bytes(inbox)) /\ r.ws \in WebSocket
      /\ r.ws.continuation_read = ws.continuation_read /\ ws' = r.ws
      /\ UNCHANGED <<frame_cursor, garbled, inbox, off, peer, partial, sent,
                     got>>
      /\ r.ret.err \in {"None", "HttpHeaderIncomplete", "HttpError"}
      /\ r.ret.err = "None" => r.ws.state = "Open"
  BY <1>1 DEF Connected, OpeningStep, sender
<1>3. ~(n < http) /\ CutAt(n - http)
  BY DEF Connected, WholeStream
<1>4. n - HttpLen \in Nat /\ n - HttpLen <= Bytes(inbox)
  BY <1>1, <1>2, <1>3
<1>5. r.ret.err # "HttpHeaderIncomplete"
  BY <1>1, <1>3 DEF Connected
<1>6. n - HttpLen <= BufLen - RequestLen
  <2>1. RequestLen + Bytes(inbox) <= BufLen
    BY <1>1, RoomMeans DEF WholeStream, Roomy
  <2> QED
    BY <1>1, <1>4, <2>1
<1>7. BetweenFrames(inbox, n - HttpLen)
  <2>1. CutIn(inbox, n - HttpLen)
    BY <1>1, <1>3, <1>4, CutAtMeans
  <2> QED
    BY <2>1 DEF CutIn, WholeStream
<1>8. \/ /\ pc' = "idle" /\ rx_remainder_len' = n - HttpLen
         /\ result' = result /\ ws'.state = "Open"
      \/ pc' = "failed" /\ result' = "HttpError"
  BY <1>2, <1>5, <1>6 DEF Connected, Fails
<1>9. Stages' /\ NoneMeansClosed' /\ FailsForAReason'
  BY <1>1, <1>8 DEF Stages, NoneMeansClosed, FailsForAReason
<1>10. Quiet
  BY <1>1, <1>2, <1>7, <1>8, <1>9 DEF Quiet
<1> QED
  BY <1>10, QuietStep

(* What the application writes is not put over what is being read.         *)
LEMMA WritesKeepWhole ==
  ASSUME WholeStream, WholeInv, BufferInv', lost' = FALSE, Write \/ Close
  PROVE  WholeInv' /\ Channels
<1>1. /\ TypeOK /\ Bounded(inbox) /\ Bytes(inbox) \in Nat /\ BufLen \in Nat
  BY FramerAsyncAssumption, BytesType
  DEF WholeInv, BufferInv, TypeOK, StreamTypeOK
<1> PICK s, len : Writing(s, len)
  BY <1>1, WritingMeans
<1>2. /\ pc = "idle" /\ ws.state = "Open" /\ len \in {1, 2}
      /\ Writes(ws, s, len, BufLen) /\ WritesFrame(s)
      /\ s.ws.state \in {"Open", "CloseSent"}
  BY DEF Writing
<1>3. /\ frame_cursor = 0 /\ BetweenFrames(inbox, rx_remainder_len)
  BY <1>2 DEF WholeInv, AtFrame
<1>4. s.ret.err = "None"
  <2>1. Bytes(inbox) + 14 <= BufLen
    BY <1>1, RoomMeans DEF WholeStream, Roomy
  <2>2. length_bytes(len) = 0
    BY <1>2 DEF length_bytes
  <2>3. len + 0 + 6 <= BufLen
    BY <1>1, <1>2, <2>1
  <2> QED
    BY <1>2, <2>2, <2>3 DEF Writes
<1>5. /\ UNCHANGED <<frame_cursor, rx_remainder_len, inbox, off, ended, peer,
                     partial, sent, got>>
      /\ ws' = s.ws /\ s.ws.continuation_read = ws.continuation_read
      /\ \/ pc' = pc /\ result' = result
         \/ pc' = "failed" /\ result' = "Io"
  BY <1>2, <1>4
  DEF WritesFrame, stream, sender, Fails, Writes, ReaderUntouched
<1>6. garbled' = garbled
  <2>1. garbled \in BOOLEAN
    BY <1>1 DEF TypeOK
  <2>2. \/ garbled' = garbled
        \/ \E hi, k : garbled' = (garbled \/ (0 < hi /\ 0 < frame_cursor))
    BY <1>2 DEF WritesFrame, Overwrites
  <2>3. ~(0 < frame_cursor)
    BY <1>3
  <2> QED
    BY <2>1, <2>2, <2>3
<1>7. Stages' /\ NoneMeansClosed' /\ FailsForAReason'
  BY <1>2, <1>5 DEF WholeInv, Stages, NoneMeansClosed, FailsForAReason
<1>8. Quiet
  BY <1>2, <1>3, <1>5, <1>6, <1>7 DEF Quiet
<1> QED
  BY <1>8, QuietStep

(* A chunk ends between frames, and there is room for it.                  *)
LEMMA ReceivesWhole ==
  ASSUME WholeStream, WholeInv, BufferInv', lost' = FALSE,
         Receive \/ StreamFails
  PROVE  WholeInv' /\ Channels
<1>1. /\ TypeOK /\ Bounded(inbox) /\ inbox \in Seq(Frame) /\ BufLen \in Nat
      /\ Bytes(inbox) \in Nat /\ garbled \in BOOLEAN
  BY FramerAsyncAssumption, BytesType
  DEF WholeInv, BufferInv, TypeOK, StreamTypeOK
<1>2. CASE StreamFails
  <2>1. /\ UNCHANGED <<ws, frame_cursor, garbled, inbox, off, peer, partial,
                       sent, got>>
        /\ pc' = "failed" /\ result' \in {"Io", "Disconnected"}
    BY <1>2 DEF StreamFails, Fails, stream, sender
  <2>2. Stages' /\ NoneMeansClosed' /\ FailsForAReason'
    BY <2>1 DEF Stages, NoneMeansClosed, FailsForAReason
  <2> QED
    BY <2>1, <2>2, QuietStep DEF Quiet
<1>3. CASE Receive
  <2>1. /\ pc = "idle" /\ rx_remainder_len = 0
        /\ UNCHANGED <<ws, frame_cursor, inbox, off, ended, peer, partial,
                       sent, got>>
    BY <1>3 DEF Receive, NeedsChunk, stream, sender
  <2>2. /\ AtFrame /\ off = 0 /\ frame_cursor = 0
        /\ ws.state \in {"Open", "CloseSent", "Closed"}
        /\ ws.state = "Closed" => inbox = <<>> /\ peer = "Closed"
        /\ result # "None" \/ ws.state = "Closed"
             \/ (ended /\ inbox = <<>>)
    BY <2>1 DEF WholeInv, AtFrame, Stages, NoneMeansClosed
  <2>3. Bytes(inbox) + 14 <= BufLen
    BY <1>1, RoomMeans DEF WholeStream, Roomy
  <2>4. ASSUME NEW n \in 1..(Waiting - rx_remainder_len),
               CutAt(off + rx_remainder_len + n),
               IF n > BufLen
               THEN Fails("RxBufferTooSmall")
                    /\ UNCHANGED <<rx_remainder_len, garbled, lost>>
               ELSE /\ rx_remainder_len' = n
                    /\ Overwrites(BufLen - n, BufLen, rx_remainder_len)
                    /\ pc' = "decoding" /\ UNCHANGED result
        PROVE  Quiet
    <3>1. n \in Nat /\ n > 0 /\ n <= Bytes(inbox)
      BY <1>1, <2>1, <2>2, <2>4 DEF Waiting
    <3>2. ~(n > BufLen) /\ ~(BufLen - n < 0)
      BY <1>1, <2>3, <3>1
    <3>3. /\ rx_remainder_len' = n /\ pc' = "decoding" /\ result' = result
          /\ Overwrites(BufLen - n, BufLen, rx_remainder_len)
      BY <2>4, <3>2
    <3>4. garbled' = garbled
      BY <1>1, <2>2, <3>2, <3>3, OverwritesMeans DEF Overwritten
    <3>5. BetweenFrames(inbox, n)
      <4>1. off + rx_remainder_len + n = n
        BY <2>1, <2>2, <3>1
      <4>2. CutAt(n)
        BY <2>4, <4>1
      <4>3. CutIn(inbox, n)
        BY <1>1, <3>1, <4>2, CutAtMeans
      <4> QED
        BY <4>3 DEF CutIn, WholeStream
    <3>6. inbox # <<>>
      BY <1>1, <3>1, BytesType
    <3>7. Stages' /\ NoneMeansClosed' /\ FailsForAReason'
      BY <2>1, <2>2, <3>1, <3>3, <3>6
      DEF Stages, NoneMeansClosed, FailsForAReason
    <3> QED
      BY <2>1, <3>3, <3>4, <3>5, <3>7 DEF Quiet
  <2>5. ASSUME ended, Waiting = rx_remainder_len, StreamEnds,
               UNCHANGED <<rx_remainder_len, garbled, lost>>
        PROVE  Quiet
    <3>1. Bytes(inbox) = 0
      BY <1>1, <2>1, <2>2, <2>5 DEF Waiting
    <3>2. inbox = <<>>
      <4>1. inbox # <<>> => Head(inbox) \in Frame
        BY <1>1
      <4>2. inbox # <<>> => Bytes(inbox) >= 2
        BY <1>1, <4>1, BytesType, FrameLenType
      <4> QED
        BY <3>1, <4>2
    <3>3. /\ pc' \in {"idle", "done"} /\ result' = "None"
          /\ rx_remainder_len' = 0 /\ garbled' = garbled
      BY <2>1, <2>5 DEF StreamEnds, Returns
    <3>4. Stages' /\ NoneMeansClosed' /\ FailsForAReason'
      BY <2>1, <2>2, <2>5, <3>2, <3>3
      DEF Stages, NoneMeansClosed, FailsForAReason
    <3> QED
      BY <2>1, <2>2, <3>3, <3>4 DEF Quiet, AtFrame
  <2>6. Quiet
    BY <1>3, <2>4, <2>5 DEF Receive
  <2> QED
    BY <2>6, QuietStep
<1> QED
  BY <1>2, <1>3

(* WholeInv is preserved by each action, and each is a step of the message *)
(* channel.                                                                *)
LEMMA WholeStep ==
  ASSUME WholeStream, WholeInv, [Next]_vars
  PROVE  WholeInv' /\ Channels
<1>1. BufferInv' /\ lost' = FALSE
  <2>1. BufferInv /\ ~lost /\ WritesApart
    BY DEF WholeInv, WholeStream, WritesApart
  <2>2. BufferInv' /\ ~lost'
    BY <2>1, BufferStep, RemainderStep
  <2>3. lost' \in BOOLEAN
    BY <2>2 DEF BufferInv, TypeOK
  <2> QED
    BY <2>2, <2>3
<1>2. CASE PeerEnds \/ UNCHANGED vars
  <2>1. /\ UNCHANGED <<ws, frame_cursor, rx_remainder_len, pc, result, garbled,
                       inbox, off, peer, partial, sent, got>>
        /\ ended => ended'
    BY <1>2 DEF PeerEnds, EndsStream, framer, sender, vars, stream
  <2>2. Stages' /\ NoneMeansClosed' /\ FailsForAReason'
    BY <2>1 DEF WholeInv, Stages, NoneMeansClosed, FailsForAReason
  <2>3. pc \notin {"done", "failed"} => BetweenFrames(inbox, rx_remainder_len)
    BY DEF WholeInv, AtFrame
  <2> QED
    BY <1>1, <2>1, <2>2, <2>3, QuietStep DEF Quiet
<1>3. CASE PeerSends
  BY <1>1, <1>3, SendsKeepsWhole
<1>4. CASE Connect \/ Accept
  BY <1>1, <1>4, OpensWhole
<1>5. CASE ConnectReceives
  BY <1>1, <1>5, ConnectsWhole
<1>6. CASE Write \/ Close
  BY <1>1, <1>6, WritesKeepWhole
<1>7. CASE Receive \/ StreamFails
  BY <1>1, <1>7, ReceivesWhole
<1>8. CASE Decode
  BY <1>1, <1>8, DecodeKeepsWhole DEF WholeInv
<1> QED
  BY <1>2, <1>3, <1>4, <1>5, <1>6, <1>7, <1>8 DEF Next

(* WholeInv holds in the initial states.                                   *)
LEMMA WholeInit == ASSUME Init PROVE WholeInv
<1>1. /\ BufferInv /\ inbox = <<>> /\ off = 0 /\ rx_remainder_len = 0
      /\ frame_cursor = 0 /\ garbled = FALSE /\ lost = FALSE /\ peer = "None"
      /\ partial = 0 /\ sent = <<>> /\ got = <<>> /\ pc = "start"
      /\ result = "none"
  BY BufferInit DEF Init, StreamInit
<1>2. /\ ws.state # "Open" /\ ws.continuation_read.op_code = "None"
  BY DEF Init, new_websocket, NoContinuation
<1>3. Len(<<>>) = 0 /\ <<>> \in Seq(Frame)
  OBVIOUS
<1>4. BetweenFrames(<<>>, 0)
  <2>1. Lengths(<<>>)[0] = 0
    BY <1>3, LengthsDef DEF SumsTo
  <2>2. 0 \in 0..Len(<<>>)
    BY <1>3
  <2> QED
    BY <2>1, <2>2 DEF BetweenFrames
<1>5. AtFrame
  BY <1>1, <1>2, <1>3, <1>4, NothingCarried DEF AtFrame
<1>6. Orderly(inbox, peer)
  BY <1>1, <1>3 DEF Orderly
<1>7. Stages /\ NoneMeansClosed /\ FailsForAReason
  BY <1>1, <1>2 DEF Stages, NoneMeansClosed, FailsForAReason
<1> QED
  BY <1>1, <1>5, <1>6, <1>7 DEF WholeInv

(***************************************************************************)
(* read returns None, upon which the examples say that the connection is   *)
(* closed, only if the closing handshake is complete or the stream has     *)
(* ended: as long as messages are not fragmented, of which the framer      *)
(* reports each piece but the last with None, and chunks end between       *)
(* frames, of which it reports the first part with None as well.  The      *)
(* third condition is that the buffer has room for what the peer may have  *)
(* under way, which the framer does not make sure of.                      *)
(***************************************************************************)
THEOREM ClosedCorrect ==
  ASSUME Cuts = "frames", FragmentMessages = FALSE, HasRoom
  PROVE  Spec => []NoneMeansClosed
<1> WholeStream
  BY DEF WholeStream
<1>1. WholeInv /\ [Next]_vars => WholeInv'
  BY WholeStep
<1>2. WholeInv => NoneMeansClosed
  BY DEF WholeInv
<1> QED
  BY <1>1, <1>2, WholeInit, PTL DEF Spec

(***************************************************************************)
(* Under these conditions no call panics or fails but for the stream or    *)
(* the server, or because of a Ping after the application has closed: the  *)
(* space for the answer never begins before the buffer does, a message is  *)
(* never larger than the space ahead of the bytes kept, and a chunk never  *)
(* larger than the buffer.                                                 *)
(***************************************************************************)
THEOREM FailuresCorrect ==
  ASSUME Cuts = "frames", FragmentMessages = FALSE, HasRoom
  PROVE  Spec => []FailsForAReason
<1> WholeStream
  BY DEF WholeStream
<1>1. WholeInv /\ [Next]_vars => WholeInv'
  BY WholeStep
<1>2. WholeInv => FailsForAReason
  BY DEF WholeInv
<1> QED
  BY <1>1, <1>2, WholeInit, PTL DEF Spec

(***************************************************************************)
(* And the framer implements the message channel: each step sends a        *)
(* message, hands over the next one, whole and with its own bytes, or is   *)
(* no step of it.                                                          *)
(***************************************************************************)
THEOREM ChannelImplemented ==
  ASSUME Cuts = "frames", FragmentMessages = FALSE, HasRoom
  PROVE  Spec => ImplementsMessageChannel
<1> WholeStream
  BY DEF WholeStream
<1>1. Init => WholeInv /\ MC!Init
  BY WholeInit DEF Init, StreamInit, MC!Init
<1>2. WholeInv /\ [Next]_vars => WholeInv' /\ [MC!Next]_(MC!vars)
  <2> SUFFICES ASSUME WholeInv, [Next]_vars
               PROVE  WholeInv' /\ [MC!Next]_(MC!vars)
    OBVIOUS
  <2>1. WholeInv' /\ Channels
    BY WholeStep
  <2>2. Channels => MC!Next \/ UNCHANGED MC!vars
    BY DEF Channels, Delivers, MC!Next, MC!Send, MC!Receive, MC!vars
  <2> QED
    BY <2>1, <2>2
<1> QED
  BY <1>1, <1>2, PTL DEF Spec, ImplementsMessageChannel, MC!Safety
=============================================================================
