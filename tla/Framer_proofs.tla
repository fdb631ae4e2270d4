---------------------------- MODULE Framer_proofs ----------------------------
(***************************************************************************)
(* Proofs about Framer, for all lengths, buffer sizes and cuts.  A framer  *)
(* adds to the codec three cursors: where the chunk being read is used up, *)
(* where it ends, and how much of a message the frame buffer holds.  The   *)
(* proofs relate them to the position of the codec in the stream.          *)
(***************************************************************************)
EXTENDS Framer, ByteStream_proofs, SequenceTheorems

-----------------------------------------------------------------------------
(* The steps of the framer, as the lemmas of Reading_proofs see them.      *)

\* What send_back returns: an error, or a frame with all of the payload (if
\* it is cut to write_buf there is no room for its header), and then the
\* websocket has been open.
SentBack(w, m, len, s) ==
  /\ s.ws \in WebSocket /\ s.ret \in Return
  /\ ReaderUntouched(w, s)
  /\ \/ s.ws.state = w.state
     \/ w.state \in {"Open", "CloseReceived"} /\ s.ws.state = "Closed"
  /\ s.ret.err \in {"None", "WebSocketNotOpen", "WriteToBufferTooSmall"}
  /\ s.ret.err = "None" =>
       /\ w.state \in {"Open", "CloseReceived"}
       /\ s.ws = after_write(w, m, TRUE)
       /\ \E f \in Frame :
            /\ s.sent = <<f>> /\ f.op_code = write_op_code(w, m)
            /\ f.fin /\ f.len = len

(* It does so.                                                             *)
LEMMA SendBack ==
  ASSUME NEW w \in WebSocket, NEW m \in SendMessageType, NEW len \in Nat
  PROVE  SentBack(w, m, len, send_back(w, m, len))
<1> DEFINE n == IF WriteBufLen <= len THEN WriteBufLen ELSE len
           s == write(w, m, TRUE, n, "InternalServerError", WriteBufLen)
<1>1. /\ n \in Nat /\ n <= len /\ n <= WriteBufLen
      /\ n = len \/ n = WriteBufLen
      /\ WriteBufLen \in Nat
  BY FramerAssumption
<1>2. send_back(w, m, len) = s
  BY DEF send_back
<1>3. "InternalServerError" \in CloseStatus /\ TRUE \in BOOLEAN
  BY CloseStatusAssumption
<1> HIDE DEF n
<1>4. /\ s.ws \in WebSocket /\ s.ret \in Return
      /\ s.sent = <<>> \/ \E f \in Frame : s.sent = <<f>>
  <2>1. n \in Nat /\ WriteBufLen \in Nat
    BY <1>1
  <2> QED
    BY <1>3, <2>1, WriteType, ZenonT(40)
<1>5. /\ ReaderUntouched(w, s)
      /\ \/ s.ws.state = w.state
         \/ w.state \in {"Open", "CloseReceived"} /\ s.ws.state = "Closed"
  BY <1>3, WriteEffect
<1>6. CASE w.state \notin {"Open", "CloseReceived"}
  <2>1. s.ret.err = "WebSocketNotOpen"
    BY <1>6 DEF write, refused, returns
  <2> QED
    BY <1>2, <1>4, <1>5, <2>1 DEF SentBack
<1>7. CASE w.state \in {"Open", "CloseReceived"}
  <2> DEFINE g == encode_frame(w, write_op_code(w, m), TRUE, n,
                               "InternalServerError", to_op_code(m))
  <2>1. /\ s.ret.err = write_frame(g, WriteBufLen).err
        /\ s.sent = write_frame(g, WriteBufLen).sent
        /\ s.ws = after_write(w, m, TRUE)
    BY <1>7 DEF write, returns
  <2>2. g.len = n /\ g.fin /\ g.op_code = write_op_code(w, m)
    BY DEF encode_frame
  <2> HIDE DEF g
  <2>3. /\ s.ret.err \in {"None", "WriteToBufferTooSmall"}
        /\ s.ret.err = "None" => s.sent = <<g>>
        /\ s.ret.err = "None" => ~(WriteBufLen < FrameLen(g))
    BY <2>1 DEF write_frame
  <2>4. s.ret.err = "None" => g \in Frame
    <3>1. \A sq : sq = <<g>> /\ (sq = <<>> \/ \E f \in Frame : sq = <<f>>)
                   => g \in Frame
      OBVIOUS
    <3> QED
      BY <1>4, <2>3, <3>1
  <2>5. s.ret.err = "None" => n = len
    <3>1. g \in Frame =>
            /\ FrameLen(g) \in Nat /\ HeaderLen(g) \in Nat
            /\ HeaderLen(g) >= 2 /\ FrameLen(g) = HeaderLen(g) + n
      BY <2>2, FrameLenType
    <3>2. \A a, b \in Nat : b >= 2 /\ a = b + n /\ ~(WriteBufLen < a)
                            => n # WriteBufLen
      BY <1>1
    <3> QED
      BY <1>1, <2>3, <2>4, <3>1, <3>2
  <2> QED
    BY <1>1, <1>2, <1>4, <1>5, <1>7, <2>1, <2>2, <2>3, <2>4, <2>5 DEF SentBack
<1> QED
  BY <1>6, <1>7

-----------------------------------------------------------------------------
(* Types, and the cursors of the chunk.                                    *)

TypeInv ==
  /\ TypeOK
  /\ {read_cursor, read_len, frame_cursor} \subseteq Nat
  /\ read_len = 0 \/ read_cursor <= read_len
  /\ pc = "decoding" => read_cursor < read_len
  /\ pc \in {"start", "connecting"} => read_len = 0
  /\ pc = "done" <=> result = "Closed"

(* TypeInv holds in the initial states.                                    *)
LEMMA TypeInit == ASSUME Init PROVE TypeInv
<1>1. ws \in WebSocket
  BY NewWebSocketType, FramerAssumption DEF Init
<1>2. \A S : <<>> \in Seq(S)
  OBVIOUS
<1>3. inbox \in Seq(Frame) /\ sent \in Seq(Message) /\ got \in Seq(Received)
  BY <1>2 DEF Init, StreamInit
<1>4. http \in Nat /\ off \in Nat /\ partial \in Nat /\ ended \in BOOLEAN
      /\ peer \in Wire
  BY DEF Init, StreamInit, Wire
<1>5. StreamTypeOK
  BY <1>3, <1>4 DEF StreamTypeOK
<1>6. 0 \in 0..ReadBufLen /\ 0 \in 0..FrameBufLen
  BY FramerAssumption
<1> QED
  BY <1>1, <1>3, <1>5, <1>6 DEF Init, TypeInv, TypeOK, PC, Result, Wire

\* What a round of the inner loop makes of what read has returned.
Outcome(r) ==
  \/ /\ r.ret.err # "None" /\ ws' = r.ws /\ Fails(r.ret.err)
     /\ UNCHANGED <<frame_cursor, got, tx>>
  \/ /\ r.ret.err = "None" /\ r.ret.message_type \in {"Text", "Binary"}
     /\ Collects(r.ws, r.ret)
  \/ /\ r.ret.err = "None" /\ r.ret.message_type = "CloseMustReply"
     /\ RepliesToClose(r.ws, r.ret)
  \/ /\ r.ret.err = "None" /\ r.ret.message_type = "Ping"
     /\ AnswersPing(r.ws, r.ret)
  \/ r.ret.err = "None" /\ HandsOver(r.ws, r.ret)

\* A round of the inner loop.
Round(r, from, to) ==
  /\ from = read_len - read_cursor /\ to = FrameBufLen - frame_cursor
  /\ from \in Nat /\ from > 0 /\ to \in Nat /\ to > 0
  /\ r = read(ws, At(inbox), "InternalServerError", from, to)
  /\ r.ws \in WebSocket /\ r.ret \in Return
  /\ r.ret.len_from <= from /\ r.ret.len_to <= to
  /\ read_cursor' = read_cursor + r.ret.len_from
  /\ inbox' = FramesAfter(inbox, off, r.ret.len_from)
  /\ off' = OffAfter(inbox, off, r.ret.len_from)
  /\ Outcome(r)
  /\ pc = "decoding" /\ UNCHANGED <<read_len, http, ended, sender>>

(* Decode is such a round.                                                 *)
LEMMA DecodeMeans ==
  ASSUME TypeInv, Decode
  PROVE  \E r, from, to : Round(r, from, to)
<1> DEFINE from == read_len - read_cursor
           to == FrameBufLen - frame_cursor
           r == read(ws, Current, "InternalServerError", from, to)
<1>1. /\ pc = "decoding" /\ frame_cursor < FrameBufLen
      /\ Consume(r.ret.len_from)
      /\ IF r.ret.err # "None"
         THEN /\ ws' = r.ws /\ Fails(r.ret.err)
              /\ UNCHANGED <<frame_cursor, got, tx>>
         ELSE CASE r.ret.message_type \in {"Text", "Binary"} ->
                     Collects(r.ws, r.ret)
                [] r.ret.message_type = "CloseMustReply" ->
                     RepliesToClose(r.ws, r.ret)
                [] r.ret.message_type = "Ping" -> AnswersPing(r.ws, r.ret)
                [] OTHER -> HandsOver(r.ws, r.ret)
      /\ UNCHANGED <<read_len, http, ended, sender>>
  BY DEF Decode
<1>2. from \in Nat /\ from > 0
  BY <1>1 DEF TypeInv, TypeOK
<1>3. to \in Nat /\ to > 0
  <2>1. \A a, b \in Nat : a < b => b - a \in Nat /\ b - a > 0
    OBVIOUS
  <2> QED
    BY <1>1, <2>1, FramerAssumption DEF TypeInv
<1>4. Current = At(inbox) /\ At(inbox) \in Frame /\ ws \in WebSocket
  BY TakesMeans, AtType DEF TypeInv, TypeOK, StreamTypeOK
<1> HIDE DEF from, to
<1>5. /\ r.ws \in WebSocket /\ r.ret \in Return
      /\ r.ret.len_from <= from /\ r.ret.len_to <= to
  BY <1>2, <1>3, <1>4, ReadType, ReadTakes, ReadGives, CloseStatusAssumption
<1>6. r = read(ws, At(inbox), "InternalServerError", from, to)
  BY <1>4
<1> HIDE DEF r
<1>7. Outcome(r)
  <2>1. CASE r.ret.err # "None"
    BY <1>1, <2>1 DEF Outcome
  <2>2. CASE r.ret.err = "None"
    BY <1>1, <2>2 DEF Outcome
  <2> QED
    BY <2>1, <2>2
<1>8. /\ read_cursor' = read_cursor + r.ret.len_from
      /\ inbox' = FramesAfter(inbox, off, r.ret.len_from)
      /\ off' = OffAfter(inbox, off, r.ret.len_from)
  BY <1>1, TakesMeans DEF Consume
<1>9. Round(r, from, to)
  BY <1>1, <1>2, <1>3, <1>5, <1>6, <1>7, <1>8 DEF Round, from, to
<1> QED
  BY <1>9

(* The place of the frames written in their sequence is one of Wire.       *)
LEMMA EmitsType ==
  ASSUME tx \in Wire, NEW s, Emits(s), NEW f \in Frame, s.sent = <<f>>
  PROVE  tx' \in Wire
<1>1. Head(s.sent) = f
  OBVIOUS
<1> QED
  BY <1>1, WireAfterType DEF Emits

(* A round of the inner loop keeps the types.                              *)
LEMMA RoundType ==
  ASSUME TypeInv, NEW r, NEW from, NEW to, Round(r, from, to)
  PROVE  TypeInv'
<1> DEFINE l == r.ret.len_from
<1>1. /\ TypeOK /\ l \in Nat /\ r.ret.len_to \in Nat /\ l <= from
      /\ from = read_len - read_cursor /\ from \in Nat /\ from > 0
      /\ r.ws \in WebSocket /\ r.ret.err \in Error
      /\ read_cursor' = read_cursor + l /\ read_len' = read_len
      /\ {read_cursor, read_len, frame_cursor} \subseteq Nat
      /\ read_len \in 0..ReadBufLen /\ frame_cursor \in 0..FrameBufLen
      /\ r.ret.len_to <= FrameBufLen - frame_cursor
      /\ ReadBufLen \in Nat /\ FrameBufLen \in Nat
  BY FramerAssumption DEF TypeInv, TypeOK, Round, Return
<1>2. StreamTypeOK'
  <2>1. inbox' \in Seq(Frame) /\ off' \in Nat
    BY <1>1, AfterType DEF Round, TypeOK, StreamTypeOK
  <2> QED
    BY <1>1, <2>1 DEF Round, TypeOK, StreamTypeOK, sender
<1>3. /\ read_cursor' \in Nat /\ read_len' \in Nat
      /\ read_cursor' <= read_len'
      /\ {read_cursor', read_len'} \subseteq 0..ReadBufLen
  <2>1. \A c, a, b \in Nat : a <= b - c => c + a \in Nat /\ c + a <= b
    OBVIOUS
  <2>2. read_cursor' \in Nat /\ read_cursor' <= read_len'
    BY <1>1, <2>1
  <2> QED
    BY <1>1, <2>2
<1>4. Outcome(r) /\ frame_cursor \in 0..FrameBufLen /\ got \in Seq(Received)
      /\ tx \in Wire /\ pc = "decoding" /\ result \in Result
  BY <1>1 DEF Round, TypeOK
<1>5. \A v \in Error : v \in Result /\ v # "Closed"
  BY DEF Error, Result
<1> DEFINE Rest == /\ ws' \in WebSocket /\ frame_cursor' \in 0..FrameBufLen
                   /\ got' \in Seq(Received) /\ tx' \in Wire
                   /\ pc' \in PC \ {"start", "connecting"}
                   /\ result' \in Result
                   /\ pc' = "decoding" => read_cursor' # read_len'
                   /\ pc' = "done" <=> result' = "Closed"
<1>6. ASSUME NEW error \in Result, Fails(error), error # "Closed"
      PROVE  /\ pc' \in PC \ {"start", "connecting"} /\ result' \in Result
             /\ pc' = "decoding" => read_cursor' # read_len'
             /\ pc' = "done" <=> result' = "Closed"
  BY <1>6 DEF Fails, PC
<1>7. ASSUME GoesOn
      PROVE  /\ pc' \in PC \ {"start", "connecting"} /\ result' \in Result
             /\ pc' = "decoding" => read_cursor' # read_len'
             /\ pc' = "done" <=> result' = "Closed"
  BY <1>1, <1>4, <1>7 DEF GoesOn, PC, TypeInv
<1>8. ASSUME NEW value \in {"Text", "Binary", "Pong", "Closed"},
             Returns(value)
      PROVE  /\ pc' \in PC \ {"start", "connecting"} /\ result' \in Result
             /\ pc' = "decoding" => read_cursor' # read_len'
             /\ pc' = "done" <=> result' = "Closed"
  BY <1>8 DEF Returns, PC, Result
<1>9. ASSUME NEW type \in {"Text", "Binary", "Ping", "Pong"}, NEW len \in Nat,
             Receives(type, len)
      PROVE  got' \in Seq(Received)
  <2> DEFINE m == [type |-> type, len |-> len]
  <2>1. m \in Received /\ got' = Append(got, m)
    BY <1>9 DEF Receives, Received
  <2> HIDE DEF m
  <2> QED
    BY <1>4, <2>1
<1>10. ASSUME Rest
       PROVE  TypeInv'
  <2>1. pc' = "decoding" => read_cursor' < read_len'
    BY <1>3, <1>10
  <2>2. TypeOK'
    BY <1>2, <1>3, <1>10 DEF TypeOK
  <2>3. frame_cursor' \in Nat
    BY <1>1, <1>10
  <2> QED
    BY <1>3, <1>10, <2>1, <2>2, <2>3 DEF TypeInv
<1> SUFFICES Rest
  BY <1>10
<1>11. CASE r.ret.err # "None" /\ ws' = r.ws /\ Fails(r.ret.err)
            /\ UNCHANGED <<frame_cursor, got, tx>>
  <2>1. r.ret.err \in Result /\ r.ret.err # "Closed"
    BY <1>1, <1>5
  <2> QED
    BY <1>1, <1>4, <1>6, <1>11, <2>1
<1>12. CASE r.ret.message_type \in {"Text", "Binary"}
            /\ Collects(r.ws, r.ret)
  <2>1. /\ frame_cursor + r.ret.len_to \in 0..FrameBufLen
        /\ frame_cursor + r.ret.len_to \in Nat /\ 0 \in 0..FrameBufLen
    BY <1>1
  <2>2. CASE r.ret.end_of_message
    BY <1>1, <1>4, <1>8, <1>9, <1>12, <2>1, <2>2 DEF Collects
  <2>3. CASE ~r.ret.end_of_message
    BY <1>1, <1>4, <1>7, <1>12, <2>1, <2>3 DEF Collects
  <2> QED
    BY <2>2, <2>3
<1>13. CASE RepliesToClose(r.ws, r.ret)
  <2> DEFINE s == send_back(r.ws, "CloseReply", r.ret.len_to)
  <2>0. SentBack(r.ws, "CloseReply", r.ret.len_to, s)
    BY <1>1, SendBack DEF SendMessageType
  <2>2. /\ ws' = s.ws
        /\ \/ s.ret.err = "None" /\ Emits(s) /\ Returns("Closed")
           \/ s.ret.err = "None" /\ Failures /\ UNCHANGED tx /\ Fails("Io")
           \/ s.ret.err # "None" /\ UNCHANGED tx /\ Fails(s.ret.err)
        /\ UNCHANGED <<frame_cursor, got>>
    BY <1>13 DEF RepliesToClose
  <2> HIDE DEF s
  <2>1. /\ s.ws \in WebSocket /\ s.ret \in Return
        /\ s.ret.err = "None" => \E f \in Frame : s.sent = <<f>>
    BY <2>0 DEF SentBack
  <2>3. s.ret.err \in Result /\ s.ret.err # "Closed"
    BY <1>5, <2>1 DEF Return
  <2>4. "Io" \in Result
    BY DEF Result
  <2>5. CASE s.ret.err = "None" /\ Emits(s) /\ Returns("Closed")
    <3> PICK f \in Frame : s.sent = <<f>>
      BY <2>1, <2>5
    <3> QED
      BY <1>4, <1>8, <2>1, <2>2, <2>5, EmitsType
  <2>6. CASE UNCHANGED tx /\ (Fails("Io") \/ Fails(s.ret.err))
    BY <1>4, <1>6, <2>1, <2>2, <2>3, <2>4, <2>6
  <2> QED
    BY <2>2, <2>5, <2>6
<1>14. CASE AnswersPing(r.ws, r.ret)
  <2> DEFINE s == send_back(r.ws, "Pong", r.ret.len_to)
  <2>0. SentBack(r.ws, "Pong", r.ret.len_to, s)
    BY <1>1, SendBack DEF SendMessageType
  <2>2. /\ ws' = s.ws
        /\ \/ /\ s.ret.err = "None" /\ Emits(s)
              /\ Receives("Ping", Head(s.sent).len)
              /\ GoesOn
           \/ UNCHANGED <<tx, got>> /\ (Fails("Io") \/ Fails(s.ret.err))
        /\ UNCHANGED frame_cursor
    BY <1>14 DEF AnswersPing
  <2> HIDE DEF s
  <2>1. /\ s.ws \in WebSocket /\ s.ret \in Return
        /\ s.ret.err = "None" => \E f \in Frame : s.sent = <<f>>
    BY <2>0 DEF SentBack
  <2>3. s.ret.err \in Result /\ s.ret.err # "Closed"
    BY <1>5, <2>1 DEF Return
  <2>4. "Io" \in Result
    BY DEF Result
  <2>5. CASE s.ret.err = "None" /\ Emits(s) /\ GoesOn
             /\ Receives("Ping", Head(s.sent).len)
    <3> PICK f \in Frame : s.sent = <<f>>
      BY <2>1, <2>5
    <3>1. Head(s.sent).len \in Nat
      BY DEF Frame
    <3> QED
      BY <1>4, <1>7, <1>9, <2>1, <2>2, <2>5, <3>1, EmitsType
  <2>6. CASE UNCHANGED <<tx, got>> /\ (Fails("Io") \/ Fails(s.ret.err))
    BY <1>4, <1>6, <2>1, <2>2, <2>3, <2>4, <2>6
  <2> QED
    BY <2>2, <2>5, <2>6
<1>15. CASE HandsOver(r.ws, r.ret)
  BY <1>1, <1>4, <1>8, <1>9, <1>15 DEF HandsOver
<1> QED
  BY <1>4, <1>11, <1>12, <1>13, <1>14, <1>15 DEF Outcome

\* The application writes a frame between the calls of read.
Writing(s) ==
  /\ pc = "idle" /\ ws.state = "Open"
  /\ \E len \in {1, 2} : Writes(ws, s, len, WriteBufLen)
  /\ s.ws.state \in {"Open", "CloseSent"}
  /\ AppCloses = FALSE =>
       /\ s.ws.state = "Open"
       /\ 7 <= WriteBufLen => s.ret.err = "None"
  /\ AppFragments = FALSE =>
       \A p : OnWire(ws, p) => WritesWhole(ws, p, s)
  /\ WritesFrame(s)

(* Write and Close do so.                                                  *)
LEMMA WritingMeans ==
  ASSUME TypeInv, Write \/ Close
  PROVE  \E s : Writing(s)
<1>1. ws \in WebSocket /\ WriteBufLen \in Nat
  BY FramerAssumption DEF TypeInv, TypeOK
<1>2. CASE Write
  <2> PICK e \in BOOLEAN :
        /\ AppFragments \/ e
        /\ WritesFrame(write(ws, "Text", e, 1, "InternalServerError",
                             WriteBufLen))
    BY <1>2 DEF Write
  <2> DEFINE s == write(ws, "Text", e, 1, "InternalServerError", WriteBufLen)
  <2>1. pc = "idle" /\ ws.state = "Open"
    BY <1>2 DEF Write
  <2>2. "Text" \in SendMessageType /\ 1 \in Nat
    BY DEF SendMessageType
  <2>3. /\ Writes(ws, s, 1, WriteBufLen) /\ s.ws.state = "Open"
        /\ 1 + length_bytes(1) + 6 <= WriteBufLen => s.ret.err = "None"
    BY <1>1, <2>1, <2>2, WriteWrites DEF WritesMessage
  <2>4. 1 + length_bytes(1) + 6 = 7
    BY DEF length_bytes
  <2>5. ASSUME AppFragments = FALSE, NEW p, OnWire(ws, p)
        PROVE  WritesWhole(ws, p, s)
    <3>1. e = TRUE
      BY <2>5
    <3>2. WritesWhole(ws, p, write(ws, "Text", TRUE, 1, "InternalServerError",
                                   WriteBufLen))
      BY <1>1, <2>2, <2>5, WriteWhole
    <3> QED
      BY <3>1, <3>2
  <2>6. WritesFrame(s)
    OBVIOUS
  <2> HIDE DEF s
  <2>7. \E len \in {1, 2} : Writes(ws, s, len, WriteBufLen)
    BY <2>3
  <2>8. Writing(s)
    BY <2>1, <2>3, <2>4, <2>5, <2>6, <2>7 DEF Writing
  <2> QED
    BY <2>8
<1>3. CASE Close
  <2> DEFINE s == close(ws, "InternalServerError", 0, WriteBufLen)
  <2>1. pc = "idle" /\ ws.state = "Open" /\ WritesFrame(s) /\ AppCloses
    BY <1>3 DEF Close
  <2>2. Writes(ws, s, 2, WriteBufLen) /\ s.ws.state = "CloseSent"
    BY <1>1, <2>1, CloseWrites
  <2>3. \A p : OnWire(ws, p) => WritesWhole(ws, p, s)
    BY <1>1, CloseWhole
  <2> HIDE DEF s
  <2>4. \E len \in {1, 2} : Writes(ws, s, len, WriteBufLen)
    BY <2>2
  <2>5. Writing(s)
    BY <2>1, <2>2, <2>3, <2>4 DEF Writing
  <2> QED
    BY <2>5
<1> QED
  BY <1>2, <1>3

(* A call that writes, between the calls of read, keeps the types.         *)
LEMMA WritingType ==
  ASSUME TypeInv, NEW s, Writing(s)
  PROVE  /\ ws' \in WebSocket /\ tx' \in Wire
         /\ \/ pc' = pc /\ result' = result
            \/ pc' = "failed" /\ result' \in Result \ {"Closed"}
<1>1. tx \in Wire
  BY DEF TypeInv, TypeOK
<1> PICK len \in {1, 2} : Writes(ws, s, len, WriteBufLen)
  BY DEF Writing
<1>2. /\ s.ws \in WebSocket /\ s.ret.err \in Error
      /\ s.ret.err = "None" => \E f \in Frame : s.sent = <<f>>
  BY DEF Writes, SendsWithin, Return
<1>3. /\ ws' = s.ws
      /\ \/ s.ret.err = "None" /\ Emits(s) /\ UNCHANGED <<pc, result>>
         \/ UNCHANGED tx /\ (Fails("Io") \/ Fails(s.ret.err))
  BY DEF Writing, WritesFrame
<1>4. /\ "Io" \in Result /\ "Io" # "Closed"
      /\ s.ret.err \in Result /\ s.ret.err # "Closed"
  BY <1>2 DEF Result, Error
<1>5. CASE s.ret.err = "None" /\ Emits(s) /\ UNCHANGED <<pc, result>>
  <2> PICK f \in Frame : s.sent = <<f>>
    BY <1>2, <1>5
  <2> QED
    BY <1>1, <1>2, <1>3, <1>5, EmitsType
<1>6. CASE UNCHANGED tx /\ (Fails("Io") \/ Fails(s.ret.err))
  BY <1>1, <1>2, <1>3, <1>4, <1>6 DEF Fails
<1> QED
  BY <1>3, <1>5, <1>6

\* A round of the loop of connect that has read n bytes of the response.
Accepted(n, r) ==
  /\ n \in Nat /\ read_cursor + n <= ReadBufLen
  /\ OpeningStep(ws, r) /\ r.ws \in WebSocket /\ r.ret.err \in Error
  /\ r.ret.err = "None" => r.ws.state = "Open" /\ read_cursor + n >= HttpLen
  /\ r.ret.err = "HttpHeaderIncomplete" => read_cursor + n < HttpLen
  /\ r.ret.err \notin {"None", "HttpHeaderIncomplete"} =>
       ws.state = "Open" \/ Failures = TRUE

GoesOnConnecting(n, r) ==
  \/ /\ r.ret.err = "HttpHeaderIncomplete" /\ pc' = pc /\ result' = result
     /\ read_cursor' = read_cursor + n
  \/ /\ r.ret.err = "None" /\ n < HttpLen
     /\ Fails("Panic") /\ read_cursor' = read_cursor
  \/ /\ r.ret.err = "None" /\ pc' = "idle" /\ result' = result
     /\ read_cursor' = read_cursor + n - HttpLen
  \/ /\ r.ret.err \notin {"None", "HttpHeaderIncomplete"}
     /\ Fails(r.ret.err) /\ read_cursor' = read_cursor + n

Connected(n, r) ==
  /\ Accepted(n, r)
  /\ HttpAlone = TRUE => n = http
  /\ ws' = r.ws /\ http' \in Nat
  /\ GoesOnConnecting(n, r)
  /\ pc = "connecting"
  /\ UNCHANGED <<read_len, frame_cursor, inbox, off, ended, sender, got, tx>>

(* ConnectReads is such a round.                                           *)
LEMMA ConnectReadsMeans ==
  ASSUME TypeInv, ConnectReads
  PROVE  \E n, r : Connected(n, r)
<1>1. ws \in WebSocket /\ read_cursor \in Nat /\ http \in Nat
  BY DEF TypeInv, TypeOK, StreamTypeOK
<1> PICK n \in 0..(ReadBufLen - read_cursor),
         answer \in {"None", "HttpError"} :
      LET have == read_cursor + n
          r == client_accept(ws, IF have < HttpLen THEN "HttpHeaderIncomplete"
                                 ELSE answer)
      IN  /\ HttpAlone => n = http
          /\ Failures \/ answer = "None"
          /\ ws' = r.ws
          /\ http' = IF n <= http THEN http - n ELSE 0
          /\ CASE r.ret.err = "HttpHeaderIncomplete" ->
                    read_cursor' = have /\ UNCHANGED <<pc, result>>
               [] r.ret.err = "None" /\ n < HttpLen ->
                    \/ Fails("Panic") /\ UNCHANGED read_cursor
                    \/ /\ read_cursor' = have - HttpLen
                       /\ pc' = "idle" /\ UNCHANGED result
               [] r.ret.err = "None" /\ n >= HttpLen ->
                    /\ read_cursor' = have - HttpLen
                    /\ pc' = "idle" /\ UNCHANGED result
               [] OTHER -> read_cursor' = have /\ Fails(r.ret.err)
  BY DEF ConnectReads
<1> DEFINE a == IF read_cursor + n < HttpLen THEN "HttpHeaderIncomplete"
                ELSE answer
           c == client_accept(ws, a)
<1>2. /\ n \in Nat /\ HttpLen \in Nat /\ a \in Error
      /\ a # "UnexpectedContinuationFrame"
      /\ a = "HttpHeaderIncomplete" <=> read_cursor + n < HttpLen
      /\ a \notin {"None", "HttpHeaderIncomplete"} => Failures = TRUE
      /\ a # "WebsocketAlreadyOpen"
  BY <1>1, FramerAssumption DEF Error
<1>4. /\ HttpAlone = TRUE => n = http
      /\ ws' = c.ws /\ http' \in Nat
      /\ CASE c.ret.err = "HttpHeaderIncomplete" ->
                read_cursor' = read_cursor + n /\ UNCHANGED <<pc, result>>
           [] c.ret.err = "None" /\ n < HttpLen ->
                \/ Fails("Panic") /\ UNCHANGED read_cursor
                \/ /\ read_cursor' = read_cursor + n - HttpLen
                   /\ pc' = "idle" /\ UNCHANGED result
           [] c.ret.err = "None" /\ n >= HttpLen ->
                /\ read_cursor' = read_cursor + n - HttpLen
                /\ pc' = "idle" /\ UNCHANGED result
           [] OTHER -> read_cursor' = read_cursor + n /\ Fails(c.ret.err)
  BY <1>1, <1>2
<1> HIDE DEF a
<1>5. /\ OpeningStep(ws, c) /\ c.ws \in WebSocket /\ c.ret \in Return
      /\ c.ret.err = IF ws.state = "Open" THEN "WebsocketAlreadyOpen" ELSE a
      /\ c.ret.err = "None" => c.ws.state = "Open"
  BY <1>1, <1>2, AcceptReturns
<1> HIDE DEF c
<1>6. c.ret.err \in Error
  BY <1>5 DEF Return
<1>7. GoesOnConnecting(n, c)
  <2>1. CASE c.ret.err = "HttpHeaderIncomplete"
    BY <1>4, <2>1 DEF GoesOnConnecting
  <2>2. CASE c.ret.err = "None"
    <3>1. n < HttpLen \/ n >= HttpLen
      BY <1>2
    <3> QED
      BY <1>4, <2>2, <3>1 DEF GoesOnConnecting
  <2>3. CASE c.ret.err \notin {"None", "HttpHeaderIncomplete"}
    BY <1>4, <2>3 DEF GoesOnConnecting
  <2> QED
    BY <2>1, <2>2, <2>3
<1>8. pc = "connecting"
      /\ UNCHANGED <<read_len, frame_cursor, inbox, off, ended, sender, got,
                     tx>>
  BY DEF ConnectReads
<1>9. Accepted(n, c)
  <2>2. read_cursor + n <= ReadBufLen
    BY <1>1, FramerAssumption
  <2>1. ~(read_cursor + n < HttpLen) => read_cursor + n >= HttpLen
    BY <1>1, <1>2
  <2> QED
    BY <1>2, <1>5, <1>6, <2>1, <2>2 DEF Accepted
<1>10. Connected(n, c)
  BY <1>4, <1>7, <1>8, <1>9 DEF Connected
<1> QED
  BY <1>10

(* TypeInv is preserved by each action.                                    *)
LEMMA TypeStep == ASSUME TypeInv, [Next]_vars PROVE TypeInv'
<1> USE DEF TypeInv
<1>1. /\ TypeOK /\ StreamTypeOK /\ ws \in WebSocket
      /\ read_cursor \in Nat /\ read_len \in Nat /\ frame_cursor \in Nat
      /\ {read_cursor, read_len} \subseteq 0..ReadBufLen
      /\ frame_cursor \in 0..FrameBufLen
      /\ pc \in PC /\ result \in Result /\ got \in Seq(Received)
      /\ tx \in Wire /\ 0 \in 0..ReadBufLen
  BY FramerAssumption DEF TypeOK
<1>2. \A r : r.ws \in WebSocket => (ws' = r.ws => ws' \in WebSocket)
  OBVIOUS
<1>3. "None" \in Error /\ "HttpHeaderIncomplete" \in Error
      /\ "HttpError" \in Error /\ "Io" \in Result /\ "Panic" \in Result
      /\ "FrameTooLarge" \in Result /\ "Closed" \in Result
      /\ Error \subseteq Result
  BY DEF Error, Result
<1>4. CASE PeerSends
  <2>1. StreamTypeOK' /\ UNCHANGED <<framer, got, tx>>
    BY <1>1, <1>4, SendsType, FramerAssumption DEF PeerSends
  <2> QED
    BY <1>1, <2>1 DEF TypeOK, framer
<1>5. CASE PeerEnds
  <2>1. /\ UNCHANGED <<framer, got, tx, http, inbox, off, sender>>
        /\ ended' = TRUE
    BY <1>5 DEF PeerEnds, EndsStream
  <2> QED
    BY <1>1, <2>1 DEF TypeOK, StreamTypeOK, framer, sender
<1>6. CASE Connect
  <2>1. ws' \in WebSocket /\ http' \in Nat
    BY <1>1, <1>3, <1>6, HandshakeType, FramerAssumption
    DEF Connect, StreamTypeOK
  <2>2. /\ UNCHANGED <<read_len, frame_cursor, inbox, off, ended, peer,
                       partial, sent, got, tx>>
        /\ read_cursor' = 0
        /\ \/ pc' = "connecting" /\ UNCHANGED result
           \/ pc' = "failed" /\ result' = "Io"
        /\ pc = "start"
    BY <1>6 DEF Connect, Fails, sender
  <2> QED
    BY <1>1, <1>3, <2>1, <2>2 DEF TypeOK, StreamTypeOK, PC
<1>7. CASE ConnectReads
  <2> PICK n, r : Connected(n, r)
    BY <1>1, <1>7, ConnectReadsMeans
  <2>1. /\ n \in Nat /\ r.ret.err \in Error /\ r.ws \in WebSocket
        /\ r.ret.err = "None" => read_cursor + n >= HttpLen
        /\ read_cursor + n <= ReadBufLen /\ ReadBufLen \in Nat
    BY FramerAssumption DEF Connected, Accepted
  <2>2. /\ ws' \in WebSocket /\ http' \in Nat
        /\ UNCHANGED <<read_len, frame_cursor, inbox, off, ended, peer,
                       partial, sent, got, tx>>
    BY <2>1 DEF Connected, sender
  <2>3. r.ret.err # "Closed" /\ r.ret.err \in Result
    BY <1>3, <2>1 DEF Error
  <2>4. /\ read_cursor' \in Nat /\ read_cursor' \in 0..ReadBufLen
        /\ pc' \in PC \ {"decoding", "done"}
        /\ result' \in Result /\ result' # "Closed"
    <3>1. GoesOnConnecting(n, r) /\ pc = "connecting" /\ HttpLen \in Nat
      BY FramerAssumption DEF Connected
    <3> QED
      BY <1>1, <1>3, <2>1, <2>3, <3>1 DEF GoesOnConnecting, PC, Fails
  <2>5. read_len = 0
    BY DEF Connected
  <2> QED
    BY <1>1, <2>2, <2>4, <2>5 DEF TypeOK, StreamTypeOK
<1>8. CASE Accept
  <2>1. ws' \in WebSocket
    BY <1>1, <1>3, <1>8, HandshakeType DEF Accept
  <2>2. /\ UNCHANGED <<read_cursor, read_len, frame_cursor, http, inbox, off,
                       ended, peer, partial, sent, got, tx>>
        /\ \/ pc' = "idle" /\ UNCHANGED result
           \/ pc' = "failed" /\ result' = "Io"
        /\ pc = "start"
    BY <1>8 DEF Accept, Fails, stream, sender
  <2> QED
    BY <1>1, <1>3, <2>1, <2>2 DEF TypeOK, StreamTypeOK, PC
<1>9. CASE Write \/ Close
  <2> PICK s : Writing(s)
    BY <1>9, WritingMeans
  <2>1. /\ ws' \in WebSocket /\ tx' \in Wire /\ pc = "idle"
        /\ \/ pc' = pc /\ result' = result
           \/ pc' = "failed" /\ result' \in Result \ {"Closed"}
    BY WritingType DEF Writing
  <2>2. UNCHANGED <<read_cursor, read_len, frame_cursor, http, inbox, off,
                    ended, peer, partial, sent, got>>
    BY DEF Writing, WritesFrame, stream, sender
  <2> QED
    BY <1>1, <2>1, <2>2 DEF TypeOK, StreamTypeOK, PC
<1>10. CASE Read
  BY <1>1, <1>10 DEF Read, stream, sender, TypeOK, StreamTypeOK, PC
<1>11. CASE Refill
  <2> PICK n \in 0..ReadBufLen :
        /\ read_len' = n /\ read_cursor' = 0
        /\ IF n = 0 THEN Returns("Closed")
           ELSE pc' = "decoding" /\ UNCHANGED result
    BY <1>11 DEF Refill
  <2>1. UNCHANGED <<ws, frame_cursor, http, inbox, off, ended, peer, partial,
                    sent, got, tx>> /\ pc = "reading"
    BY <1>11 DEF Refill, stream, sender
  <2>2. n \in Nat
    BY FramerAssumption
  <2> QED
    BY <1>1, <1>3, <2>1, <2>2 DEF TypeOK, StreamTypeOK, PC, Returns
<1>12. CASE RefillFails
  BY <1>1, <1>3, <1>12
  DEF RefillFails, Fails, stream, sender, TypeOK, StreamTypeOK, PC
<1>13. CASE Resume
  <2>1. /\ IF read_len = 0 THEN Returns("Closed")
           ELSE pc' = "decoding" /\ UNCHANGED result
        /\ pc = "reading" /\ read_cursor # read_len
    BY <1>13 DEF Resume, Refills
  <2>2. UNCHANGED <<ws, read_cursor, read_len, frame_cursor, http, inbox, off,
                    ended, peer, partial, sent, got, tx>>
    BY <1>13 DEF Resume, stream, sender
  <2> QED
    BY <1>1, <1>3, <2>1, <2>2 DEF TypeOK, StreamTypeOK, PC, Returns
<1>14. CASE Decode
  BY <1>14, DecodeMeans, RoundType
<1>15. CASE DecodeRefuses
  BY <1>1, <1>3, <1>15
  DEF DecodeRefuses, Fails, stream, sender, TypeOK, StreamTypeOK, PC
<1>16. CASE UNCHANGED vars
  BY <1>1, <1>16 DEF vars, framer, stream, sender, TypeOK, StreamTypeOK
<1> QED
  BY <1>4, <1>5, <1>6, <1>7, <1>8, <1>9, <1>10, <1>11, <1>12, <1>13, <1>14,
     <1>15, <1>16 DEF Next

(***************************************************************************)
(* Whatever arrives, in whatever pieces, and whatever the application      *)
(* does, the fields of the framer keep their types: no cursor of read_buf  *)
(* or of frame_buf becomes negative or passes the end of its buffer, where *)
(* Rust would panic.                                                       *)
(***************************************************************************)
THEOREM TypeCorrect == Spec => []TypeOK
<1>1. Init => TypeInv
  BY TypeInit
<1>2. TypeInv /\ [Next]_vars => TypeInv'
  BY TypeStep
<1>3. TypeInv => TypeOK
  BY DEF TypeInv
<1> QED
  BY <1>1, <1>2, <1>3, PTL DEF Spec

-----------------------------------------------------------------------------
(* What the framer writes (OnWire) is between messages after every call.   *)
WireInv ==
  /\ TypeInv
  /\ OnWire(ws, tx)
  /\ pc \in {"start", "connecting"} => tx = "None"

(* Who sends a frame sends something.                                      *)
LEMMA NotEmpty ==
  ASSUME NEW sq, \E f \in Frame : sq = <<f>>
  PROVE  sq # <<>>
OBVIOUS

(* A frame that is sent goes where Emits says, or is not sent.             *)
LEMMA EmitsWhole ==
  ASSUME NEW w, NEW s, WritesWhole(w, tx, s), ws' = s.ws,
         (s.ret.err = "None" /\ Emits(s)) \/ tx' = tx,
         s.ret.err = "None" => s.sent # <<>>
  PROVE  OnWire(ws', tx')
BY DEF WritesWhole, Emits

(* WireInv is preserved by each action.                                    *)
LEMMA WireStep ==
  ASSUME AppFragments = FALSE, WireInv, [Next]_vars PROVE WireInv'
<1>1. TypeInv /\ TypeInv' /\ ws \in WebSocket /\ OnWire(ws, tx)
  BY TypeStep DEF WireInv, TypeInv, TypeOK
<1>2. CASE Write \/ Close
  <2> PICK s : Writing(s)
    BY <1>1, <1>2, WritingMeans
  <2>1. /\ WritesWhole(ws, tx, s) /\ ws' = s.ws
        /\ (s.ret.err = "None" /\ Emits(s)) \/ tx' = tx
        /\ pc' \in {"idle", "failed"}
    BY <1>1 DEF Writing, WritesFrame, Fails
  <2>2. s.ret.err = "None" => s.sent # <<>>
    <3> PICK len \in {1, 2} : Writes(ws, s, len, WriteBufLen)
      BY DEF Writing
    <3>1. s.ret.err = "None" => \E f \in Frame : s.sent = <<f>>
      BY DEF Writes, SendsWithin
    <3> QED
      BY <3>1, NotEmpty
  <2> QED
    BY <1>1, <2>1, <2>2, EmitsWhole DEF WireInv
<1>3. CASE Connect \/ Accept
  <2>1. pc = "start" /\ tx' = tx /\ tx = "None"
    BY <1>1, <1>3 DEF Connect, Accept, WireInv
  <2>2. ws'.is_write_continuation = ws.is_write_continuation
    BY <1>1, <1>3
    DEF Connect, Accept, client_connect, server_accept, handshake, WebSocket
  <2> QED
    BY <1>1, <2>1, <2>2 DEF WireInv, OnWire
<1>4. CASE ConnectReads
  <2>1. pc = "connecting" /\ tx' = tx /\ tx = "None"
    BY <1>1, <1>4 DEF ConnectReads, WireInv
  <2>2. ws'.is_write_continuation = ws.is_write_continuation
    BY <1>1, <1>4 DEF ConnectReads, client_accept, handshake, WebSocket
  <2> QED
    BY <1>1, <2>1, <2>2 DEF WireInv, OnWire
<1>5. CASE Decode
  <2> PICK r, from, to : Round(r, from, to)
    BY <1>1, <1>5, DecodeMeans
  <2>1. /\ r = read(ws, At(inbox), "InternalServerError", from, to)
        /\ from \in Nat /\ to \in Nat /\ r.ws \in WebSocket
        /\ r.ret.len_to \in Nat /\ pc = "decoding" /\ Outcome(r)
    BY DEF Round, Return
  <2>2. At(inbox) \in Frame
    BY <1>1, AtType DEF TypeInv, TypeOK, StreamTypeOK
  <2>3. OnWire(r.ws, tx)
    BY <1>1, <2>1, <2>2, ReadWhole, CloseStatusAssumption
  <2> SUFFICES OnWire(ws', tx')
    <3>1. pc' \notin {"start", "connecting"}
      BY <2>1
      DEF Outcome, Fails, Collects, RepliesToClose, AnswersPing, HandsOver,
          Returns, GoesOn
    <3> QED
      BY <1>1, <3>1 DEF WireInv
  <2>4. CASE ws' = r.ws /\ tx' = tx
    BY <2>3, <2>4
  <2>5. CASE RepliesToClose(r.ws, r.ret)
    <3> DEFINE s == write(r.ws, "CloseReply", TRUE,
                          IF WriteBufLen <= r.ret.len_to THEN WriteBufLen
                          ELSE r.ret.len_to, "InternalServerError",
                          WriteBufLen)
    <3>1. s = send_back(r.ws, "CloseReply", r.ret.len_to)
      BY DEF send_back
    <3>2. WritesWhole(r.ws, tx, s)
      BY <2>1, <2>3, WriteWhole DEF SendMessageType
    <3>3. SentBack(r.ws, "CloseReply", r.ret.len_to, s)
      BY <2>1, <3>1, SendBack DEF SendMessageType
    <3> HIDE DEF s
    <3>4. ws' = s.ws /\ ((s.ret.err = "None" /\ Emits(s)) \/ tx' = tx)
      BY <2>5, <3>1 DEF RepliesToClose
    <3>5. s.ret.err = "None" => \E f \in Frame : s.sent = <<f>>
      BY <3>3 DEF SentBack
    <3>6. s.ret.err = "None" => s.sent # <<>>
      BY <3>5, NotEmpty
    <3> QED
      BY <3>2, <3>4, <3>6, EmitsWhole
  <2>6. CASE AnswersPing(r.ws, r.ret)
    <3> DEFINE s == write(r.ws, "Pong", TRUE,
                          IF WriteBufLen <= r.ret.len_to THEN WriteBufLen
                          ELSE r.ret.len_to, "InternalServerError",
                          WriteBufLen)
    <3>1. s = send_back(r.ws, "Pong", r.ret.len_to)
      BY DEF send_back
    <3>2. WritesWhole(r.ws, tx, s)
      BY <2>1, <2>3, WriteWhole DEF SendMessageType
    <3>3. SentBack(r.ws, "Pong", r.ret.len_to, s)
      BY <2>1, <3>1, SendBack DEF SendMessageType
    <3> HIDE DEF s
    <3>4. ws' = s.ws /\ ((s.ret.err = "None" /\ Emits(s)) \/ tx' = tx)
      BY <2>6, <3>1 DEF AnswersPing
    <3>5. s.ret.err = "None" => \E f \in Frame : s.sent = <<f>>
      BY <3>3 DEF SentBack
    <3>6. s.ret.err = "None" => s.sent # <<>>
      BY <3>5, NotEmpty
    <3> QED
      BY <3>2, <3>4, <3>6, EmitsWhole
  <2> QED
    BY <2>1, <2>4, <2>5, <2>6 DEF Outcome, Collects, HandsOver
<1>6. CASE PeerSends \/ PeerEnds \/ Read \/ Refill \/ RefillFails \/ Resume
           \/ DecodeRefuses \/ UNCHANGED vars
  <2>1. ws' = ws /\ tx' = tx
    BY <1>6 DEF PeerSends, PeerEnds, Read, Refill, RefillFails, Resume,
                DecodeRefuses, vars, framer
  <2>2. pc' \in {"start", "connecting"} => pc' = pc
    BY <1>6 DEF PeerSends, PeerEnds, Read, Refill, RefillFails, Resume,
                DecodeRefuses, vars, framer, Returns, Fails
  <2> QED
    BY <1>1, <2>1, <2>2 DEF WireInv
<1> QED
  BY <1>2, <1>3, <1>4, <1>5, <1>6 DEF Next

(***************************************************************************)
(* The answers of read to Ping and close frames fit in between the frames  *)
(* that the application writes, whatever arrives and however small         *)
(* write_buf is, as long as the application writes whole messages.         *)
(* (Behind a fragment the codec sends a Pong as its continuation.)         *)
(***************************************************************************)
THEOREM WireCorrect ==
  ASSUME AppFragments = FALSE PROVE Spec => []WireWellFormed
<1>1. Init => WireInv
  <2> SUFFICES ASSUME Init PROVE WireInv
    OBVIOUS
  <2>1. TypeInv
    BY TypeInit
  <2> QED
    BY <2>1 DEF Init, WireInv, OnWire, new_websocket
<1>2. WireInv /\ [Next]_vars => WireInv'
  BY WireStep
<1>3. WireInv => WireWellFormed
  BY DEF WireInv, OnWire, WireWellFormed
<1> QED
  BY <1>1, <1>2, <1>3, PTL DEF Spec

-----------------------------------------------------------------------------
(***************************************************************************)
(* The codec and the stream in step (ReaderInv), until a call fails.       *)
(***************************************************************************)
StepInv ==
  /\ TypeInv
  /\ pc # "failed" => ReaderInv(ws, inbox, off)
  /\ pc \in {"start", "connecting"} => ws.continuation_read.op_code = "None"

(* The end of the stream does not matter for the position in its head.     *)
LEMMA AppendKeepsStep ==
  ASSUME NEW w, NEW in, NEW n, ReaderInv(w, in, n), NEW f \in Frame
  PROVE  ReaderInv(w, Append(in, f), n)
<1>1. /\ in \in Seq(Frame) /\ Append(in, f) \in Seq(Frame)
      /\ in # <<>> => Head(Append(in, f)) = Head(in) /\ Append(in, f) # <<>>
  BY DEF ReaderInv
<1>2. Inside(w, in, n) => Inside(w, Append(in, f), n)
  BY <1>1 DEF Inside
<1> QED
  BY <1>1, <1>2 DEF ReaderInv

(* What leaves continuation_read alone leaves the codec in step.           *)
LEMMA SameStep ==
  ASSUME NEW v, NEW in, NEW n, ReaderInv(v, in, n), NEW w \in WebSocket,
         w.continuation_read = v.continuation_read, CloseReadOnce(w)
  PROVE  ReaderInv(w, in, n)
BY DEF ReaderInv, AtBoundary, Inside

(* The fields that the calls between two calls of read leave alone.        *)
ReaderKept(w) ==
  /\ w \in WebSocket
  /\ w.continuation_read = ws.continuation_read
  /\ w.continuation_frame_op_code = ws.continuation_frame_op_code

(* A call that writes leaves the reading side alone.                       *)
LEMMA WritingLeaves ==
  ASSUME TypeInv, NEW s, Writing(s)
  PROVE  /\ ReaderKept(ws') /\ ws.state = "Open"
         /\ pc = "idle" /\ pc' \in {"idle", "failed"}
         /\ UNCHANGED <<frame_cursor, inbox, off, sender, got, read_len,
                        read_cursor>>
<1> PICK len \in {1, 2} : Writes(ws, s, len, WriteBufLen)
  BY DEF Writing
<1>1. ReaderUntouched(ws, s) /\ s.ws \in WebSocket /\ ws' = s.ws
  BY DEF Writes, Writing, WritesFrame
<1> QED
  BY <1>1
  DEF Writing, WritesFrame, Fails, ReaderUntouched, ReaderKept, stream

(* The calls of the opening handshake do so too.                           *)
LEMMA OpeningLeaves ==
  ASSUME TypeInv, Connect \/ ConnectReads \/ Accept
  PROVE  /\ ReaderKept(ws')
         /\ pc \in {"start", "connecting"}
         /\ UNCHANGED <<read_len, frame_cursor, inbox, off, ended, sender,
                        got>>
<1>1. ws \in WebSocket
  BY DEF TypeInv, TypeOK
<1>2. "None" \in Error /\ "None" # "UnexpectedContinuationFrame"
  BY DEF Error
<1>3. \A r : OpeningStep(ws, r) /\ r.ws \in WebSocket /\ ws' = r.ws
               => ReaderKept(ws')
  BY DEF OpeningStep, ReaderKept
<1>4. CASE Connect
  <2>1. ws' = client_connect(ws, "None").ws
    BY <1>4 DEF Connect
  <2>2. OpeningStep(ws, client_connect(ws, "None"))
        /\ client_connect(ws, "None").ws \in WebSocket
    BY <1>1, <1>2, OpeningEffect, HandshakeType
  <2> QED
    BY <1>3, <1>4, <2>1, <2>2 DEF Connect
<1>5. CASE Accept
  <2>1. ws' = server_accept(ws, "None").ws
    BY <1>5 DEF Accept
  <2>2. OpeningStep(ws, server_accept(ws, "None"))
        /\ server_accept(ws, "None").ws \in WebSocket
    BY <1>1, <1>2, OpeningEffect, HandshakeType
  <2> QED
    BY <1>3, <1>5, <2>1, <2>2 DEF Accept, stream
<1>6. CASE ConnectReads
  <2> PICK n, r : Connected(n, r)
    BY <1>6, ConnectReadsMeans
  <2> QED
    BY <1>3 DEF Connected, Accepted
<1> QED
  BY <1>4, <1>5, <1>6

(* An answer of the framer leaves the codec in step.                       *)
LEMMA AnswerKeepsStep ==
  ASSUME NEW v, NEW in, NEW n, ReaderInv(v, in, n),
         NEW m, NEW len, NEW s, SentBack(v, m, len, s)
  PROVE  ReaderInv(s.ws, in, n)
<1>1. /\ s.ws \in WebSocket /\ s.ws.continuation_read = v.continuation_read
      /\ s.ws.state \in {v.state, "Closed"}
  BY DEF SentBack, ReaderUntouched
<1>2. CloseReadOnce(s.ws)
  BY <1>1 DEF ReaderInv, CloseReadOnce
<1> QED
  BY <1>1, <1>2, SameStep

(* A round of the inner loop that does not fail does so too.               *)
LEMMA RoundKeepsStep ==
  ASSUME TypeInv, ReaderInv(ws, inbox, off),
         NEW r, NEW from, NEW to, Round(r, from, to), pc' # "failed"
  PROVE  /\ r.ret.err = "None"
         /\ ReaderInv(r.ws, inbox', off') /\ ReaderInv(ws', inbox', off')
<1>1. /\ Outcome(r) /\ r.ws \in WebSocket /\ r.ret.len_to \in Nat
      /\ r = read(ws, At(inbox), "InternalServerError", from, to)
      /\ from \in Nat /\ to \in Nat
      /\ inbox' = FramesAfter(inbox, off, r.ret.len_from)
      /\ off' = OffAfter(inbox, off, r.ret.len_from)
  BY DEF Round, Return
<1>2. r.ret.err = "None"
  BY <1>1 DEF Outcome, Fails
<1>3. ReaderInv(r.ws, inbox', off')
  BY <1>1, <1>2, ReadKeepsStep, CloseStatusAssumption
<1>4. \/ ws' = r.ws
      \/ \E m \in {"CloseReply", "Pong"} :
           ws' = send_back(r.ws, m, r.ret.len_to).ws
  BY <1>1 DEF Outcome, Collects, HandsOver, RepliesToClose, AnswersPing
<1>5. ASSUME NEW m \in {"CloseReply", "Pong"},
             ws' = send_back(r.ws, m, r.ret.len_to).ws
      PROVE  ReaderInv(ws', inbox', off')
  <2>1. SentBack(r.ws, m, r.ret.len_to, send_back(r.ws, m, r.ret.len_to))
    BY <1>1, SendBack DEF SendMessageType
  <2> QED
    BY <1>3, <1>5, <2>1, AnswerKeepsStep
<1> QED
  BY <1>2, <1>3, <1>4, <1>5

(* StepInv is preserved by each action.                                    *)
LEMMA StepStep == ASSUME StepInv, [Next]_vars PROVE StepInv'
<1>1. /\ TypeInv /\ TypeInv' /\ ws \in WebSocket /\ inbox \in Seq(Frame)
      /\ pc # "failed" => ReaderInv(ws, inbox, off)
  BY TypeStep DEF StepInv, TypeInv, TypeOK, StreamTypeOK
<1>2. CASE PeerSends
  <2> PICK f : PeerSent(f)
    BY <1>1, <1>2, SendsFrameMeans, FramerAssumption
    DEF PeerSends, TypeInv, TypeOK
  <2>1. /\ f \in Frame /\ inbox' = Append(inbox, f) /\ off' = off
        /\ ws' = ws /\ pc' = pc
    BY <1>2 DEF PeerSent, FromPeer, PeerSends, framer
  <2> QED
    BY <1>1, <2>1, AppendKeepsStep DEF StepInv
<1>3. CASE Connect \/ ConnectReads \/ Accept
  <2>1. /\ ReaderKept(ws') /\ pc \in {"start", "connecting"}
        /\ inbox' = inbox /\ off' = off
    BY <1>1, <1>3, OpeningLeaves
  <2>2. CloseReadOnce(ws') /\ ws'.continuation_read.op_code = "None"
    BY <2>1 DEF StepInv, ReaderKept, CloseReadOnce
  <2> QED
    BY <1>1, <2>1, <2>2, SameStep DEF StepInv, ReaderKept
<1>4. CASE Write \/ Close
  <2> PICK s : Writing(s)
    BY <1>1, <1>4, WritingMeans
  <2>1. /\ ReaderKept(ws') /\ ws.state = "Open" /\ pc = "idle"
        /\ pc' \in {"idle", "failed"} /\ inbox' = inbox /\ off' = off
    BY <1>1, WritingLeaves
  <2>2. CloseReadOnce(ws')
    BY <1>1, <2>1 DEF ReaderKept, ReaderInv, CloseReadOnce
  <2> QED
    BY <1>1, <2>1, <2>2, SameStep DEF StepInv, ReaderKept
<1>5. CASE Decode
  <2> PICK r, from, to : Round(r, from, to)
    BY <1>1, <1>5, DecodeMeans
  <2>1. pc = "decoding" /\ Outcome(r)
    BY DEF Round
  <2>2. pc' \notin {"start", "connecting"}
    BY <2>1 DEF Outcome, Fails, Collects, RepliesToClose, AnswersPing,
                HandsOver, Returns, GoesOn
  <2> QED
    BY <1>1, <2>1, <2>2, RoundKeepsStep DEF StepInv
<1>6. CASE PeerEnds \/ Read \/ Refill \/ RefillFails \/ Resume
           \/ DecodeRefuses \/ UNCHANGED vars
  <2>1. UNCHANGED <<ws, inbox, off>>
    BY <1>6 DEF PeerEnds, EndsStream, Read, Refill, RefillFails, Resume,
                DecodeRefuses, vars, framer, stream
  <2>2. pc' # "failed" => pc # "failed"
    BY <1>6 DEF PeerEnds, Read, Refill, RefillFails, Resume,
                DecodeRefuses, vars, framer, Returns, Fails
  <2>3. pc' \in {"start", "connecting"} => pc' = pc
    BY <1>6 DEF PeerEnds, Read, Refill, RefillFails, Resume,
                DecodeRefuses, vars, framer, Returns, Fails
  <2> QED
    BY <1>1, <2>1, <2>2, <2>3 DEF StepInv
<1> QED
  BY <1>2, <1>3, <1>4, <1>5, <1>6 DEF Next

(* StepInv holds in the initial states.                                    *)
LEMMA StepInit == ASSUME Init PROVE StepInv
<1>1. TypeInv
  BY TypeInit
<1>2. ws.continuation_read.op_code = "None" /\ inbox = <<>> /\ off = 0
  BY DEF Init, StreamInit, new_websocket, NoContinuation
<1> QED
  BY <1>1, <1>2
  DEF StepInv, ReaderInv, AtBoundary, CloseReadOnce, TypeInv, TypeOK,
      StreamTypeOK

-----------------------------------------------------------------------------
(* Closed.                                                                 *)

(***************************************************************************)
(* What ClosedMeansClosed rests on: a cursor that is not at the start of   *)
(* the chunk has a chunk, so that the read_len = 0 of the end of the       *)
(* stream is not mistaken for the read_len = 0 of a framer that has not    *)
(* read yet; connect leaves such a cursor behind when frames follow the    *)
(* response in one read.                                                   *)
(***************************************************************************)
ClosedInv ==
  /\ StepInv /\ ClosedMeansClosed
  /\ pc # "failed" => read_cursor = 0 \/ read_len > 0
  /\ pc = "start" => read_cursor = 0
  /\ pc = "connecting" =>
       IsClient = TRUE /\ http = HttpLen /\ read_cursor = 0

(* A round of the inner loop that returns Closed has closed the websocket. *)
LEMMA RoundCloses ==
  ASSUME TypeInv, NEW r, NEW from, NEW to, Round(r, from, to)
  PROVE  result' = "Closed" => ws'.state = "Closed"
<1>1. /\ Outcome(r) /\ r.ret.len_to \in Nat /\ r.ws \in WebSocket
      /\ r = read(ws, At(inbox), "InternalServerError", from, to)
      /\ r.ret.err \in Error /\ ws \in WebSocket /\ pc = "decoding"
  BY DEF Round, Return, TypeInv, TypeOK
<1>2. result # "Closed"
  BY <1>1 DEF TypeInv
<1>3. "Closed" \notin Error
  BY DEF Error
<1>4. CASE RepliesToClose(r.ws, r.ret)
  <2> DEFINE s == send_back(r.ws, "CloseReply", r.ret.len_to)
  <2>1. SentBack(r.ws, "CloseReply", r.ret.len_to, s)
    BY <1>1, SendBack DEF SendMessageType
  <2>2. /\ ws' = s.ws
        /\ s.ret.err = "None" \/ result' \in {"Io", s.ret.err}
    BY <1>4 DEF RepliesToClose, Fails
  <2> HIDE DEF s
  <2>3. s.ret.err = "None" => ws' = after_write(r.ws, "CloseReply", TRUE)
    BY <2>1, <2>2 DEF SentBack
  <2>4. after_write(r.ws, "CloseReply", TRUE).state = "Closed"
    BY <1>1 DEF after_write, WebSocket
  <2>5. s.ret.err \in Error
    BY <2>1 DEF SentBack, Return
  <2> QED
    BY <1>3, <2>2, <2>3, <2>4, <2>5
<1>5. CASE HandsOver(r.ws, r.ret)
  <2>1. ws' = r.ws /\ (result' = "Closed" => r.ret.message_type
                                               = "CloseCompleted")
    BY <1>5 DEF HandsOver, Returns
  <2> QED
    BY <1>1, <2>1, CompletedIsClosed
<1>6. CASE AnswersPing(r.ws, r.ret)
  <2> DEFINE s == send_back(r.ws, "Pong", r.ret.len_to)
  <2>1. SentBack(r.ws, "Pong", r.ret.len_to, s)
    BY <1>1, SendBack DEF SendMessageType
  <2>2. result' \in {result, "Io", s.ret.err}
    BY <1>6 DEF AnswersPing, Fails, GoesOn
  <2> HIDE DEF s
  <2>5. s.ret.err \in Error
    BY <2>1 DEF SentBack, Return
  <2> QED
    BY <1>2, <1>3, <2>2, <2>5
<1>7. CASE r.ret.message_type \in {"Text", "Binary"} /\ Collects(r.ws, r.ret)
  BY <1>2, <1>7 DEF Collects, Returns, GoesOn
<1>8. CASE Fails(r.ret.err)
  BY <1>1, <1>3, <1>8 DEF Fails
<1> QED
  BY <1>1, <1>4, <1>5, <1>6, <1>7, <1>8 DEF Outcome

(* Bytes that the codec has not taken, if there are frames.                *)
LEMMA NothingWaits ==
  ASSUME NEW w, ReaderInv(w, inbox, off), Waiting = 0
  PROVE  inbox = <<>>
<1>1. inbox \in Seq(Frame) /\ off \in Nat
  BY DEF ReaderInv
<1> SUFFICES ASSUME inbox # <<>> PROVE FALSE
  OBVIOUS
<1>2. At(inbox) = Head(inbox) /\ Head(inbox) \in Frame
  BY <1>1, AtType
<1>3. off < FrameLen(Head(inbox))
  BY <1>1, <1>2, FrameLenType DEF ReaderInv, AtBoundary, Inside
<1>4. Bytes(inbox) \in Nat /\ Bytes(inbox) >= FrameLen(Head(inbox))
  BY <1>1, BytesType
<1>5. FrameLen(Head(inbox)) \in Nat
  BY <1>2, FrameLenType
<1> QED
  BY <1>1, <1>3, <1>4, <1>5 DEF Waiting

(* ClosedInv is preserved by each action.                                  *)
LEMMA ClosedStep ==
  ASSUME HttpAlone = TRUE \/ IsClient = FALSE, ClosedInv, [Next]_vars
  PROVE  ClosedInv'
<1>1. /\ StepInv /\ StepInv' /\ TypeInv /\ TypeInv'
      /\ pc # "failed" => ReaderInv(ws, inbox, off)
  BY StepStep DEF ClosedInv, StepInv
<1>2. /\ read_cursor \in Nat /\ read_len \in Nat /\ HttpLen \in Nat
      /\ HttpLen > 0
      /\ pc = "done" <=> result = "Closed"
  BY <1>1, FramerAssumption DEF TypeInv, TypeOK
<1>3. CASE PeerSends
  <2>1. /\ UNCHANGED <<ws, pc, result, read_cursor, read_len>> /\ ~ended
    BY <1>3 DEF PeerSends, SendsFrame, framer
  <2>2. http' = http
    BY <1>3 DEF PeerSends, SendsFrame
  <2> QED
    BY <1>1, <2>1, <2>2 DEF ClosedInv, ClosedMeansClosed
<1>4. CASE PeerEnds
  <2>1. /\ UNCHANGED <<ws, pc, result, read_cursor, read_len, http, inbox>>
        /\ ended' = TRUE
    BY <1>4 DEF PeerEnds, EndsStream, framer
  <2> QED
    BY <1>1, <2>1 DEF ClosedInv, ClosedMeansClosed
<1>5. CASE Connect
  <2>1. /\ IsClient /\ pc = "start" /\ read_cursor' = 0
        /\ \/ pc' = "connecting" /\ http' = HttpLen /\ result' = result
           \/ pc' = "failed" /\ result' = "Io"
    BY <1>5 DEF Connect, Fails
  <2>2. IsClient = TRUE
    BY <2>1, FramerAssumption
  <2> QED
    BY <1>1, <1>2, <2>1, <2>2 DEF ClosedInv, ClosedMeansClosed
<1>6. CASE ConnectReads
  <2> PICK n, r : Connected(n, r)
    BY <1>1, <1>6, ConnectReadsMeans
  <2>1. /\ n = HttpLen /\ read_cursor = 0 /\ pc = "connecting"
        /\ Accepted(n, r) /\ GoesOnConnecting(n, r) /\ read_len' = read_len
        /\ r.ret.err \in Error
    <3>1. pc = "connecting" /\ (HttpAlone = TRUE => n = http)
          /\ Accepted(n, r) /\ GoesOnConnecting(n, r) /\ read_len' = read_len
      BY DEF Connected
    <3>2. IsClient = TRUE /\ http = HttpLen /\ read_cursor = 0
      BY <3>1 DEF ClosedInv
    <3> QED
      BY <3>1, <3>2 DEF Accepted
  <2>2. r.ret.err # "HttpHeaderIncomplete"
    BY <1>2, <2>1 DEF Accepted
  <2>3. \/ pc' = "failed" /\ result' # "Closed"
        \/ pc' = "idle" /\ result' = result /\ read_cursor' = 0
    BY <1>2, <2>1, <2>2 DEF GoesOnConnecting, Fails, Error
  <2> QED
    BY <1>1, <1>2, <2>1, <2>3 DEF ClosedInv, ClosedMeansClosed
<1>7. CASE Accept
  <2>1. /\ pc = "start" /\ read_cursor' = read_cursor
        /\ \/ pc' = "idle" /\ result' = result
           \/ pc' = "failed" /\ result' = "Io"
    BY <1>7 DEF Accept, Fails
  <2> QED
    BY <1>1, <1>2, <2>1 DEF ClosedInv, ClosedMeansClosed
<1>8. CASE Write \/ Close
  <2> PICK s : Writing(s)
    BY <1>1, <1>8, WritingMeans
  <2>1. /\ pc = "idle"
        /\ \/ pc' = pc /\ result' = result
           \/ pc' = "failed" /\ result' # "Closed"
        /\ read_cursor' = read_cursor /\ read_len' = read_len
    BY <1>1, WritingType DEF Writing, WritesFrame
  <2> QED
    BY <1>1, <1>2, <2>1 DEF ClosedInv, ClosedMeansClosed
<1>14. CASE Read
  <2>1. /\ pc = "idle" /\ pc' = "reading" /\ result' = result
        /\ read_cursor' = read_cursor /\ read_len' = read_len
    BY <1>14 DEF Read
  <2> QED
    BY <1>1, <1>2, <2>1 DEF ClosedInv, ClosedMeansClosed
<1>9. CASE Refill
  <2> PICK n \in 0..ReadBufLen :
        /\ n = 0 => ended /\ Waiting = 0
        /\ read_len' = n /\ read_cursor' = 0
        /\ IF n = 0 THEN Returns("Closed")
           ELSE pc' = "decoding" /\ UNCHANGED result
    BY <1>9 DEF Refill
  <2>1. pc = "reading" /\ inbox' = inbox /\ ended' = ended
    BY <1>9 DEF Refill, stream
  <2>2. CASE n = 0
    <3>1. inbox = <<>>
      BY <1>1, <2>1, <2>2, NothingWaits
    <3> QED
      BY <1>1, <2>1, <2>2, <3>1 DEF ClosedInv, ClosedMeansClosed, Returns
  <2>3. CASE n # 0
    BY <1>1, <1>2, <2>1, <2>3 DEF ClosedInv, ClosedMeansClosed
  <2> QED
    BY <2>2, <2>3
<1>10. CASE RefillFails \/ DecodeRefuses
  <2>1. pc' = "failed" /\ result' \in {"Io", "FrameTooLarge"}
    BY <1>10 DEF RefillFails, DecodeRefuses, Fails
  <2> QED
    BY <1>1, <2>1 DEF ClosedInv, ClosedMeansClosed
<1>11. CASE Resume
  <2>1. /\ pc = "reading" /\ ~Refills /\ read_cursor' = read_cursor
        /\ read_len' = read_len
        /\ IF read_len = 0 THEN Returns("Closed")
           ELSE pc' = "decoding" /\ result' = result
    BY <1>11 DEF Resume
  <2>2. read_len > 0
    BY <1>2, <2>1 DEF ClosedInv, Refills
  <2> QED
    BY <1>1, <1>2, <2>1, <2>2 DEF ClosedInv, ClosedMeansClosed
<1>12. CASE Decode
  <2> PICK r, from, to : Round(r, from, to)
    BY <1>1, <1>12, DecodeMeans
  <2>1. result' = "Closed" => ws'.state = "Closed"
    BY <1>1, RoundCloses
  <2>2. pc = "decoding" /\ Outcome(r) /\ read_len' = read_len
    BY DEF Round
  <2>3. pc' \notin {"start", "connecting"}
    BY <2>2 DEF Outcome, Fails, Collects, RepliesToClose, AnswersPing,
                HandsOver, Returns, GoesOn
  <2>4. read_len > 0
    BY <1>1, <1>2, <2>2 DEF TypeInv
  <2> QED
    BY <1>1, <2>1, <2>2, <2>3, <2>4 DEF ClosedInv, ClosedMeansClosed
<1>13. CASE UNCHANGED vars
  BY <1>1, <1>13 DEF vars, framer, stream, ClosedInv, ClosedMeansClosed
<1> QED
  BY <1>3, <1>4, <1>5, <1>6, <1>7, <1>8, <1>9, <1>10, <1>11, <1>12, <1>13,
     <1>14 DEF Next

(***************************************************************************)
(* read reports Closed only if the closing handshake is complete or the    *)
(* stream has ended and all of it has been read, whatever the peer sends   *)
(* and however the stream is cut and fails.  A client needs a response     *)
(* that comes by itself: see run FrameBehindResponse.                      *)
(***************************************************************************)
THEOREM ClosedCorrect ==
  ASSUME HttpAlone = TRUE \/ IsClient = FALSE
  PROVE  Spec => []ClosedMeansClosed
<1>1. Init => ClosedInv
  <2> SUFFICES ASSUME Init PROVE ClosedInv
    OBVIOUS
  <2>1. StepInv
    BY StepInit
  <2> QED
    BY <2>1 DEF Init, ClosedInv, ClosedMeansClosed
<1>2. ClosedInv /\ [Next]_vars => ClosedInv'
  BY ClosedStep
<1>3. ClosedInv => ClosedMeansClosed
  BY DEF ClosedInv
<1> QED
  BY <1>1, <1>2, <1>3, PTL DEF Spec

-----------------------------------------------------------------------------
(***************************************************************************)
(* The messages of the peer.  What is asked of the stream and of frame_buf *)
(* for them to come out: chunks do not end inside the frames that the      *)
(* codec cannot read in parts, and there is room for the longest message   *)
(* and, behind it, for the longest frame.                                  *)
(***************************************************************************)
GoodChunks ==
  /\ Cuts # "anywhere"
  /\ \A len \in PayloadLens : MaxMessage + len <= FrameBufLen

OneFrame(f) == f.op_code \in DataOpCode /\ f.fin

\* Bytes in frame_buf belong to a message that the codec is in the middle of.
NothingForgotten ==
  frame_cursor > 0 =>
    \/ ws.continuation_frame_op_code # "None"
    \/ ws.continuation_read.op_code \in DataOpCode

(***************************************************************************)
(* The stream has what the peer has sent and the framer has not handed     *)
(* over, and the chunk ends where the codec can go on.                     *)
(***************************************************************************)
Ahead ==
  /\ MessageInv(ws, inbox, off, peer)
  /\ \A i \in DOMAIN inbox : FromPeer(inbox[i])
  /\ read_len = 0 \/ CutIn(inbox, off + (read_len - read_cursor))
  /\ off > 0 => OneFrame(Head(inbox))
  /\ CarriesRest(inbox, Len(got), Held(frame_cursor, inbox, off), partial,
                 sent)

\* A read reports all that is left of the first frame of the stream, or a
\* piece of a message that is a single frame.
TakesOf(f, r) ==
  LET ends == Ends(inbox, off, r.ret.len_from)
  IN  /\ r.ret.err = "None"
      /\ MessageInv(r.ws, inbox', off', peer)
      /\ ReportsFrame(ws, inbox, off, r)
      /\ off = 0 \/ OneFrame(f)
      /\ ends \/ OneFrame(f)
      /\ f.op_code \in ControlOpCode =>
           /\ ws.continuation_read.op_code = "None"
           /\ r.ws.continuation_frame_op_code = ws.continuation_frame_op_code
      /\ f.op_code \notin ControlOpCode =>
           \/ ends /\ f.fin
           \/ r.ws.continuation_frame_op_code # "None"
           \/ r.ws.continuation_read.op_code \in DataOpCode
      /\ ends \/ off + r.ret.len_from > 0

(* The first frame of the stream, and what a chunk has of it.              *)
LEMMA RoundCovers ==
  ASSUME GoodChunks, StepInv, Ahead, NEW r, NEW from, NEW to,
         Round(r, from, to)
  PROVE  LET f == Head(inbox)
             pos == off + from
         IN  /\ inbox # <<>> /\ At(inbox) = f /\ FromPeer(f)
             /\ pos \in Nat /\ CutIn(inbox, pos)
             /\ \/ pos >= FrameLen(f)
                \/ OneFrame(f) /\ pos >= HeaderLen(f)
             /\ OneFrame(f) => MayBePart(inbox, peer)
             /\ off = 0 => to >= f.len
<1> DEFINE f == Head(inbox)
           pos == off + from
<1>1. /\ inbox \in Seq(Frame) /\ off \in Nat /\ from \in Nat /\ from > 0
      /\ from = read_len - read_cursor /\ to = FrameBufLen - frame_cursor
      /\ read_len \in Nat /\ read_cursor \in Nat /\ frame_cursor \in Nat
      /\ sent \in Seq(Message)
  BY DEF StepInv, TypeInv, TypeOK, StreamTypeOK, Round
<1>2. read_len # 0
  BY <1>1
<1>3. pos \in Nat /\ pos > 0 /\ CutIn(inbox, pos)
  BY <1>1, <1>2 DEF Ahead
<1>4. /\ inbox # <<>>
      /\ \/ pos >= FrameLen(f)
         \/ OneFrame(f) /\ pos >= HeaderLen(f)
  BY <1>1, <1>3, CutCovers DEF GoodChunks, OneFrame
<1>5. f = inbox[1] /\ 1 \in DOMAIN inbox /\ At(inbox) = f
  BY <1>1, <1>4, AtType
<1>6. FromPeer(f)
  BY <1>5 DEF Ahead
<1>7. OneFrame(f) => MayBePart(inbox, peer)
  BY <1>1, <1>4, <1>5, FirstIsAlone DEF OneFrame, MayBePart
<1>8. off = 0 => to >= f.len
  <2> DEFINE h == Held(frame_cursor, inbox, off)
  <2>1. h \in 0..MaxMessage
    BY <1>1, <1>4, TakenIsCarried DEF Ahead
  <2>2. off = 0 => h = frame_cursor
    BY DEF Held
  <2> HIDE DEF h
  <2>3. f.len \in PayloadLens /\ PayloadLens \subseteq Nat
        /\ MaxMessage \in Nat /\ FrameBufLen \in Nat
    BY <1>6, ByteStreamAssumption, FramerAssumption DEF FromPeer
  <2>4. MaxMessage + f.len <= FrameBufLen
    BY <2>3 DEF GoodChunks
  <2> HIDE DEF f
  <2>5. f.len \in Nat
    BY <2>3
  <2> QED
    BY <1>1, <2>1, <2>2, <2>3, <2>4, <2>5
<1> QED
  BY <1>3, <1>4, <1>5, <1>6, <1>7, <1>8

(* A read that starts the frame.                                           *)
LEMMA RoundStarts ==
  ASSUME GoodChunks, StepInv, Ahead, NEW r, NEW from, NEW to,
         Round(r, from, to), ws.state \in {"Open", "CloseSent"},
         ws.continuation_read.op_code = "None",
         read_frame_error(Head(inbox), from) = "None"
  PROVE  TakesOf(Head(inbox), r)
<1> DEFINE f == Head(inbox)
           n == Payload(f, from, to)
           l == r.ret.len_from
<1>1. /\ inbox # <<>> /\ At(inbox) = f /\ FromPeer(f)
      /\ \/ off + from >= FrameLen(f)
         \/ OneFrame(f) /\ off + from >= HeaderLen(f)
      /\ OneFrame(f) => MayBePart(inbox, peer)
      /\ off = 0 => to >= f.len
  BY RoundCovers
<1>2. /\ ReaderInv(ws, inbox, off) /\ ws \in WebSocket
      /\ from \in Nat /\ to \in Nat
      /\ r = read(ws, f, "InternalServerError", from, to)
      /\ inbox' = FramesAfter(inbox, off, l)
      /\ off' = OffAfter(inbox, off, l)
      /\ off \in Nat /\ MessageInv(ws, inbox, off, peer)
  BY <1>1 DEF Round, StepInv, TypeInv, TypeOK, StreamTypeOK, Ahead
<1>3. f \in Frame /\ f.op_code \in WebSocketOpCode
  BY <1>1 DEF FromPeer
<1>4. off = 0
  <2>1. ~Inside(ws, inbox, off)
    BY <1>3
    DEF Inside, WebSocketOpCode, DataOpCode, ControlOpCode
  <2> QED
    BY <1>2, <2>1 DEF ReaderInv, AtBoundary
<1>5. StartsFrame(ws, f, r, from, n)
  BY <1>2, <1>3, StartRead, CloseStatusAssumption
<1>6. /\ HeaderLen(f) \in Nat /\ HeaderLen(f) >= 2 /\ f.len \in Nat
      /\ FrameLen(f) = HeaderLen(f) + f.len
  BY <1>3, FrameLenType
<1>7. n \in Nat /\ from >= HeaderLen(f)
  BY <1>5 DEF StartsFrame
<1>8. n = f.len \/ OneFrame(f)
  <2>1. CASE from >= FrameLen(f)
    <3>1. f.len <= to /\ f.len <= from - HeaderLen(f)
      BY <1>1, <1>2, <1>4, <1>6, <2>1
    <3> QED
      BY <1>2, <1>6, <1>7, <3>1 DEF Payload, min
  <2> QED
    BY <1>1, <1>2, <1>4, <2>1
<1> HIDE DEF f, n
<1>9. /\ r.ret.err = "None" /\ ReportsFrame(ws, inbox, off, r)
      /\ MessageInv(r.ws, inbox', off', peer)
      /\ f.op_code \in ControlOpCode =>
           r.ws.continuation_frame_op_code = ws.continuation_frame_op_code
  <2>1. StartsFrame(ws, At(inbox), r, from, n)
    BY <1>1, <1>5
  <2>2. MayBePart(inbox, peer) \/ n = At(inbox).len
    BY <1>1, <1>8
  <2>3. f.op_code \in ControlOpCode =>
          r.ws.continuation_frame_op_code = ws.continuation_frame_op_code
    BY <1>5 DEF StartsFrame, DataOpCode, ControlOpCode
  <2> QED
    BY <1>2, <2>1, <2>2, <2>3, StartReports DEF f
<1>10. l = HeaderLen(f) + n
  BY <1>5, <1>9 DEF StartsFrame
<1>11. Ends(inbox, off, l) <=> n = f.len
  BY <1>1, <1>4, <1>6, <1>7, <1>10 DEF Ends
<1>12. f.op_code \notin ControlOpCode =>
         \/ n = f.len /\ f.fin
         \/ r.ws.continuation_frame_op_code # "None"
  <2>1. CASE f.op_code \in DataOpCode
    BY <1>5, <2>1 DEF StartsFrame, DataOpCode
  <2>2. CASE f.op_code = "ContinuationFrame"
    BY <1>5, <1>9, <2>2 DEF StartsFrame, DataOpCode
  <2> QED
    BY <1>3, <2>1, <2>2 DEF WebSocketOpCode
<1>13. off + l > 0
  BY <1>4, <1>6, <1>7, <1>10
<1> QED
  BY <1>4, <1>8, <1>9, <1>11, <1>12, <1>13 DEF TakesOf, f

(* A read that goes on with the frame.                                     *)
LEMMA RoundContinues ==
  ASSUME GoodChunks, StepInv, Ahead, NEW r, NEW from, NEW to,
         Round(r, from, to), ws.state \in {"Open", "CloseSent"},
         ws.continuation_read.op_code # "None"
  PROVE  TakesOf(Head(inbox), r)
<1> DEFINE f == Head(inbox)
           cr == ws.continuation_read
           n == min(cr.count, to, from)
           l == r.ret.len_from
<1>1. /\ inbox # <<>> /\ At(inbox) = f /\ FromPeer(f)
  BY RoundCovers
<1>2. /\ ReaderInv(ws, inbox, off) /\ ws \in WebSocket
      /\ from \in Nat /\ to \in Nat
      /\ r = read(ws, At(inbox), "InternalServerError", from, to)
      /\ inbox' = FramesAfter(inbox, off, l)
      /\ off' = OffAfter(inbox, off, l)
      /\ off \in Nat /\ MessageInv(ws, inbox, off, peer)
  BY DEF Round, StepInv, TypeInv, TypeOK, StreamTypeOK, Ahead
<1>3. /\ Inside(ws, inbox, off) /\ off \in HeaderLen(f)..(FrameLen(f) - 1)
      /\ cr.op_code = f.op_code /\ cr.count = FrameLen(f) - off
      /\ cr.is_fin_bit_set = f.fin
  BY <1>2 DEF MessageInv, Inside
<1>4. /\ HeaderLen(f) \in Nat /\ HeaderLen(f) >= 2 /\ f.len \in Nat
      /\ FrameLen(f) = HeaderLen(f) + f.len
  BY <1>1, FrameLenType DEF FromPeer
<1>5. off > 0 /\ OneFrame(f)
  BY <1>2, <1>3, <1>4 DEF Ahead
<1>6. cr.op_code \notin {"None", "ConnectionClose"}
  BY <1>3, <1>5 DEF OneFrame, DataOpCode
<1>7. ContinuesFrame(ws, r, n)
  BY <1>2, <1>6, ContinueRead, CloseStatusAssumption
<1> HIDE DEF n
<1>8. /\ r.ret.err = "None" /\ ReportsFrame(ws, inbox, off, r)
      /\ MessageInv(r.ws, inbox', off', peer)
  BY <1>2, <1>6, <1>7, ContinueReports
<1>9. l = n /\ n \in Nat
  BY <1>7, <1>8 DEF ContinuesFrame
<1>10. Ends(inbox, off, l) \/ r.ws.continuation_read.op_code = f.op_code
  <2>1. CASE n = cr.count
    BY <1>1, <1>2, <1>3, <1>4, <1>9, <2>1 DEF Ends
  <2>2. CASE n # cr.count
    <3>1. r.ws.continuation_read =
            [cr EXCEPT !.count = @ - n,
               !.rotation = rotate_left(cr.masked, @, n)]
      BY <1>7, <2>2 DEF ContinuesFrame
    <3>2. cr \in ContinuationRead
      BY <1>2 DEF WebSocket
    <3> QED
      BY <1>3, <3>1, <3>2 DEF ContinuationRead
  <2> QED
    BY <2>1, <2>2
<1>11. f.op_code \in DataOpCode /\ f.op_code \notin ControlOpCode /\ f.fin
  BY <1>5 DEF OneFrame, DataOpCode, ControlOpCode
<1>12. off + l > 0
  BY <1>2, <1>5, <1>9
<1> HIDE DEF f, cr, l
<1> QED
  BY <1>5, <1>8, <1>10, <1>11, <1>12 DEF TakesOf, f, l

(* A round reads nothing and changes nothing, or takes what TakesOf says.  *)
LEMMA RoundTakes ==
  ASSUME GoodChunks, StepInv, Ahead, NEW r, NEW from, NEW to,
         Round(r, from, to)
  PROVE  \/ r.ret.err # "None" /\ r.ws = ws
         \/ TakesOf(Head(inbox), r)
<1>1. /\ inbox # <<>> /\ At(inbox) = Head(inbox)
      /\ r = read(ws, Head(inbox), "InternalServerError", from, to)
  BY RoundCovers DEF Round
<1>2. CASE \/ ws.state \notin {"Open", "CloseSent"}
           \/ /\ ws.continuation_read.op_code = "None"
              /\ read_frame_error(Head(inbox), from) # "None"
  BY <1>1, <1>2, NothingRead
<1>3. CASE /\ ws.state \in {"Open", "CloseSent"}
           /\ ws.continuation_read.op_code = "None"
           /\ read_frame_error(Head(inbox), from) = "None"
  BY <1>3, RoundStarts
<1>4. CASE /\ ws.state \in {"Open", "CloseSent"}
           /\ ws.continuation_read.op_code # "None"
  BY <1>4, RoundContinues
<1> QED
  BY <1>2, <1>3, <1>4

(* The chunk goes on ending where it did.                                  *)
LEMMA RoundCuts ==
  ASSUME GoodChunks, StepInv, Ahead, NEW r, NEW from, NEW to,
         Round(r, from, to)
  PROVE  CutIn(inbox', off' + (read_len' - read_cursor'))
<1> DEFINE f == Head(inbox)
           l == r.ret.len_from
<1>1. /\ inbox # <<>> /\ At(inbox) = f /\ FromPeer(f)
      /\ off + from \in Nat /\ CutIn(inbox, off + from)
  BY RoundCovers
<1>2. /\ inbox \in Seq(Frame) /\ off \in Nat /\ from \in Nat
      /\ from = read_len - read_cursor
      /\ read_len \in Nat /\ read_cursor \in Nat
      /\ inbox' = FramesAfter(inbox, off, l)
      /\ off' = OffAfter(inbox, off, l)
      /\ l \in Nat /\ l <= from
      /\ read_cursor' = read_cursor + l /\ read_len' = read_len
  BY DEF Round, StepInv, TypeInv, TypeOK, StreamTypeOK, Return
<1>3. FrameLen(f) \in Nat
  BY <1>1, FrameLenType DEF FromPeer
<1> HIDE DEF l
<1>4. CASE Ends(inbox, off, l)
  <2>1. inbox' = Tail(inbox) /\ off' = 0 /\ off + l = FrameLen(f)
    BY <1>1, <1>2, <1>4 DEF FramesAfter, OffAfter, Ends
  <2>2. off + from >= FrameLen(f)
    BY <1>2, <1>3, <2>1
  <2>3. CutIn(Tail(inbox), (off + from) - FrameLen(f))
    BY <1>1, <1>2, <2>2, CutBehindHead
  <2>4. (off + from) - FrameLen(f) = off' + (read_len' - read_cursor')
    BY <1>2, <1>3, <2>1
  <2> QED
    BY <2>1, <2>3, <2>4
<1>5. CASE ~Ends(inbox, off, l)
  <2>1. inbox' = inbox /\ off' = off + l
    BY <1>2, <1>5 DEF FramesAfter, OffAfter
  <2>2. off + from = off' + (read_len' - read_cursor')
    BY <1>2, <2>1
  <2> QED
    BY <1>1, <2>1, <2>2
<1> QED
  BY <1>4, <1>5

\* read knows that frame_buf holds a part of a message.
Remembers(w) ==
  \/ w.continuation_frame_op_code # "None"
  \/ w.continuation_read.op_code \in DataOpCode

\* How the codec's report counts: n messages are out and h bytes are held
\* before it, and n2 and h2 after it.
Counts(r, n, n2, h2) ==
  LET whole == frame_cursor + r.ret.len_to
      out(len) == /\ n2 = n + 1 /\ n < Len(sent)
                  /\ sent[n + 1] = [type |-> r.ret.message_type, len |-> len]
  IN  /\ CarriesRest(inbox', n2, h2, partial, sent)
      /\ IF r.ret.message_type \notin {"Text", "Binary"}
         THEN /\ off' = 0 /\ h2 = frame_cursor
              /\ r.ret.message_type \in {"Ping", "Pong"} => out(r.ret.len_to)
              /\ Remembers(ws) => Remembers(r.ws)
         ELSE IF r.ret.end_of_message THEN off' = 0 /\ h2 = 0 /\ out(whole)
         ELSE /\ n2 = n /\ h2 = Held(whole, inbox', off')
              /\ Remembers(r.ws)

(* It counts so.                                                           *)
LEMMA RoundCounts ==
  ASSUME GoodChunks, StepInv, Ahead, NEW r, NEW from, NEW to,
         Round(r, from, to), TakesOf(Head(inbox), r)
  PROVE  \E n2, h2 : Counts(r, Len(got), n2, h2)
<1> DEFINE f == Head(inbox)
           l == r.ret.len_from
           n == Len(got)
           h == Held(frame_cursor, inbox, off)
           m == r.ret.message_type
           d == r.ret.len_to
<1>1. /\ inbox # <<>> /\ At(inbox) = f /\ FromPeer(f)
      /\ MessageInv(ws, inbox, off, peer)
      /\ CarriesRest(inbox, n, h, partial, sent)
  BY RoundCovers DEF Ahead
<1>2. /\ inbox \in Seq(Frame) /\ off \in Nat /\ sent \in Seq(Message)
      /\ frame_cursor \in Nat /\ got \in Seq(Received)
      /\ inbox' = FramesAfter(inbox, off, l)
      /\ off' = OffAfter(inbox, off, l)
      /\ l \in Nat /\ d \in Nat /\ r.ret.end_of_message \in BOOLEAN
      /\ ReaderInv(ws, inbox, off)
  BY DEF Round, StepInv, TypeInv, TypeOK, StreamTypeOK, Return
<1>3. /\ HeaderLen(f) \in Nat /\ f.len \in Nat
      /\ FrameLen(f) = HeaderLen(f) + f.len
      /\ f \in Frame /\ f.op_code \in WebSocketOpCode
      /\ f.op_code \in ControlOpCode => f.fin
      /\ f.msg \in DataOpCode
           <=> f.op_code \in DataOpCode \cup {"ContinuationFrame"}
  BY <1>1, FrameLenType DEF FromPeer
<1>4. /\ ReportsFrame(ws, inbox, off, r)
      /\ off = 0 \/ OneFrame(f)
      /\ Ends(inbox, off, l) \/ (OneFrame(f) /\ off + l > 0)
  BY DEF TakesOf
<1>5. /\ n \in 0..Len(sent) /\ h \in 0..MaxMessage
      /\ CarriesRest(Tail(inbox), DoneAfter(f, n), HeldAfter(f, h), partial,
                     sent)
      /\ Completes(f) => n < Len(sent) /\ sent[n + 1] = MessageOf(f, h)
  BY <1>1, <1>2, TakenIsCarried
<1>6. /\ f.op_code = "ConnectionClose" =>
           m \in {"CloseMustReply", "CloseCompleted"}
      /\ f.op_code # "ConnectionClose" =>
           /\ m = message_type_of(f.msg)
           /\ r.ret.end_of_message <=> f.fin /\ Ends(inbox, off, l)
           /\ off = 0 => d = l - HeaderLen(f)
           /\ off # 0 => d = l
  BY <1>2, <1>4 DEF ReportsFrame
<1>7. f.op_code \in ControlOpCode =>
        f.msg = f.op_code /\ f.msg \notin DataOpCode
  <2>1. f = inbox[1] /\ 1 \in DOMAIN inbox
    BY <1>1, <1>2
  <2> QED
    BY <1>1, <1>3, <2>1
    DEF MessageInv, StreamInv, DataOpCode, ControlOpCode
<1>8. ~(f.op_code \in ControlOpCode /\ OneFrame(f))
  BY DEF OneFrame, DataOpCode, ControlOpCode
<1>9. off > 0 => off \in HeaderLen(f)..(FrameLen(f) - 1)
  BY <1>2 DEF ReaderInv, AtBoundary, Inside
<1>10. h = IF off = 0 THEN frame_cursor
           ELSE frame_cursor - (off - HeaderLen(f))
  BY DEF Held
<1> HIDE DEF f, l, n, h, m, d
<1>11. CASE Ends(inbox, off, l) /\ f.msg \in DataOpCode
  <2>1. inbox' = Tail(inbox) /\ off' = 0 /\ off + l = FrameLen(f)
    BY <1>1, <1>2, <1>11 DEF FramesAfter, OffAfter, Ends
  <2>2. f.op_code # "ConnectionClose"
    BY <1>3, <1>11 DEF DataOpCode
  <2>3. m \in {"Text", "Binary"} /\ m = message_type_of(f.msg)
    BY <1>6, <1>11, <2>2 DEF message_type_of, DataOpCode
  <2>4. frame_cursor + d = f.len + h
    <3>1. CASE off = 0
      BY <1>2, <1>3, <1>6, <1>10, <2>1, <2>2, <3>1
    <3>2. CASE off # 0
      <4>1. d = l /\ off + l = HeaderLen(f) + f.len
        BY <1>3, <1>6, <2>1, <2>2, <3>2
      <4>2. h = frame_cursor - (off - HeaderLen(f))
        BY <1>10, <3>2
      <4>3. {off, l, HeaderLen(f), f.len, frame_cursor} \subseteq Nat
        BY <1>2, <1>3
      <4> QED
        BY <4>1, <4>2, <4>3
    <3> QED
      BY <3>1, <3>2
  <2>5. r.ret.end_of_message <=> f.fin
    BY <1>6, <1>11, <2>2
  <2>6. Completes(f) <=> f.fin
    BY <2>2 DEF Completes
  <2>7. h \in Nat /\ f.len + h = h + f.len
    BY <1>3, <1>5
  <2>8. /\ DoneAfter(f, n) = IF f.fin THEN n + 1 ELSE n
        /\ HeldAfter(f, h) = IF f.fin THEN 0 ELSE frame_cursor + d
        /\ MessageOf(f, h) = [type |-> m, len |-> frame_cursor + d]
    BY <1>11, <2>3, <2>4, <2>6, <2>7 DEF DoneAfter, HeldAfter, MessageOf
  <2>9. Held(frame_cursor + d, inbox', off') = frame_cursor + d
    BY <2>1 DEF Held
  <2>10. f.op_code \notin ControlOpCode
    BY <1>3, <1>11 DEF DataOpCode, ControlOpCode
  <2>11. f.fin \/ Remembers(r.ws)
    BY <2>10 DEF TakesOf, Remembers, f
  <2>12. Counts(r, n, DoneAfter(f, n), HeldAfter(f, h))
    BY <1>2, <1>5, <2>1, <2>3, <2>5, <2>6, <2>8, <2>9, <2>11
    DEF Counts, m, d
  <2> QED
    BY <2>12 DEF n
<1>12. CASE f.op_code \in ControlOpCode
  <2>1. Ends(inbox, off, l) /\ off = 0
    BY <1>4, <1>8, <1>12
  <2>2. inbox' = Tail(inbox) /\ off' = 0 /\ l = FrameLen(f)
    BY <1>1, <1>2, <2>1 DEF FramesAfter, OffAfter, Ends
  <2>3. /\ h = frame_cursor /\ HeldAfter(f, h) = h
        /\ f.msg = f.op_code /\ f.msg \notin DataOpCode
    BY <1>7, <1>10, <1>12, <2>1 DEF HeldAfter
  <2>4. m \notin {"Text", "Binary"}
    BY <1>6, <1>12, <2>3
    DEF message_type_of, ControlOpCode
  <2>5. m \in {"Ping", "Pong"} =>
          /\ f.op_code # "ConnectionClose" /\ Completes(f)
          /\ MessageOf(f, h) = [type |-> m, len |-> d]
    <3> SUFFICES ASSUME m \in {"Ping", "Pong"}
                 PROVE  /\ f.op_code # "ConnectionClose" /\ Completes(f)
                        /\ MessageOf(f, h) = [type |-> m, len |-> d]
      OBVIOUS
    <3>1. f.op_code # "ConnectionClose"
      BY <1>6
    <3>2. Completes(f)
      BY <1>3, <1>12, <3>1 DEF Completes
    <3>3. d = f.len /\ f.len + 0 = f.len
      BY <1>2, <1>3, <1>6, <2>1, <2>2, <3>1
    <3> QED
      BY <1>6, <2>3, <3>1, <3>2, <3>3 DEF MessageOf
  <2>6. m \in {"Ping", "Pong"} => DoneAfter(f, n) = n + 1
    BY <2>5 DEF DoneAfter
  <2>7. Remembers(ws) => Remembers(r.ws)
    BY <1>12 DEF TakesOf, Remembers, DataOpCode, f
  <2>8. Counts(r, n, DoneAfter(f, n), HeldAfter(f, h))
    BY <1>2, <1>5, <2>2, <2>3, <2>4, <2>5, <2>6, <2>7 DEF Counts, m, d
  <2> QED
    BY <2>8 DEF n
<1>13. CASE ~Ends(inbox, off, l)
  <2>1. OneFrame(f) /\ inbox' = inbox /\ off' = off + l /\ off' > 0
    BY <1>2, <1>4, <1>13 DEF FramesAfter, OffAfter
  <2>2. /\ f.op_code # "ConnectionClose" /\ f.msg \in DataOpCode
        /\ f.op_code \in DataOpCode
    BY <1>3, <2>1 DEF OneFrame, DataOpCode
  <2>3. m \in {"Text", "Binary"}
    BY <1>6, <2>2 DEF message_type_of, DataOpCode
  <2>4. ~r.ret.end_of_message
    BY <1>6, <1>13, <2>2
  <2>5. Held(frame_cursor + d, inbox', off')
          = (frame_cursor + d) - (off' - HeaderLen(f))
    BY <1>2, <2>1 DEF Held, f
  <2>6. (frame_cursor + d) - (off' - HeaderLen(f)) = h
    <3>1. CASE off = 0
      BY <1>2, <1>3, <1>6, <1>10, <2>1, <2>2, <3>1
    <3>2. CASE off # 0
      BY <1>2, <1>3, <1>6, <1>10, <2>1, <2>2, <3>2
    <3> QED
      BY <3>1, <3>2
  <2>7. f.op_code \notin ControlOpCode
    BY <2>2 DEF DataOpCode, ControlOpCode
  <2>8. Remembers(r.ws)
    BY <1>13, <2>7 DEF TakesOf, Remembers, f, l
  <2>9. Counts(r, n, n, h)
    BY <1>1, <1>2, <2>1, <2>3, <2>4, <2>5, <2>6, <2>8 DEF Counts, m, d
  <2> QED
    BY <2>9 DEF n
<1>14. f.msg \in DataOpCode \/ f.op_code \in ControlOpCode
  BY <1>3 DEF WebSocketOpCode
<1> QED
  BY <1>11, <1>12, <1>13, <1>14

\* Nothing comes out, or the next of the messages sent.
Delivers ==
  \/ got' = got
  \/ Len(got) < Len(sent) /\ got' = Append(got, sent[Len(got) + 1])

(* The websocket after a round has the reading side that read left.        *)
LEMMA OutcomeReader ==
  ASSUME NEW r, r.ret.len_to \in Nat, r.ws \in WebSocket, Outcome(r)
  PROVE  /\ ws'.continuation_read = r.ws.continuation_read
         /\ ws'.continuation_frame_op_code = r.ws.continuation_frame_op_code
<1>1. \/ ws' = r.ws
      \/ \E m \in {"CloseReply", "Pong"} :
           ws' = send_back(r.ws, m, r.ret.len_to).ws
  BY DEF Outcome, Collects, HandsOver, RepliesToClose, AnswersPing
<1>2. ASSUME NEW m \in {"CloseReply", "Pong"}
      PROVE  ReaderUntouched(r.ws, send_back(r.ws, m, r.ret.len_to))
  <2>1. m \in SendMessageType
    BY DEF SendMessageType
  <2>2. SentBack(r.ws, m, r.ret.len_to, send_back(r.ws, m, r.ret.len_to))
    BY <2>1, SendBack
  <2> QED
    BY <2>2 DEF SentBack
<1> QED
  BY <1>1, <1>2 DEF ReaderUntouched

(* What a round hands over is the next message, and it leaves the counts   *)
(* right for the rest.                                                     *)
LEMMA OutcomeDelivers ==
  ASSUME TypeInv, NothingForgotten, NEW r, NEW n2, NEW h2,
         Outcome(r), r.ret \in Return, r.ws \in WebSocket,
         r.ret.err = "None", sender' = sender, pc = "decoding",
         Counts(r, Len(got), n2, h2)
  PROVE  /\ Delivers /\ NothingForgotten'
         /\ pc' \notin {"failed", "done"} =>
              CarriesRest(inbox', Len(got'), Held(frame_cursor', inbox', off'),
                          partial', sent')
<1> DEFINE m == r.ret.message_type
           d == r.ret.len_to
           Rest == CarriesRest(inbox', Len(got'),
                               Held(frame_cursor', inbox', off'),
                               partial', sent')
<1>1. /\ got \in Seq(Received) /\ frame_cursor \in Nat /\ d \in Nat
      /\ partial' = partial /\ sent' = sent
      /\ CarriesRest(inbox', n2, h2, partial, sent)
      /\ Len(got) \in Nat
  BY DEF TypeInv, TypeOK, Return, sender, Counts
<1>2. Remembers(r.ws) => Remembers(ws')
  BY <1>1, OutcomeReader DEF Remembers
<1>3. NothingForgotten <=> (frame_cursor > 0 => Remembers(ws))
  BY DEF NothingForgotten, Remembers
<1>4. NothingForgotten' <=> (frame_cursor' > 0 => Remembers(ws'))
  BY DEF NothingForgotten, Remembers
<1>5. ASSUME NEW type, NEW len, Receives(type, len)
      PROVE  /\ Len(got') = Len(got) + 1
             /\ got' = Append(got, [type |-> type, len |-> len])
  BY <1>1, <1>5 DEF Receives
<1>6. CASE m \in {"Text", "Binary"} /\ r.ret.end_of_message
  <2>1. /\ off' = 0 /\ h2 = 0 /\ n2 = Len(got) + 1 /\ Len(got) < Len(sent)
        /\ sent[Len(got) + 1] = [type |-> m, len |-> frame_cursor + d]
    BY <1>6 DEF Counts
  <2>2. frame_cursor' = 0 /\ Receives(m, frame_cursor + d)
    BY <1>6 DEF Outcome, Collects, RepliesToClose, AnswersPing, HandsOver
  <2>3. Rest
    BY <1>1, <1>5, <2>1, <2>2 DEF Held
  <2>4. Delivers
    BY <1>5, <2>1, <2>2 DEF Delivers
  <2> QED
    BY <1>4, <2>2, <2>3, <2>4
<1>7. CASE m \in {"Text", "Binary"} /\ ~r.ret.end_of_message
  <2>1. /\ n2 = Len(got) /\ h2 = Held(frame_cursor + d, inbox', off')
        /\ Remembers(r.ws)
    BY <1>7 DEF Counts
  <2>2. frame_cursor' = frame_cursor + d /\ got' = got
    BY <1>7 DEF Outcome, Collects, RepliesToClose, AnswersPing, HandsOver
  <2> QED
    BY <1>1, <1>2, <1>4, <2>1, <2>2 DEF Delivers
<1>8. CASE m \notin {"Text", "Binary"}
  <2>1. /\ off' = 0 /\ h2 = frame_cursor
        /\ Remembers(ws) => Remembers(r.ws)
        /\ m \in {"Ping", "Pong"} =>
             /\ n2 = Len(got) + 1 /\ Len(got) < Len(sent)
             /\ sent[Len(got) + 1] = [type |-> m, len |-> d]
    BY <1>8 DEF Counts
  <2>2. frame_cursor' = frame_cursor
    BY <1>8 DEF Outcome, Fails, RepliesToClose, AnswersPing, HandsOver
  <2>3. NothingForgotten'
    BY <1>2, <1>3, <1>4, <2>1, <2>2
  <2>4. CASE got' = got /\ pc' \in {"failed", "done"}
    BY <2>3, <2>4 DEF Delivers
  <2>5. CASE m \in {"Ping", "Pong"} /\ Receives(m, d)
    <3>1. Rest
      BY <1>1, <1>5, <2>1, <2>2, <2>5 DEF Held
    <3>2. Delivers
      BY <1>5, <2>1, <2>5 DEF Delivers
    <3> QED
      BY <2>3, <3>1, <3>2
  <2>6. CASE AnswersPing(r.ws, r.ret) /\ m = "Ping"
    <3> DEFINE s == send_back(r.ws, "Pong", d)
    <3>1. SentBack(r.ws, "Pong", d, s)
      BY <1>1, SendBack DEF SendMessageType
    <3>2. \/ s.ret.err = "None" /\ Receives("Ping", Head(s.sent).len)
          \/ got' = got /\ pc' = "failed"
      BY <2>6 DEF AnswersPing, Fails
    <3> HIDE DEF s
    <3>3. s.ret.err = "None" => Head(s.sent).len = d
      BY <3>1 DEF SentBack
    <3> QED
      BY <2>4, <2>5, <2>6, <3>2, <3>3
  <2>7. CASE HandsOver(r.ws, r.ret)
    BY <2>4, <2>5, <2>7 DEF HandsOver, Returns
  <2>8. CASE RepliesToClose(r.ws, r.ret)
    BY <2>4, <2>8 DEF RepliesToClose, Fails, Returns
  <2> QED
    BY <1>8, <2>6, <2>7, <2>8 DEF Outcome
<1> QED
  BY <1>6, <1>7, <1>8

(* A round of the inner loop hands over the next message or nothing, and   *)
(* finds the rest in the stream.                                           *)
LEMMA RoundDelivers ==
  ASSUME GoodChunks, StepInv, Ahead, NothingForgotten,
         NEW r, NEW from, NEW to, Round(r, from, to)
  PROVE  /\ Delivers /\ NothingForgotten'
         /\ pc' \notin {"failed", "done"} => Ahead'
<1> DEFINE f == Head(inbox)
           l == r.ret.len_from
<1>1. /\ Outcome(r) /\ r.ret \in Return /\ r.ws \in WebSocket
      /\ sender' = sender /\ pc = "decoding" /\ TypeInv
      /\ inbox \in Seq(Frame) /\ inbox # <<>> /\ At(inbox) = f
      /\ inbox' = FramesAfter(inbox, off, l)
      /\ off' = OffAfter(inbox, off, l)
      /\ r.ret.len_to \in Nat /\ off \in Nat /\ l \in Nat
  BY RoundCovers
  DEF Round, StepInv, TypeInv, TypeOK, StreamTypeOK, Return
<1>2. CASE r.ret.err # "None" /\ r.ws = ws
  <2>1. UNCHANGED <<ws, frame_cursor, got>> /\ pc' = "failed"
    BY <1>1, <1>2 DEF Outcome, Fails
  <2> QED
    BY <2>1 DEF Delivers, NothingForgotten
<1>3. CASE TakesOf(f, r)
  <2> PICK n2, h2 : Counts(r, Len(got), n2, h2)
    BY <1>3, RoundCounts
  <2>1. r.ret.err = "None" /\ MessageInv(r.ws, inbox', off', peer)
    BY <1>3 DEF TakesOf
  <2>2. /\ Delivers /\ NothingForgotten'
        /\ pc' \notin {"failed", "done"} =>
             CarriesRest(inbox', Len(got'), Held(frame_cursor', inbox', off'),
                         partial', sent')
    BY <1>1, <2>1, OutcomeDelivers
  <2>3. MessageInv(ws', inbox', off', peer')
    <3>1. peer' = peer
      BY <1>1 DEF sender
    <3> QED
      BY <1>1, <2>1, <3>1, OutcomeReader, SameReader
  <2>4. CutIn(inbox', off' + (read_len' - read_cursor'))
    BY RoundCuts
  <2>5. \A i \in DOMAIN inbox' : FromPeer(inbox'[i])
    <3>1. CASE inbox' = inbox
      BY <3>1 DEF Ahead
    <3>2. CASE inbox' = Tail(inbox)
      <4>1. \A i \in DOMAIN Tail(inbox) :
              i + 1 \in DOMAIN inbox /\ Tail(inbox)[i] = inbox[i + 1]
        BY <1>1
      <4> QED
        BY <3>2, <4>1 DEF Ahead
    <3> QED
      BY <1>1, <3>1, <3>2 DEF FramesAfter
  <2>6. off' > 0 => OneFrame(Head(inbox'))
    <3>1. CASE Ends(inbox, off, l)
      BY <1>1, <3>1 DEF OffAfter
    <3>2. CASE ~Ends(inbox, off, l)
      BY <1>1, <1>3, <3>2 DEF FramesAfter, TakesOf
    <3> QED
      BY <3>1, <3>2
  <2> QED
    BY <2>2, <2>3, <2>4, <2>5, <2>6 DEF Ahead
<1> QED
  BY <1>2, <1>3, RoundTakes

(* ComesOutInOrder, message by message.                                    *)
InOrder ==
  /\ Len(got) <= Len(sent)
  /\ \A i \in 1..Len(got) : got[i] = sent[i]

(* It says the same.                                                       *)
LEMMA InOrderMeans ==
  ASSUME TypeInv PROVE ComesOutInOrder <=> InOrder
<1>1. 0..MaxMessage \cup PayloadLens \subseteq Nat
  BY ByteStreamAssumption
<1>2. Message \subseteq Received
  BY <1>1 DEF Message, Received
<1>3. got \in Seq(Received) /\ sent \in Seq(Received)
  BY <1>2 DEF TypeInv, TypeOK, StreamTypeOK
<1> DEFINE n == Len(got)
           s == SubSeq(sent, 1, n)
<1>4. n \in Nat /\ Len(sent) \in Nat
  BY <1>3
<1>5. SUFFICES ASSUME n <= Len(sent)
               PROVE  got = s <=> \A i \in 1..n : got[i] = sent[i]
  BY <1>4 DEF ComesOutInOrder, InOrder
<1>6. \A i \in 1..n : sent[i] \in Received
  BY <1>3, <1>4, <1>5
<1>7. /\ s \in Seq(Received) /\ Len(s) = IF 1 <= n THEN n - 1 + 1 ELSE 0
      /\ \A i \in 1..(n - 1 + 1) : s[i] = sent[1 + i - 1]
  <2>1. 1 \in Int /\ n \in Int
    BY <1>4
  <2> HIDE DEF n
  <2> QED
    BY <1>6, <2>1, SubSeqProperties
<1>8. Len(s) = n /\ \A i \in 1..n : s[i] = sent[i]
  <2> HIDE DEF s, n
  <2> QED
    BY <1>4, <1>7
<1>9. CASE got = s
  <2> HIDE DEF s
  <2> QED
    BY <1>8, <1>9
<1>10. ASSUME \A i \in 1..n : got[i] = sent[i]
       PROVE  got = s
  BY <1>3, <1>7, <1>8, <1>10, SeqEqual
<1> QED
  BY <1>9, <1>10

(* What comes out stays in order.                                          *)
LEMMA InOrderStep ==
  ASSUME TypeInv, InOrder,
         \/ Delivers /\ sent' = sent
         \/ got' = got /\ \E m : sent' = Append(sent, m)
  PROVE  InOrder'
<1>1. got \in Seq(Received) /\ sent \in Seq(Message)
  BY DEF TypeInv, TypeOK, StreamTypeOK
<1>2. CASE got' = got /\ sent' = sent
  BY <1>2 DEF InOrder
<1>3. CASE /\ Len(got) < Len(sent) /\ sent' = sent
           /\ got' = Append(got, sent[Len(got) + 1])
  <2>1. /\ Len(got) \in Nat /\ Len(sent) \in Nat
        /\ Len(got') = Len(got) + 1
        /\ \A i \in 1..Len(got) : got'[i] = got[i]
        /\ got'[Len(got) + 1] = sent[Len(got) + 1]
    BY <1>1, <1>3
  <2>2. \A i \in 1..(Len(got) + 1) : i \in 1..Len(got) \/ i = Len(got) + 1
    BY <2>1
  <2> QED
    BY <1>3, <2>1, <2>2 DEF InOrder
<1>4. ASSUME NEW m, got' = got, sent' = Append(sent, m)
      PROVE  InOrder'
  <2>1. /\ Len(got) \in Nat /\ Len(sent) \in Nat
        /\ Len(sent') = Len(sent) + 1
        /\ \A i \in 1..Len(sent) : sent'[i] = sent[i]
    BY <1>1, <1>4
  <2>2. \A i \in 1..Len(got) : i \in 1..Len(sent)
    BY <2>1 DEF InOrder
  <2> QED
    BY <1>4, <2>1, <2>2 DEF InOrder
<1> QED
  BY <1>2, <1>3, <1>4 DEF Delivers

(***************************************************************************)
(* The inductive invariant: until the framer stops or fails, the stream    *)
(* has what the framer has not handed over.                                *)
(***************************************************************************)
OrderInv ==
  /\ StepInv /\ NothingForgotten /\ InOrder
  /\ pc \notin {"failed", "done"} => Ahead

\* What a step does to the two sequences of the message channel.
Channels ==
  \/ Delivers /\ sent' = sent
  \/ /\ got' = got /\ Len(sent) < MaxSent
     /\ \E m \in Message : sent' = Append(sent, m)

(* The peer's frames add to what is ahead.                                 *)
LEMMA SendKeepsAhead ==
  ASSUME StepInv, Ahead, pc # "failed", NEW f, PeerSent(f),
         UNCHANGED <<framer, got>>
  PROVE  Ahead'
<1>1. /\ f \in Frame /\ FromPeer(f) /\ PeerMaySend(peer, f)
      /\ inbox' = Append(inbox, f) /\ off' = off /\ peer' = WireAfter(peer, f)
      /\ inbox \in Seq(Frame) /\ sent \in Seq(Message) /\ peer \in Wire
      /\ ReaderInv(ws, inbox, off) /\ off \in Nat
      /\ UNCHANGED <<ws, read_len, read_cursor, frame_cursor, got>>
  BY DEF PeerSent, FromPeer, StepInv, TypeInv, TypeOK, StreamTypeOK, framer
<1>2. MessageInv(ws', inbox', off', peer')
  BY <1>1, AppendKeepsMessages DEF Ahead
<1>3. \A i \in DOMAIN inbox' : FromPeer(inbox'[i])
  <2>1. \A i \in DOMAIN Append(inbox, f) :
          \/ i \in DOMAIN inbox /\ Append(inbox, f)[i] = inbox[i]
          \/ Append(inbox, f)[i] = f
    BY <1>1
  <2> QED
    BY <1>1, <2>1 DEF Ahead
<1>4. read_len' = 0 \/ CutIn(inbox', off' + (read_len' - read_cursor'))
  BY <1>1, CutBeforeAppend DEF Ahead
<1>5. off > 0 => Head(inbox') = Head(inbox)
  <2>1. off > 0 => inbox # <<>>
    BY <1>1 DEF ReaderInv, AtBoundary, Inside
  <2> QED
    BY <1>1, <2>1
<1>6. off' > 0 => OneFrame(Head(inbox'))
  BY <1>1, <1>5 DEF Ahead
<1>7. Held(frame_cursor', inbox', off') = Held(frame_cursor, inbox, off)
  BY <1>1, <1>5 DEF Held
<1>8. CarriesRest(inbox', Len(got'), Held(frame_cursor', inbox', off'),
                  partial', sent')
  BY <1>1, <1>7, SentIsCarried DEF Ahead
<1> QED
  BY <1>2, <1>3, <1>4, <1>6, <1>8 DEF Ahead

(* Steps that leave the reading side alone.                                *)
LEMMA SameAhead ==
  ASSUME Ahead, ReaderKept(ws'),
         UNCHANGED <<frame_cursor, inbox, off, sender, got>>,
         read_len' = 0 \/ CutIn(inbox, off + (read_len' - read_cursor'))
  PROVE  Ahead'
<1>1. MessageInv(ws', inbox, off, peer)
  BY SameReader DEF Ahead, ReaderKept
<1> QED
  BY <1>1 DEF Ahead, sender

(* OrderInv is preserved by each action, which is a step of the message    *)
(* channel.                                                                *)
LEMMA OrderStep ==
  ASSUME GoodChunks, OrderInv, [Next]_vars
  PROVE  OrderInv' /\ Channels
<1>1. /\ StepInv /\ StepInv' /\ TypeInv /\ TypeInv' /\ InOrder
      /\ ws \in WebSocket /\ NothingForgotten
      /\ pc \notin {"failed", "done"} => Ahead
  BY StepStep DEF OrderInv, StepInv, TypeInv, TypeOK
<1>2. ReaderKept(ws)
  BY <1>1 DEF ReaderKept
<1>3. ASSUME ReaderKept(ws'),
             UNCHANGED <<frame_cursor, inbox, off, sender, got>>,
             pc' \notin {"failed", "done"} =>
               /\ pc \notin {"failed", "done"}
               /\ read_len' = 0
                    \/ CutIn(inbox, off + (read_len' - read_cursor'))
      PROVE  OrderInv' /\ Channels
  <2>1. NothingForgotten'
    BY <1>1, <1>3 DEF NothingForgotten, ReaderKept
  <2>2. InOrder' /\ Channels
    BY <1>1, <1>3 DEF InOrder, Channels, Delivers, sender
  <2>3. pc' \notin {"failed", "done"} => Ahead'
    BY <1>1, <1>3, SameAhead
  <2> QED
    BY <1>1, <2>1, <2>2, <2>3 DEF OrderInv
<1>4. CASE PeerSends
  <2> PICK f : PeerSent(f)
    BY <1>1, <1>4, SendsFrameMeans, FramerAssumption
    DEF PeerSends, TypeInv, TypeOK
  <2>1. UNCHANGED <<framer, got>>
    BY <1>4 DEF PeerSends
  <2>2. Channels
    BY <2>1 DEF PeerSent, Channels, Delivers
  <2>3. InOrder'
    BY <1>1, <2>2, InOrderStep DEF Channels
  <2>4. NothingForgotten'
    BY <1>1, <2>1 DEF NothingForgotten, framer
  <2>5. pc' \notin {"failed", "done"} => Ahead'
    BY <1>1, <2>1, SendKeepsAhead DEF framer
  <2> QED
    BY <1>1, <2>2, <2>3, <2>4, <2>5 DEF OrderInv
<1>5. CASE Connect \/ ConnectReads \/ Accept
  <2>1. /\ ReaderKept(ws') /\ pc \in {"start", "connecting"}
        /\ UNCHANGED <<frame_cursor, inbox, off, sender, got>>
        /\ read_len' = read_len
    BY <1>1, <1>5, OpeningLeaves
  <2>2. read_len' = 0
    BY <1>1, <2>1 DEF TypeInv
  <2> QED
    BY <1>3, <2>1, <2>2
<1>6. CASE Write \/ Close
  <2> PICK s : Writing(s)
    BY <1>1, <1>6, WritingMeans
  <2>1. /\ ReaderKept(ws') /\ pc = "idle"
        /\ UNCHANGED <<frame_cursor, inbox, off, sender, got, read_len,
                       read_cursor>>
    BY <1>1, WritingLeaves
  <2> QED
    BY <1>1, <1>3, <2>1 DEF Ahead
<1>7. CASE Refill
  <2> PICK n \in 0..ReadBufLen :
        /\ CutAt(off + n)
        /\ read_len' = n /\ read_cursor' = 0
        /\ IF n = 0 THEN Returns("Closed")
           ELSE pc' = "decoding" /\ UNCHANGED result
    BY <1>7 DEF Refill
  <2>1. /\ pc = "reading" /\ ReaderKept(ws')
        /\ UNCHANGED <<frame_cursor, inbox, off, sender, got>>
    BY <1>2, <1>7 DEF Refill, stream
  <2>2. off + n \in Nat /\ inbox \in Seq(Frame) /\ n - 0 = n
    <3>1. ReadBufLen \in Nat
      BY FramerAssumption
    <3>2. off \in Nat /\ inbox \in Seq(Frame)
      BY <1>1 DEF TypeInv, TypeOK, StreamTypeOK
    <3> QED
      BY <3>1, <3>2
  <2>3. CutIn(inbox, off + (read_len' - read_cursor'))
    BY <2>2, CutAtMeans
  <2> QED
    BY <1>3, <2>1, <2>3
<1>8. CASE Decode
  <2> PICK r, from, to : Round(r, from, to)
    BY <1>1, <1>8, DecodeMeans
  <2>1. pc = "decoding" /\ sent' = sent
    BY DEF Round, sender
  <2>2. /\ Delivers /\ NothingForgotten'
        /\ pc' \notin {"failed", "done"} => Ahead'
    BY <1>1, <2>1, RoundDelivers
  <2>3. InOrder' /\ Channels
    BY <1>1, <2>1, <2>2, InOrderStep DEF Channels
  <2> QED
    BY <1>1, <2>2, <2>3 DEF OrderInv
<1>9. CASE PeerEnds \/ Read \/ RefillFails \/ Resume \/ DecodeRefuses
           \/ UNCHANGED vars
  <2>1. UNCHANGED <<ws, frame_cursor, inbox, off, sender, got, read_len,
                    read_cursor>>
    BY <1>9 DEF PeerEnds, EndsStream, Read, RefillFails, Resume,
                DecodeRefuses, vars, framer, stream
  <2>2. pc' \notin {"failed", "done"} => pc \notin {"failed", "done"}
    BY <1>9 DEF PeerEnds, Read, RefillFails, Resume, DecodeRefuses, vars,
                framer, Returns, Fails
  <2> QED
    BY <1>1, <1>2, <1>3, <2>1, <2>2 DEF Ahead
<1> QED
  BY <1>4, <1>5, <1>6, <1>7, <1>8, <1>9 DEF Next

(* OrderInv holds in the initial states.                                   *)
LEMMA OrderInit == ASSUME Init PROVE OrderInv
<1>1. StepInv
  BY StepInit
<1>2. /\ inbox = <<>> /\ off = 0 /\ peer = "None" /\ sent = <<>>
      /\ got = <<>> /\ partial = 0 /\ frame_cursor = 0 /\ read_len = 0
      /\ ws.continuation_read.op_code = "None"
  BY DEF Init, StreamInit, new_websocket, NoContinuation
<1>3. DOMAIN <<>> = {} /\ Len(<<>>) = 0
  OBVIOUS
<1>4. \A m : ~MessageFrom(inbox, 1, peer, m)
  BY <1>2, <1>3 DEF MessageFrom, DataOpCode
<1>5. MessageInv(ws, inbox, off, peer)
  BY <1>2, <1>3, <1>4 DEF MessageInv, StreamInv
<1>7. Ahead
  BY <1>2, <1>3, <1>5, NothingCarried DEF Ahead, Held
<1> QED
  BY <1>1, <1>2, <1>3, <1>7 DEF OrderInv, NothingForgotten, InOrder

(***************************************************************************)
(* Nothing comes out of read but what the peer has sent, message by        *)
(* message and in order, with control messages between the fragments and   *)
(* partial reads, also when the stream fails or ends: for all lengths, and *)
(* for chunks that do not end inside a header, a control frame or a        *)
(* fragment, with room in frame_buf.                                       *)
(***************************************************************************)
THEOREM OrderCorrect ==
  ASSUME Cuts # "anywhere",
         \A len \in PayloadLens : MaxMessage + len <= FrameBufLen
  PROVE  Spec => []ComesOutInOrder
<1> GoodChunks
  BY DEF GoodChunks
<1>1. Init => OrderInv
  BY OrderInit
<1>2. OrderInv /\ [Next]_vars => OrderInv'
  BY OrderStep
<1>3. OrderInv => ComesOutInOrder
  BY InOrderMeans DEF OrderInv, StepInv
<1> QED
  BY <1>1, <1>2, <1>3, PTL DEF Spec

(* What is ahead says how much of its message frame_buf holds.             *)
LEMMA CollectedIsSent ==
  ASSUME NEW s, Len(s) \in Nat, NEW n, NEW h, NEW part, NEW msgs,
         CarriesRest(s, n, h, part, msgs)
  PROVE  Collected(s, h) = part
<1> DEFINE eq(g) == g = [i \in 0..Len(s) |->
                           IF i = 0 THEN h
                           ELSE HeldAfter(s[i], g[i - 1])]
           taken == CHOOSE g : eq(g)
<1> PICK done, held : /\ Carries(s, done, held, msgs)
                      /\ done[0] = n /\ held[0] = h
                      /\ done[Len(s)] = Len(msgs) /\ held[Len(s)] = part
  BY DEF CarriesRest
<1>1. /\ held \in [0..Len(s) -> 0..MaxMessage]
      /\ \A i \in 1..Len(s) : held[i] = HeldAfter(s[i], held[i - 1])
  BY DEF Carries
<1>2. ASSUME NEW i \in 0..Len(s)
      PROVE  held[i] = IF i = 0 THEN h ELSE HeldAfter(s[i], held[i - 1])
  BY <1>1
<1>3. held = [i \in 0..Len(s) |-> held[i]]
  BY <1>1
<1>4. eq(held)
  BY <1>2, <1>3
<1>5. eq(taken)
  BY <1>4
<1> HIDE DEF taken
<1>6. /\ taken[0] = h
      /\ \A i \in 1..Len(s) : taken[i] = HeldAfter(s[i], taken[i - 1])
  <2>1. \A i \in 0..Len(s) :
          taken[i] = IF i = 0 THEN h ELSE HeldAfter(s[i], taken[i - 1])
    BY <1>5
  <2> QED
    BY <2>1
<1>7. Alike(taken, held, Len(s))
  BY <1>1, <1>6 DEF Alike
<1>8. taken[Len(s)] = held[Len(s)]
  BY <1>7, AlikeIsEqual
<1>9. Collected(s, h) = taken[Len(s)]
  BY DEF Collected, taken
<1> QED
  BY <1>8, <1>9

(***************************************************************************)
(* Under these conditions frame_cursor counts the bytes handed over of the *)
(* message under way and no others: what frame_buf holds and the stream    *)
(* still has of it is as much as the peer has sent of it.                  *)
(***************************************************************************)
THEOREM CollectingCorrect ==
  ASSUME Cuts # "anywhere",
         \A len \in PayloadLens : MaxMessage + len <= FrameBufLen
  PROVE  Spec => []NothingLeftBehind
<1> GoodChunks
  BY DEF GoodChunks
<1>1. Init => OrderInv
  BY OrderInit
<1>2. OrderInv /\ [Next]_vars => OrderInv'
  BY OrderStep
<1>3. OrderInv => NothingLeftBehind
  <2> SUFFICES ASSUME OrderInv, pc \notin {"done", "failed"}
               PROVE  Collected(inbox, Held(frame_cursor, inbox, off))
                        = partial
    BY DEF NothingLeftBehind
  <2>1. Ahead /\ inbox \in Seq(Frame)
    BY DEF OrderInv, StepInv, TypeInv, TypeOK, StreamTypeOK
  <2>2. Len(inbox) \in Nat
    BY <2>1
  <2> QED
    BY <2>1, <2>2, CollectedIsSent DEF Ahead
<1> QED
  BY <1>1, <1>2, <1>3, PTL DEF Spec

(***************************************************************************)
(* Under these conditions the framer implements the message channel: each  *)
(* step sends a message, hands over the next one, or is no step of it.     *)
(***************************************************************************)
THEOREM ChannelImplemented ==
  ASSUME Cuts # "anywhere",
         \A len \in PayloadLens : MaxMessage + len <= FrameBufLen
  PROVE  Spec => MC!Safety
<1> GoodChunks
  BY DEF GoodChunks
<1>1. Init => OrderInv /\ MC!Init
  BY OrderInit DEF Init, StreamInit, MC!Init
<1>2. OrderInv /\ [Next]_vars => OrderInv' /\ [MC!Next]_(MC!vars)
  <2> SUFFICES ASSUME OrderInv, [Next]_vars
               PROVE  OrderInv' /\ [MC!Next]_(MC!vars)
    OBVIOUS
  <2>1. OrderInv' /\ Channels
    BY OrderStep
  <2>2. Channels => MC!Next \/ UNCHANGED MC!vars
    BY DEF Channels, Delivers, MC!Next, MC!Send, MC!Receive, MC!vars
  <2> QED
    BY <2>1, <2>2
<1> QED
  BY <1>1, <1>2, PTL DEF Spec, MC!Safety

-----------------------------------------------------------------------------
(* No call fails.                                                          *)

\* Everything is as the framer needs it: nothing outside of it fails, the
\* application leaves the closing to the peer, a client's response comes by
\* itself, chunks are good, and the buffers have room.
AllIsWell ==
  /\ Failures = FALSE /\ AppCloses = FALSE
  /\ HttpAlone = TRUE \/ IsClient = FALSE
  /\ GoodChunks
  /\ MaxMessage < FrameBufLen
  /\ \A len \in PayloadLens : len + 14 <= WriteBufLen
  /\ 7 <= WriteBufLen

(* While the framer decodes, frame_buf holds no more than a message.       *)
LEMMA DecodingHasRoom ==
  ASSUME GoodChunks, StepInv, Ahead, pc = "decoding"
  PROVE  frame_cursor <= MaxMessage
<1> DEFINE f == Head(inbox)
           h == Held(frame_cursor, inbox, off)
           pos == off + (read_len - read_cursor)
<1>1. /\ inbox \in Seq(Frame) /\ off \in Nat /\ frame_cursor \in Nat
      /\ read_len \in Nat /\ read_cursor \in Nat /\ read_cursor < read_len
      /\ sent \in Seq(Message) /\ ReaderInv(ws, inbox, off)
  BY DEF StepInv, TypeInv, TypeOK, StreamTypeOK
<1>2. pos \in Nat /\ pos > 0 /\ CutIn(inbox, pos)
  BY <1>1 DEF Ahead
<1>3. inbox # <<>>
  BY <1>1, <1>2, CutCovers DEF GoodChunks
<1>4. /\ h \in 0..MaxMessage
      /\ f.msg \in DataOpCode => h + f.len <= MaxMessage
  BY <1>1, <1>3, TakenIsCarried DEF Ahead
<1>5. MaxMessage \in Nat
  BY ByteStreamAssumption
<1>6. CASE off = 0
  BY <1>1, <1>4, <1>5, <1>6 DEF Held
<1>7. CASE off # 0
  <2>1. off > 0
    BY <1>1, <1>7
  <2>2. off \in HeaderLen(f)..(FrameLen(f) - 1)
    BY <1>1, <1>7 DEF ReaderInv, AtBoundary, Inside
  <2>3. f = inbox[1] /\ 1 \in DOMAIN inbox
    BY <1>1, <1>3
  <2>4. FromPeer(f) /\ f.op_code \in DataOpCode
    BY <2>1, <2>3 DEF Ahead, OneFrame
  <2>5. f \in Frame /\ f.msg \in DataOpCode
    BY <2>4 DEF FromPeer
  <2>6. /\ HeaderLen(f) \in Nat /\ f.len \in Nat
        /\ FrameLen(f) = HeaderLen(f) + f.len
    BY <2>5, FrameLenType
  <2>7. h = frame_cursor - (off - HeaderLen(f))
    BY <1>7 DEF Held
  <2>8. h \in Nat /\ h + f.len <= MaxMessage
    BY <1>4, <1>5, <2>5
  <2> HIDE DEF f, h
  <2> QED
    BY <1>1, <1>5, <2>2, <2>6, <2>7, <2>8
<1> QED
  BY <1>6, <1>7

(* The answer to a frame that fits write_buf behind any header is sent.    *)
LEMMA SendBackFits ==
  ASSUME NEW w \in WebSocket, NEW m \in SendMessageType, NEW len \in Nat,
         len + 14 <= WriteBufLen, w.state \in {"Open", "CloseReceived"}
  PROVE  send_back(w, m, len).ret.err = "None"
<1> DEFINE g == encode_frame(w, write_op_code(w, m), TRUE, len,
                             "InternalServerError", to_op_code(m))
<1>1. WriteBufLen \in Nat
  BY FramerAssumption
<1>2. IF WriteBufLen <= len THEN WriteBufLen = len ELSE TRUE
  BY <1>1
<1>3. send_back(w, m, len) = write(w, m, TRUE, len, "InternalServerError",
                                   WriteBufLen)
  BY <1>2 DEF send_back
<1>4. send_back(w, m, len).ret.err = write_frame(g, WriteBufLen).err
  <2> DEFINE s == write(w, m, TRUE, len, "InternalServerError", WriteBufLen)
  <2>1. s.ret.err = write_frame(g, WriteBufLen).err
    BY DEF write, returns
  <2> HIDE DEF s, g
  <2> QED
    BY <1>3, <2>1 DEF s
<1>5. g.len = len /\ g.ext \in {0, 2, 8}
  BY DEF encode_frame, length_bytes
<1> HIDE DEF g
<1>6. FrameLen(g) \in Nat /\ FrameLen(g) <= len + 14
  BY <1>5 DEF FrameLen, HeaderLen
<1>7. ~(FrameLen(g) > WriteBufLen)
  BY <1>1, <1>6
<1> QED
  BY <1>4, <1>7 DEF write_frame

(* A round of an open websocket reads something.                           *)
LEMMA OpenRoundTakes ==
  ASSUME GoodChunks, StepInv, Ahead, ws.state = "Open",
         NEW r, NEW from, NEW to, Round(r, from, to)
  PROVE  TakesOf(Head(inbox), r)
<1> DEFINE f == Head(inbox)
<1>1. CASE ws.continuation_read.op_code # "None"
  BY <1>1, RoundContinues
<1>2. CASE ws.continuation_read.op_code = "None"
  <2>1. /\ inbox # <<>> /\ FromPeer(f)
        /\ \/ off + from >= FrameLen(f)
           \/ OneFrame(f) /\ off + from >= HeaderLen(f)
    BY RoundCovers
  <2>2. ReaderInv(ws, inbox, off) /\ from \in Nat
    BY DEF Round, StepInv
  <2>3. f \in Frame /\ f.op_code \in WebSocketOpCode
    BY <2>1 DEF FromPeer
  <2>4. off = 0
    <3>1. ~Inside(ws, inbox, off)
      BY <1>2, <2>3
      DEF Inside, WebSocketOpCode, DataOpCode, ControlOpCode
    <3> QED
      BY <2>2, <3>1 DEF ReaderInv, AtBoundary
  <2>5. /\ HeaderLen(f) \in Nat /\ HeaderLen(f) >= 2 /\ f.len \in Nat
        /\ FrameLen(f) = HeaderLen(f) + f.len
    BY <2>3, FrameLenType
  <2> HIDE DEF f
  <2>6. from >= HeaderLen(f)
    BY <2>1, <2>2, <2>4, <2>5
  <2>7. read_frame_error(f, from) = "None"
    BY <2>2, <2>3, <2>5, <2>6 DEF read_frame_error
  <2> QED
    BY <1>2, <2>7, RoundStarts DEF f
<1> QED
  BY <1>1, <1>2

(* A round of an open websocket does not fail, and leaves it open if the   *)
(* framer is to go on.                                                     *)
LEMMA OpenRound ==
  ASSUME AllIsWell, StepInv, Ahead, ws.state = "Open",
         NEW r, NEW from, NEW to, Round(r, from, to)
  PROVE  pc' # "failed" /\ (pc' # "done" => ws'.state = "Open")
<1> DEFINE f == Head(inbox)
           m == r.ret.message_type
           d == r.ret.len_to
<1>1. TakesOf(f, r) /\ inbox # <<>> /\ FromPeer(f) /\ At(inbox) = f
  BY OpenRoundTakes, RoundCovers DEF AllIsWell
<1>2. /\ ws \in WebSocket /\ r.ws \in WebSocket /\ from \in Nat /\ to \in Nat
      /\ r = read(ws, f, "InternalServerError", from, to)
      /\ f \in Frame /\ Outcome(r) /\ d \in Nat /\ pc = "decoding"
      /\ CloseReadOnce(ws) /\ f.op_code \in WebSocketOpCode
      /\ f.len \in PayloadLens /\ f.len \in Nat
  BY <1>1, FrameLenType
  DEF Round, StepInv, TypeInv, TypeOK, Return, ReaderInv, FromPeer
<1>3. r.ret.err = "None" /\ ReportsFrame(ws, inbox, off, r)
  BY <1>1 DEF TakesOf
<1>4. /\ r.ws.state \in {"Open", "CloseReceived"}
      /\ f.op_code # "ConnectionClose" => r.ws.state = "Open"
  BY <1>2, ReadState, CloseStatusAssumption DEF CloseReadOnce
<1>5. /\ f.op_code = "ConnectionClose" =>
           m \in {"CloseMustReply", "CloseCompleted"}
      /\ f.op_code # "ConnectionClose" => m = message_type_of(f.msg)
  BY <1>3 DEF ReportsFrame
<1>6. f.op_code # "ConnectionClose" =>
        m \notin {"CloseMustReply", "CloseCompleted"}
  BY <1>5 DEF message_type_of
<1>7. m \in {"CloseMustReply", "Ping"} => f.op_code \in ControlOpCode
  <2>1. f.op_code \in ControlOpCode \/ f.msg \in DataOpCode
    BY <1>1 DEF FromPeer, WebSocketOpCode
  <2>2. f.msg \in DataOpCode => message_type_of(f.msg) # "Ping"
    BY DEF message_type_of, DataOpCode
  <2> QED
    BY <1>5, <1>6, <2>1, <2>2 DEF ControlOpCode
<1>8. m \in {"CloseMustReply", "Ping"} => d + 14 <= WriteBufLen
  <2> SUFFICES ASSUME m \in {"CloseMustReply", "Ping"}
               PROVE  d + 14 <= WriteBufLen
    OBVIOUS
  <2>1. ws.continuation_read.op_code = "None"
    BY <1>1, <1>7 DEF TakesOf
  <2>2. d \in 0..f.len
    BY <1>2, <1>3, <2>1, StartGives
  <2>3. f.len + 14 <= WriteBufLen /\ WriteBufLen \in Nat
    BY <1>2, FramerAssumption DEF AllIsWell
  <2> HIDE DEF f, d
  <2> QED
    BY <1>2, <2>2, <2>3
<1>9. Failures = FALSE
  BY DEF AllIsWell
<1>10. CASE m \in {"Text", "Binary"} /\ Collects(r.ws, r.ret)
  BY <1>2, <1>4, <1>5, <1>10 DEF Collects, Returns, GoesOn
<1>11. CASE m = "CloseMustReply" /\ RepliesToClose(r.ws, r.ret)
  <2>1. send_back(r.ws, "CloseReply", d).ret.err = "None"
    BY <1>2, <1>4, <1>8, <1>11, SendBackFits DEF SendMessageType
  <2> QED
    BY <1>9, <1>11, <2>1 DEF RepliesToClose, Returns
<1>12. CASE m = "Ping" /\ AnswersPing(r.ws, r.ret)
  <2> DEFINE s == send_back(r.ws, "Pong", d)
  <2>1. s.ret.err = "None" /\ SentBack(r.ws, "Pong", d, s)
    BY <1>2, <1>4, <1>8, <1>12, SendBackFits, SendBack DEF SendMessageType
  <2>2. ws' = s.ws /\ GoesOn
    BY <1>9, <1>12, <2>1 DEF AnswersPing
  <2> HIDE DEF s
  <2>3. ws' = after_write(r.ws, "Pong", TRUE)
    BY <2>1, <2>2 DEF SentBack
  <2>4. r.ws.state = "Open"
    BY <1>4, <1>5, <1>12
  <2> QED
    BY <1>2, <2>2, <2>3, <2>4 DEF after_write, WebSocket, GoesOn
<1>13. CASE HandsOver(r.ws, r.ret)
  BY <1>4, <1>5, <1>13 DEF HandsOver, Returns
<1> QED
  BY <1>2, <1>3, <1>10, <1>11, <1>12, <1>13 DEF Outcome

(***************************************************************************)
(* The websocket is open between the handshake and the peer's close frame. *)
(***************************************************************************)
WellInv ==
  /\ OrderInv /\ ClosedInv /\ NeverFails
  /\ pc \in {"start", "connecting"} => ws.state # "Open"
  /\ pc \in {"idle", "reading", "decoding"} => ws.state = "Open"

(* WellInv is preserved by each action.                                    *)
LEMMA WellStep ==
  ASSUME AllIsWell, WellInv, [Next]_vars
  PROVE  WellInv'
<1>1. /\ OrderInv' /\ ClosedInv' /\ OrderInv /\ StepInv /\ TypeInv
      /\ Failures = FALSE /\ AppCloses = FALSE /\ GoodChunks
  BY OrderStep, ClosedStep DEF AllIsWell, WellInv, OrderInv, StepInv
<1>2. ws \in WebSocket /\ pc \in PC /\ pc # "failed" /\ HttpLen \in Nat
  BY <1>1, FramerAssumption DEF TypeInv, TypeOK, WellInv, NeverFails
<1> SUFFICES /\ pc' # "failed"
             /\ pc' \in {"start", "connecting"} => ws'.state # "Open"
             /\ pc' \in {"idle", "reading", "decoding"} => ws'.state = "Open"
  BY <1>1 DEF WellInv, NeverFails
<1>3. CASE PeerSends \/ PeerEnds \/ UNCHANGED vars
  BY <1>2, <1>3 DEF WellInv, PeerSends, PeerEnds, vars, framer
<1>4. CASE Connect
  <2>1. /\ ws' = client_connect(ws, "None").ws /\ pc' = "connecting"
        /\ ws.state # "Open"
    BY <1>1, <1>4 DEF Connect, WellInv
  <2> QED
    BY <1>2, <2>1 DEF client_connect, handshake, WebSocket
<1>5. CASE ConnectReads
  <2> PICK n, r : Connected(n, r)
    BY <1>1, <1>5, ConnectReadsMeans
  <2>1. /\ pc = "connecting"
        /\ HttpAlone = TRUE => n = http
        /\ Accepted(n, r) /\ GoesOnConnecting(n, r) /\ ws' = r.ws
    BY DEF Connected
  <2>2. IsClient = TRUE /\ http = HttpLen /\ read_cursor = 0
    BY <2>1 DEF WellInv, ClosedInv
  <2>3. n = HttpLen /\ ws.state # "Open"
    BY <2>1, <2>2 DEF AllIsWell, WellInv
  <2>4. r.ret.err = "None" /\ r.ws.state = "Open"
    BY <1>1, <1>2, <2>1, <2>2, <2>3 DEF Accepted
  <2>5. pc' = "idle"
    BY <1>2, <2>1, <2>3, <2>4 DEF GoesOnConnecting
  <2> QED
    BY <2>1, <2>4, <2>5
<1>6. CASE Accept
  <2>1. /\ ws' = server_accept(ws, "None").ws /\ pc' = "idle"
        /\ ws.state # "Open"
    BY <1>1, <1>6 DEF Accept, WellInv
  <2> QED
    BY <1>2, <2>1 DEF server_accept, handshake, WebSocket
<1>7. CASE Write \/ Close
  <2> PICK s : Writing(s)
    BY <1>1, <1>7, WritingMeans
  <2>1. s.ws.state = "Open" /\ s.ret.err = "None" /\ pc = "idle"
    BY <1>1 DEF Writing, AllIsWell
  <2>2. ws' = s.ws /\ pc' = pc
    BY <1>1, <2>1 DEF Writing, WritesFrame
  <2> QED
    BY <2>1, <2>2
<1>8. CASE RefillFails
  BY <1>1, <1>8 DEF RefillFails
<1>9. CASE Read \/ Refill \/ Resume
  <2>1. ws' = ws /\ pc \in {"idle", "reading"}
        /\ pc' \in {"idle", "reading", "decoding", "done"}
    BY <1>9 DEF Read, Refill, Resume, Returns
  <2> QED
    BY <2>1 DEF WellInv
<1>10. CASE Decode
  <2> PICK r, from, to : Round(r, from, to)
    BY <1>1, <1>10, DecodeMeans
  <2>1. pc = "decoding" /\ Outcome(r)
    BY DEF Round
  <2>2. pc' \notin {"start", "connecting"}
    BY <2>1 DEF Outcome, Fails, Collects, RepliesToClose, AnswersPing,
                HandsOver, Returns, GoesOn
  <2>3. Ahead /\ ws.state = "Open"
    BY <1>1, <2>1 DEF WellInv, OrderInv
  <2> QED
    BY <1>1, <2>2, <2>3, OpenRound
<1>11. CASE DecodeRefuses
  <2>1. pc = "decoding" /\ frame_cursor = FrameBufLen
    BY <1>11 DEF DecodeRefuses
  <2>2. Ahead
    BY <1>1, <2>1 DEF OrderInv
  <2>3. frame_cursor <= MaxMessage
    BY <1>1, <2>1, <2>2, DecodingHasRoom
  <2>4. FrameBufLen \in Nat /\ MaxMessage \in Nat /\ MaxMessage < FrameBufLen
    BY FramerAssumption, ByteStreamAssumption DEF AllIsWell
  <2> QED
    BY <2>1, <2>3, <2>4
<1> QED
  BY <1>3, <1>4, <1>5, <1>6, <1>7, <1>8, <1>9, <1>10, <1>11 DEF Next

(***************************************************************************)
(* No call of the framer fails or panics, whatever messages, fragments and *)
(* control frames the peer sends and whenever the application writes, if   *)
(* the stream does not fail, the response comes by itself, chunks do not   *)
(* end inside a header, a control frame or a fragment, the application     *)
(* leaves the closing to the peer, frame_buf has room for the messages,    *)
(* and write_buf for the answers and for what the application writes.      *)
(***************************************************************************)
THEOREM FramerNeverFails ==
  ASSUME Failures = FALSE, AppCloses = FALSE,
         HttpAlone = TRUE \/ IsClient = FALSE,
         Cuts # "anywhere",
         \A len \in PayloadLens : /\ MaxMessage + len <= FrameBufLen
                                  /\ len + 14 <= WriteBufLen,
         MaxMessage < FrameBufLen,
         7 <= WriteBufLen
  PROVE  Spec => []NeverFails
<1>0. AllIsWell
  BY DEF AllIsWell, GoodChunks
<1>1. Init => WellInv
  <2> SUFFICES ASSUME Init PROVE WellInv
    OBVIOUS
  <2>1. OrderInv /\ StepInv
    BY OrderInit, StepInit
  <2>2. ClosedInv
    BY <2>1 DEF Init, ClosedInv, ClosedMeansClosed
  <2>3. ws.state # "Open"
    BY DEF Init, new_websocket
  <2> QED
    BY <2>1, <2>2, <2>3 DEF Init, WellInv, NeverFails
<1>2. WellInv /\ [Next]_vars => WellInv'
  BY <1>0, WellStep
<1>3. WellInv => NeverFails
  BY DEF WellInv
<1> QED
  BY <1>1, <1>2, <1>3, PTL DEF Spec
=============================================================================
