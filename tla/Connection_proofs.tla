------------------------- MODULE Connection_proofs -------------------------
(***************************************************************************)
(* Proofs about Connection, for all lengths, buffer sizes and cuts.  Both  *)
(* ends are instances of Endpoint, whose codec operators are those of      *)
(* WebSocketCodec under another name: the first lemmas say so, and what    *)
(* Reading_proofs and Codec_proofs say of a reader and of a writer then    *)
(* holds of either end.                                                    *)
(***************************************************************************)
EXTENDS Connection, Reading_proofs, SequenceTheorems

-----------------------------------------------------------------------------
(* The codec of either end is the codec.                                   *)

(* The frames, the websockets and the answers of either end.               *)
LEMMA SameTypes ==
  /\ C!Frame = Frame /\ C!WebSocket = WebSocket
  /\ C!Return = Return /\ C!Wire = Wire
  /\ S!Frame = Frame /\ S!WebSocket = WebSocket
  /\ S!Return = Return /\ S!Wire = Wire
BY
  DEF C!Frame, C!WebSocket, C!Return, C!Wire, C!DataOpCode, C!ControlOpCode,
      C!WebSocketOpCode, C!WebSocketState, C!ContinuationRead, C!MessageType,
      C!Error, C!Call, S!Frame, S!WebSocket, S!Return, S!Wire, S!DataOpCode,
      S!ControlOpCode, S!WebSocketOpCode, S!WebSocketState,
      S!ContinuationRead, S!MessageType, S!Error, S!Call, Frame, WebSocket,
      Return, Wire, DataOpCode, ControlOpCode, WebSocketOpCode,
      WebSocketState, ContinuationRead, MessageType, Error, Call

(* A later read of a frame.                                                *)
LEMMA SameContinuation ==
  \A cr, status, from, to :
    LET r == read_continuation(cr, status, from, to)
    IN  /\ C!read_continuation(cr, status, from, to) = r
        /\ S!read_continuation(cr, status, from, to) = r
BY
  DEF C!read_continuation, C!decode_close_frame, C!frame_read, C!min,
      C!rotate_left, S!read_continuation, S!decode_close_frame, S!frame_read,
      S!min, S!rotate_left, read_continuation, decode_close_frame,
      frame_read, min, rotate_left

(* The first read of a frame.                                              *)
LEMMA SamePayload ==
  \A f, from, to :
    /\ C!read_payload(f, from, to) = read_payload(f, from, to)
    /\ S!read_payload(f, from, to) = read_payload(f, from, to)
BY
  DEF C!read_payload, C!decode_close_frame, C!frame_read, C!min,
      C!rotate_left, C!NoContinuation, C!HeaderLen, S!read_payload,
      S!decode_close_frame, S!frame_read, S!min, S!rotate_left,
      S!NoContinuation, S!HeaderLen, read_payload, decode_close_frame,
      frame_read, min, rotate_left, NoContinuation, HeaderLen

(* The state changes of read.                                              *)
LEMMA SameDispatch ==
  \A w, frame, starved :
    /\ C!dispatch_frame(w, frame, starved) = dispatch_frame(w, frame, starved)
    /\ S!dispatch_frame(w, frame, starved) = dispatch_frame(w, frame, starved)
BY
  DEF C!dispatch_frame, C!to_readresult, C!returns, C!message_type_of,
      S!dispatch_frame, S!to_readresult, S!returns, S!message_type_of,
      dispatch_frame, to_readresult, returns, message_type_of

(* The codec state after a later read of a frame.                          *)
LEMMA SameContinue ==
  \A w, r :
    /\ C!continue_frame(w, r) = continue_frame(w, r)
    /\ S!continue_frame(w, r) = continue_frame(w, r)
BY
  DEF C!continue_frame, C!NoContinuation, S!continue_frame, S!NoContinuation,
      continue_frame, NoContinuation

(* The codec state after the first read of a frame.                        *)
LEMMA SameStart ==
  \A w, r :
    /\ C!start_frame(w, r) = start_frame(w, r)
    /\ S!start_frame(w, r) = start_frame(w, r)
BY
  DEF C!start_frame, C!DataOpCode, S!start_frame, S!DataOpCode, start_frame,
      DataOpCode

(* The opcode of a continuation frame.                                     *)
LEMMA SameOverride ==
  \A w, frame :
    /\ C!override_op_code(w, frame) = override_op_code(w, frame)
    /\ S!override_op_code(w, frame) = override_op_code(w, frame)
BY
  DEF C!override_op_code, S!override_op_code, override_op_code

(* The early returns of a read.                                            *)
LEMMA SameError ==
  \A f, from :
    /\ C!read_frame_error(f, from) = read_frame_error(f, from)
    /\ S!read_frame_error(f, from) = read_frame_error(f, from)
BY
  DEF C!read_frame_error, C!DataOpCode, C!ControlOpCode, C!WebSocketOpCode,
      C!HeaderLen, S!read_frame_error, S!DataOpCode, S!ControlOpCode,
      S!WebSocketOpCode, S!HeaderLen, read_frame_error, DataOpCode,
      ControlOpCode, WebSocketOpCode, HeaderLen

(* The answer of a call that fails.                                        *)
LEMMA SameReturns ==
  \A call, err :
    /\ C!returns(call, err) = returns(call, err)
    /\ S!returns(call, err) = returns(call, err)
BY
  DEF C!returns, S!returns, returns

(* A call of read.                                                         *)
LEMMA SameRead ==
  ASSUME NEW w, NEW f, NEW status, NEW from, NEW to
  PROVE  /\ C!read(w, f, status, from, to) = read(w, f, status, from, to)
         /\ S!read(w, f, status, from, to) = read(w, f, status, from, to)
<1> DEFINE cr == w.continuation_read
           r  == read_continuation(cr, status, from, to)
           p  == read_payload(f, from, to)
           v  == start_frame(w, p)
           e  == read_frame_error(f, from)
           starved == from = 0 \/ to = 0
           result ==
             IF w.state \notin {"Open", "CloseSent"}
             THEN [ws |-> w, ret |-> returns("read", "WebSocketNotOpen")]
             ELSE IF cr.op_code # "None"
             THEN dispatch_frame(continue_frame(w, r), r.frame, starved)
             ELSE IF e # "None"
             THEN [ws |-> w, ret |-> returns("read", e)]
             ELSE dispatch_frame(v, override_op_code(v, p.frame), starved)
<1>1. read(w, f, status, from, to) = result
  BY DEF read
<1>2. C!read(w, f, status, from, to) = result
  <2>1. /\ C!read_continuation(cr, status, from, to) = r
        /\ C!read_payload(f, from, to) = p
        /\ C!read_frame_error(f, from) = e
    BY SameContinuation, SamePayload, SameError
  <2>2. C!start_frame(w, C!read_payload(f, from, to)) = v
    BY <2>1, SameStart
  <2>3. C!continue_frame(w, C!read_continuation(cr, status, from, to))
          = continue_frame(w, r)
    BY <2>1, SameContinue
  <2>4. C!override_op_code(C!start_frame(w, C!read_payload(f, from, to)),
                           C!read_payload(f, from, to).frame)
          = override_op_code(v, p.frame)
    BY <2>1, <2>2, SameOverride
  <2> HIDE DEF r, p, v, e
  <2> QED
    BY <2>1, <2>2, <2>3, <2>4, SameDispatch, SameReturns DEF C!read
<1>3. S!read(w, f, status, from, to) = result
  <2>1. /\ S!read_continuation(cr, status, from, to) = r
        /\ S!read_payload(f, from, to) = p
        /\ S!read_frame_error(f, from) = e
    BY SameContinuation, SamePayload, SameError
  <2>2. S!start_frame(w, S!read_payload(f, from, to)) = v
    BY <2>1, SameStart
  <2>3. S!continue_frame(w, S!read_continuation(cr, status, from, to))
          = continue_frame(w, r)
    BY <2>1, SameContinue
  <2>4. S!override_op_code(S!start_frame(w, S!read_payload(f, from, to)),
                           S!read_payload(f, from, to).frame)
          = override_op_code(v, p.frame)
    BY <2>1, <2>2, SameOverride
  <2> HIDE DEF r, p, v, e
  <2> QED
    BY <2>1, <2>2, <2>3, <2>4, SameDispatch, SameReturns DEF S!read
<1> QED
  BY <1>1, <1>2, <1>3

(* A call of write.                                                        *)
LEMMA SameWrite ==
  \A w, m, e, count, status, to :
    /\ C!write(w, m, e, count, status, to) = write(w, m, e, count, status, to)
    /\ S!write(w, m, e, count, status, to) = write(w, m, e, count, status, to)
BY
  DEF C!write, C!write_op_code, C!to_op_code, C!after_write, C!refused,
      C!returns, C!encode_frame, C!length_bytes, C!write_frame, C!FrameLen,
      C!HeaderLen, S!write, S!write_op_code, S!to_op_code, S!after_write,
      S!refused, S!returns, S!encode_frame, S!length_bytes, S!write_frame,
      S!FrameLen, S!HeaderLen, write, write_op_code, to_op_code, after_write,
      refused, returns, encode_frame, length_bytes, write_frame, FrameLen,
      HeaderLen

(* A call of close.                                                        *)
LEMMA SameClose ==
  \A w, status, d, to :
    /\ C!close(w, status, d, to) = close(w, status, d, to)
    /\ S!close(w, status, d, to) = close(w, status, d, to)
BY
  DEF C!close, C!close_len, C!refused, C!returns, C!encode_frame,
      C!length_bytes, C!write_frame, C!FrameLen, C!HeaderLen, S!close,
      S!close_len, S!refused, S!returns, S!encode_frame, S!length_bytes,
      S!write_frame, S!FrameLen, S!HeaderLen, close, close_len, refused,
      returns, encode_frame, length_bytes, write_frame, FrameLen, HeaderLen

(* The framing rules.                                                      *)
LEMMA SameRules ==
  \A p, f :
    /\ C!WireAfter(p, f) = WireAfter(p, f)
    /\ S!WireAfter(p, f) = WireAfter(p, f)
BY
  DEF C!WireAfter, C!MessageAfter, C!DataOpCode, S!WireAfter, S!MessageAfter,
      S!DataOpCode, WireAfter, MessageAfter, DataOpCode

-----------------------------------------------------------------------------
(***************************************************************************)
(* What either end does, as a change of its websocket w, of the frames in  *)
(* that it has not consumed of those the other end has sent, of its place  *)
(* off in the first of them, of the frames out that it has sent, and of    *)
(* the place p or q in the framing rules of the one or the other stream.   *)
(***************************************************************************)

\* A call of read: what the websocket and the stream are after it.
Reading(w, in, off, p, r, w2, in2, off2, failed2) ==
  /\ \E from \in Nat, to \in Nat, status \in CloseStatus :
       /\ r = read(w, At(in), status, from, to)
       /\ \/ Cuts = "anywhere"
          \/ Cuts = "payloads" /\ MayBePart(in, p)
          \/ from < HeaderLen(At(in))
          \/ from >= FrameLen(At(in)) /\ to >= At(in).len
  /\ w2 = r.ws
  /\ in2 = FramesAfter(in, off, r.ret.len_from)
  /\ off2 = OffAfter(in, off, r.ret.len_from)
  /\ failed2 = (r.ret.err \in {"InvalidOpCode",
                               "UnexpectedContinuationFrame"})

\* A call of write or close.
Calling(w, q, r) ==
  \/ \E m \in SendMessageType, e \in BOOLEAN, count \in Nat,
        status \in CloseStatus, to \in Nat :
       /\ r = write(w, m, e, count, status, to)
       /\ m = "CloseReply" => w.state = "CloseReceived"
       /\ ~ControlInMessage => MayWrite(w, q, m, e)
  \/ \E status \in CloseStatus, d \in Nat, to \in Nat :
       r = close(w, status, d, to)

\* What is sent after it.
Writing(w, q, out, r, w2, q2, out2) ==
  /\ Calling(w, q, r)
  /\ SmallWriteBuffers \/ r.ret.err # "WriteToBufferTooSmall"
  /\ w2 = r.ws
  /\ out2 = out \o r.sent
  /\ q2 = IF r.sent = <<>> THEN q ELSE WireAfter(q, Head(r.sent))

\* The types of the state of one end.
EndType(w, in, off, p, failed) ==
  /\ w \in WebSocket /\ in \in Seq(Frame) /\ off \in Nat
  /\ p \in Wire /\ failed \in BOOLEAN

ConnectionType ==
  /\ EndType(cws, s2c, coff, stx, cfailed)
  /\ EndType(sws, c2s, soff, ctx, sfailed)
  /\ ret \in Return
  /\ http \in {"none", "request", "response"}

(* TypeOK says of the two ends what ConnectionType says.                   *)
LEMMA TypeMeans == TypeOK <=> ConnectionType
BY SameTypes DEF TypeOK, ConnectionType, EndType, C!TypeOK, S!TypeOK

(* The frame that an end is at.                                            *)
LEMMA SameCurrent ==
  /\ C!Current = At(s2c) /\ S!Current = At(c2s)
  /\ \A f : /\ C!HeaderLen(f) = HeaderLen(f) /\ C!FrameLen(f) = FrameLen(f)
            /\ S!HeaderLen(f) = HeaderLen(f) /\ S!FrameLen(f) = FrameLen(f)
<1>1. C!NoFrame = NoFrame /\ S!NoFrame = NoFrame
  BY DEF C!NoFrame, S!NoFrame, NoFrame
<1>2. C!Current = At(s2c) /\ S!Current = At(c2s)
  BY <1>1 DEF C!Current, S!Current, At
<1> QED
  BY <1>2 DEF C!HeaderLen, S!HeaderLen, HeaderLen, C!FrameLen, S!FrameLen,
              FrameLen

(* A call of read may see any number of the bytes that have arrived.       *)
LEMMA AvailableType ==
  ASSUME NEW in \in Seq(Frame), NEW off \in Nat
  PROVE  (IF in = <<>> THEN 0 ELSE FrameLen(At(in)) - off + 2 * (Len(in) - 1))
           \in Int
<1>1. FrameLen(At(in)) \in Int /\ Len(in) \in Int
  BY AtType, FrameLenType
<1> QED
  BY <1>1

(* A call of read by the client.                                           *)
LEMMA ClientReading ==
  ASSUME ConnectionType, C!Read
  PROVE  /\ \E r : /\ ret' = r.ret
                   /\ Reading(cws, s2c, coff, stx, r, cws', s2c', coff',
                              cfailed')
         /\ ~cfailed /\ UNCHANGED <<stx, c2s, ctx>>
<1>1. s2c \in Seq(Frame) /\ coff \in Nat
  BY DEF ConnectionType, EndType
<1> PICK from \in 0..C!Available, to \in ToLens, status \in CloseStatus :
      C!ReadCall(from, to, status)
  BY DEF C!Read
<1>2. from \in Nat /\ to \in Nat
  <2>1. C!Available \in Int
    BY <1>1, SameCurrent, AvailableType DEF C!Available
  <2> QED
    BY <2>1, ConnectionAssumption
<1> DEFINE r == read(cws, At(s2c), status, from, to)
           l == r.ret.len_from
<1>3. C!read(cws, C!Current, status, from, to) = r
  BY SameCurrent, SameRead
<1> HIDE DEF r
<1>4. /\ ~cfailed /\ cws' = r.ws /\ ret' = r.ret /\ C!Consume(l)
      /\ cfailed' = (r.ret.err \in {"InvalidOpCode",
                                "UnexpectedContinuationFrame"})
      /\ UNCHANGED <<stx, c2s, ctx>>
      /\ C!MayCut \/ C!WholeFrame(from, to)
  BY <1>3 DEF C!ReadCall
<1>5. s2c' = FramesAfter(s2c, coff, l) /\ coff' = OffAfter(s2c, coff, l)
  BY <1>4, SameCurrent DEF C!Consume, FramesAfter, OffAfter, Ends
<1>6. C!InMessage <=> Within(s2c, stx)
  BY <1>1, WithinMeans
     DEF C!InMessage, C!DataOpCode, DataOpCode, C!ControlOpCode,
         ControlOpCode
<1>7. \/ Cuts = "anywhere"
      \/ Cuts = "payloads" /\ MayBePart(s2c, stx)
      \/ from < HeaderLen(At(s2c))
      \/ from >= FrameLen(At(s2c)) /\ to >= At(s2c).len
  BY <1>4, <1>6, SameCurrent DEF C!MayCut, C!WholeFrame, MayBePart
<1>8. Reading(cws, s2c, coff, stx, r, cws', s2c', coff', cfailed')
  BY <1>2, <1>4, <1>5, <1>7 DEF Reading, r
<1> QED
  BY <1>4, <1>8

(* A call of read by the server.                                           *)
LEMMA ServerReading ==
  ASSUME ConnectionType, S!Read
  PROVE  /\ \E r : /\ ret' = r.ret
                   /\ Reading(sws, c2s, soff, ctx, r, sws', c2s', soff',
                              sfailed')
         /\ ~sfailed /\ UNCHANGED <<ctx, s2c, stx>>
<1>1. c2s \in Seq(Frame) /\ soff \in Nat
  BY DEF ConnectionType, EndType
<1> PICK from \in 0..S!Available, to \in ToLens, status \in CloseStatus :
      S!ReadCall(from, to, status)
  BY DEF S!Read
<1>2. from \in Nat /\ to \in Nat
  <2>1. S!Available \in Int
    BY <1>1, SameCurrent, AvailableType DEF S!Available
  <2> QED
    BY <2>1, ConnectionAssumption
<1> DEFINE r == read(sws, At(c2s), status, from, to)
           l == r.ret.len_from
<1>3. S!read(sws, S!Current, status, from, to) = r
  BY SameCurrent, SameRead
<1> HIDE DEF r
<1>4. /\ ~sfailed /\ sws' = r.ws /\ ret' = r.ret /\ S!Consume(l)
      /\ sfailed' = (r.ret.err \in {"InvalidOpCode",
                                "UnexpectedContinuationFrame"})
      /\ UNCHANGED <<ctx, s2c, stx>>
      /\ S!MayCut \/ S!WholeFrame(from, to)
  BY <1>3 DEF S!ReadCall
<1>5. c2s' = FramesAfter(c2s, soff, l) /\ soff' = OffAfter(c2s, soff, l)
  BY <1>4, SameCurrent DEF S!Consume, FramesAfter, OffAfter, Ends
<1>6. S!InMessage <=> Within(c2s, ctx)
  BY <1>1, WithinMeans
     DEF S!InMessage, S!DataOpCode, DataOpCode, S!ControlOpCode,
         ControlOpCode
<1>7. \/ Cuts = "anywhere"
      \/ Cuts = "payloads" /\ MayBePart(c2s, ctx)
      \/ from < HeaderLen(At(c2s))
      \/ from >= FrameLen(At(c2s)) /\ to >= At(c2s).len
  BY <1>4, <1>6, SameCurrent DEF S!MayCut, S!WholeFrame, MayBePart
<1>8. Reading(sws, c2s, soff, ctx, r, sws', c2s', soff', sfailed')
  BY <1>2, <1>4, <1>5, <1>7 DEF Reading, r
<1> QED
  BY <1>4, <1>8

(* A call of write or close by the client.                                 *)
LEMMA ClientSends ==
  ASSUME ClientWrites \/ ClientCloses \/ ClientReplies
  PROVE  /\ \E r : ret' = r.ret /\ Writing(cws, ctx, c2s, r, cws', ctx', c2s')
         /\ cws.state \in {"Open", "CloseReceived"}
         /\ UNCHANGED <<http, server, s2c, coff, cfailed>>
<1>1. ASSUME NEW r, C!Sends(r), Calling(cws, ctx, r)
      PROVE  /\ ret' = r.ret /\ Writing(cws, ctx, c2s, r, cws', ctx', c2s')
             /\ UNCHANGED <<s2c, coff, cfailed>>
  BY <1>1, SameRules DEF C!Sends, Writing
<1>2. ASSUME cws.state \in {"Open", "CloseReceived"},
             NEW m \in SendMessageType, NEW e \in BOOLEAN,
             NEW count \in WriteLens, NEW status \in CloseStatus,
             NEW to \in ToLens, C!WriteCall(m, e, count, status, to)
      PROVE  \E r : C!Sends(r) /\ Calling(cws, ctx, r)
  <2> DEFINE r == write(cws, m, e, count, status, to)
  <2>1. C!write(cws, m, e, count, status, to) = r
    BY SameWrite
  <2>2. count \in Nat /\ to \in Nat
    BY ConnectionAssumption
  <2>3. C!to_op_code(m) = to_op_code(m)
    BY DEF C!to_op_code, to_op_code
  <2> HIDE DEF r
  <2>4. C!Sends(r) /\ (m = "CloseReply" => cws.state = "CloseReceived")
        /\ (~ControlInMessage => MayWrite(cws, ctx, m, e))
    BY <1>2, <2>1, <2>3 DEF C!WriteCall, MayWrite
  <2> QED
    BY <2>2, <2>4 DEF Calling, r
<1>3. CASE ClientWrites
  <2> PICK m \in Messages, e \in BOOLEAN, count \in WriteLens, to \in ToLens :
        C!WriteCall(m, e, count, "InternalServerError", to)
    BY <1>3 DEF ClientWrites
  <2>1. PICK r : C!Sends(r) /\ Calling(cws, ctx, r)
    BY <1>2, <1>3, CloseStatusAssumption, ConnectionAssumption
       DEF ClientWrites, Messages
  <2> QED
    BY <1>1, <1>3, <2>1 DEF ClientWrites
<1>4. CASE ClientReplies
  <2> PICK count \in WriteLens, status \in CloseStatus, to \in ToLens :
        C!WriteCall("CloseReply", TRUE, count, status, to)
    BY <1>4 DEF ClientReplies
  <2>1. PICK r : C!Sends(r) /\ Calling(cws, ctx, r)
    BY <1>2, <1>4 DEF ClientReplies, SendMessageType
  <2> QED
    BY <1>1, <1>4, <2>1 DEF ClientReplies
<1>5. CASE ClientCloses
  <2> PICK status \in CloseStatus, d \in WriteLens, to \in ToLens :
        C!CloseCall(status, d, to)
    BY <1>5 DEF ClientCloses, C!Close
  <2> DEFINE r == close(cws, status, d, to)
  <2>1. C!close(cws, status, d, to) = r /\ d \in Nat /\ to \in Nat
    BY SameClose, ConnectionAssumption
  <2>2. Calling(cws, ctx, r)
    BY <2>1 DEF Calling
  <2> HIDE DEF r
  <2>3. C!Sends(r)
    BY <2>1 DEF C!CloseCall
  <2> QED
    BY <1>1, <1>5, <2>2, <2>3 DEF ClientCloses
<1> QED
  BY <1>3, <1>4, <1>5

(* A call of write or close by the server.                                 *)
LEMMA ServerSends ==
  ASSUME ServerWrites \/ ServerCloses \/ ServerReplies
  PROVE  /\ \E r : ret' = r.ret /\ Writing(sws, stx, s2c, r, sws', stx', s2c')
         /\ sws.state \in {"Open", "CloseReceived"}
         /\ UNCHANGED <<http, client, c2s, soff, sfailed>>
<1>1. ASSUME NEW r, S!Sends(r), Calling(sws, stx, r)
      PROVE  /\ ret' = r.ret /\ Writing(sws, stx, s2c, r, sws', stx', s2c')
             /\ UNCHANGED <<c2s, soff, sfailed>>
  BY <1>1, SameRules DEF S!Sends, Writing
<1>2. ASSUME sws.state \in {"Open", "CloseReceived"},
             NEW m \in SendMessageType, NEW e \in BOOLEAN,
             NEW count \in WriteLens, NEW status \in CloseStatus,
             NEW to \in ToLens, S!WriteCall(m, e, count, status, to)
      PROVE  \E r : S!Sends(r) /\ Calling(sws, stx, r)
  <2> DEFINE r == write(sws, m, e, count, status, to)
  <2>1. S!write(sws, m, e, count, status, to) = r
    BY SameWrite
  <2>2. count \in Nat /\ to \in Nat
    BY ConnectionAssumption
  <2>3. S!to_op_code(m) = to_op_code(m)
    BY DEF S!to_op_code, to_op_code
  <2> HIDE DEF r
  <2>4. S!Sends(r) /\ (m = "CloseReply" => sws.state = "CloseReceived")
        /\ (~ControlInMessage => MayWrite(sws, stx, m, e))
    BY <1>2, <2>1, <2>3 DEF S!WriteCall, MayWrite
  <2> QED
    BY <2>2, <2>4 DEF Calling, r
<1>3. CASE ServerWrites
  <2> PICK m \in Messages, e \in BOOLEAN, count \in WriteLens, to \in ToLens :
        S!WriteCall(m, e, count, "InternalServerError", to)
    BY <1>3 DEF ServerWrites
  <2>1. PICK r : S!Sends(r) /\ Calling(sws, stx, r)
    BY <1>2, <1>3, CloseStatusAssumption, ConnectionAssumption
       DEF ServerWrites, Messages
  <2> QED
    BY <1>1, <1>3, <2>1 DEF ServerWrites
<1>4. CASE ServerReplies
  <2> PICK count \in WriteLens, status \in CloseStatus, to \in ToLens :
        S!WriteCall("CloseReply", TRUE, count, status, to)
    BY <1>4 DEF ServerReplies
  <2>1. PICK r : S!Sends(r) /\ Calling(sws, stx, r)
    BY <1>2, <1>4 DEF ServerReplies, SendMessageType
  <2> QED
    BY <1>1, <1>4, <2>1 DEF ServerReplies
<1>5. CASE ServerCloses
  <2> PICK status \in CloseStatus, d \in WriteLens, to \in ToLens :
        S!CloseCall(status, d, to)
    BY <1>5 DEF ServerCloses, S!Close
  <2> DEFINE r == close(sws, status, d, to)
  <2>1. S!close(sws, status, d, to) = r /\ d \in Nat /\ to \in Nat
    BY SameClose, ConnectionAssumption
  <2>2. Calling(sws, stx, r)
    BY <2>1 DEF Calling
  <2> HIDE DEF r
  <2>3. S!Sends(r)
    BY <2>1 DEF S!CloseCall
  <2> QED
    BY <1>1, <1>5, <2>2, <2>3 DEF ServerCloses
<1> QED
  BY <1>3, <1>4, <1>5

-----------------------------------------------------------------------------
(* Types.                                                                  *)

(* read keeps the types of an end.                                         *)
LEMMA ReadingType ==
  ASSUME NEW w, NEW in, NEW off, NEW p, NEW failed,
         EndType(w, in, off, p, failed),
         NEW r, NEW w2, NEW in2, NEW off2, NEW failed2,
         Reading(w, in, off, p, r, w2, in2, off2, failed2)
  PROVE  EndType(w2, in2, off2, p, failed2) /\ r.ret \in Return
<1>1. w \in WebSocket /\ in \in Seq(Frame) /\ off \in Nat /\ p \in Wire
  BY DEF EndType
<1>2. r.ws \in WebSocket /\ r.ret \in Return
  BY <1>1, AtType, ReadType DEF Reading
<1>3. r.ret.len_from \in Nat
  BY <1>2 DEF Return
<1>4. in2 \in Seq(Frame) /\ off2 \in Nat
  BY <1>1, <1>3, AfterType DEF Reading
<1>5. w2 = r.ws /\ failed2 \in BOOLEAN
  BY DEF Reading
<1> QED
  BY <1>1, <1>2, <1>4, <1>5 DEF EndType

(* write and close keep the types of an end, and send at most one frame.   *)
LEMMA CallingType ==
  ASSUME NEW w \in WebSocket, NEW q, NEW r, Calling(w, q, r)
  PROVE  /\ r.ws \in WebSocket /\ r.ret \in Return
         /\ r.sent = <<>> \/ \E f \in Frame : r.sent = <<f>>
BY WriteType, CloseType DEF Calling

(* A call that writes keeps the types of both ends and of what is sent.    *)
LEMMA WritingType ==
  ASSUME NEW w \in WebSocket, NEW q \in Wire, NEW out \in Seq(Frame),
         NEW r, NEW w2, NEW q2, NEW out2, Writing(w, q, out, r, w2, q2, out2)
  PROVE  /\ w2 \in WebSocket /\ q2 \in Wire /\ out2 \in Seq(Frame)
         /\ r.ret \in Return
<1>1. /\ r.ws \in WebSocket /\ r.ret \in Return
      /\ r.sent = <<>> \/ \E f \in Frame : r.sent = <<f>>
  BY CallingType DEF Writing
<1>2. w2 = r.ws /\ out2 = out \o r.sent
      /\ q2 = IF r.sent = <<>> THEN q ELSE WireAfter(q, Head(r.sent))
  BY DEF Writing
<1>3. CASE r.sent = <<>>
  BY <1>1, <1>2, <1>3
<1>4. ASSUME NEW f \in Frame, r.sent = <<f>>
      PROVE  q2 \in Wire /\ out2 \in Seq(Frame)
  <2>1. q2 = WireAfter(q, f)
    BY <1>2, <1>4
  <2>2. out2 = Append(out, f)
    BY <1>2, <1>4
  <2> QED
    BY <2>1, <2>2, WireAfterType
<1> QED
  BY <1>1, <1>2, <1>3, <1>4

\* An operation of the opening handshake.
Opening(w, w2, ret2) ==
  \E r : /\ w2 = r.ws /\ ret2 = r.ret
         /\ OpeningStep(w, r) /\ r.ws \in WebSocket /\ r.ret \in Return
         /\ r.ws.is_write_continuation = w.is_write_continuation

(* The calls of the opening handshake are such operations.                 *)
LEMMA HandshakeOpens ==
  ASSUME NEW w \in WebSocket, NEW answer \in {"None", "HttpHeaderIncomplete"}
  PROVE  \A r \in {server_accept(w, answer), client_connect(w, answer),
                   client_accept(w, answer)} : Opening(w, r.ws, r.ret)
<1>1. answer \in Error /\ answer # "UnexpectedContinuationFrame"
  BY DEF Error
<1>2. \A r \in {server_accept(w, answer), client_connect(w, answer),
                client_accept(w, answer)} :
        r.ws.is_write_continuation = w.is_write_continuation
  BY DEF server_accept, client_connect, client_accept, handshake, WebSocket
<1> QED
  BY <1>1, <1>2, HandshakeType, OpeningEffect DEF Opening

(* The three calls of the opening handshake, for the client.               *)
LEMMA ClientOpening ==
  ASSUME cws \in WebSocket, ClientConnect \/ ClientAccept
  PROVE  /\ Opening(cws, cws', ret')
         /\ UNCHANGED <<coff, ctx, cfailed, server, c2s, s2c>>
         /\ \/ http = "none" /\ http' = "request"
            \/ http = "response" /\ http' = http /\ cws.state = "Connecting"
<1>1. CASE ClientConnect
  BY <1>1, HandshakeOpens DEF ClientConnect
<1>2. CASE ClientAccept
  BY <1>2, HandshakeOpens DEF ClientAccept
<1> QED
  BY <1>1, <1>2

(* The same for the server.                                                *)
LEMMA ServerOpening ==
  ASSUME sws \in WebSocket, ServerAccept
  PROVE  /\ Opening(sws, sws', ret')
         /\ UNCHANGED <<soff, stx, sfailed, client, c2s, s2c>>
         /\ http = "request" /\ http' = "response"
BY HandshakeOpens DEF ServerAccept

(* The steps of the specification, by what they do to one end.             *)
ClientWriting ==
  ClientWrites \/ ClientCloses \/ ClientReplies

ServerWriting ==
  ServerWrites \/ ServerCloses \/ ServerReplies

(* What a step may be.                                                     *)
LEMMA StepCases ==
  [Next]_vars =>
    \/ ClientConnect \/ ClientAccept \/ ServerAccept
    \/ ClientReads \/ ServerReads \/ ClientWriting \/ ServerWriting
    \/ UNCHANGED vars
BY DEF Next, ClientWriting, ServerWriting

(* TypeOK holds in the initial states.                                     *)
LEMMA TypeInit == ASSUME Init PROVE ConnectionType
<1>1. cws \in WebSocket /\ sws \in WebSocket
  BY NewWebSocketType DEF Init
<1>2. returns("none", "None") \in Return
  BY ReturnsType DEF Call, Error
<1>3. <<>> \in Seq(Frame) /\ "None" \in Wire
  BY DEF Wire
<1> QED
  BY <1>1, <1>2, <1>3 DEF Init, ConnectionType, EndType

(* TypeOK is preserved by each action.                                     *)
LEMMA TypeStep ==
  ASSUME ConnectionType, [Next]_vars PROVE ConnectionType'
<1>1. /\ cws \in WebSocket /\ sws \in WebSocket
      /\ ctx \in Wire /\ stx \in Wire
      /\ c2s \in Seq(Frame) /\ s2c \in Seq(Frame)
  BY DEF ConnectionType, EndType
<1>2. CASE ClientConnect \/ ClientAccept
  <2>1. cws' \in WebSocket /\ ret' \in Return
    BY <1>1, <1>2, ClientOpening DEF Opening
  <2> QED
    BY <1>1, <1>2, <2>1, ClientOpening DEF ConnectionType, EndType, server
<1>3. CASE ServerAccept
  <2>1. sws' \in WebSocket /\ ret' \in Return
    BY <1>1, <1>3, ServerOpening DEF Opening
  <2> QED
    BY <1>1, <1>3, <2>1, ServerOpening DEF ConnectionType, EndType, client
<1>4. CASE ClientReads
  <2>1. /\ EndType(cws', s2c', coff', stx, cfailed') /\ ret' \in Return
        /\ UNCHANGED <<stx, c2s, ctx>>
    BY <1>4, ClientReading, ReadingType DEF ClientReads, ConnectionType
  <2> QED
    BY <1>4, <2>1 DEF ClientReads, ConnectionType, EndType, server
<1>5. CASE ServerReads
  <2>1. /\ EndType(sws', c2s', soff', ctx, sfailed') /\ ret' \in Return
        /\ UNCHANGED <<ctx, s2c, stx>>
    BY <1>5, ServerReading, ReadingType DEF ServerReads, ConnectionType
  <2> QED
    BY <1>5, <2>1 DEF ServerReads, ConnectionType, EndType, client
<1>6. CASE ClientWriting
  <2>1. /\ cws' \in WebSocket /\ ctx' \in Wire /\ c2s' \in Seq(Frame)
        /\ ret' \in Return
    BY <1>1, <1>6, ClientSends, WritingType DEF ClientWriting
  <2>2. UNCHANGED <<http, server, s2c, coff, cfailed>>
    BY <1>6, ClientSends DEF ClientWriting
  <2> QED
    BY <2>1, <2>2 DEF ConnectionType, EndType, server
<1>7. CASE ServerWriting
  <2>1. /\ sws' \in WebSocket /\ stx' \in Wire /\ s2c' \in Seq(Frame)
        /\ ret' \in Return
    BY <1>1, <1>7, ServerSends, WritingType DEF ServerWriting
  <2>2. UNCHANGED <<http, client, c2s, soff, sfailed>>
    BY <1>7, ServerSends DEF ServerWriting
  <2> QED
    BY <2>1, <2>2 DEF ConnectionType, EndType, client
<1>8. CASE UNCHANGED vars
  BY <1>8 DEF vars, client, server, ConnectionType, EndType
<1> QED
  BY <1>2, <1>3, <1>4, <1>5, <1>6, <1>7, <1>8, StepCases

(***************************************************************************)
(* Whatever either application does, in whatever pieces the frames come,   *)
(* websockets, streams and answers keep their types.                       *)
(***************************************************************************)
THEOREM TypeCorrect == Spec => []TypeOK
<1>1. Init => ConnectionType
  BY TypeInit
<1>2. ConnectionType /\ [Next]_vars => ConnectionType'
  BY TypeStep
<1>3. ConnectionType => TypeOK
  BY TypeMeans
<1> QED
  BY <1>1, <1>2, <1>3, PTL DEF Spec

-----------------------------------------------------------------------------
(***************************************************************************)
(* The closing handshake.  What a websocket w knows of the close frame of  *)
(* the other one, v: a close frame that is on the way was sent, one that   *)
(* was read was sent, and the codec does not go on with a close frame      *)
(* that it is reading unless it has taken note of it.                      *)
(***************************************************************************)
HasSentClose(v) == v.state \in {"CloseSent", "Closed"}

Knows(w, in, v) ==
  /\ CloseReadOnce(w)
  /\ \A i \in DOMAIN in :
       in[i].op_code = "ConnectionClose" => HasSentClose(v)
  /\ w.state \in {"CloseReceived", "Closed"} => HasSentClose(v)

\* Nobody is ahead of the opening handshake.
OpeningInv ==
  /\ http \in {"none", "request"} => sws.state = "None"
  /\ http = "none" => cws.state = "None"

ClosingInv ==
  /\ ConnectionType
  /\ OpeningInv
  /\ Knows(cws, s2c, sws)
  /\ Knows(sws, c2s, cws)

(* A close frame that is read is taken note of at once.                    *)
LEMMA ReadOnceKept ==
  ASSUME NEW w \in WebSocket, CloseReadOnce(w), NEW f \in Frame,
         NEW status \in CloseStatus, NEW from \in Nat, NEW to \in Nat
  PROVE  CloseReadOnce(read(w, f, status, from, to).ws)
<1> DEFINE r == read(w, f, status, from, to)
<1>1. CASE \/ w.state \notin {"Open", "CloseSent"}
           \/ /\ w.continuation_read.op_code = "None"
              /\ read_frame_error(f, from) # "None"
  <2>1. r.ws = w
    BY <1>1, NothingRead
  <2> QED
    BY <2>1
<1>2. CASE /\ w.state \in {"Open", "CloseSent"}
           /\ w.continuation_read.op_code = "None"
           /\ read_frame_error(f, from) = "None"
  <2> DEFINE n == Payload(f, from, to)
  <2>1. StartsFrame(w, f, r, from, n)
    BY <1>2, StartRead
  <2> HIDE DEF n, r
  <2>2. /\ r.ws.continuation_read.op_code \in {"None", f.op_code}
        /\ f.op_code = "ConnectionClose" =>
             r.ws.state \in {"CloseReceived", "Closed"}
    BY <2>1 DEF StartsFrame, NoContinuation
  <2>3. CloseReadOnce(r.ws)
    BY <2>2 DEF CloseReadOnce
  <2> QED
    BY <2>3 DEF r
<1>3. CASE /\ w.state \in {"Open", "CloseSent"}
           /\ w.continuation_read.op_code # "None"
  <2> DEFINE n == min(w.continuation_read.count, to, from)
  <2>1. w.continuation_read.op_code # "ConnectionClose"
    BY <1>3 DEF CloseReadOnce
  <2>2. ContinuesFrame(w, r, n)
    BY <1>3, <2>1, ContinueRead
  <2>3. w.continuation_read \in ContinuationRead
    BY DEF WebSocket
  <2> HIDE DEF n, r
  <2>4. r.ws.continuation_read.op_code
          \in {"None", w.continuation_read.op_code}
    BY <2>2, <2>3 DEF ContinuesFrame, NoContinuation, ContinuationRead
  <2>5. CloseReadOnce(r.ws)
    BY <2>1, <2>4 DEF CloseReadOnce
  <2> QED
    BY <2>5 DEF r
<1> QED
  BY <1>1, <1>2, <1>3

\* What a read may do to the state, given what the other side has sent.
ReadsState(w, w2, sent) ==
  /\ w2.is_write_continuation = w.is_write_continuation
  /\ \/ w2.state = w.state
     \/ w.state = "Open" /\ w2.state = "CloseReceived" /\ sent
     \/ w.state = "CloseSent" /\ w2.state = "Closed" /\ sent

(* A read changes the state for a close frame that the other side has      *)
(* sent, and keeps what either knows of the other.                         *)
LEMMA ReadingKnows ==
  ASSUME NEW w, NEW in, NEW off, NEW p, NEW failed,
         EndType(w, in, off, p, failed),
         NEW v, Knows(w, in, v),
         NEW r, NEW w2, NEW in2, NEW off2, NEW failed2,
         Reading(w, in, off, p, r, w2, in2, off2, failed2)
  PROVE  ReadsState(w, w2, HasSentClose(v)) /\ Knows(w2, in2, v)
<1>1. w \in WebSocket /\ in \in Seq(Frame) /\ off \in Nat /\ At(in) \in Frame
  BY AtType DEF EndType
<1> PICK from \in Nat, to \in Nat, status \in CloseStatus :
      r = read(w, At(in), status, from, to)
  BY DEF Reading
<1>2. w2 = r.ws /\ in2 = FramesAfter(in, off, r.ret.len_from)
  BY DEF Reading
<1>3. CloseReadOnce(w2)
  BY <1>1, <1>2, ReadOnceKept DEF Knows
<1>4. /\ w2.is_write_continuation = w.is_write_continuation
      /\ \/ w2.state = w.state
         \/ /\ w.state \in {"Open", "CloseSent"}
            /\ "ConnectionClose" \in {w.continuation_read.op_code,
                                      At(in).op_code}
            /\ w2.state = IF w.state = "CloseSent" THEN "Closed"
                          ELSE "CloseReceived"
  <2>1. CASE w.state \notin {"Open", "CloseSent"}
    BY <1>2, <2>1, ReadRefused
  <2>2. CASE w.state \in {"Open", "CloseSent"}
    BY <1>1, <1>2, <2>2, ReadState
  <2> QED
    BY <2>1, <2>2
<1>5. At(in).op_code = "ConnectionClose" => HasSentClose(v)
  BY <1>1, AtType DEF Knows, WebSocketOpCode, ControlOpCode
<1>6. ReadsState(w, w2, HasSentClose(v))
  BY <1>4, <1>5 DEF ReadsState, Knows, CloseReadOnce
<1>7. \A i \in DOMAIN in2 :
        in2[i].op_code = "ConnectionClose" => HasSentClose(v)
  <2>1. in2 = in \/ (in # <<>> /\ in2 = Tail(in))
    BY <1>2 DEF FramesAfter, Ends
  <2>2. CASE in # <<>> /\ in2 = Tail(in)
    <3>1. \A i \in DOMAIN in2 : i + 1 \in DOMAIN in /\ in2[i] = in[i + 1]
      BY <1>1, <2>2
    <3> QED
      BY <3>1 DEF Knows
  <2> QED
    BY <2>1, <2>2 DEF Knows
<1> QED
  BY <1>3, <1>6, <1>7 DEF Knows, ReadsState

\* What a call that writes may do to the state.
WritesState(w, w2) ==
  \/ w2.state = w.state
  \/ w.state = "Open" /\ w2.state = "CloseSent"
  \/ w.state = "CloseReceived" /\ w2.state = "Closed"

(* A call that sends a close frame takes note of it, in the state; and no  *)
(* other call touches the state or the reading side.                       *)
LEMMA CallingState ==
  ASSUME NEW w \in WebSocket, NEW q, NEW r, Calling(w, q, r)
  PROVE  /\ WritesState(w, r.ws) /\ ReaderUntouched(w, r)
         /\ \A f : r.sent = <<f>> /\ f.op_code = "ConnectionClose"
                     => HasSentClose(r.ws)
<1>1. ASSUME NEW m \in SendMessageType, NEW e \in BOOLEAN, NEW count \in Nat,
             NEW status \in CloseStatus, NEW to \in Nat,
             r = write(w, m, e, count, status, to),
             m = "CloseReply" => w.state = "CloseReceived"
      PROVE  /\ WritesState(w, r.ws) /\ ReaderUntouched(w, r)
             /\ \A f : r.sent = <<f>> /\ f.op_code = "ConnectionClose"
                         => HasSentClose(r.ws)
  <2>1. ReaderUntouched(w, r)
    BY <1>1, WriteEffect
  <2>2. CASE w.state \notin {"Open", "CloseReceived"}
    <3>1. r.ws = w /\ r.sent = <<>>
      BY <1>1, <2>2 DEF write, refused
    <3> QED
      BY <2>1, <3>1 DEF WritesState
  <2>3. CASE w.state \in {"Open", "CloseReceived"}
    <3> DEFINE g == encode_frame(w, write_op_code(w, m), e, count, status,
                                 to_op_code(m))
    <3>1. r.ws = after_write(w, m, e) /\ r.sent = write_frame(g, to).sent
      BY <1>1, <2>3 DEF write
    <3>2. g.op_code = write_op_code(w, m)
      BY DEF encode_frame
    <3> HIDE DEF g
    <3>3. r.ws.state = IF m = "CloseReply" THEN "Closed" ELSE w.state
      BY <3>1 DEF after_write, WebSocket
    <3>4. \A f : r.sent = <<f>> => f = g
      BY <3>1 DEF write_frame
    <3>5. g.op_code = "ConnectionClose" => m = "CloseReply"
      BY <3>2 DEF write_op_code, to_op_code, SendMessageType
    <3> QED
      BY <1>1, <2>1, <3>3, <3>4, <3>5 DEF WritesState, HasSentClose
  <2> QED
    BY <2>2, <2>3
<1>2. ASSUME NEW status \in CloseStatus, NEW d \in Nat, NEW to \in Nat,
             r = close(w, status, d, to)
      PROVE  /\ WritesState(w, r.ws) /\ ReaderUntouched(w, r)
             /\ \A f : r.sent = <<f>> /\ f.op_code = "ConnectionClose"
                         => HasSentClose(r.ws)
  <2>1. ReaderUntouched(w, r)
    BY <1>2, CloseEffect
  <2>2. CASE w.state # "Open"
    <3>1. r.ws = w /\ r.sent = <<>>
      BY <1>2, <2>2 DEF close, refused
    <3> QED
      BY <2>1, <3>1 DEF WritesState
  <2>3. CASE w.state = "Open"
    <3>1. r.ws.state = "CloseSent"
      BY <1>2, <2>3 DEF close, WebSocket
    <3> QED
      BY <2>1, <2>3, <3>1 DEF WritesState, HasSentClose
  <2> QED
    BY <2>2, <2>3
<1> QED
  BY <1>1, <1>2 DEF Calling

(* A call that writes keeps what either side knows of the other.           *)
LEMMA WritingKnows ==
  ASSUME NEW w \in WebSocket, NEW q, NEW out \in Seq(Frame),
         NEW r, NEW w2, NEW q2, NEW out2,
         Writing(w, q, out, r, w2, q2, out2),
         NEW v, NEW in, Knows(w, in, v), Knows(v, out, w)
  PROVE  WritesState(w, w2) /\ Knows(w2, in, v) /\ Knows(v, out2, w2)
<1>1. w2 = r.ws /\ out2 = out \o r.sent
  BY DEF Writing
<1>2. /\ WritesState(w, w2) /\ ReaderUntouched(w, r)
      /\ \A f : r.sent = <<f>> /\ f.op_code = "ConnectionClose"
                  => HasSentClose(w2)
      /\ r.sent = <<>> \/ \E f \in Frame : r.sent = <<f>>
  BY <1>1, CallingState, CallingType DEF Writing
<1>3. Knows(w2, in, v)
  BY <1>1, <1>2 DEF Knows, WritesState, ReaderUntouched, CloseReadOnce
<1>4. HasSentClose(w) => HasSentClose(w2)
  BY <1>2 DEF WritesState, HasSentClose
<1>5. \A i \in DOMAIN out2 :
        out2[i].op_code = "ConnectionClose" => HasSentClose(w2)
  <2>1. CASE r.sent = <<>>
    <3>1. out2 = out
      BY <1>1, <2>1
    <3> QED
      BY <1>4, <3>1 DEF Knows
  <2>2. ASSUME NEW f \in Frame, r.sent = <<f>>
        PROVE  \A i \in DOMAIN out2 :
                 out2[i].op_code = "ConnectionClose" => HasSentClose(w2)
    <3>1. out2 = Append(out, f)
      BY <1>1, <2>2
    <3>2. \A i \in DOMAIN out2 :
            (i \in DOMAIN out /\ out2[i] = out[i]) \/ out2[i] = f
      BY <3>1
    <3> QED
      BY <1>2, <1>4, <2>2, <3>2 DEF Knows
  <2> QED
    BY <1>2, <2>1, <2>2
<1> QED
  BY <1>2, <1>3, <1>4, <1>5 DEF Knows

(* The opening handshake leaves what either side knows alone.              *)
LEMMA OpeningKnows ==
  ASSUME NEW w \in WebSocket, NEW w2, NEW ret2, Opening(w, w2, ret2),
         w.state \in {"None", "Connecting"},
         NEW v, NEW in, NEW out, Knows(w, in, v), Knows(v, out, w)
  PROVE  /\ Knows(w2, in, v) /\ Knows(v, out, w2)
         /\ w2.state \in {"None", "Connecting", "Open", "Aborted"}
<1>1. /\ w2.state \in {"None", "Connecting", "Open", "Aborted"}
      /\ w2.continuation_read = w.continuation_read
  BY DEF Opening, OpeningStep
<1> QED
  BY <1>1 DEF Knows, CloseReadOnce, HasSentClose

(* The closing handshake as one sees it: nothing happens, or one side      *)
(* comes to have sent a close frame, or one comes to have received one     *)
(* that the other has sent.                                                *)
HasReceivedClose(v) == v.state \in {"CloseReceived", "Closed"}

EndCloses(w, w2, v) ==
  \/ /\ HasSentClose(w2) = HasSentClose(w)
     /\ HasReceivedClose(w2) = HasReceivedClose(w)
  \/ /\ ~HasSentClose(w) /\ HasSentClose(w2)
     /\ HasReceivedClose(w2) = HasReceivedClose(w)
  \/ /\ ~HasReceivedClose(w) /\ HasReceivedClose(w2) /\ HasSentClose(v)
     /\ HasSentClose(w2) = HasSentClose(w)

(* ClosingInv is preserved by each action, which is one of the abstract    *)
(* closing handshake or leaves that alone.                                 *)
LEMMA ClosingStep ==
  ASSUME ClosingInv, [Next]_vars
  PROVE  /\ ClosingInv'
         /\ \/ EndCloses(cws, cws', sws) /\ sws' = sws
            \/ EndCloses(sws, sws', cws) /\ cws' = cws
<1>1. /\ ConnectionType /\ ConnectionType'
      /\ cws \in WebSocket /\ sws \in WebSocket
      /\ c2s \in Seq(Frame) /\ s2c \in Seq(Frame)
  BY TypeStep DEF ClosingInv, ConnectionType, EndType
<1>2. Knows(cws, s2c, sws) /\ Knows(sws, c2s, cws) /\ OpeningInv
  BY DEF ClosingInv
<1>3. CASE ClientConnect \/ ClientAccept
  <2>1. /\ Opening(cws, cws', ret') /\ cws.state \in {"None", "Connecting"}
        /\ UNCHANGED <<coff, ctx, cfailed, server, c2s, s2c>>
        /\ \/ http = "none" /\ http' = "request"
           \/ http = "response" /\ http' = http /\ cws.state = "Connecting"
    BY <1>1, <1>2, <1>3, ClientOpening DEF OpeningInv
  <2>2. /\ Knows(cws', s2c, sws) /\ Knows(sws, c2s, cws')
        /\ cws'.state \in {"None", "Connecting", "Open", "Aborted"}
    BY <1>1, <1>2, <2>1, OpeningKnows
  <2>3. sws' = sws /\ OpeningInv'
    BY <1>2, <2>1 DEF server, OpeningInv
  <2>4. EndCloses(cws, cws', sws)
    BY <2>1, <2>2 DEF EndCloses, HasSentClose, HasReceivedClose
  <2> QED
    BY <1>1, <2>1, <2>2, <2>3, <2>4 DEF ClosingInv
<1>4. CASE ServerAccept
  <2>1. /\ Opening(sws, sws', ret') /\ sws.state = "None"
        /\ UNCHANGED <<soff, stx, sfailed, client, c2s, s2c>>
        /\ http = "request" /\ http' = "response"
    BY <1>1, <1>2, <1>4, ServerOpening DEF OpeningInv
  <2>2. /\ Knows(sws', c2s, cws) /\ Knows(cws, s2c, sws')
        /\ sws'.state \in {"None", "Connecting", "Open", "Aborted"}
    BY <1>1, <1>2, <2>1, OpeningKnows
  <2>3. cws' = cws /\ OpeningInv'
    BY <2>1 DEF client, OpeningInv
  <2>4. EndCloses(sws, sws', cws)
    BY <2>1, <2>2 DEF EndCloses, HasSentClose, HasReceivedClose
  <2> QED
    BY <1>1, <2>1, <2>2, <2>3, <2>4 DEF ClosingInv
<1>5. ASSUME NEW w, NEW v, NEW w2, NEW out, ReadsState(w, w2, HasSentClose(v)),
             Knows(v, out, w)
      PROVE  /\ EndCloses(w, w2, v) /\ Knows(v, out, w2)
             /\ w.state = "None" => w2.state = "None"
  BY <1>5 DEF ReadsState, EndCloses, Knows, HasSentClose, HasReceivedClose
<1>6. ASSUME NEW w, NEW v, NEW w2, WritesState(w, w2)
      PROVE  EndCloses(w, w2, v)
  BY <1>6 DEF WritesState, EndCloses, HasSentClose, HasReceivedClose
<1>7. CASE ClientReads
  <2>1. PICK r : Reading(cws, s2c, coff, stx, r, cws', s2c', coff', cfailed')
    BY <1>1, <1>7, ClientReading DEF ClientReads
  <2>2. UNCHANGED <<http, sws, c2s>>
    BY <1>1, <1>7, ClientReading DEF ClientReads, server
  <2>3. ReadsState(cws, cws', HasSentClose(sws)) /\ Knows(cws', s2c', sws)
    BY <1>1, <1>2, <2>1, ReadingKnows DEF ConnectionType
  <2>4. /\ EndCloses(cws, cws', sws) /\ Knows(sws, c2s, cws')
        /\ cws.state = "None" => cws'.state = "None"
    BY <1>2, <1>5, <2>3
  <2> QED
    BY <1>1, <1>2, <2>2, <2>3, <2>4 DEF ClosingInv, OpeningInv
<1>8. CASE ServerReads
  <2>1. PICK r : Reading(sws, c2s, soff, ctx, r, sws', c2s', soff', sfailed')
    BY <1>1, <1>8, ServerReading DEF ServerReads
  <2>2. UNCHANGED <<http, cws, s2c>>
    BY <1>1, <1>8, ServerReading DEF ServerReads, client
  <2>3. ReadsState(sws, sws', HasSentClose(cws)) /\ Knows(sws', c2s', cws)
    BY <1>1, <1>2, <2>1, ReadingKnows DEF ConnectionType
  <2>4. /\ EndCloses(sws, sws', cws) /\ Knows(cws, s2c, sws')
        /\ sws.state = "None" => sws'.state = "None"
    BY <1>2, <1>5, <2>3
  <2> QED
    BY <1>1, <1>2, <2>2, <2>3, <2>4 DEF ClosingInv, OpeningInv
<1>9. CASE ClientWriting
  <2>1. /\ cws.state \in {"Open", "CloseReceived"}
        /\ UNCHANGED <<http, sws, s2c>>
    BY <1>9, ClientSends DEF ClientWriting, server
  <2>2. PICK r : Writing(cws, ctx, c2s, r, cws', ctx', c2s')
    BY <1>9, ClientSends DEF ClientWriting
  <2>3. /\ WritesState(cws, cws') /\ Knows(cws', s2c, sws)
        /\ Knows(sws, c2s', cws')
    BY <1>1, <1>2, <2>2, WritingKnows
  <2>4. EndCloses(cws, cws', sws)
    BY <1>6, <2>3
  <2> QED
    BY <1>1, <1>2, <2>1, <2>3, <2>4 DEF ClosingInv, OpeningInv
<1>10. CASE ServerWriting
  <2>1. /\ sws.state \in {"Open", "CloseReceived"}
        /\ UNCHANGED <<http, cws, c2s>>
    BY <1>10, ServerSends DEF ServerWriting, client
  <2>2. PICK r : Writing(sws, stx, s2c, r, sws', stx', s2c')
    BY <1>10, ServerSends DEF ServerWriting
  <2>3. /\ WritesState(sws, sws') /\ Knows(sws', c2s, cws)
        /\ Knows(cws, s2c', sws')
    BY <1>1, <1>2, <2>2, WritingKnows
  <2>4. EndCloses(sws, sws', cws)
    BY <1>6, <2>3
  <2> QED
    BY <1>1, <1>2, <2>1, <2>3, <2>4 DEF ClosingInv, OpeningInv
<1>11. CASE UNCHANGED vars
  BY <1>1, <1>2, <1>11
     DEF vars, client, server, ClosingInv, OpeningInv, EndCloses
<1> QED
  BY <1>3, <1>4, <1>7, <1>8, <1>9, <1>10, <1>11, StepCases

(* ClosingInv holds in the initial states.                                 *)
LEMMA ClosingInit == ASSUME Init PROVE ClosingInv
<1>1. /\ cws.state = "None" /\ sws.state = "None"
      /\ CloseReadOnce(cws) /\ CloseReadOnce(sws)
  BY DEF Init, new_websocket, NoContinuation, CloseReadOnce
<1>2. c2s = <<>> /\ s2c = <<>>
  BY DEF Init
<1> QED
  BY <1>1, <1>2, TypeInit DEF ClosingInv, OpeningInv, Knows

(* The change of one end is a step of the abstract closing handshake.      *)
LEMMA EndClosesMaps ==
  ASSUME \/ EndCloses(cws, cws', sws) /\ sws' = sws
         \/ EndCloses(sws, sws', cws) /\ cws' = cws
  PROVE  [CH!Next]_CH!vars
<1> DEFINE sent == Sides(cws.state \in {"CloseSent", "Closed"},
                         sws.state \in {"CloseSent", "Closed"})
           received == Sides(cws.state \in {"CloseReceived", "Closed"},
                             sws.state \in {"CloseReceived", "Closed"})
<1>1. /\ sent = Sides(HasSentClose(cws), HasSentClose(sws))
      /\ received = Sides(HasReceivedClose(cws), HasReceivedClose(sws))
      /\ sent' = Sides(HasSentClose(cws'), HasSentClose(sws'))
      /\ received' = Sides(HasReceivedClose(cws'), HasReceivedClose(sws'))
  BY DEF HasSentClose, HasReceivedClose
<1>2. ASSUME NEW e \in {"client", "server"}, sent' = sent \cup {e},
             e \notin sent, received' = received
      PROVE  CH!Next
  BY <1>2 DEF CH!Next, CH!SendClose
<1>3. ASSUME NEW e \in {"client", "server"}, received' = received \cup {e},
             e \notin received, sent \ {e} # {}, sent' = sent
      PROVE  CH!Next
  BY <1>3 DEF CH!Next, CH!ReceiveClose
<1>4. ASSUME sent' = sent, received' = received
      PROVE  UNCHANGED CH!vars
  BY <1>4 DEF CH!vars
<1> HIDE DEF sent, received
<1>5. CASE EndCloses(cws, cws', sws) /\ sws' = sws
  <2>1. CASE /\ HasSentClose(cws') = HasSentClose(cws)
             /\ HasReceivedClose(cws') = HasReceivedClose(cws)
    BY <1>1, <1>4, <1>5, <2>1
  <2>2. CASE /\ ~HasSentClose(cws) /\ HasSentClose(cws')
             /\ HasReceivedClose(cws') = HasReceivedClose(cws)
    <3>1. /\ sent' = sent \cup {"client"} /\ "client" \notin sent
          /\ received' = received
      BY <1>1, <1>5, <2>2 DEF Sides
    <3> QED
      BY <1>2, <3>1
  <2>3. CASE /\ ~HasReceivedClose(cws) /\ HasReceivedClose(cws')
             /\ HasSentClose(sws) /\ HasSentClose(cws') = HasSentClose(cws)
    <3>1. /\ received' = received \cup {"client"} /\ "client" \notin received
          /\ "server" \in sent /\ sent' = sent
      BY <1>1, <1>5, <2>3 DEF Sides
    <3> QED
      BY <1>3, <3>1
  <2> QED
    BY <1>5, <2>1, <2>2, <2>3 DEF EndCloses
<1>6. CASE EndCloses(sws, sws', cws) /\ cws' = cws
  <2>1. CASE /\ HasSentClose(sws') = HasSentClose(sws)
             /\ HasReceivedClose(sws') = HasReceivedClose(sws)
    BY <1>1, <1>4, <1>6, <2>1
  <2>2. CASE /\ ~HasSentClose(sws) /\ HasSentClose(sws')
             /\ HasReceivedClose(sws') = HasReceivedClose(sws)
    <3>1. /\ sent' = sent \cup {"server"} /\ "server" \notin sent
          /\ received' = received
      BY <1>1, <1>6, <2>2 DEF Sides
    <3> QED
      BY <1>2, <3>1
  <2>3. CASE /\ ~HasReceivedClose(sws) /\ HasReceivedClose(sws')
             /\ HasSentClose(cws) /\ HasSentClose(sws') = HasSentClose(sws)
    <3>1. /\ received' = received \cup {"server"} /\ "server" \notin received
          /\ "client" \in sent /\ sent' = sent
      BY <1>1, <1>6, <2>3 DEF Sides
    <3> QED
      BY <1>3, <3>1
  <2> QED
    BY <1>6, <2>1, <2>2, <2>3 DEF EndCloses
<1> QED
  BY <1>5, <1>6

(***************************************************************************)
(* The states of the two websockets follow the abstract closing handshake: *)
(* neither side closes twice, and neither takes a close frame to have come *)
(* that the other has not sent, in whatever order the applications close   *)
(* and reply and in whatever pieces the frames come.  A close frame that   *)
(* does not fit its buffer counts as sent here: the code changes the state *)
(* before write_frame is tried.  (That what is begun is completed is       *)
(* liveness, and left to TLC.)                                             *)
(***************************************************************************)
THEOREM ClosingImplemented == Spec => CH!Safety
<1>1. Init => ClosingInv
  BY ClosingInit
<1>2. ClosingInv /\ [Next]_vars => ClosingInv'
  BY ClosingStep
<1>3. Init => CH!Init
  <2> SUFFICES ASSUME Init PROVE CH!Init
    OBVIOUS
  <2>1. cws.state = "None" /\ sws.state = "None"
    BY DEF Init, new_websocket
  <2> QED
    BY <2>1 DEF CH!Init, Sides
<1>4. ClosingInv /\ [Next]_vars => [CH!Next]_CH!vars
  BY ClosingStep, EndClosesMaps
<1> QED
  BY <1>1, <1>2, <1>3, <1>4, PTL DEF Spec, CH!Safety

-----------------------------------------------------------------------------
(***************************************************************************)
(* Messages.  If the to buffers are large enough, no Ping or Pong is       *)
(* written inside a fragmented message and fragments come whole, what one  *)
(* end writes keeps the framing rules, and the other end reads it as it    *)
(* was written.  (A run shows that fragments in parts do block a reader:   *)
(* FragmentCut; the other two are Endpoint's conditions on a writer.)      *)
(***************************************************************************)
Disciplined ==
  /\ SmallWriteBuffers = FALSE
  /\ ControlInMessage = FALSE
  /\ Cuts # "anywhere"

(* A reader of what the other end writes.  A close frame is the last one,  *)
(* and is consumed when it is read, if frames come whole.                  *)
ReaderSide(w, in, off, p) ==
  /\ ReaderInv(w, in, off)
  /\ MessageInv(w, in, off, p)
  /\ \A i \in DOMAIN in :
       /\ in[i].op_code # "Reserved"
       /\ in[i].op_code = "ConnectionClose" => i = Len(in) /\ p = "Closed"
  /\ w.state \in {"CloseReceived", "Closed"} => p = "Closed"
  /\ Cuts = "frames" =>
       /\ w.continuation_read.op_code = "None"
       /\ w.state \in {"CloseReceived", "Closed"} => in = <<>>

MessagesInv ==
  /\ ClosingInv
  /\ ReaderSide(cws, s2c, coff, stx) /\ WriterInv(sws, stx)
  /\ ReaderSide(sws, c2s, soff, ctx) /\ WriterInv(cws, ctx)
  /\ ~cfailed /\ ~sfailed

(* A read of a frame with a known opcode does not answer InvalidOpCode.    *)
LEMMA OpCodeIsValid ==
  ASSUME NEW w \in WebSocket, CloseReadOnce(w), NEW f \in Frame,
         f.op_code # "Reserved",
         NEW status \in CloseStatus, NEW from \in Nat, NEW to \in Nat
  PROVE  read(w, f, status, from, to).ret.err # "InvalidOpCode"
<1> DEFINE r == read(w, f, status, from, to)
<1>1. CASE w.state \notin {"Open", "CloseSent"}
  BY <1>1, ReadRefused
<1>2. CASE /\ w.state \in {"Open", "CloseSent"}
           /\ w.continuation_read.op_code = "None"
           /\ read_frame_error(f, from) # "None"
  <2>1. f.op_code \in WebSocketOpCode
    BY DEF Frame
  <2>2. read_frame_error(f, from) # "InvalidOpCode"
    BY <2>1 DEF read_frame_error
  <2>3. r.ret.err = read_frame_error(f, from)
    BY <1>2 DEF read, returns
  <2> QED
    BY <2>2, <2>3
<1>3. CASE /\ w.state \in {"Open", "CloseSent"}
           /\ w.continuation_read.op_code = "None"
           /\ read_frame_error(f, from) = "None"
  <2> DEFINE n == Payload(f, from, to)
  <2>1. StartsFrame(w, f, r, from, n)
    BY <1>3, StartRead
  <2> HIDE DEF n, r
  <2>2. r.ret.err # "InvalidOpCode"
    BY <2>1 DEF StartsFrame
  <2> QED
    BY <2>2 DEF r
<1>4. CASE /\ w.state \in {"Open", "CloseSent"}
           /\ w.continuation_read.op_code # "None"
  <2> DEFINE n == min(w.continuation_read.count, to, from)
  <2>1. w.continuation_read.op_code # "ConnectionClose"
    BY <1>4 DEF CloseReadOnce
  <2>2. ContinuesFrame(w, r, n)
    BY <1>4, <2>1, ContinueRead
  <2> HIDE DEF n, r
  <2>3. r.ret.err # "InvalidOpCode"
    BY <2>2 DEF ContinuesFrame
  <2> QED
    BY <2>3 DEF r
<1> QED
  BY <1>1, <1>2, <1>3, <1>4

(* A frame that comes whole leaves nothing to be continued, and a close    *)
(* frame that does is consumed when it is read.                            *)
LEMMA WholeRead ==
  ASSUME NEW w, NEW in, NEW off, ReaderInv(w, in, off),
         w.continuation_read.op_code = "None", in # <<>>,
         NEW status \in CloseStatus, NEW from \in Nat, NEW to \in Nat,
         \/ from < HeaderLen(At(in))
         \/ from >= FrameLen(At(in)) /\ to >= At(in).len
  PROVE  LET r == read(w, At(in), status, from, to)
         IN  /\ r.ws.continuation_read.op_code = "None"
             /\ r.ws.state # w.state =>
                  FramesAfter(in, off, r.ret.len_from) = Tail(in)
<1> DEFINE f == At(in)
           r == read(w, f, status, from, to)
           n == Payload(f, from, to)
<1>1. w \in WebSocket /\ in \in Seq(Frame) /\ off \in Nat /\ f \in Frame
  BY AtType DEF ReaderInv
<1>2. CASE \/ w.state \notin {"Open", "CloseSent"}
           \/ read_frame_error(f, from) # "None"
  <2>1. r.ws = w
    BY <1>2, NothingRead
  <2> QED
    BY <2>1
<1>3. CASE /\ w.state \in {"Open", "CloseSent"}
           /\ read_frame_error(f, from) = "None"
  <2>1. StartsFrame(w, f, r, from, n)
    BY <1>1, <1>3, StartRead
  <2>2. /\ HeaderLen(f) \in Nat /\ f.len \in Nat /\ FrameLen(f) \in Nat
        /\ FrameLen(f) = HeaderLen(f) + f.len
    BY <1>1, FrameLenType
  <2>3. from >= HeaderLen(f) /\ f.op_code \in WebSocketOpCode
    BY <2>1 DEF StartsFrame
  <2>4. from - HeaderLen(f) \in Nat /\ to >= f.len
        /\ from - HeaderLen(f) >= f.len
    BY <2>2, <2>3
  <2>5. n = f.len
    BY <2>2, <2>4 DEF Payload, min
  <2> HIDE DEF r, n
  <2>6. r.ws.continuation_read = NoContinuation
    BY <2>1, <2>2, <2>5 DEF StartsFrame
  <2>7. ASSUME r.ws.state # w.state
        PROVE  FramesAfter(in, off, r.ret.len_from) = Tail(in)
    <3>1. r.ret.len_from = HeaderLen(f) + n
      BY <2>1, <2>7 DEF StartsFrame
    <3>2. off = 0
      BY <1>1, <2>3, AtType
         DEF ReaderInv, AtBoundary, Inside, WebSocketOpCode, DataOpCode,
             ControlOpCode
    <3>3. Ends(in, off, HeaderLen(f) + n)
      BY <2>2, <2>5, <3>2 DEF Ends
    <3> QED
      BY <3>1, <3>3 DEF FramesAfter
  <2> QED
    BY <2>6, <2>7 DEF NoContinuation, r
<1> QED
  BY <1>2, <1>3

(* A read of what the other end has written does not fail, reports what    *)
(* was written, and leaves the reader in step.                             *)
LEMMA ReadingKeeps ==
  ASSUME Disciplined, NEW w, NEW in, NEW off, NEW p, ReaderSide(w, in, off, p),
         in # <<>>, NEW r, NEW w2, NEW in2, NEW off2, NEW failed2,
         Reading(w, in, off, p, r, w2, in2, off2, failed2)
  PROVE  /\ ReaderSide(w2, in2, off2, p) /\ ~failed2
         /\ r.ret.err = "None" => ReportsFrame(w, in, off, r)
<1> PICK from \in Nat, to \in Nat, status \in CloseStatus :
      /\ r = read(w, At(in), status, from, to)
      /\ \/ Cuts = "anywhere"
         \/ Cuts = "payloads" /\ MayBePart(in, p)
         \/ from < HeaderLen(At(in))
         \/ from >= FrameLen(At(in)) /\ to >= At(in).len
  BY DEF Reading
<1>1. /\ ReaderInv(w, in, off) /\ MessageInv(w, in, off, p)
      /\ w \in WebSocket /\ in \in Seq(Frame) /\ off \in Nat
      /\ CloseReadOnce(w)
  BY DEF ReaderSide, ReaderInv
<1>2. /\ w2 = r.ws /\ in2 = FramesAfter(in, off, r.ret.len_from)
      /\ off2 = OffAfter(in, off, r.ret.len_from)
      /\ failed2 = (r.ret.err \in {"InvalidOpCode",
                                   "UnexpectedContinuationFrame"})
  BY DEF Reading
<1>3. /\ At(in) \in Frame /\ At(in) = in[1] /\ 1 \in DOMAIN in
      /\ At(in).op_code # "Reserved"
  <2>1. At(in) \in Frame /\ At(in) = Head(in)
    BY <1>1, AtType
  <2>2. Head(in) = in[1] /\ 1 \in DOMAIN in
    BY <1>1
  <2> QED
    BY <2>1, <2>2 DEF ReaderSide
<1>4. /\ r.ret.err # "UnexpectedContinuationFrame"
      /\ MessageInv(w2, in2, off2, p)
      /\ r.ret.err = "None" => ReportsFrame(w, in, off, r)
  BY <1>1, <1>2, ReadReports DEF Disciplined
<1>5. ReaderInv(w2, in2, off2)
  BY <1>1, <1>2, <1>4, ReadKeepsStep
<1>6. ~failed2
  BY <1>1, <1>2, <1>3, <1>4, OpCodeIsValid
<1>7. in2 = in \/ in2 = Tail(in)
  BY <1>2 DEF FramesAfter
<1>8. \A i \in DOMAIN in2 :
        /\ in2[i].op_code # "Reserved"
        /\ in2[i].op_code = "ConnectionClose" => i = Len(in2) /\ p = "Closed"
  <2>1. CASE in2 = Tail(in)
    <3>1. /\ Len(in) \in Nat /\ Len(in2) = Len(in) - 1
          /\ \A i \in DOMAIN in2 :
               /\ i \in Int /\ i + 1 \in DOMAIN in /\ in2[i] = in[i + 1]
      BY <1>1, <2>1
    <3> QED
      BY <3>1 DEF ReaderSide
  <2> QED
    BY <1>7, <2>1 DEF ReaderSide
<1>9. w2.state # w.state => At(in).op_code = "ConnectionClose"
  <2>1. CASE w.state \notin {"Open", "CloseSent"}
    BY <1>2, <2>1, ReadRefused
  <2>2. CASE w.state \in {"Open", "CloseSent"}
    BY <1>1, <1>2, <1>3, <2>2, ReadState DEF CloseReadOnce
  <2> QED
    BY <2>1, <2>2
<1>10. w2.state \in {"CloseReceived", "Closed"} => p = "Closed"
  BY <1>3, <1>9 DEF ReaderSide
<1>11. ASSUME Cuts = "frames"
       PROVE  /\ w2.continuation_read.op_code = "None"
              /\ w2.state \in {"CloseReceived", "Closed"} => in2 = <<>>
  <2>1. /\ w2.continuation_read.op_code = "None"
        /\ w2.state # w.state => in2 = Tail(in)
    BY <1>1, <1>2, <1>11, WholeRead DEF ReaderSide
  <2>2. w.state \notin {"CloseReceived", "Closed"}
    BY <1>11 DEF ReaderSide
  <2>3. At(in).op_code = "ConnectionClose" => Tail(in) = <<>>
    <3>1. At(in).op_code = "ConnectionClose" => 1 = Len(in)
      BY <1>3 DEF ReaderSide
    <3>2. Tail(in) \in Seq(Frame) /\ Len(Tail(in)) = Len(in) - 1
      BY <1>1
    <3>3. Len(Tail(in)) = 0 => Tail(in) = <<>>
      BY <3>2, EmptySeq
    <3> QED
      BY <3>1, <3>2, <3>3
  <2> QED
    BY <1>9, <2>1, <2>2, <2>3
<1> QED
  BY <1>4, <1>5, <1>6, <1>8, <1>10, <1>11 DEF ReaderSide

(* A read leaves the writing side of the reader alone.                     *)
LEMMA WriterReads ==
  ASSUME NEW w, NEW q, WriterInv(w, q), NEW w2 \in WebSocket,
         NEW sent, ReadsState(w, w2, sent)
  PROVE  WriterInv(w2, q)
BY DEF WriterInv, ReadsState

(* What leaves the two fields of a reader alone and does not make it take  *)
(* note of a close frame leaves the reading side alone.                    *)
LEMMA ReaderKept ==
  ASSUME NEW w, NEW in, NEW off, NEW p, ReaderSide(w, in, off, p),
         NEW w2 \in WebSocket, CloseReadOnce(w2),
         w2.continuation_read = w.continuation_read,
         w2.continuation_frame_op_code = w.continuation_frame_op_code,
         w2.state \in {"CloseReceived", "Closed"}
           => w.state \in {"CloseReceived", "Closed"}
  PROVE  ReaderSide(w2, in, off, p)
<1>1. MessageInv(w2, in, off, p)
  BY SameReader DEF ReaderSide
<1>2. ReaderInv(w2, in, off)
  BY DEF ReaderSide, ReaderInv, AtBoundary, Inside
<1> QED
  BY <1>1, <1>2 DEF ReaderSide

(* A frame that the rules allow keeps the reading side of the other end.   *)
LEMMA ReaderIsSent ==
  ASSUME NEW w, NEW in, NEW off, NEW p \in Wire, ReaderSide(w, in, off, p),
         NEW f, PeerMaySend(p, f), f.op_code # "Reserved"
  PROVE  ReaderSide(w, Append(in, f), off, WireAfter(p, f))
<1> DEFINE in2 == Append(in, f)
<1>1. f \in Frame /\ p # "Closed"
      /\ (f.op_code = "ConnectionClose" => WireAfter(p, f) = "Closed")
  BY DEF PeerMaySend, WireAfter, DataOpCode
<1>2. in \in Seq(Frame)
  BY DEF ReaderSide, ReaderInv
<1>3. /\ in2 \in Seq(Frame) /\ Len(in2) = Len(in) + 1
      /\ in # <<>> => in2 # <<>> /\ Head(in2) = Head(in)
      /\ \A i \in DOMAIN in2 : (i \in DOMAIN in /\ in2[i] = in[i])
                               \/ (i = Len(in2) /\ in2[i] = f)
  BY <1>1, <1>2
<1>4. MessageInv(w, in2, off, WireAfter(p, f))
  BY <1>2, AppendKeepsMessages DEF ReaderSide
<1> HIDE DEF in2
<1>5. ReaderInv(w, in2, off)
  BY <1>3 DEF ReaderSide, ReaderInv, AtBoundary, Inside
<1>6. \A i \in DOMAIN in2 :
        /\ in2[i].op_code # "Reserved"
        /\ in2[i].op_code = "ConnectionClose" =>
             i = Len(in2) /\ WireAfter(p, f) = "Closed"
  BY <1>1, <1>3 DEF ReaderSide
<1>7. ReaderSide(w, in2, off, WireAfter(p, f))
  BY <1>1, <1>4, <1>5, <1>6 DEF ReaderSide
<1> QED
  BY <1>7 DEF in2

(* What either end writes goes on where its stream is, and the other end   *)
(* can read it.                                                            *)
LEMMA WritingKeeps ==
  ASSUME Disciplined, NEW v, NEW p, WriterInv(v, p),
         NEW w, NEW in, NEW off, ReaderSide(w, in, off, p),
         NEW r, NEW v2, NEW p2, NEW in2, Writing(v, p, in, r, v2, p2, in2)
  PROVE  WriterInv(v2, p2) /\ ReaderSide(w, in2, off, p2)
<1>1. /\ Calling(v, p, r) /\ r.ret.err # "WriteToBufferTooSmall"
      /\ v2 = r.ws /\ in2 = in \o r.sent
      /\ p2 = IF r.sent = <<>> THEN p ELSE WireAfter(p, Head(r.sent))
  BY DEF Writing, Disciplined
<1>2. Written(v, p, r)
  <2>1. ASSUME NEW m \in SendMessageType, NEW e \in BOOLEAN,
               NEW count \in Nat, NEW status \in CloseStatus, NEW to \in Nat,
               r = write(v, m, e, count, status, to),
               ~ControlInMessage => MayWrite(v, p, m, e)
        PROVE  Written(v, p, r)
    BY <1>1, <2>1, WriteKeeps DEF Disciplined
  <2>2. ASSUME NEW status \in CloseStatus, NEW d \in Nat, NEW to \in Nat,
               r = close(v, status, d, to)
        PROVE  Written(v, p, r)
    BY <1>1, <2>2, CloseKeeps
  <2> QED
    BY <1>1, <2>1, <2>2 DEF Calling
<1>3. in \in Seq(Frame) /\ p \in Wire
  BY DEF ReaderSide, ReaderInv, WriterInv
<1>4. CASE r.ws = v /\ r.sent = <<>>
  <2>1. v2 = v /\ in2 = in /\ p2 = p
    BY <1>1, <1>3, <1>4
  <2> QED
    BY <2>1
<1>5. ASSUME NEW f, SendsOne(v, p, r, f)
      PROVE  WriterInv(v2, p2) /\ ReaderSide(w, in2, off, p2)
  <2>1. /\ r.sent = <<f>> /\ PeerMaySend(p, f) /\ f.op_code # "Reserved"
        /\ WriterInv(v2, WireAfter(p, f))
    BY <1>1, <1>5 DEF SendsOne
  <2>2. p2 = WireAfter(p, f) /\ in2 = Append(in, f)
    BY <1>1, <1>3, <2>1
  <2> QED
    BY <1>3, <2>1, <2>2, ReaderIsSent
<1> QED
  BY <1>2, <1>4, <1>5 DEF Written

(* A call that writes leaves the reading side of the writer alone.         *)
LEMMA WriterKeepsReader ==
  ASSUME NEW w, NEW in, NEW off, NEW p, ReaderSide(w, in, off, p),
         NEW q, NEW out, NEW r, NEW w2, NEW q2, NEW out2,
         Writing(w, q, out, r, w2, q2, out2), CloseReadOnce(w2)
  PROVE  /\ ReaderSide(w2, in, off, p)
         /\ r.ret.call # "read" /\ r.ret.err # "UnexpectedContinuationFrame"
<1>1. w \in WebSocket
  BY DEF ReaderSide, ReaderInv
<1>2. /\ w2 = r.ws /\ w2 \in WebSocket /\ WritesState(w, w2)
      /\ ReaderUntouched(w, r)
  BY <1>1, CallingType, CallingState DEF Writing
<1>3. ReaderSide(w2, in, off, p)
  BY <1>2, ReaderKept DEF WritesState, ReaderUntouched
<1> QED
  BY <1>2, <1>3 DEF ReaderUntouched

(* The opening handshake leaves both sides of a websocket alone.           *)
LEMMA OpeningKeeps ==
  ASSUME NEW w, NEW in, NEW off, NEW p, ReaderSide(w, in, off, p),
         NEW q, WriterInv(w, q), w.state \in {"None", "Connecting"},
         NEW w2, NEW ret2, Opening(w, w2, ret2)
  PROVE  ReaderSide(w2, in, off, p) /\ WriterInv(w2, q)
<1>1. /\ w2 \in WebSocket
      /\ w2.state \in {"None", "Connecting", "Open", "Aborted"}
      /\ w2.is_write_continuation = w.is_write_continuation
      /\ w2.continuation_read = w.continuation_read
      /\ w2.continuation_frame_op_code = w.continuation_frame_op_code
  BY DEF Opening, OpeningStep
<1>2. CloseReadOnce(w2)
  BY <1>1 DEF ReaderSide, ReaderInv, CloseReadOnce
<1>3. q = "None"
  BY DEF WriterInv
<1> QED
  BY <1>1, <1>2, <1>3, ReaderKept DEF WriterInv, DataOpCode

(* MessagesInv is preserved by each action.                                *)
LEMMA MessagesStep ==
  ASSUME Disciplined, MessagesInv, [Next]_vars PROVE MessagesInv'
<1>1. ClosingInv /\ ClosingInv' /\ ConnectionType /\ ConnectionType'
  BY ClosingStep DEF MessagesInv, ClosingInv
<1>2. /\ cws \in WebSocket /\ sws \in WebSocket
      /\ cws' \in WebSocket /\ sws' \in WebSocket
      /\ CloseReadOnce(cws') /\ CloseReadOnce(sws')
      /\ Knows(cws, s2c, sws) /\ Knows(sws, c2s, cws) /\ OpeningInv
  BY <1>1 DEF ConnectionType, EndType, ClosingInv, Knows
<1>3. /\ ReaderSide(cws, s2c, coff, stx) /\ WriterInv(sws, stx)
      /\ ReaderSide(sws, c2s, soff, ctx) /\ WriterInv(cws, ctx)
      /\ ~cfailed /\ ~sfailed
  BY DEF MessagesInv
<1> DEFINE M == /\ ReaderSide(cws', s2c', coff', stx') /\ WriterInv(sws', stx')
                /\ ReaderSide(sws', c2s', soff', ctx') /\ WriterInv(cws', ctx')
                /\ ~cfailed' /\ ~sfailed'
<1> SUFFICES M
  BY <1>1 DEF MessagesInv
<1>4. CASE ClientConnect \/ ClientAccept
  <2>1. /\ Opening(cws, cws', ret') /\ cws.state \in {"None", "Connecting"}
        /\ UNCHANGED <<coff, ctx, cfailed, sws, soff, stx, sfailed, c2s, s2c>>
    BY <1>2, <1>4, ClientOpening DEF OpeningInv, server
  <2>2. ReaderSide(cws', s2c, coff, stx) /\ WriterInv(cws', ctx)
    BY <1>3, <2>1, OpeningKeeps
  <2> QED
    BY <1>3, <2>1, <2>2
<1>5. CASE ServerAccept
  <2>1. /\ Opening(sws, sws', ret') /\ sws.state \in {"None", "Connecting"}
        /\ UNCHANGED <<soff, stx, sfailed, cws, coff, ctx, cfailed, c2s, s2c>>
    BY <1>2, <1>5, ServerOpening DEF OpeningInv, client
  <2>2. ReaderSide(sws', c2s, soff, ctx) /\ WriterInv(sws', stx)
    BY <1>3, <2>1, OpeningKeeps
  <2> QED
    BY <1>3, <2>1, <2>2
<1>6. CASE ClientReads
  <2>1. PICK r : Reading(cws, s2c, coff, stx, r, cws', s2c', coff', cfailed')
    BY <1>1, <1>6, ClientReading DEF ClientReads
  <2>2. UNCHANGED <<sws, soff, stx, sfailed, c2s, ctx>> /\ s2c # <<>>
    BY <1>1, <1>6, ClientReading DEF ClientReads, server
  <2>3. ReaderSide(cws', s2c', coff', stx) /\ ~cfailed'
    BY <1>3, <2>1, <2>2, ReadingKeeps
  <2>4. ReadsState(cws, cws', HasSentClose(sws))
    BY <1>1, <1>2, <2>1, ReadingKnows DEF ConnectionType
  <2>5. WriterInv(cws', ctx)
    BY <1>2, <1>3, <2>4, WriterReads
  <2> QED
    BY <1>3, <2>2, <2>3, <2>5
<1>7. CASE ServerReads
  <2>1. PICK r : Reading(sws, c2s, soff, ctx, r, sws', c2s', soff', sfailed')
    BY <1>1, <1>7, ServerReading DEF ServerReads
  <2>2. UNCHANGED <<cws, coff, ctx, cfailed, s2c, stx>> /\ c2s # <<>>
    BY <1>1, <1>7, ServerReading DEF ServerReads, client
  <2>3. ReaderSide(sws', c2s', soff', ctx) /\ ~sfailed'
    BY <1>3, <2>1, <2>2, ReadingKeeps
  <2>4. ReadsState(sws, sws', HasSentClose(cws))
    BY <1>1, <1>2, <2>1, ReadingKnows DEF ConnectionType
  <2>5. WriterInv(sws', stx)
    BY <1>2, <1>3, <2>4, WriterReads
  <2> QED
    BY <1>3, <2>2, <2>3, <2>5
<1>8. CASE ClientWriting
  <2>1. PICK r : Writing(cws, ctx, c2s, r, cws', ctx', c2s')
    BY <1>8, ClientSends DEF ClientWriting
  <2>2. UNCHANGED <<sws, soff, stx, sfailed, s2c, coff, cfailed>>
    BY <1>8, ClientSends DEF ClientWriting, server
  <2>3. WriterInv(cws', ctx') /\ ReaderSide(sws, c2s', soff, ctx')
    BY <1>3, <2>1, WritingKeeps
  <2>4. ReaderSide(cws', s2c, coff, stx)
    BY <1>2, <1>3, <2>1, WriterKeepsReader
  <2> QED
    BY <1>3, <2>2, <2>3, <2>4
<1>9. CASE ServerWriting
  <2>1. PICK r : Writing(sws, stx, s2c, r, sws', stx', s2c')
    BY <1>9, ServerSends DEF ServerWriting
  <2>2. UNCHANGED <<cws, coff, ctx, cfailed, c2s, soff, sfailed>>
    BY <1>9, ServerSends DEF ServerWriting, client
  <2>3. WriterInv(sws', stx') /\ ReaderSide(cws, s2c', coff, stx')
    BY <1>3, <2>1, WritingKeeps
  <2>4. ReaderSide(sws', c2s, soff, ctx)
    BY <1>2, <1>3, <2>1, WriterKeepsReader
  <2> QED
    BY <1>3, <2>2, <2>3, <2>4
<1>10. CASE UNCHANGED vars
  BY <1>3, <1>10 DEF vars, client, server
<1> QED
  BY <1>4, <1>5, <1>6, <1>7, <1>8, <1>9, <1>10, StepCases

(* MessagesInv holds in the initial states.                                *)
LEMMA MessagesInit == ASSUME Init PROVE MessagesInv
<1>1. ClosingInv /\ cws \in WebSocket /\ sws \in WebSocket
  BY ClosingInit DEF ClosingInv, ConnectionType, EndType
<1>2. ASSUME NEW w \in WebSocket, w.state = "None", ~w.is_write_continuation,
             w.continuation_read.op_code = "None"
      PROVE  ReaderSide(w, <<>>, 0, "None") /\ WriterInv(w, "None")
  <2>1. /\ \A m : ~MessageFrom(<<>>, 1, "None", m)
        /\ StreamInv(<<>>, "None")
    BY DEF MessageFrom, StreamInv, DataOpCode
  <2>2. ReaderInv(w, <<>>, 0)
    BY <1>2 DEF ReaderInv, AtBoundary, CloseReadOnce
  <2>3. WriterInv(w, "None")
    BY <1>2 DEF WriterInv, Wire, DataOpCode
  <2> QED
    BY <1>2, <2>1, <2>2, <2>3 DEF ReaderSide, MessageInv
<1>3. /\ cws.state = "None" /\ ~cws.is_write_continuation
      /\ cws.continuation_read.op_code = "None"
      /\ sws.state = "None" /\ ~sws.is_write_continuation
      /\ sws.continuation_read.op_code = "None"
  BY DEF Init, new_websocket, NoContinuation
<1> QED
  BY <1>1, <1>2, <1>3 DEF Init, MessagesInv

(* What a step that takes bytes of a stream reports is what was written.   *)
LEMMA ClientReports ==
  ASSUME Disciplined, MessagesInv, [Next]_vars, C!Delivered,
         ~UNCHANGED <<s2c, coff>>
  PROVE  C!ReportsHead
<1>1. ConnectionType /\ ReaderSide(cws, s2c, coff, stx)
  BY DEF MessagesInv, ClosingInv
<1>2. ~UNCHANGED s2c \/ ~UNCHANGED coff
  OBVIOUS
<1>3. CASE ClientReads
  <2> PICK r : /\ ret' = r.ret
               /\ Reading(cws, s2c, coff, stx, r, cws', s2c', coff', cfailed')
    BY <1>1, <1>3, ClientReading DEF ClientReads
  <2>1. ReportsFrame(cws, s2c, coff, r)
    BY <1>1, <1>3, ReadingKeeps DEF ClientReads, C!Delivered
  <2>2. s2c \in Seq(Frame) /\ s2c # <<>>
    BY <1>3, <1>1 DEF ConnectionType, EndType, ClientReads
  <2>3. C!FrameConsumed <=> Ends(s2c, coff, r.ret.len_from)
    <3>1. s2c' = FramesAfter(s2c, coff, r.ret.len_from)
      BY DEF Reading
    <3>2. Tail(s2c) # s2c
      BY <2>2
    <3> QED
      BY <3>1, <3>2 DEF C!FrameConsumed, FramesAfter
  <2>4. \A o : C!message_type_of(o) = message_type_of(o)
    BY DEF C!message_type_of, message_type_of
  <2> QED
    BY <2>1, <2>2, <2>3, <2>4, SameCurrent DEF C!ReportsHead, ReportsFrame
<1>4. CASE ServerWriting
  <2>1. sws \in WebSocket /\ \E r : ret' = r.ret /\ Calling(sws, stx, r)
    BY <1>1, <1>4, ServerSends
       DEF ServerWriting, Writing, ConnectionType, EndType
  <2>2. ret'.call # "read"
    BY <2>1, CallingState DEF ReaderUntouched
  <2> QED
    BY <2>2 DEF C!Delivered
<1>5. CASE ClientConnect \/ ClientAccept \/ ServerAccept
  BY <1>2, <1>5 DEF ClientConnect, ClientAccept, ServerAccept, client
<1>6. CASE ServerReads
  BY <1>1, <1>2, <1>6, ServerReading DEF ServerReads, client
<1>7. CASE ClientWriting
  BY <1>2, <1>7, ClientSends DEF ClientWriting
<1>8. CASE UNCHANGED vars
  BY <1>2, <1>8 DEF vars, client
<1> QED
  BY <1>3, <1>4, <1>5, <1>6, <1>7, <1>8, StepCases

(* The same for what the server reads.                                     *)
LEMMA ServerReports ==
  ASSUME Disciplined, MessagesInv, [Next]_vars, S!Delivered,
         ~UNCHANGED <<c2s, soff>>
  PROVE  S!ReportsHead
<1>1. ConnectionType /\ ReaderSide(sws, c2s, soff, ctx)
  BY DEF MessagesInv, ClosingInv
<1>2. ~UNCHANGED c2s \/ ~UNCHANGED soff
  OBVIOUS
<1>3. CASE ServerReads
  <2> PICK r : /\ ret' = r.ret
               /\ Reading(sws, c2s, soff, ctx, r, sws', c2s', soff', sfailed')
    BY <1>1, <1>3, ServerReading DEF ServerReads
  <2>1. ReportsFrame(sws, c2s, soff, r)
    BY <1>1, <1>3, ReadingKeeps DEF ServerReads, S!Delivered
  <2>2. c2s \in Seq(Frame) /\ c2s # <<>>
    BY <1>1, <1>3 DEF ConnectionType, EndType, ServerReads
  <2>3. S!FrameConsumed <=> Ends(c2s, soff, r.ret.len_from)
    <3>1. c2s' = FramesAfter(c2s, soff, r.ret.len_from)
      BY DEF Reading
    <3>2. Tail(c2s) # c2s
      BY <2>2
    <3> QED
      BY <3>1, <3>2 DEF S!FrameConsumed, FramesAfter
  <2>4. \A o : S!message_type_of(o) = message_type_of(o)
    BY DEF S!message_type_of, message_type_of
  <2> QED
    BY <2>1, <2>2, <2>3, <2>4, SameCurrent DEF S!ReportsHead, ReportsFrame
<1>4. CASE ClientWriting
  <2>1. cws \in WebSocket /\ \E r : ret' = r.ret /\ Calling(cws, ctx, r)
    BY <1>1, <1>4, ClientSends
       DEF ClientWriting, Writing, MessagesInv, ConnectionType, EndType
  <2>2. ret'.call # "read"
    BY <2>1, CallingState DEF ReaderUntouched
  <2> QED
    BY <2>2 DEF S!Delivered
<1>5. CASE ClientConnect \/ ClientAccept \/ ServerAccept
  BY <1>2, <1>5 DEF ClientConnect, ClientAccept, ServerAccept, server
<1>6. CASE ClientReads
  BY <1>1, <1>2, <1>6, ClientReading DEF ClientReads, server
<1>7. CASE ServerWriting
  BY <1>2, <1>7, ServerSends DEF ServerWriting
<1>8. CASE UNCHANGED vars
  BY <1>2, <1>8 DEF vars, server
<1> QED
  BY <1>3, <1>4, <1>5, <1>6, <1>7, <1>8, StepCases

(***************************************************************************)
(* Two websockets understand each other: no read of what the other side    *)
(* has written with write and close fails, for all lengths of payloads and *)
(* all interleavings of the two.                                           *)
(***************************************************************************)
THEOREM NeverFails == ASSUME Disciplined PROVE Spec => []NeitherFails
<1>1. Init => MessagesInv
  BY MessagesInit
<1>2. MessagesInv /\ [Next]_vars => MessagesInv'
  BY MessagesStep
<1>3. MessagesInv => NeitherFails
  BY DEF MessagesInv, NeitherFails
<1> QED
  BY <1>1, <1>2, <1>3, PTL DEF Spec

(***************************************************************************)
(* Every read of either side reports the message that the other side       *)
(* wrote: its type, its end, the number of its bytes, the status of a      *)
(* close.                                                                  *)
(***************************************************************************)
THEOREM ReportsCorrect ==
  ASSUME Disciplined PROVE Spec => ReadsReportWhatWasWritten
<1> DEFINE A == /\ (C!Delivered /\ ~UNCHANGED <<s2c, coff>>) => C!ReportsHead
                /\ (S!Delivered /\ ~UNCHANGED <<c2s, soff>>) => S!ReportsHead
<1>1. Init => MessagesInv
  BY MessagesInit
<1>2. MessagesInv /\ [Next]_vars => MessagesInv'
  BY MessagesStep
<1>3. MessagesInv /\ [Next]_vars => [A]_vars
  BY ClientReports, ServerReports
<1> QED
  BY <1>1, <1>2, <1>3, PTL DEF Spec, ReadsReportWhatWasWritten

(***************************************************************************)
(* When a websocket stops reading, in CloseReceived or Closed, the other   *)
(* side has sent nothing that it has not consumed, if frames come whole.   *)
(***************************************************************************)
THEOREM AllIsRead ==
  ASSUME Disciplined, Cuts = "frames" PROVE Spec => []NothingLeftUnread
<1>1. Init => MessagesInv
  BY MessagesInit
<1>2. MessagesInv /\ [Next]_vars => MessagesInv'
  BY MessagesStep
<1>3. MessagesInv => NothingLeftUnread
  BY DEF MessagesInv, ReaderSide, NothingLeftUnread
<1> QED
  BY <1>1, <1>2, <1>3, PTL DEF Spec
=============================================================================
