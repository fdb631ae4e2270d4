----------------------------- MODULE Codec_proofs -----------------------------
(***************************************************************************)
(* What the operators of WebSocketCodec return, for every websocket,       *)
(* frame and buffer: lemmas for the proofs of the modules that own a       *)
(* WebSocket.                                                              *)
(***************************************************************************)
EXTENDS FramingRules, TLAPS

FrameReport == [op_code : WebSocketOpCode, num_bytes_from : Nat,
                num_bytes_to : Nat, is_fin_bit_set : BOOLEAN,
                close_status : CloseStatus \cup {"None"}]

-----------------------------------------------------------------------------
(* Types.                                                                  *)

(* The number of bytes a read takes is at most each of the three limits,   *)
(* and is one of them (min).                                               *)
LEMMA MinProps ==
  ASSUME NEW a \in Nat, NEW b \in Nat, NEW c \in Nat
  PROVE  /\ min(a, b, c) \in Nat
         /\ min(a, b, c) <= a /\ min(a, b, c) <= b /\ min(a, b, c) <= c
         /\ min(a, b, c) \in {a, b, c}
BY DEF min

(* A mask key that is turned n bytes further is turned for the byte n      *)
(* places on (rotate_left).                                                *)
LEMMA RotateProps ==
  ASSUME NEW masked \in BOOLEAN, NEW k \in Nat, NEW n \in Nat
  PROVE  /\ rotate_left(masked, IF masked THEN k % 4 ELSE 0, n)
              = IF masked THEN (k + n) % 4 ELSE 0
         /\ rotate_left(masked, 0, n) \in 0..3
BY DEF rotate_left

(* A turned mask key is one of the four rotations (rotate_left).           *)
LEMMA RotateType ==
  ASSUME NEW masked \in BOOLEAN, NEW rotation \in 0..3, NEW n \in Nat
  PROVE  rotate_left(masked, rotation, n) \in 0..3
BY DEF rotate_left

(* The header and the whole of a frame take a number of bytes.             *)
LEMMA FrameLenType ==
  ASSUME NEW f \in Frame
  PROVE  HeaderLen(f) \in Nat /\ FrameLen(f) \in Nat /\ HeaderLen(f) >= 2
         /\ f.len \in Nat /\ FrameLen(f) = HeaderLen(f) + f.len
BY DEF Frame, HeaderLen, FrameLen

(* decode_close_frame reports counts and an end of message.                *)
LEMMA DecodeType ==
  ASSUME NEW status \in CloseStatus, NEW n \in Nat, NEW len \in Nat
  PROVE  decode_close_frame(status, n, len) \in FrameReport
BY CloseStatusAssumption
   DEF decode_close_frame, frame_read, FrameReport, WebSocketOpCode,
       ControlOpCode

(* read_continuation takes no more bytes than remain of the frame: the     *)
(* count does not underflow.                                               *)
LEMMA ReadContinuationType ==
  ASSUME NEW cr \in ContinuationRead, cr.op_code # "None",
         NEW status \in CloseStatus, NEW from \in Nat, NEW to \in Nat
  PROVE  /\ read_continuation(cr, status, from, to).frame \in FrameReport
         /\ read_continuation(cr, status, from, to).continuation_read
              \in ContinuationRead
<1> DEFINE n == min(cr.count, to, from)
<1>1. n \in Nat /\ n <= cr.count
  BY MinProps DEF ContinuationRead
<1>2. decode_close_frame(status, n, n) \in FrameReport
  BY <1>1, DecodeType
<1>3. frame_read(cr.op_code, n, n, n = cr.count /\ cr.is_fin_bit_set, "None")
        \in FrameReport
  BY <1>1 DEF frame_read, FrameReport, ContinuationRead
<1>4. rotate_left(cr.masked, cr.rotation, n) \in 0..3
  BY <1>1, RotateType DEF ContinuationRead
<1>5. cr.count - n \in Nat
  BY <1>1 DEF ContinuationRead
<1>6. [cr EXCEPT !.count = @ - n, !.rotation = rotate_left(cr.masked, @, n)]
        \in ContinuationRead
  BY <1>4, <1>5 DEF ContinuationRead
<1> QED
  BY <1>2, <1>3, <1>6 DEF read_continuation

(* The first read of a frame leaves a count that is not negative           *)
(* (read_frame).                                                           *)
LEMMA ReadPayloadType ==
  ASSUME NEW f \in Frame, f.op_code \in WebSocketOpCode,
         NEW from \in Nat, NEW to \in Nat, from >= HeaderLen(f)
  PROVE  /\ read_payload(f, from, to).frame \in FrameReport
         /\ read_payload(f, from, to).continuation_read \in ContinuationRead
<1> DEFINE n == min(f.len, to, from - HeaderLen(f))
<1>0. f.len \in Nat /\ HeaderLen(f) \in Nat /\ from - HeaderLen(f) \in Nat
  BY FrameLenType
<1>1. n \in Nat /\ n <= f.len
  BY <1>0, MinProps
<1>2. decode_close_frame(f.status, HeaderLen(f) + n, n) \in FrameReport
  BY <1>0, <1>1, DecodeType DEF Frame
<1>3. frame_read(f.op_code, HeaderLen(f) + n, n, n = f.len /\ f.fin, "None")
        \in FrameReport
  BY <1>0, <1>1 DEF frame_read, FrameReport, Frame
<1>4. rotate_left(f.masked, 0, n) \in 0..3
  BY <1>1, RotateType DEF Frame
<1>5. [op_code |-> f.op_code, count |-> f.len - n, is_fin_bit_set |-> f.fin,
       masked |-> f.masked, rotation |-> rotate_left(f.masked, 0, n)]
        \in ContinuationRead
  BY <1>0, <1>1, <1>4 DEF ContinuationRead, Frame
<1>6. NoContinuation \in ContinuationRead
  BY DEF NoContinuation, ContinuationRead
<1> QED
  BY <1>2, <1>3, <1>5, <1>6 DEF read_payload

(* continue_frame keeps the fields of the WebSocket in their types.        *)
LEMMA ContinueType ==
  ASSUME NEW w \in WebSocket, NEW r,
         r.frame \in FrameReport, r.continuation_read \in ContinuationRead
  PROVE  continue_frame(w, r) \in WebSocket
<1>1. NoContinuation \in ContinuationRead
  BY DEF NoContinuation, ContinuationRead
<1> QED
  BY <1>1 DEF continue_frame, WebSocket

(* start_frame keeps the fields of the WebSocket in their types.           *)
LEMMA StartType ==
  ASSUME NEW w \in WebSocket, NEW r,
         r.frame \in FrameReport, r.continuation_read \in ContinuationRead
  PROVE  start_frame(w, r) \in WebSocket
BY DEF start_frame, WebSocket

(* A continuation frame is reported with the opcode of its message.        *)
LEMMA OverrideType ==
  ASSUME NEW w \in WebSocket, NEW frame \in FrameReport
  PROVE  override_op_code(w, frame) \in FrameReport
BY DEF override_op_code, WebSocket, FrameReport, WebSocketOpCode

(* to_readresult returns a WebSocketReadResult.                            *)
LEMMA ReadResultType ==
  ASSUME NEW frame \in FrameReport, NEW message_type \in MessageType,
         NEW starved \in BOOLEAN
  PROVE  to_readresult(frame, message_type, starved) \in Return
BY DEF to_readresult, Return, FrameReport, Call, Error

(* A call that reads nothing returns its error and no counts.              *)
LEMMA ReturnsType ==
  ASSUME NEW call \in Call, NEW err \in Error
  PROVE  returns(call, err) \in Return
BY DEF returns, Return, MessageType

(* to_message_type returns a WebSocketReceiveMessageType.                  *)
LEMMA MessageTypeOfType ==
  ASSUME NEW op_code PROVE message_type_of(op_code) \in MessageType
BY DEF message_type_of, MessageType

(* The state changes of read after a frame end in states of                *)
(* WebSocketState.                                                         *)
LEMMA DispatchType ==
  ASSUME NEW w \in WebSocket, NEW frame \in FrameReport,
         NEW starved \in BOOLEAN
  PROVE  /\ dispatch_frame(w, frame, starved).ws \in WebSocket
         /\ dispatch_frame(w, frame, starved).ret \in Return
<1>1. \A m \in MessageType : to_readresult(frame, m, starved) \in Return
  BY ReadResultType
<1>2. \A op : message_type_of(op) \in MessageType
  BY MessageTypeOfType
<1>3. returns("read", "UnexpectedContinuationFrame") \in Return
  BY ReturnsType DEF Call, Error
<1>4. [w EXCEPT !.state = "Closed"] \in WebSocket
      /\ [w EXCEPT !.state = "CloseReceived"] \in WebSocket
  BY DEF WebSocket, WebSocketState
<1>5. {"CloseCompleted", "CloseMustReply"} \subseteq MessageType
  BY DEF MessageType
<1> QED
  BY <1>1, <1>2, <1>3, <1>4, <1>5 DEF dispatch_frame

(* read keeps the fields of the websocket in their types, and its answer   *)
(* is well formed.                                                         *)
LEMMA ReadType ==
  ASSUME NEW w \in WebSocket, NEW f \in Frame, NEW status \in CloseStatus,
         NEW from \in Nat, NEW to \in Nat
  PROVE  /\ read(w, f, status, from, to).ws \in WebSocket
         /\ read(w, f, status, from, to).ret \in Return
<1>1. CASE w.state \notin {"Open", "CloseSent"}
  BY <1>1, ReturnsType DEF read, Call, Error
<1>2. CASE /\ w.state \in {"Open", "CloseSent"}
           /\ w.continuation_read.op_code # "None"
  <2> DEFINE r == read_continuation(w.continuation_read, status, from, to)
  <2>1. w.continuation_read \in ContinuationRead
    BY DEF WebSocket
  <2>2. r.frame \in FrameReport /\ r.continuation_read \in ContinuationRead
    BY <1>2, <2>1, ReadContinuationType
  <2>3. continue_frame(w, r) \in WebSocket
    BY <2>2, ContinueType
  <2> HIDE DEF r
  <2>4. LET d == dispatch_frame(continue_frame(w, r), r.frame,
                                from = 0 \/ to = 0)
        IN  d.ws \in WebSocket /\ d.ret \in Return
    BY <2>2, <2>3, DispatchType
  <2> QED
    BY <1>2, <2>4 DEF read, r
<1>3. CASE /\ w.state \in {"Open", "CloseSent"}
           /\ w.continuation_read.op_code = "None"
           /\ read_frame_error(f, from) # "None"
  <2>1. read_frame_error(f, from) \in Error
    BY DEF read_frame_error, Error
  <2>2. returns("read", read_frame_error(f, from)) \in Return
    BY <2>1, ReturnsType DEF Call
  <2> QED
    BY <1>3, <2>2 DEF read
<1>4. CASE /\ w.state \in {"Open", "CloseSent"}
           /\ w.continuation_read.op_code = "None"
           /\ read_frame_error(f, from) = "None"
  <2> DEFINE r == read_payload(f, from, to)
             w2 == start_frame(w, r)
  <2>1. f.op_code \in WebSocketOpCode /\ from >= HeaderLen(f)
    BY <1>4, FrameLenType DEF read_frame_error
  <2>2. r.frame \in FrameReport /\ r.continuation_read \in ContinuationRead
    BY <2>1, ReadPayloadType
  <2>3. w2 \in WebSocket
    BY <2>2, StartType
  <2> HIDE DEF r
  <2>4. override_op_code(w2, r.frame) \in FrameReport
    BY <2>2, <2>3, OverrideType
  <2> HIDE DEF w2
  <2>5. LET d == dispatch_frame(w2, override_op_code(w2, r.frame),
                                from = 0 \/ to = 0)
        IN  d.ws \in WebSocket /\ d.ret \in Return
    BY <2>3, <2>4, DispatchType
  <2> QED
    BY <1>4, <2>5 DEF read, r, w2
<1> QED
  BY <1>1, <1>2, <1>3, <1>4

(* write keeps the WebSocket in its type and sends at most one frame.      *)
LEMMA WriteType ==
  ASSUME NEW w \in WebSocket, NEW message_type \in SendMessageType,
         NEW end_of_message \in BOOLEAN, NEW count \in Nat,
         NEW status \in CloseStatus, NEW to \in Nat
  PROVE  LET r == write(w, message_type, end_of_message, count, status, to)
         IN  /\ r.ws \in WebSocket /\ r.ret \in Return
             /\ r.sent = <<>> \/ \E f \in Frame : r.sent = <<f>>
<1> DEFINE f == encode_frame(w, write_op_code(w, message_type),
                             end_of_message, count, status,
                             to_op_code(message_type))
<1>1. to_op_code(message_type) \in DataOpCode \cup ControlOpCode
  BY DEF to_op_code, SendMessageType, DataOpCode, ControlOpCode
<1>2. write_op_code(w, message_type) \in WebSocketOpCode
  BY <1>1 DEF write_op_code, WebSocketOpCode
<1>3. f \in Frame
  BY <1>1, <1>2 DEF encode_frame, Frame, length_bytes, WebSocket
<1>4. after_write(w, message_type, end_of_message) \in WebSocket
  BY DEF after_write, WebSocket, WebSocketState
<1>5. returns("write", "None") \in Return
      /\ returns("write", "WriteToBufferTooSmall") \in Return
      /\ returns("write", "WebSocketNotOpen") \in Return
  BY ReturnsType DEF Call, Error
<1> HIDE DEF f
<1>6. LET s == write_frame(f, to)
      IN  /\ s.err \in {"None", "WriteToBufferTooSmall"}
          /\ s.sent \in {<<>>, <<f>>}
  BY DEF write_frame
<1>7. CASE w.state \notin {"Open", "CloseReceived"}
  BY <1>5, <1>7 DEF write, refused
<1>8. CASE w.state \in {"Open", "CloseReceived"}
  BY <1>3, <1>4, <1>5, <1>6, <1>8 DEF write, f
<1> QED
  BY <1>7, <1>8

(* close keeps the WebSocket in its type and sends at most one frame.      *)
LEMMA CloseType ==
  ASSUME NEW w \in WebSocket, NEW status \in CloseStatus,
         NEW description \in Nat, NEW to \in Nat
  PROVE  LET r == close(w, status, description, to)
         IN  /\ r.ws \in WebSocket /\ r.ret \in Return
             /\ r.sent = <<>> \/ \E f \in Frame : r.sent = <<f>>
<1> DEFINE f == encode_frame(w, "ConnectionClose", TRUE,
                             close_len(description), status,
                             "ConnectionClose")
<1>1. close_len(description) \in Nat
  BY DEF close_len
<1>2. f \in Frame
  BY <1>1 DEF encode_frame, Frame, length_bytes, WebSocket, WebSocketOpCode,
              ControlOpCode
<1>3. [w EXCEPT !.state = "CloseSent"] \in WebSocket
  BY DEF WebSocket, WebSocketState
<1>4. returns("close", "None") \in Return
      /\ returns("close", "WriteToBufferTooSmall") \in Return
      /\ returns("close", "WebSocketNotOpen") \in Return
  BY ReturnsType DEF Call, Error
<1> HIDE DEF f
<1>5. LET s == write_frame(f, to)
      IN  /\ s.err \in {"None", "WriteToBufferTooSmall"}
          /\ s.sent \in {<<>>, <<f>>}
  BY DEF write_frame
<1>6. CASE w.state # "Open"
  BY <1>4, <1>6 DEF close, refused
<1>7. CASE w.state = "Open"
  BY <1>2, <1>3, <1>4, <1>5, <1>7 DEF close, f
<1> QED
  BY <1>6, <1>7

(* The opening handshake keeps the WebSocket in its type.                  *)
LEMMA HandshakeType ==
  ASSUME NEW w \in WebSocket, NEW http \in Error
  PROVE  \A r \in {server_accept(w, http), client_connect(w, http),
                   client_accept(w, http)} :
           r.ws \in WebSocket /\ r.ret \in Return
<1>1. \A s \in WebSocketState : [w EXCEPT !.state = s] \in WebSocket
  BY DEF WebSocket
<1>2. \A c \in {"server_accept", "client_connect", "client_accept"} :
        /\ returns(c, http) \in Return
        /\ returns(c, "WebsocketAlreadyOpen") \in Return
  BY ReturnsType DEF Call, Error
<1>3. w.state \in WebSocketState
      /\ {"Open", "Aborted", "Connecting"} \subseteq WebSocketState
  BY DEF WebSocket, WebSocketState
<1> QED
  BY <1>1, <1>2, <1>3
     DEF server_accept, client_connect, client_accept, handshake

(* new_client and new_server return a WebSocket.                           *)
LEMMA NewWebSocketType ==
  ASSUME NEW is_client \in BOOLEAN
  PROVE  new_websocket(is_client) \in WebSocket
<1>1. NoContinuation \in ContinuationRead
  BY DEF NoContinuation, ContinuationRead
<1> QED
  BY <1>1 DEF new_websocket, WebSocket, WebSocketState

(* A frame leads from a place in the framing rules to another.             *)
LEMMA WireAfterType ==
  ASSUME NEW w \in Wire, NEW f \in Frame
  PROVE  WireAfter(w, f) \in Wire
BY DEF WireAfter, MessageAfter, Wire, Frame, WebSocketOpCode, DataOpCode,
       ControlOpCode

-----------------------------------------------------------------------------
(* Effects.                                                                *)

(* dispatch_frame changes the state alone, and only for a close frame.     *)
LEMMA DispatchEffect ==
  ASSUME NEW w \in WebSocket, NEW frame \in FrameReport,
         NEW starved \in BOOLEAN
  PROVE  LET d == dispatch_frame(w, frame, starved)
         IN  /\ d.ws.continuation_read = w.continuation_read
             /\ d.ret.err \in {"None", "UnexpectedContinuationFrame"}
             /\ d.ret.err = "None" => d.ret.len_from = frame.num_bytes_from
             /\ IF frame.op_code = "ConnectionClose"
                THEN /\ d.ws.state \in {"CloseReceived", "Closed"}
                     /\ d.ret.err = "None"
                ELSE d.ws = w
<1>1. \A m : /\ to_readresult(frame, m, starved).err = "None"
             /\ to_readresult(frame, m, starved).len_from
                   = frame.num_bytes_from
  BY DEF to_readresult
<1>2. returns("read", "UnexpectedContinuationFrame").err
        = "UnexpectedContinuationFrame"
  BY DEF returns
<1>3. CASE frame.op_code = "ConnectionClose"
  BY <1>1, <1>3 DEF dispatch_frame, WebSocket
<1>4. CASE frame.op_code # "ConnectionClose"
  BY <1>1, <1>2, <1>4 DEF dispatch_frame
<1> QED
  BY <1>3, <1>4

(* What an opening operation may do to a websocket.                        *)
OpeningStep(w, r) ==
  /\ r.ws.continuation_read = w.continuation_read
  /\ r.ws.continuation_frame_op_code = w.continuation_frame_op_code
  /\ r.ret.call # "read" /\ r.ret.err # "UnexpectedContinuationFrame"
  /\ w.state = "Open" => r.ws.state = "Open" /\ r.ret.err # "None"
  /\ r.ws.state \in {w.state, "Connecting", "Open", "Aborted"}
  /\ r.ws.state = w.state \/ r.ret.err = "None" \/ r.ws.state = "Aborted"

(* What the calls of the opening handshake do to the state and to the      *)
(* other fields.                                                           *)
LEMMA OpeningEffect ==
  ASSUME NEW w \in WebSocket, NEW http \in Error,
         http # "UnexpectedContinuationFrame"
  PROVE  \A r \in {server_accept(w, http), client_connect(w, http),
                   client_accept(w, http)} : OpeningStep(w, r)
BY DEF server_accept, client_connect, client_accept, handshake, returns,
       WebSocket, OpeningStep

(* What a call that writes may do to the reading side: nothing.            *)
ReaderUntouched(w, r) ==
  /\ r.ws.continuation_read = w.continuation_read
  /\ r.ws.continuation_frame_op_code = w.continuation_frame_op_code
  /\ r.ret.call # "read" /\ r.ret.err # "UnexpectedContinuationFrame"

(* write leaves the reading side alone, and the state but for a close      *)
(* reply.                                                                  *)
LEMMA WriteEffect ==
  ASSUME NEW w \in WebSocket, NEW m, NEW e \in BOOLEAN, NEW count,
         NEW status, NEW to
  PROVE  LET r == write(w, m, e, count, status, to)
         IN  /\ ReaderUntouched(w, r)
             /\ \/ r.ws.state = w.state
                \/ /\ w.state \in {"Open", "CloseReceived"}
                   /\ r.ws.state = "Closed"
<1>1. CASE w.state \notin {"Open", "CloseReceived"}
  BY <1>1 DEF write, refused, returns, ReaderUntouched
<1>2. CASE w.state \in {"Open", "CloseReceived"}
  <2> DEFINE r == write(w, m, e, count, status, to)
  <2>1. r.ws = after_write(w, m, e)
    BY <1>2 DEF write
  <2>2. /\ after_write(w, m, e).continuation_read = w.continuation_read
        /\ after_write(w, m, e).continuation_frame_op_code
              = w.continuation_frame_op_code
        /\ after_write(w, m, e).state \in {w.state, "Closed"}
    BY DEF after_write, WebSocket
  <2>3. r.ret.call = "write"
        /\ r.ret.err \in {"None", "WriteToBufferTooSmall"}
    BY <1>2 DEF write, returns, write_frame
  <2> HIDE DEF r
  <2>4. r.ret.call # "read" /\ r.ret.err # "UnexpectedContinuationFrame"
    BY <2>3
  <2> QED
    BY <1>2, <2>1, <2>2, <2>4 DEF ReaderUntouched, r
<1> QED
  BY <1>1, <1>2

(* close leaves the reading side alone and leads from Open to CloseSent.   *)
LEMMA CloseEffect ==
  ASSUME NEW w \in WebSocket, NEW status, NEW description, NEW to
  PROVE  LET r == close(w, status, description, to)
         IN  /\ ReaderUntouched(w, r)
             /\ \/ r.ws.state = w.state
                \/ w.state = "Open" /\ r.ws.state = "CloseSent"
<1>1. CASE w.state # "Open"
  BY <1>1 DEF close, refused, returns, ReaderUntouched
<1>2. CASE w.state = "Open"
  <2> DEFINE r == close(w, status, description, to)
  <2>1. r.ws = [w EXCEPT !.state = "CloseSent"]
    BY <1>2 DEF close
  <2>2. r.ret.call = "close"
        /\ r.ret.err \in {"None", "WriteToBufferTooSmall"}
    BY <1>2 DEF close, returns, write_frame
  <2> HIDE DEF r
  <2>3. r.ret.call # "read" /\ r.ret.err # "UnexpectedContinuationFrame"
    BY <2>2
  <2> QED
    BY <1>2, <2>1, <2>3 DEF WebSocket, ReaderUntouched, r
<1> QED
  BY <1>1, <1>2

(* A read of a websocket that is not open takes no byte and changes        *)
(* nothing.                                                                *)
LEMMA ReadRefused ==
  ASSUME NEW w, NEW f, NEW status, NEW from, NEW to,
         w.state \notin {"Open", "CloseSent"}
  PROVE  /\ read(w, f, status, from, to).ws = w
         /\ read(w, f, status, from, to).ret.err = "WebSocketNotOpen"
         /\ read(w, f, status, from, to).ret.len_from = 0
BY DEF read, returns

(* An answered read dispatches a frame it has read for a websocket of the  *)
(* same state and the same memory of the writing side.                     *)
ReadsFrame(w, f, result, v, frame, starved) ==
  /\ result = dispatch_frame(v, frame, starved)
  /\ v.state = w.state
  /\ v.is_write_continuation = w.is_write_continuation
  /\ frame.op_code = "ConnectionClose" =>
       "ConnectionClose" \in {w.continuation_read.op_code, f.op_code}

(* A read of an open websocket changes nothing or dispatches a frame.      *)
LEMMA ReadCases ==
  ASSUME NEW w \in WebSocket, w.state \in {"Open", "CloseSent"},
         NEW f \in Frame, NEW status \in CloseStatus,
         NEW from \in Nat, NEW to \in Nat
  PROVE  \/ read(w, f, status, from, to).ws = w
         \/ \E v \in WebSocket, frame \in FrameReport, starved \in BOOLEAN :
              ReadsFrame(w, f, read(w, f, status, from, to), v, frame, starved)
<1> DEFINE starved == from = 0 \/ to = 0
<1>1. CASE w.continuation_read.op_code # "None"
  <2> DEFINE r == read_continuation(w.continuation_read, status, from, to)
             v == continue_frame(w, r)
  <2>1. w.continuation_read \in ContinuationRead
    BY DEF WebSocket
  <2>2. r.frame \in FrameReport /\ r.continuation_read \in ContinuationRead
    BY <1>1, <2>1, ReadContinuationType
  <2>3. r.frame.op_code = w.continuation_read.op_code
    BY <2>1 DEF read_continuation, frame_read, decode_close_frame,
                ContinuationRead
  <2> HIDE DEF r
  <2>4. v \in WebSocket
    BY <2>2, ContinueType
  <2>5. v.state = w.state /\ v.is_write_continuation = w.is_write_continuation
    BY DEF continue_frame, WebSocket
  <2> HIDE DEF v
  <2>6. read(w, f, status, from, to) = dispatch_frame(v, r.frame, starved)
    BY <1>1 DEF read, r, v
  <2>7. starved \in BOOLEAN
    OBVIOUS
  <2> HIDE DEF starved
  <2> QED
    BY <2>2, <2>3, <2>4, <2>5, <2>6, <2>7 DEF ReadsFrame
<1>2. CASE /\ w.continuation_read.op_code = "None"
           /\ read_frame_error(f, from) # "None"
  BY <1>2 DEF read
<1>3. CASE /\ w.continuation_read.op_code = "None"
           /\ read_frame_error(f, from) = "None"
  <2> DEFINE r == read_payload(f, from, to)
             v == start_frame(w, r)
             o == override_op_code(v, r.frame)
  <2>1. f.op_code \in WebSocketOpCode /\ from >= HeaderLen(f)
    BY <1>3, FrameLenType DEF read_frame_error
  <2>2. r.frame \in FrameReport /\ r.continuation_read \in ContinuationRead
    BY <2>1, ReadPayloadType
  <2>3. r.frame.op_code = f.op_code
    BY DEF read_payload, frame_read, decode_close_frame
  <2> HIDE DEF r
  <2>4. v \in WebSocket
    BY <2>2, StartType
  <2>5. v.state = w.state /\ v.is_write_continuation = w.is_write_continuation
    BY DEF start_frame, WebSocket
  <2>6. /\ o \in FrameReport
        /\ o.op_code = "ConnectionClose" => f.op_code = "ConnectionClose"
    BY <2>2, <2>3, <2>4, OverrideType
       DEF override_op_code, WebSocket, FrameReport, DataOpCode
  <2> HIDE DEF v, o
  <2>7. read(w, f, status, from, to) = dispatch_frame(v, o, starved)
    BY <1>3 DEF read, r, v, o
  <2>8. starved \in BOOLEAN
    OBVIOUS
  <2> HIDE DEF starved
  <2> QED
    BY <2>4, <2>5, <2>6, <2>7, <2>8 DEF ReadsFrame
<1> QED
  BY <1>1, <1>2, <1>3

(* A read changes the state only for a close frame, and never back to one  *)
(* in which the websocket could be opened; it leaves the memory of the     *)
(* writing side alone.                                                     *)
LEMMA ReadState ==
  ASSUME NEW w \in WebSocket, w.state \in {"Open", "CloseSent"},
         NEW f \in Frame, NEW status \in CloseStatus,
         NEW from \in Nat, NEW to \in Nat
  PROVE  LET r == read(w, f, status, from, to)
         IN  /\ r.ws.is_write_continuation = w.is_write_continuation
             /\ \/ r.ws.state = w.state
                \/ /\ "ConnectionClose"
                        \in {w.continuation_read.op_code, f.op_code}
                   /\ r.ws.state = IF w.state = "CloseSent" THEN "Closed"
                                   ELSE "CloseReceived"
<1> DEFINE r == read(w, f, status, from, to)
<1> HIDE DEF r
<1>1. CASE r.ws = w
  BY <1>1 DEF r
<1>2. ASSUME NEW v \in WebSocket, NEW frame \in FrameReport,
             NEW starved \in BOOLEAN, ReadsFrame(w, f, r, v, frame, starved)
      PROVE  /\ r.ws.is_write_continuation = w.is_write_continuation
             /\ \/ r.ws.state = w.state
                \/ /\ "ConnectionClose"
                        \in {w.continuation_read.op_code, f.op_code}
                   /\ r.ws.state = IF w.state = "CloseSent" THEN "Closed"
                                   ELSE "CloseReceived"
  <2>1. CASE frame.op_code = "ConnectionClose"
    BY <1>2, <2>1 DEF ReadsFrame, dispatch_frame, WebSocket
  <2>2. CASE frame.op_code # "ConnectionClose"
    <3>1. r.ws = v
      BY <1>2, <2>2 DEF ReadsFrame, dispatch_frame
    <3> QED
      BY <1>2, <3>1 DEF ReadsFrame
  <2> QED
    BY <2>1, <2>2
<1> QED
  BY <1>1, <1>2, ReadCases DEF r

-----------------------------------------------------------------------------
(* Headers.                                                                *)

(* get_op_code inverts the numbers of the opcodes.                         *)
LEMMA GetOpCode ==
  ASSUME NEW op_code \in WebSocketOpCode
  PROVE  /\ OpCodeByte[op_code] \in 0..15
         /\ get_op_code(OpCodeByte[op_code]) = op_code
<1>1. \A o \in WebSocketOpCode : OpCodeByte[o] \in 0..15
  BY DEF OpCodeByte, WebSocketOpCode, DataOpCode, ControlOpCode
<1>2. \A o \in WebSocketOpCode, p \in WebSocketOpCode :
        OpCodeByte[o] = OpCodeByte[p] => o = p
  BY DEF OpCodeByte, WebSocketOpCode, DataOpCode, ControlOpCode
<1> QED
  BY <1>1, <1>2 DEF get_op_code

(* A length code fits in seven bits, and read_length finds the length and  *)
(* the bytes of its field in what write_frame makes of them.               *)
LEMMA LengthRoundTrip ==
  ASSUME NEW count \in Nat, NEW op_code, NEW fin, NEW masked
  PROVE  LET h == encode_header(op_code, fin, masked, count)
         IN  /\ length_code(count) \in 0..127
             /\ read_length(length_code(count), h.ext) =
                  [len |-> count, ext |-> length_bytes(count)]
BY DEF encode_header, length_code, length_bytes, read_length
-----------------------------------------------------------------------------
(***************************************************************************)
(* What the calls of write and close make of the frames written: a         *)
(* websocket w and the place p in the framing rules of the frames it has   *)
(* sent.                                                                   *)
(***************************************************************************)

(* The frames that a peer may send next.                                   *)
PeerMaySend(p, f) ==
  /\ f \in Frame /\ WireAfter(p, f) # "Broken"
  /\ f.op_code \in DataOpCode \cup ControlOpCode => f.msg = f.op_code

(***************************************************************************)
(* is_write_continuation is the codec's only memory of the stream that it  *)
(* writes: it must say whether that stream is inside a message; and the    *)
(* state must say whether a close frame ended it.                          *)
(***************************************************************************)
WriterInv(w, p) ==
  /\ w \in WebSocket /\ p \in Wire /\ p # "Broken"
  /\ p = "Closed" <=> w.state \in {"CloseSent", "Closed"}
  /\ p \in DataOpCode => w.is_write_continuation
  /\ p = "None" => ~w.is_write_continuation
  /\ w.state \in {"None", "Connecting", "Aborted"} => p = "None"

(* A call of write as the API is meant to be used: fragments name the type *)
(* of their message, control frames are final and stay out of messages,    *)
(* and a close reply answers a close frame.                                *)
MayWrite(w, p, m, e) ==
  /\ m \in {"Text", "Binary"}
       => p \in {"None", to_op_code(m), "Closed", "Broken"}
  /\ m \notin {"Text", "Binary"} => e
  /\ m \in {"Ping", "Pong"} => ~w.is_write_continuation
  /\ m = "CloseReply" => w.state = "CloseReceived"

(* What a call that writes makes of the websocket and of its stream: it is *)
(* refused, or sends one frame that the rules allow.                       *)
SendsOne(w, p, r, f) ==
  /\ r.sent = <<f>> /\ PeerMaySend(p, f) /\ f.op_code # "Reserved"
  /\ WriterInv(r.ws, WireAfter(p, f))

Written(w, p, r) ==
  /\ \/ r.ws = w /\ r.sent = <<>>
     \/ \E f : SendsOne(w, p, r, f)
  /\ \/ r.ws.state = w.state
     \/ w.state = "Open" /\ r.ws.state = "CloseSent"
     \/ w.state = "CloseReceived" /\ r.ws.state = "Closed"

(* A frame that fits its buffer is put into it.                            *)
LEMMA FrameIsSent ==
  ASSUME NEW f, NEW to, write_frame(f, to).err # "WriteToBufferTooSmall"
  PROVE  write_frame(f, to).sent = <<f>>
BY DEF write_frame

(* The codec numbers the lengths of its frames as it reads them.           *)
LEMMA EncodedType ==
  ASSUME NEW w \in WebSocket, NEW op_code \in WebSocketOpCode,
         NEW fin \in BOOLEAN, NEW count \in Nat, NEW status \in CloseStatus,
         NEW msg \in DataOpCode \cup ControlOpCode
  PROVE  LET f == encode_frame(w, op_code, fin, count, status, msg)
         IN  /\ f \in Frame
             /\ f.op_code = op_code /\ f.fin = fin /\ f.msg = msg
BY DEF encode_frame, Frame, WebSocket, length_bytes

(* What write sends when it is not refused.                                *)
LEMMA WriteSends ==
  ASSUME NEW w, NEW p, WriterInv(w, p), NEW m \in SendMessageType,
         NEW e \in BOOLEAN, NEW count \in Nat, NEW status \in CloseStatus,
         NEW to \in Nat,
         w.state \in {"Open", "CloseReceived"},
         write(w, m, e, count, status, to).ret.err # "WriteToBufferTooSmall"
  PROVE  LET r == write(w, m, e, count, status, to)
         IN  /\ r.ws = after_write(w, m, e)
             /\ \E f \in Frame :
                  /\ f.op_code = write_op_code(w, m) /\ f.fin = e
                  /\ f.msg = to_op_code(m) /\ r.sent = <<f>>
<1> DEFINE f == encode_frame(w, write_op_code(w, m), e, count, status,
                             to_op_code(m))
           r == write(w, m, e, count, status, to)
<1>1. /\ write_op_code(w, m) \in WebSocketOpCode
      /\ to_op_code(m) \in DataOpCode \cup ControlOpCode
  BY DEF SendMessageType, write_op_code, to_op_code, WebSocketOpCode,
         DataOpCode, ControlOpCode
<1>2. /\ f \in Frame /\ f.op_code = write_op_code(w, m) /\ f.fin = e
      /\ f.msg = to_op_code(m)
  BY <1>1, EncodedType DEF WriterInv
<1> HIDE DEF f
<1>3. /\ r.ws = after_write(w, m, e)
      /\ r.ret.err = write_frame(f, to).err
      /\ r.sent = write_frame(f, to).sent
  BY DEF write, f, returns
<1>4. r.sent = <<f>>
  BY <1>3, FrameIsSent
<1> HIDE DEF r
<1> QED
  BY <1>2, <1>3, <1>4 DEF r

(***************************************************************************)
(* write, used as it is meant to be, sends nothing or a frame that goes on *)
(* where the stream is, and remembers where that frame leads.              *)
(***************************************************************************)
LEMMA WriteKeeps ==
  ASSUME NEW w, NEW p, WriterInv(w, p), NEW m \in SendMessageType,
         NEW e \in BOOLEAN, NEW count \in Nat, NEW status \in CloseStatus,
         NEW to \in Nat, MayWrite(w, p, m, e),
         write(w, m, e, count, status, to).ret.err # "WriteToBufferTooSmall"
  PROVE  Written(w, p, write(w, m, e, count, status, to))
<1> DEFINE r == write(w, m, e, count, status, to)
<1>1. w \in WebSocket /\ r.ws \in WebSocket
  BY WriteType DEF WriterInv
<1>2. CASE w.state \notin {"Open", "CloseReceived"}
  <2>1. r.ws = w /\ r.sent = <<>>
    BY <1>2 DEF write, refused
  <2> QED
    BY <2>1 DEF Written
<1>3. CASE w.state \in {"Open", "CloseReceived"}
  <2>1. r.ws = after_write(w, m, e)
    BY <1>3, WriteSends
  <2> PICK f \in Frame :
        /\ f.op_code = write_op_code(w, m) /\ f.fin = e
        /\ f.msg = to_op_code(m) /\ r.sent = <<f>>
    BY <1>3, WriteSends
  <2> HIDE DEF r
  <2>2. r.ws.state = IF m = "CloseReply" THEN "Closed" ELSE w.state
    BY <1>1, <2>1 DEF after_write, WebSocket
  <2>3. r.ws.is_write_continuation = ~e
    BY <1>1, <2>1 DEF after_write, WebSocket
  <2>4. p \in DataOpCode \cup {"None"}
    BY <1>3 DEF WriterInv, Wire
  <2>5. m = "CloseReply" => w.state = "CloseReceived"
    BY DEF MayWrite
  <2>6. ASSUME WireAfter(p, f) # "Broken", f.op_code # "Reserved",
               f.op_code \in DataOpCode \cup ControlOpCode
                 => f.msg = f.op_code,
               WriterInv(r.ws, WireAfter(p, f))
        PROVE  Written(w, p, r)
    <3>1. SendsOne(w, p, r, f)
      BY <2>6 DEF SendsOne, PeerMaySend
    <3> QED
      BY <1>3, <2>2, <2>5, <3>1 DEF Written
  <2>7. CASE m = "CloseReply"
    <3>1. f.op_code = "ConnectionClose" /\ f.msg = "ConnectionClose"
      BY <2>7 DEF write_op_code, to_op_code
    <3>2. WireAfter(p, f) = "Closed"
      BY <2>4, <3>1 DEF WireAfter, DataOpCode
    <3>3. WriterInv(r.ws, WireAfter(p, f))
      BY <1>1, <2>2, <2>7, <3>2 DEF WriterInv, Wire, DataOpCode, r
    <3> QED
      BY <2>6, <3>1, <3>2, <3>3 DEF r
  <2>8. CASE m \in {"Ping", "Pong"}
    <3>1. f.op_code = m /\ f.msg = m /\ e
      BY <2>8 DEF write_op_code, to_op_code, MayWrite
    <3>2. p = "None" /\ WireAfter(p, f) = "None"
      BY <2>4, <2>8, <3>1 DEF WireAfter, DataOpCode, WriterInv, MayWrite
    <3>3. WriterInv(r.ws, WireAfter(p, f))
      BY <1>1, <1>3, <2>2, <2>3, <2>8, <3>1, <3>2
         DEF WriterInv, Wire, DataOpCode, r
    <3> QED
      BY <2>6, <2>8, <3>1, <3>2, <3>3 DEF r
  <2>9. CASE m \in {"Text", "Binary"}
    <3>1. to_op_code(m) \in DataOpCode
      BY <2>9 DEF to_op_code, DataOpCode
    <3>2. p \in {"None", to_op_code(m)}
      BY <2>4, <2>9 DEF MayWrite, DataOpCode
    <3>3. /\ WireAfter(p, f) = IF e THEN "None" ELSE to_op_code(m)
          /\ f.op_code # "Reserved"
          /\ f.op_code \in DataOpCode \cup ControlOpCode
               => f.msg = f.op_code
      <4>1. CASE p = "None"
        <5>1. f.op_code = to_op_code(m)
          BY <2>9, <4>1 DEF WriterInv, write_op_code
        <5> QED
          BY <3>1, <4>1, <5>1 DEF WireAfter, MessageAfter, DataOpCode
      <4>2. CASE p = to_op_code(m)
        <5>1. f.op_code = "ContinuationFrame" /\ f.msg = p
          BY <2>9, <3>1, <4>2 DEF WriterInv, write_op_code
        <5> QED
          BY <3>1, <4>2, <5>1
             DEF WireAfter, MessageAfter, DataOpCode, ControlOpCode
      <4> QED
        BY <3>2, <4>1, <4>2
    <3>4. WriterInv(r.ws, WireAfter(p, f))
      BY <1>1, <1>3, <2>2, <2>3, <2>9, <3>1, <3>3
         DEF WriterInv, Wire, DataOpCode, r
    <3> QED
      BY <2>6, <3>1, <3>3, <3>4 DEF DataOpCode, r
  <2> QED
    BY <2>7, <2>8, <2>9 DEF SendMessageType, r
<1> QED
  BY <1>2, <1>3

(***************************************************************************)
(* close sends the close frame that ends the stream, or is refused.        *)
(***************************************************************************)
LEMMA CloseKeeps ==
  ASSUME NEW w, NEW p, WriterInv(w, p), NEW status \in CloseStatus,
         NEW d \in Nat, NEW to \in Nat,
         close(w, status, d, to).ret.err # "WriteToBufferTooSmall"
  PROVE  Written(w, p, close(w, status, d, to))
<1> DEFINE r == close(w, status, d, to)
           f == encode_frame(w, "ConnectionClose", TRUE, close_len(d),
                             status, "ConnectionClose")
<1>1. w \in WebSocket /\ r.ws \in WebSocket
  BY CloseType DEF WriterInv
<1>2. CASE w.state # "Open"
  <2>1. r.ws = w /\ r.sent = <<>>
    BY <1>2 DEF close, refused
  <2> QED
    BY <2>1 DEF Written
<1>3. CASE w.state = "Open"
  <2>1. /\ close_len(d) \in Nat
        /\ "ConnectionClose" \in WebSocketOpCode
        /\ "ConnectionClose" \in DataOpCode \cup ControlOpCode
    BY DEF close_len, WebSocketOpCode, ControlOpCode
  <2>2. /\ f \in Frame /\ f.op_code = "ConnectionClose"
        /\ f.msg = "ConnectionClose"
    <3>1. close_len(d) \in Nat => length_bytes(close_len(d)) \in {0, 2, 8}
      BY DEF length_bytes
    <3> QED
      BY <1>1, <2>1, <3>1 DEF encode_frame, Frame, WebSocket
  <2> HIDE DEF f
  <2>3. /\ r.ws = [w EXCEPT !.state = "CloseSent"]
        /\ r.ret.err = write_frame(f, to).err
        /\ r.sent = write_frame(f, to).sent
    BY <1>3 DEF close, f, returns
  <2>4. r.sent = <<f>>
    BY <2>3, FrameIsSent
  <2>5. r.ws.state = "CloseSent"
    BY <1>1, <2>3 DEF WebSocket
  <2> HIDE DEF r
  <2>6. p \in DataOpCode \cup {"None"}
    BY <1>3 DEF WriterInv, Wire
  <2>7. WireAfter(p, f) = "Closed"
    BY <2>2, <2>6 DEF WireAfter, DataOpCode
  <2>8. WriterInv(r.ws, WireAfter(p, f))
    BY <1>1, <2>5, <2>7 DEF WriterInv, Wire, DataOpCode, r
  <2>9. SendsOne(w, p, r, f)
    BY <2>2, <2>4, <2>7, <2>8 DEF SendsOne, PeerMaySend
  <2> QED
    BY <1>3, <2>5, <2>9 DEF Written, r
<1> QED
  BY <1>2, <1>3
=============================================================================
