--------------------------- MODULE WebSocketCodec ---------------------------
(***************************************************************************)
(* The frame codec of src/lib.rs: what read, write and close of a          *)
(* WebSocket return and how they change it, as operators on a record that  *)
(* holds the fields of the Rust struct.  Modules that own a WebSocket      *)
(* (an endpoint, a framer) apply these operators in their actions.         *)
(*                                                                         *)
(* A frame is a record: its header bits, the number of bytes its length    *)
(* field takes beyond the second byte (ext), the number of its payload     *)
(* bytes and, for a close frame, the status in its first two payload       *)
(* bytes.  Payload bytes are not represented: a read hands over the bytes  *)
(* from the current stream position on, so data is right exactly when the  *)
(* position and the rotation of the mask key are.                          *)
(***************************************************************************)
EXTENDS Integers

CONSTANT CloseStatus    \* the WebSocketCloseStatusCode values of this model

ASSUME CloseStatusAssumption == "InternalServerError" \in CloseStatus

DataOpCode == {"TextFrame", "BinaryFrame"}
ControlOpCode == {"ConnectionClose", "Ping", "Pong"}
WebSocketOpCode == DataOpCode \cup ControlOpCode \cup {"ContinuationFrame"}

WebSocketState == {"None", "Connecting", "Open", "CloseSent", "CloseReceived",
                   "Closed", "Aborted"}

(***************************************************************************)
(* A frame on the wire.  msg is a ghost field: the kind of message the     *)
(* sender meant the frame to belong to, whatever opcode the frame carries. *)
(***************************************************************************)
Frame == [op_code : WebSocketOpCode \cup {"Reserved"}, fin : BOOLEAN,
          masked : BOOLEAN, ext : {0, 2, 8}, len : Nat,
          status : CloseStatus, msg : DataOpCode \cup ControlOpCode]

HeaderLen(f) == 2 + f.ext + (IF f.masked THEN 4 ELSE 0)
FrameLen(f) == HeaderLen(f) + f.len

(***************************************************************************)
(* Option<ContinuationRead>: op_code "None" stands for Option::None.  The  *)
(* mask key is represented by its rotation, the number of places by which  *)
(* rotate_left has turned it since the frame header was read.              *)
(***************************************************************************)
ContinuationRead == [op_code : WebSocketOpCode \cup {"None"}, count : Nat,
                     is_fin_bit_set : BOOLEAN, masked : BOOLEAN,
                     rotation : 0..3]

NoContinuation == [op_code |-> "None", count |-> 0, is_fin_bit_set |-> FALSE,
                   masked |-> FALSE, rotation |-> 0]

WebSocket == [is_client : BOOLEAN, state : WebSocketState,
              continuation_frame_op_code : DataOpCode \cup {"None"},
              is_write_continuation : BOOLEAN,
              continuation_read : ContinuationRead]

new_websocket(is_client) ==
  [is_client |-> is_client, state |-> "None",
   continuation_frame_op_code |-> "None", is_write_continuation |-> FALSE,
   continuation_read |-> NoContinuation]

-----------------------------------------------------------------------------
(* Reading.                                                                *)

min(num1, num2, num3) ==
  LET least == IF num1 <= num2 THEN num1 ELSE num2
  IN  IF least <= num3 THEN least ELSE num3

\* Mutant: the mask key is not turned after a piece of a payload.
rotate_left_skipped(masked, rotation, n) == IF masked THEN rotation ELSE 0

rotate_left(masked, rotation, n) ==
  IF masked THEN (rotation + (n % 4)) % 4 ELSE 0

\* A WebSocketFrame, the codec's report on what one call has read.
frame_read(op_code, num_from, num_to, fin, close_status) ==
  [op_code |-> op_code, num_bytes_from |-> num_from, num_bytes_to |-> num_to,
   is_fin_bit_set |-> fin, close_status |-> close_status]

\* Mutant: takes the status off the payload without a look at its length.
decode_close_frame_unchecked(status, num_bytes_read, len) ==
  frame_read("ConnectionClose", num_bytes_read, len - 2, TRUE, status)

decode_close_frame(status, num_bytes_read, len) ==
  IF len >= 2
  THEN frame_read("ConnectionClose", num_bytes_read, len, TRUE, status)
  ELSE frame_read("ConnectionClose", num_bytes_read, 0, TRUE,
                  "InternalServerError")

\* Mutant: counts down by the room in the to buffer, not by the bytes read.
read_continuation_by_room(cr, status, from, to) ==
  LET n == min(cr.count, to, from)
  IN  [frame |-> IF cr.op_code = "ConnectionClose"
                 THEN decode_close_frame(status, n, n)
                 ELSE frame_read(cr.op_code, n, n,
                                 n = cr.count /\ cr.is_fin_bit_set, "None"),
       continuation_read |->
         [cr EXCEPT !.count = @ - to,
                    !.rotation = rotate_left(cr.masked, @, n)]]

read_continuation(cr, status, from, to) ==
  LET n == min(cr.count, to, from)
  IN  [frame |-> IF cr.op_code = "ConnectionClose"
                 THEN decode_close_frame(status, n, n)
                 ELSE frame_read(cr.op_code, n, n,
                                 n = cr.count /\ cr.is_fin_bit_set, "None"),
       continuation_read |->
         [cr EXCEPT !.count = @ - n,
                    !.rotation = rotate_left(cr.masked, @, n)]]

\* Mutant: reports the final bit of the frame although it is not read whole.
read_payload_fin_early(f, from, to) ==
  LET n == min(f.len, to, from - HeaderLen(f))
  IN  [frame |-> IF f.op_code = "ConnectionClose"
                 THEN decode_close_frame(f.status, HeaderLen(f) + n, n)
                 ELSE frame_read(f.op_code, HeaderLen(f) + n, n, f.fin,
                                 "None"),
       continuation_read |->
         IF n < f.len
         THEN [op_code |-> f.op_code, count |-> f.len - n,
               is_fin_bit_set |-> f.fin, masked |-> f.masked,
               rotation |-> rotate_left(f.masked, 0, n)]
         ELSE NoContinuation]

\* read_frame past its early returns: the whole header is in the from buffer.
read_payload(f, from, to) ==
  LET n == min(f.len, to, from - HeaderLen(f))
  IN  [frame |-> IF f.op_code = "ConnectionClose"
                 THEN decode_close_frame(f.status, HeaderLen(f) + n, n)
                 ELSE frame_read(f.op_code, HeaderLen(f) + n, n,
                                 n = f.len /\ f.fin, "None"),
       continuation_read |->
         IF n < f.len
         THEN [op_code |-> f.op_code, count |-> f.len - n,
               is_fin_bit_set |-> f.fin, masked |-> f.masked,
               rotation |-> rotate_left(f.masked, 0, n)]
         ELSE NoContinuation]

\* The early returns of read_frame; "None" when it gets as far as the payload.
read_frame_error(f, from) ==
  IF from < 2 THEN "ReadFrameIncomplete"
  ELSE IF f.op_code \notin WebSocketOpCode THEN "InvalidOpCode"
  ELSE IF from < HeaderLen(f) THEN "ReadFrameIncomplete" ELSE "None"

(***************************************************************************)
(* The method read_frame: how the codec state follows the frames.          *)
(***************************************************************************)

\* Mutant: does not forget a frame that is read to its end.
continue_frame_kept(ws, r) ==
  [ws EXCEPT !.continuation_read = r.continuation_read]

\* Some(continuation_read): the call goes on with the frame being read.
continue_frame(ws, r) ==
  IF r.frame.is_fin_bit_set
  THEN [ws EXCEPT !.continuation_read = NoContinuation,
                  !.continuation_frame_op_code = "None"]
  ELSE [ws EXCEPT !.continuation_read = r.continuation_read]

\* Mutant: remembers the opcode of final frames, not of fragments.
start_frame_inverted(ws, r) ==
  [ws EXCEPT !.continuation_read = r.continuation_read,
             !.continuation_frame_op_code =
               IF r.frame.op_code \in DataOpCode
               THEN IF r.frame.is_fin_bit_set THEN r.frame.op_code ELSE "None"
               ELSE @]

\* Mutant: takes the opcode of the first message for all messages.
start_frame_stale(ws, r) ==
  [ws EXCEPT !.continuation_read = r.continuation_read,
             !.continuation_frame_op_code =
               IF r.frame.op_code \in DataOpCode
               THEN IF r.frame.is_fin_bit_set THEN "None"
                    ELSE IF @ = "None" THEN r.frame.op_code ELSE @
               ELSE @]

\* None: the call starts a new frame.
start_frame(ws, r) ==
  [ws EXCEPT !.continuation_read = r.continuation_read,
             !.continuation_frame_op_code =
               IF r.frame.op_code \in DataOpCode
               THEN IF r.frame.is_fin_bit_set THEN "None" ELSE r.frame.op_code
               ELSE @]

\* A continuation frame takes the opcode of the message it continues.
override_op_code(ws, frame) ==
  IF frame.op_code = "ContinuationFrame"
     /\ ws.continuation_frame_op_code # "None"
  THEN [frame EXCEPT !.op_code = ws.continuation_frame_op_code]
  ELSE frame

-----------------------------------------------------------------------------
(***************************************************************************)
(* What a call returns to the application.  starved is a ghost: the call   *)
(* was given no input byte or no room for an output byte.                  *)
(***************************************************************************)
MessageType == {"Text", "Binary", "CloseCompleted", "CloseMustReply", "Ping",
                "Pong", "None"}

Error == {"None", "ReadFrameIncomplete", "InvalidOpCode", "WebSocketNotOpen",
          "UnexpectedContinuationFrame", "WriteToBufferTooSmall",
          "WebsocketAlreadyOpen", "HttpHeaderIncomplete", "HttpError",
          "Unknown"}

Call == {"none", "read", "write", "close", "server_accept", "client_connect",
         "client_accept"}

Return == [call : Call, err : Error, message_type : MessageType,
           len_from : Nat, len_to : Nat, end_of_message : BOOLEAN,
           close_status : CloseStatus \cup {"None"}, starved : BOOLEAN]

returns(call, err) ==
  [call |-> call, err |-> err, message_type |-> "None", len_from |-> 0,
   len_to |-> 0, end_of_message |-> FALSE, close_status |-> "None",
   starved |-> FALSE]

to_readresult(frame, message_type, starved) ==
  [call |-> "read", err |-> "None", message_type |-> message_type,
   len_from |-> frame.num_bytes_from, len_to |-> frame.num_bytes_to,
   end_of_message |-> frame.is_fin_bit_set,
   close_status |-> frame.close_status, starved |-> starved]

message_type_of(op_code) ==
  CASE op_code = "TextFrame"   -> "Text"
    [] op_code = "BinaryFrame" -> "Binary"
    [] op_code = "Ping"        -> "Ping"
    [] op_code = "Pong"        -> "Pong"
    [] OTHER                   -> "None"

\* Mutant: a close frame asks for an answer, also after one was sent.
dispatch_frame_reply_again(ws, frame, starved) ==
  CASE frame.op_code = "ConnectionClose" ->
         [ws  |-> [ws EXCEPT !.state = "CloseReceived"],
          ret |-> to_readresult(frame, "CloseMustReply", starved)]
    [] frame.op_code = "ContinuationFrame" ->
         [ws  |-> ws,
          ret |-> IF ws.continuation_frame_op_code = "None"
                  THEN returns("read", "UnexpectedContinuationFrame")
                  ELSE to_readresult(frame,
                         message_type_of(ws.continuation_frame_op_code),
                         starved)]
    [] OTHER ->
         [ws  |-> ws,
          ret |-> to_readresult(frame, message_type_of(frame.op_code),
                                starved)]

\* The match of read on the opcode of what read_frame has read.
dispatch_frame(ws, frame, starved) ==
  CASE frame.op_code = "ConnectionClose" /\ ws.state = "CloseSent" ->
         [ws  |-> [ws EXCEPT !.state = "Closed"],
          ret |-> to_readresult(frame, "CloseCompleted", starved)]
    [] frame.op_code = "ConnectionClose" /\ ws.state # "CloseSent" ->
         [ws  |-> [ws EXCEPT !.state = "CloseReceived"],
          ret |-> to_readresult(frame, "CloseMustReply", starved)]
    [] frame.op_code = "ContinuationFrame" ->
         [ws  |-> ws,
          ret |-> IF ws.continuation_frame_op_code = "None"
                  THEN returns("read", "UnexpectedContinuationFrame")
                  ELSE to_readresult(frame,
                         message_type_of(ws.continuation_frame_op_code),
                         starved)]
    [] OTHER ->
         [ws  |-> ws,
          ret |-> to_readresult(frame, message_type_of(frame.op_code),
                                starved)]

(***************************************************************************)
(* read: f is the frame at the stream position, from the number of bytes   *)
(* in the from buffer, to the room in the to buffer.  status is what the   *)
(* first two bytes of a later piece of a close frame happen to say.        *)
(***************************************************************************)
read(ws, f, status, from, to) ==
  IF ws.state \notin {"Open", "CloseSent"}
  THEN [ws |-> ws, ret |-> returns("read", "WebSocketNotOpen")]
  ELSE IF ws.continuation_read.op_code # "None"
  THEN LET r == read_continuation(ws.continuation_read, status, from, to)
       IN  dispatch_frame(continue_frame(ws, r), r.frame, from = 0 \/ to = 0)
  ELSE IF read_frame_error(f, from) # "None"
  THEN [ws |-> ws, ret |-> returns("read", read_frame_error(f, from))]
  ELSE LET r  == read_payload(f, from, to)
           w  == start_frame(ws, r)
       IN  dispatch_frame(w, override_op_code(w, r.frame), from = 0 \/ to = 0)

-----------------------------------------------------------------------------
(* Writing.                                                                *)

SendMessageType == {"Text", "Binary", "Ping", "Pong", "CloseReply"}

to_op_code(message_type) ==
  CASE message_type = "Text"       -> "TextFrame"
    [] message_type = "Binary"     -> "BinaryFrame"
    [] message_type = "CloseReply" -> "ConnectionClose"
    [] OTHER                       -> message_type

\* Mutant: takes 126, the mark of a longer field, for a length.
length_bytes_off_by_one(count) ==
  IF count <= 126 THEN 0 ELSE IF count < 65535 THEN 2 ELSE 8

\* Bytes of the length field beyond the second header byte.
length_bytes(count) ==
  IF count < 126 THEN 0 ELSE IF count < 65535 THEN 2 ELSE 8

(***************************************************************************)
(* The first bytes of a frame, as write_frame encodes and read_frame       *)
(* decodes them; ext is the number in the two or eight bytes that follow.  *)
(***************************************************************************)
OpCodeByte == [ContinuationFrame |-> 0, TextFrame |-> 1, BinaryFrame |-> 2,
               ConnectionClose |-> 8, Ping |-> 9, Pong |-> 10]

get_op_code(val) ==
  IF \E op_code \in WebSocketOpCode : OpCodeByte[op_code] = val
  THEN CHOOSE op_code \in WebSocketOpCode : OpCodeByte[op_code] = val
  ELSE "Reserved"

length_code(count) ==
  IF count < 126 THEN count ELSE IF count < 65535 THEN 126 ELSE 127

encode_header(op_code, fin, masked, count) ==
  [byte1 |-> (IF fin THEN 128 ELSE 0) + OpCodeByte[op_code],
   byte2 |-> (IF masked THEN 128 ELSE 0) + length_code(count),
   ext   |-> IF length_bytes(count) = 0 THEN 0
             ELSE IF length_bytes(count) = 2 THEN count % 65536 ELSE count]

\* read_length: the value of the length field and the bytes it takes.
read_length(code, ext) ==
  IF code < 126 THEN [len |-> code, ext |-> 0]
  ELSE [len |-> ext, ext |-> IF code = 126 THEN 2 ELSE 8]

decode_header(h) ==
  LET length == read_length(h.byte2 % 128, h.ext)
  IN  [op_code |-> get_op_code(h.byte1 % 16), fin |-> h.byte1 >= 128,
       masked |-> h.byte2 >= 128, ext |-> length.ext, len |-> length.len]

encode_frame(ws, op_code, fin, count, status, msg) ==
  [op_code |-> op_code, fin |-> fin, masked |-> ws.is_client,
   ext |-> length_bytes(count), len |-> count, status |-> status, msg |-> msg]

\* write_frame: the frame fits the to buffer, or nothing is written.  sent is
\* the sequence of the frames that the call puts into the buffer.
write_frame(f, to) ==
  IF FrameLen(f) > to THEN [err |-> "WriteToBufferTooSmall", sent |-> <<>>]
  ELSE [err |-> "None", sent |-> <<f>>]

refused(ws, call) ==
  [ws |-> ws, ret |-> returns(call, "WebSocketNotOpen"), sent |-> <<>>]

write_op_code(ws, message_type) ==
  IF message_type # "CloseReply" /\ ws.is_write_continuation
  THEN "ContinuationFrame"
  ELSE to_op_code(message_type)

\* Mutant: the last fragment of a message does not end it.
after_write_sticky(ws, message_type, end_of_message) ==
  [ws EXCEPT !.state = IF message_type = "CloseReply" THEN "Closed" ELSE @,
             !.is_write_continuation = @ \/ ~end_of_message]

\* Mutant: a close reply does not close the websocket.
after_write_open(ws, message_type, end_of_message) ==
  [ws EXCEPT !.is_write_continuation = ~end_of_message]

\* The state of the websocket changes before write_frame is tried.
after_write(ws, message_type, end_of_message) ==
  [ws EXCEPT !.state = IF message_type = "CloseReply" THEN "Closed" ELSE @,
             !.is_write_continuation = ~end_of_message]

write(ws, message_type, end_of_message, count, status, to) ==
  IF ws.state \notin {"Open", "CloseReceived"} THEN refused(ws, "write")
  ELSE LET f == encode_frame(ws, write_op_code(ws, message_type),
                             end_of_message, count, status,
                             to_op_code(message_type))
           w == write_frame(f, to)
       IN  [ws   |-> after_write(ws, message_type, end_of_message),
            ret  |-> returns("write", w.err), sent |-> w.sent]

\* close sends the status and at most 254 bytes of the description.
close_len(description) ==
  2 + (IF description < 254 THEN description ELSE 254)

\* Mutant: sends a close frame and stays open.
close_stays_open(ws, status, description, to) ==
  IF ws.state # "Open" THEN refused(ws, "close")
  ELSE LET f == encode_frame(ws, "ConnectionClose", TRUE,
                             close_len(description), status, "ConnectionClose")
           w == write_frame(f, to)
       IN  [ws |-> ws, ret |-> returns("close", w.err), sent |-> w.sent]

close(ws, status, description, to) ==
  IF ws.state # "Open" THEN refused(ws, "close")
  ELSE LET f == encode_frame(ws, "ConnectionClose", TRUE,
                             close_len(description), status, "ConnectionClose")
           w == write_frame(f, to)
       IN  [ws   |-> [ws EXCEPT !.state = "CloseSent"],
            ret  |-> returns("close", w.err), sent |-> w.sent]

-----------------------------------------------------------------------------
(***************************************************************************)
(* The opening handshake, given what the http module answers.              *)
(***************************************************************************)
handshake(ws, call, err, state) ==
  [ws |-> [ws EXCEPT !.state = state], ret |-> returns(call, err)]

server_accept(ws, http) ==
  IF ws.state = "Open"
  THEN handshake(ws, "server_accept", "WebsocketAlreadyOpen", ws.state)
  ELSE handshake(ws, "server_accept", http,
                 IF http = "None" THEN "Open" ELSE "Aborted")

client_connect(ws, http) ==
  IF ws.state = "Open"
  THEN handshake(ws, "client_connect", "WebsocketAlreadyOpen", ws.state)
  ELSE handshake(ws, "client_connect", http,
                 IF http = "None" THEN "Connecting" ELSE ws.state)

client_accept(ws, http) ==
  IF ws.state = "Open"
  THEN handshake(ws, "client_accept", "WebsocketAlreadyOpen", ws.state)
  ELSE handshake(ws, "client_accept", http,
                 CASE http = "None" -> "Open"
                   [] http = "HttpHeaderIncomplete" -> ws.state
                   [] OTHER -> "Aborted")
=============================================================================
