------------------------------ MODULE Endpoint ------------------------------
(***************************************************************************)
(* One WebSocket of src/lib.rs in the hands of an application, reading     *)
(* from a byte stream that a peer fills and writing to one that the peer   *)
(* drains.  The application calls the public operations in any order and   *)
(* state; it feeds read with the bytes that follow those already consumed, *)
(* as the documentation of read asks, and gives up the connection when     *)
(* read fails for any reason but an incomplete header.                     *)
(*                                                                         *)
(* The stream to read is the sequence inbox of frames of which the first   *)
(* off bytes are consumed; every frame has arrived, and a read call sees   *)
(* any number of the bytes that are left.  The constants in BOOLEAN widen  *)
(* what application and peer may do beyond the disciplined use of the API. *)
(***************************************************************************)
EXTENDS FramingRules, Sequences

CONSTANTS
  PeerOpCodes,        \* opcodes of the frames that the peer sends
  PayloadLens,        \* payload lengths of the peer's frames
  ExtLens,            \* lengths of the extended length field in peer frames
  WriteTypes,         \* message types that the application writes
  WriteLens,          \* payload and description lengths of its frames
  ToLens,             \* sizes of the to buffers the application supplies
  MaxInbox,           \* bound on the frames the peer has under way
  MaxOutbox,          \* bound on the frames the peer has yet to take
  Cuts,               \* which frames may come to read in parts: see MayCut
  FragmentMessages,   \* does the peer spread messages over several frames?
  SmallWriteBuffers,  \* may a to buffer be too small for the frame written?
  ControlInMessage,   \* may the application write Ping or Pong in a message?
  ReuseWebSocket      \* may a websocket that was closed be opened again?

ASSUME EndpointAssumption ==
  /\ PeerOpCodes \subseteq WebSocketOpCode \cup {"Reserved"}
  /\ WriteTypes \subseteq SendMessageType
  /\ PayloadLens \subseteq Nat /\ WriteLens \subseteq Nat
  /\ ExtLens \subseteq {0, 2, 8}
  /\ ToLens \subseteq Nat
  /\ MaxInbox \in Nat \ {0} /\ MaxOutbox \in Nat \ {0}
  /\ Cuts \in {"frames", "payloads", "anywhere"}
  /\ {FragmentMessages, SmallWriteBuffers, ControlInMessage,
      ReuseWebSocket} \subseteq BOOLEAN

VARIABLES
  ws,      \* the WebSocket
  inbox,   \* frames that are not consumed to their last byte
  off,     \* bytes of Head(inbox) that are consumed
  peer,    \* ghost: where the peer is in its sequence of messages
  outbox,  \* frames that the peer has yet to take
  tx,      \* ghost: where the frames written are in a sequence of messages
  ret,     \* what the last call returned
  failed   \* the application has given up the connection

vars == <<ws, inbox, off, peer, outbox, tx, ret, failed>>

Current == IF inbox = <<>> THEN NoFrame ELSE Head(inbox)

\* Bytes in the stream: each frame after the current one has two at least.
Available ==
  IF inbox = <<>> THEN 0 ELSE FrameLen(Current) - off + 2 * (Len(inbox) - 1)

TypeOK ==
  /\ ws \in WebSocket
  /\ inbox \in Seq(Frame) /\ outbox \in Seq(Frame)
  /\ off \in Nat
  /\ peer \in Wire /\ tx \in Wire
  /\ ret \in Return
  /\ failed \in BOOLEAN

Init ==
  /\ \E is_client \in BOOLEAN : ws = new_websocket(is_client)
  /\ inbox = <<>> /\ off = 0 /\ peer = "None"
  /\ outbox = <<>> /\ tx = "None"
  /\ ret = returns("none", "None")
  /\ failed = FALSE

-----------------------------------------------------------------------------
(* The peer.                                                               *)

PeerFrame(op_code, fin, ext, len, status) ==
  [op_code |-> op_code, fin |-> fin, masked |-> ~ws.is_client, ext |-> ext,
   len |-> len, status |-> status,
   msg |-> CASE op_code = "ContinuationFrame" -> peer
             [] op_code = "Reserved"          -> "Ping"
             [] OTHER                         -> op_code]

PeerSends ==
  /\ ws.state \notin {"None", "Connecting", "Aborted"}
  /\ Len(inbox) < MaxInbox
  /\ \E op_code \in PeerOpCodes, fin \in BOOLEAN, ext \in ExtLens,
        len \in PayloadLens, status \in CloseStatus :
       LET f == PeerFrame(op_code, fin, ext, len, status)
       IN  /\ WireAfter(peer, f) # "Broken"
           /\ op_code \in ControlOpCode \cup {"Reserved"} => fin
           /\ FragmentMessages \/ (fin /\ op_code # "ContinuationFrame")
           /\ (op_code = "ConnectionClose" /\ len >= 2)
                \/ status = "InternalServerError"
           /\ inbox' = Append(inbox, f)
           /\ peer' = WireAfter(peer, f)
  /\ ret' = returns("none", "None")
  /\ UNCHANGED <<ws, off, outbox, tx, failed>>

PeerTakes ==
  /\ outbox # <<>>
  /\ outbox' = Tail(outbox)
  /\ ret' = returns("none", "None")
  /\ UNCHANGED <<ws, inbox, off, peer, tx, failed>>

-----------------------------------------------------------------------------
(* The application.                                                        *)

\* A websocket serves one connection, unless it is opened again.
MayOpen == ReuseWebSocket \/ ws.state \notin {"CloseSent", "CloseReceived",
                                              "Closed"}

NewStreams ==
  /\ inbox' = <<>> /\ off' = 0 /\ peer' = "None"
  /\ outbox' = <<>> /\ tx' = "None"
  /\ failed' = FALSE

Opens(r) ==
  /\ MayOpen
  /\ ws' = r.ws
  /\ ret' = r.ret
  /\ IF r.ret.err = "None" THEN NewStreams
     ELSE UNCHANGED <<inbox, off, peer, outbox, tx, failed>>

ServerAccept == ~ws.is_client /\ Opens(server_accept(ws, "None"))

ClientConnect ==
  \E http \in {"None", "Unknown"} :
    ws.is_client /\ Opens(client_connect(ws, http))

ClientAccept ==
  \E http \in {"None", "HttpHeaderIncomplete", "HttpError"} :
    ws.is_client /\ Opens(client_accept(ws, http))

\* The current frame lies between the first and the last of a message: the
\* next data frame, or the next that the peer will send, is a continuation.
InMessage ==
  LET control(n) == \A i \in 1..n : inbox[i].op_code \in ControlOpCode
  IN  \/ \E i \in DOMAIN inbox :
           inbox[i].op_code = "ContinuationFrame" /\ control(i - 1)
      \/ peer \in DataOpCode /\ control(Len(inbox))

(***************************************************************************)
(* May a call of read get the current frame in parts?  "frames": never.    *)
(* "payloads": not inside a fragmented message.  "anywhere": always.       *)
(***************************************************************************)
MayCut ==
  \/ Cuts = "anywhere"
  \/ Cuts = "payloads" /\ Current.fin /\ ~InMessage

\* The buffers hold the whole current frame, or not even its header.
WholeFrame(from, to) ==
  \/ from < HeaderLen(Current)
  \/ from >= FrameLen(Current) /\ to >= Current.len

Consume(n) ==
  IF inbox # <<>> /\ off + n = FrameLen(Current)
  THEN inbox' = Tail(inbox) /\ off' = 0
  ELSE inbox' = inbox /\ off' = off + n

ReadCall(from, to, status) ==
  LET r == read(ws, Current, status, from, to)
  IN  /\ ~failed
      /\ MayCut \/ WholeFrame(from, to)
      /\ status = "InternalServerError"
           \/ ws.continuation_read.op_code = "ConnectionClose"
      /\ ws' = r.ws
      /\ ret' = r.ret
      /\ Consume(r.ret.len_from)
      /\ failed' = (r.ret.err \in {"InvalidOpCode",
                                   "UnexpectedContinuationFrame"})
      /\ UNCHANGED <<peer, outbox, tx>>

Read ==
  \E from \in 0..Available, to \in ToLens, status \in CloseStatus :
    ReadCall(from, to, status)

Sends(r) ==
  /\ Len(outbox \o r.sent) <= MaxOutbox
  /\ SmallWriteBuffers \/ r.ret.err # "WriteToBufferTooSmall"
  /\ ws' = r.ws
  /\ ret' = r.ret
  /\ outbox' = outbox \o r.sent
  /\ tx' = IF r.sent = <<>> THEN tx ELSE WireAfter(tx, Head(r.sent))
  /\ UNCHANGED <<inbox, off, peer, failed>>

\* Fragments name the type of their message, and control frames are final.
WriteCall(message_type, end_of_message, count, status, to) ==
  /\ ~failed
  /\ message_type \in {"Text", "Binary"}
       => tx \in {"None", to_op_code(message_type), "Closed", "Broken"}
  /\ message_type \notin {"Text", "Binary"} => end_of_message
  /\ message_type \in {"Ping", "Pong"}
       => ControlInMessage \/ ~ws.is_write_continuation
  /\ message_type = "CloseReply" => ws.state = "CloseReceived"
  /\ message_type = "CloseReply" \/ status = "InternalServerError"
  /\ Sends(write(ws, message_type, end_of_message, count, status, to))

Write ==
  \E message_type \in WriteTypes, end_of_message \in BOOLEAN,
     count \in WriteLens, status \in CloseStatus, to \in ToLens :
    WriteCall(message_type, end_of_message, count, status, to)

CloseCall(status, description, to) ==
  ~failed /\ Sends(close(ws, status, description, to))

Close ==
  \E status \in CloseStatus, description \in WriteLens, to \in ToLens :
    CloseCall(status, description, to)

Next == PeerSends \/ PeerTakes \/ ServerAccept \/ ClientConnect
        \/ ClientAccept \/ Read \/ Write \/ Close

Spec == Init /\ [][Next]_vars

-----------------------------------------------------------------------------
(* Properties of reading.                                                  *)

(***************************************************************************)
(* The codec and the stream agree: between frames nothing is remembered,   *)
(* and inside a frame continuation_read counts the payload bytes that the  *)
(* stream still holds of that very frame, with its opcode, its final bit   *)
(* and the mask key turned to the next byte.  (read_frame, read_continua-  *)
(* tion: however a payload is cut into calls, its bytes come out right.)   *)
(* A frame that is not final leaves a count of zero behind, see            *)
(* ReadMakesProgress; an error that made the application give up may leave *)
(* the two apart.                                                          *)
(***************************************************************************)
AtFrameBoundary ==
  /\ off = 0
  /\ \/ ws.continuation_read.op_code = "None"
     \/ ws.continuation_read.count = 0 /\ ~ws.continuation_read.is_fin_bit_set

InsideFrame ==
  LET cr == ws.continuation_read
      f  == Head(inbox)
  IN  /\ inbox # <<>>
      /\ off \in HeaderLen(f)..(FrameLen(f) - 1)
      /\ cr.op_code = f.op_code
      /\ cr.is_fin_bit_set = f.fin
      /\ cr.count = FrameLen(f) - off
      /\ cr.masked = f.masked
      /\ cr.rotation = IF f.masked THEN (off - HeaderLen(f)) % 4 ELSE 0

FramingInStep == failed \/ AtFrameBoundary \/ InsideFrame

Delivered == ret'.call = "read" /\ ret'.err = "None"

FrameConsumed == inbox' # inbox

(***************************************************************************)
(* What read reports is what the peer sent.  Of a data frame, a Ping or a  *)
(* Pong: the type of the message that the frame belongs to, the end of the *)
(* message on the last byte of its final frame and on no other, and as     *)
(* many payload bytes as it took from the stream.  Of a close frame: which *)
(* of the two ends began the closing; and, when the whole frame is read,   *)
(* its end, its status (InternalServerError for a payload of less than two *)
(* bytes) and as many bytes as are handed over.  Of a close frame in parts *)
(* it claims no more than the type: see EndOnLastByte.                     *)
(***************************************************************************)
ReportsHead ==
  /\ inbox # <<>>
  /\ LET f == Head(inbox)
     IN IF f.op_code = "ConnectionClose"
        THEN /\ ret'.message_type \in {"CloseMustReply", "CloseCompleted"}
             /\ FrameConsumed =>
                  /\ ret'.end_of_message
                  /\ ret'.len_to = IF f.len >= 2 THEN f.len ELSE 0
                  /\ ret'.close_status = IF f.len >= 2 THEN f.status
                                        ELSE "InternalServerError"
        ELSE /\ ret'.message_type = message_type_of(f.msg)
             /\ ret'.end_of_message = (f.fin /\ FrameConsumed)
             /\ ret'.len_to =
                  ret'.len_from - (IF off = 0 THEN HeaderLen(f) ELSE 0)

ReadReportsTheStream == [][Delivered => ReportsHead]_vars

(***************************************************************************)
(* The end of a message is reported with the last byte of a frame only: it *)
(* is FALSE while "the from buffer does not hold the entire websocket      *)
(* frame" or the to buffer has no room for it (the documentation of the    *)
(* flag above the method read).  decode_close_frame sets it for every      *)
(* piece of a close frame, and the state that read then leaves makes it    *)
(* impossible to read the rest: the run CloseFrameCut.                     *)
(***************************************************************************)
EndOnLastByte ==
  [][Delivered => (ret'.end_of_message => FrameConsumed)]_vars

(***************************************************************************)
(* To a peer that keeps the framing rules read never answers               *)
(* UnexpectedContinuationFrame, the error for a continuation frame of no   *)
(* message.  With Cuts = "anywhere" two cuts do bring the error about: in  *)
(* the last fragment of a message, and in a control frame before it.       *)
(***************************************************************************)
ContinuationsExpected == ret.err # "UnexpectedContinuationFrame"

(***************************************************************************)
(* A read that is given an input byte and room for an output byte, and     *)
(* that succeeds, consumes input: an application that reads on gets on.    *)
(***************************************************************************)
ReadMakesProgress == [][Delivered /\ ~ret'.starved => ret'.len_from > 0]_vars

-----------------------------------------------------------------------------
(* Properties of writing and closing.                                      *)

(***************************************************************************)
(* The frames of write and close keep the framing rules: a fragmented      *)
(* message starts with its own opcode, goes on in continuation frames,     *)
(* ends before the next begins, and nothing follows a close frame.  With   *)
(* SmallWriteBuffers a fragment that the buffer had no room for breaks     *)
(* them, and with ControlInMessage a Ping in a fragmented message.         *)
(***************************************************************************)
WireWellFormed == tx # "Broken"

(***************************************************************************)
(* The header of every frame written says to read_frame what the writer    *)
(* meant: opcode, final bit, mask bit, and the payload length in a field   *)
(* of the size that the reader expects, at the limits 126 and 65535 too.   *)
(***************************************************************************)
HeaderDecodes(f) ==
  decode_header(encode_header(f.op_code, f.fin, f.masked, f.len)) =
    [op_code |-> f.op_code, fin |-> f.fin, masked |-> f.masked,
     ext |-> f.ext, len |-> f.len]

HeadersDecode == \A i \in DOMAIN outbox : HeaderDecodes(outbox[i])

(***************************************************************************)
(* The close handshake: the websocket counts as having sent a close frame  *)
(* exactly when one is in the stream, and as having received one or as     *)
(* closed only when the peer did send one.  With SmallWriteBuffers a call  *)
(* of close that fails for want of room breaks it.                         *)
(***************************************************************************)
CloseAgrees ==
  /\ tx = "Closed" <=> ws.state \in {"CloseSent", "Closed"}
  /\ ws.state \in {"CloseReceived", "Closed"} => peer = "Closed"
=============================================================================
