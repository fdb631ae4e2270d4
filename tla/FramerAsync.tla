----------------------------- MODULE FramerAsync -----------------------------
(***************************************************************************)
(* The Framer of src/framer_async.rs.  It has one buffer, the caller's,    *)
(* for three purposes: bytes that are not decoded yet lie at its end, the  *)
(* codec decodes to its beginning, and an answer to a Ping or a close      *)
(* message is encoded in between.                                          *)
(*                                                                         *)
(*   0 ... frame_cursor ...            BufLen - rx_remainder_len ... BufLen *)
(*   [message collected | room, answers | bytes not decoded yet           ] *)
(*                                                                         *)
(* Ghosts say whether an overlap has spoilt the bytes of the message       *)
(* (garbled) or those kept for later (lost).  The code between two awaits  *)
(* is one step.  A read that is dropped while it waits for bytes has       *)
(* changed nothing: waiting and not being called are one state, "idle".    *)
(* An application loops while read returns Some and gives up on an error,  *)
(* as examples/client_async.rs and examples/server_async.rs do.            *)
(***************************************************************************)
EXTENDS ByteStream

CONSTANTS
  RequestLen,       \* length of the request for the opening handshake
  HttpLen,          \* length of the server's response
  BufLen,           \* size of the buffer that each call is given
  AppFragments,     \* does the application write messages in fragments?
  AppSharesBuffer,  \* does it write with the buffer it reads with?
  AppReadsOn,       \* does it call read again after None?
  Failures          \* may the stream fail or end, the response be refused?

ASSUME FramerAsyncAssumption ==
  /\ RequestLen \in Nat \ {0} /\ HttpLen \in Nat \ {0}
  /\ BufLen \in Nat /\ BufLen >= RequestLen
  /\ {AppFragments, AppSharesBuffer, AppReadsOn, Failures} \subseteq BOOLEAN

VARIABLES
  ws, frame_cursor, rx_remainder_len,    \* fields of the Framer
  pc,               \* where the framer is between and inside its calls
  result,           \* what its last call returned
  garbled, lost,    \* ghosts: what has been overwritten in the buffer
  got,              \* ghost: messages come out of read
  tx                \* ghost: where the frames written are in their sequence

framer == <<ws, frame_cursor, rx_remainder_len, pc, result, garbled, lost>>
vars == <<framer, stream, sender, got, tx>>

PC == {"start", "connecting", "idle", "decoding", "done", "failed"}

Result == {"none", "Text", "Binary", "Pong", "Ping", "Close", "None", "Panic",
           "Io", "Disconnected",
           "RxBufferTooSmall"} \cup Error

Received == [type : {"Text", "Binary", "Ping", "Pong", "Garbled"}, len : Nat]

TypeOK ==
  /\ ws \in WebSocket
  /\ frame_cursor \in Nat /\ rx_remainder_len \in 0..BufLen
  /\ pc \in PC /\ result \in Result
  /\ garbled \in BOOLEAN /\ lost \in BOOLEAN
  /\ StreamTypeOK
  /\ got \in Seq(Received) /\ tx \in Wire

Init ==
  /\ \E is_client \in BOOLEAN : ws = new_websocket(is_client)
  /\ frame_cursor = 0 /\ rx_remainder_len = 0
  /\ pc = "start" /\ result = "none"
  /\ garbled = FALSE /\ lost = FALSE
  /\ StreamInit
  /\ got = <<>> /\ tx = "None"

-----------------------------------------------------------------------------
(* The peer.                                                               *)

PeerSends ==
  /\ pc # "start"
  /\ SendsFrame(~ws.is_client)
  /\ UNCHANGED <<framer, got, tx>>

PeerEnds ==
  /\ Failures /\ pc # "start"
  /\ EndsStream
  /\ UNCHANGED <<framer, got, tx>>

-----------------------------------------------------------------------------
(* The opening handshake.                                                  *)

Fails(error) == pc' = "failed" /\ result' = error

Connect ==
  LET r == client_connect(ws, "None")
  IN  /\ ws.is_client /\ pc = "start"
      /\ ws' = r.ws
      /\ \/ pc' = "connecting" /\ http' = HttpLen /\ UNCHANGED result
         \/ Failures /\ Fails("Io") /\ UNCHANGED http
      /\ UNCHANGED <<frame_cursor, rx_remainder_len, garbled, lost, inbox, off,
                     ended, sender, got, tx>>

\* Mutant: takes the length of the request for that of the response.
bytes_behind_request(n) == n - RequestLen

\* Bytes of a chunk of n that follow the response in it.
remaining_len(n) == n - HttpLen

(***************************************************************************)
(* connect takes one chunk from the stream: the response must be whole.    *)
(* What follows it goes to the end of the buffer, behind the request.      *)
(***************************************************************************)
ConnectReceives ==
  /\ pc = "connecting"
  /\ \E n \in 1..(http + Bytes(inbox)), answer \in {"None", "HttpError"} :
       LET r == client_accept(ws, IF n < HttpLen THEN "HttpHeaderIncomplete"
                                  ELSE answer)
       IN  /\ IF n < http THEN Cuts = "anywhere" ELSE CutAt(n - http)
           /\ Failures \/ answer = "None"
           /\ ws' = r.ws
           /\ http' = IF n <= http THEN http - n ELSE 0
           /\ IF r.ret.err = "None" /\ remaining_len(n) <= BufLen - RequestLen
              THEN /\ rx_remainder_len' = remaining_len(n)
                   /\ pc' = "idle" /\ UNCHANGED result
              ELSE /\ Fails(IF r.ret.err \in {"None", "HttpHeaderIncomplete"}
                            THEN "Panic" ELSE r.ret.err)
                   /\ UNCHANGED rx_remainder_len
  /\ UNCHANGED <<frame_cursor, garbled, lost, inbox, off, ended, sender, got,
                 tx>>

Accept ==
  LET r == server_accept(ws, "None")
  IN  /\ ~ws.is_client /\ pc = "start"
      /\ ws' = r.ws
      /\ \/ pc' = "idle" /\ UNCHANGED result
         \/ Failures /\ Fails("Io")
      /\ UNCHANGED <<frame_cursor, rx_remainder_len, garbled, lost, stream,
                     sender, got, tx>>

-----------------------------------------------------------------------------
(* Writing and closing, between the calls of read.                         *)

\* The bytes from lo to hi of the buffer are written, with n to be decoded.
Overwrites(lo, hi, n) ==
  /\ garbled' = (garbled \/ (lo < hi /\ lo < frame_cursor))
  /\ lost' = (lost \/ (lo < hi /\ hi > BufLen - n))

Emits(w) == tx' = WireAfter(tx, Head(w.sent))

WritesFrame(w) ==
  /\ ws' = w.ws
  /\ \/ w.ret.err = "None" /\ Emits(w) /\ UNCHANGED <<pc, result>>
     \/ w.ret.err = "None" /\ Failures /\ UNCHANGED tx /\ Fails("Io")
     \/ w.ret.err # "None" /\ UNCHANGED tx /\ Fails(w.ret.err)
  /\ IF AppSharesBuffer /\ w.sent # <<>>
     THEN Overwrites(0, FrameLen(Head(w.sent)), rx_remainder_len)
     ELSE UNCHANGED <<garbled, lost>>
  /\ UNCHANGED <<frame_cursor, rx_remainder_len, stream, sender, got>>

Write ==
  /\ pc = "idle" /\ ws.state = "Open"
  /\ \E end_of_message \in BOOLEAN :
       /\ AppFragments \/ end_of_message
       /\ WritesFrame(write(ws, "Text", end_of_message, 1,
                            "InternalServerError", BufLen))

Close ==
  /\ pc = "idle" /\ ws.state = "Open"
  /\ WritesFrame(close(ws, "InternalServerError", 0, BufLen))

-----------------------------------------------------------------------------
(* read.                                                                   *)

Returns(value) ==
  /\ result' = value
  /\ pc' = IF value = "None" /\ ~AppReadsOn THEN "done" ELSE "idle"

\* Mutant: asks the stream for bytes although some are not decoded yet.
NeedsChunk_always == TRUE

NeedsChunk == rx_remainder_len = 0

\* Mutant: goes on waiting when the stream has ended.
StreamEnds_unnoticed == UNCHANGED <<pc, result>>

StreamEnds == Returns("None")

Receive ==
  /\ pc = "idle" /\ NeedsChunk
  /\ \/ \E n \in 1..(Waiting - rx_remainder_len) :
          /\ CutAt(off + rx_remainder_len + n)
          /\ IF n > BufLen
             THEN Fails("RxBufferTooSmall")
                  /\ UNCHANGED <<rx_remainder_len, garbled, lost>>
             ELSE /\ rx_remainder_len' = n
                  /\ Overwrites(BufLen - n, BufLen, rx_remainder_len)
                  /\ pc' = "decoding" /\ UNCHANGED result
     \/ /\ ended /\ Waiting = rx_remainder_len
        /\ StreamEnds
        /\ UNCHANGED <<rx_remainder_len, garbled, lost>>
  /\ UNCHANGED <<ws, frame_cursor, stream, sender, got, tx>>

\* The stream fails while connect or read waits for it, or the server closes
\* it instead of answering.
StreamFails ==
  /\ Failures
  /\ pc = "connecting" \/ (pc = "idle" /\ NeedsChunk)
  /\ Fails("Io") \/ (pc = "connecting" /\ Fails("Disconnected"))
  /\ UNCHANGED <<ws, frame_cursor, rx_remainder_len, garbled, lost, stream,
                 sender, got, tx>>

\* A message comes out with the bytes at range: are they its own?
HandsOver(type, len, intact) ==
  got' = Append(got, [type |-> IF intact /\ ~lost THEN type ELSE "Garbled",
                      len |-> len])

\* Mutant: the frame cursor stays where it is at the end of a message.
Collects_without_reset(w, ret, room) ==
  /\ ws' = w
  /\ frame_cursor' = frame_cursor + ret.len_to
  /\ IF ~ret.end_of_message
     THEN /\ Overwrites(0, ret.len_to, rx_remainder_len')
          /\ Returns("None") /\ UNCHANGED got
     ELSE /\ HandsOver(ret.message_type, frame_cursor + ret.len_to, TRUE)
          /\ Returns(ret.message_type)
          /\ UNCHANGED <<garbled, lost>>
  /\ UNCHANGED tx

(***************************************************************************)
(* Text and Binary: the codec has decoded to the start of the buffer,      *)
(* where earlier pieces of the message lie.  A piece that does not end the *)
(* message falls through the match to None.                                *)
(***************************************************************************)
Collects(w, ret, room) ==
  LET cursor == frame_cursor + ret.len_to
  IN  /\ ws' = w
      /\ IF ~ret.end_of_message
         THEN /\ frame_cursor' = cursor
              /\ Overwrites(0, ret.len_to, rx_remainder_len')
              /\ Returns("None") /\ UNCHANGED got
         ELSE /\ frame_cursor' = 0
              /\ garbled' = FALSE /\ UNCHANGED lost
              /\ IF cursor > room THEN Fails("Panic") /\ UNCHANGED got
                 ELSE /\ HandsOver(ret.message_type, cursor,
                           ~garbled /\ (frame_cursor = 0 \/ ret.len_to = 0))
                      /\ Returns(ret.message_type)
      /\ UNCHANGED tx

\* The payload of a control frame is looked for behind the frame cursor.
InPlace(ret) == frame_cursor = 0 \/ ret.len_to = 0

TakesPong(w, ret, room) ==
  /\ ws' = w
  /\ Overwrites(0, ret.len_to, rx_remainder_len')
  /\ IF frame_cursor + ret.len_to > room THEN Fails("Panic") /\ UNCHANGED got
     ELSE HandsOver("Pong", ret.len_to, InPlace(ret)) /\ Returns("Pong")
  /\ UNCHANGED <<frame_cursor, tx>>

\* Mutant: leaves no room for the header of the answer.
tx_buf_len_of_payload(ret) == ret.len_to

tx_buf_len(ret) == ret.len_to + 14

\* The buffer for the answer is carved from the end of the frame buffer.
tx_start(ret, room) == room - tx_buf_len(ret)

\* Mutant: sends the answer as a fragment that is not the last.
encode_answer_unfinished(w, message_type, ret) ==
  write(w, message_type, FALSE, ret.len_to, "InternalServerError",
        tx_buf_len(ret))

encode_answer(w, message_type, ret) ==
  write(w, message_type, TRUE, ret.len_to, "InternalServerError",
        tx_buf_len(ret))

\* The answer is sent, or the send fails, or there is no answer.
Sends(s, done) ==
  \/ s.ret.err = "None" /\ Emits(s) /\ done
  \/ s.ret.err = "None" /\ Failures
       /\ UNCHANGED <<tx, got, frame_cursor>> /\ Fails("Io")
  \/ s.ret.err # "None"
       /\ UNCHANGED <<tx, got, frame_cursor>> /\ Fails(s.ret.err)

\* Mutant: a Ping falls through the match to None.
Pinged_unreported(ret) ==
  /\ HandsOver("Ping", ret.len_to, InPlace(ret))
  /\ Returns("None") /\ UNCHANGED frame_cursor

Pinged(ret) ==
  /\ HandsOver("Ping", ret.len_to, InPlace(ret))
  /\ Returns("Ping") /\ UNCHANGED frame_cursor

Answers(w, ret, room) ==
  LET start == tx_start(ret, room)
      ping  == ret.message_type = "Ping"
      s     == encode_answer(w, IF ping THEN "Pong" ELSE "CloseReply", ret)
  IN  IF start < 0 \/ frame_cursor + ret.len_to > start
      THEN /\ ws' = w /\ Fails("Panic")
           /\ UNCHANGED <<garbled, lost, got, tx, frame_cursor>>
      ELSE /\ ws' = s.ws
           /\ garbled' = (garbled \/ ~InPlace(ret))
           /\ lost' = (lost \/ (s.sent # <<>> /\
                start + FrameLen(Head(s.sent)) > BufLen - rx_remainder_len'))
           /\ Sends(s, IF ping THEN Pinged(ret)
                       ELSE /\ Returns("Close") /\ frame_cursor' = 0
                            /\ UNCHANGED got)

\* One call of the codec on what is in hand; never a second one.
Decode ==
  /\ pc = "decoding" \/ (pc = "idle" /\ ~NeedsChunk)
  /\ \E room \in {BufLen - rx_remainder_len} :
       \E r \in {read(ws, Current, "InternalServerError", rx_remainder_len,
                      room)} :
         /\ rx_remainder_len' = rx_remainder_len - r.ret.len_from
         /\ Takes(r.ret.len_from)
         /\ CASE r.ret.err # "None" ->
                   /\ ws' = r.ws /\ Fails(r.ret.err)
                   /\ UNCHANGED <<frame_cursor, garbled, lost, got, tx>>
              [] r.ret.message_type \in {"Text", "Binary"} ->
                   Collects(r.ws, r.ret, room)
              [] r.ret.message_type = "Pong" -> TakesPong(r.ws, r.ret, room)
              [] r.ret.message_type = "CloseCompleted" ->
                   /\ ws' = r.ws /\ Returns("None")
                   /\ UNCHANGED <<frame_cursor, garbled, lost, got, tx>>
              [] r.ret.message_type \in {"Ping", "CloseMustReply"} ->
                   Answers(r.ws, r.ret, room)
  /\ UNCHANGED <<http, ended, sender>>

Next == PeerSends \/ PeerEnds \/ Connect \/ ConnectReceives \/ Accept
        \/ Write \/ Close \/ Receive \/ StreamFails \/ Decode

(***************************************************************************)
(* Fairness: an executor polls the task that waits in connect, accept or   *)
(* read until it is through, and the application calls read again.         *)
(***************************************************************************)
Fairness ==
  /\ WF_vars(Connect) /\ WF_vars(ConnectReceives) /\ WF_vars(Accept)
  /\ WF_vars(Receive) /\ WF_vars(Decode)

Spec == Init /\ [][Next]_vars /\ Fairness

-----------------------------------------------------------------------------
(***************************************************************************)
(* The framer implements the message channel while it lasts: messages come *)
(* out whole, in order and their own, and each Ping is answered with its   *)
(* own payload, however answers and writes share the buffer with what is   *)
(* read.                                                                   *)
(***************************************************************************)
MC == INSTANCE MessageChannel

ImplementsMessageChannel == MC!Safety

(***************************************************************************)
(* Bytes that are kept at the end of the buffer for the next call stay as  *)
(* they are (the note above read): no answer, decoded payload or new chunk *)
(* is written over them.                                                   *)
(***************************************************************************)
RemainderKept == ~lost

(***************************************************************************)
(* read returns None, upon which the examples say that the connection is   *)
(* closed, only if the closing handshake is complete or the stream has     *)
(* ended.                                                                  *)
(***************************************************************************)
NoneMeansClosed ==
  result = "None" => ws.state = "Closed" \/ (ended /\ inbox = <<>>)

(***************************************************************************)
(* No call panics or fails but for the stream or the server, or because a  *)
(* Ping arrives after the application has closed, when it is not answered. *)
(***************************************************************************)
FailsForAReason ==
  pc = "failed" => \/ result \in {"Io", "Disconnected", "HttpError"}
                   \/ result = "WebSocketNotOpen" /\ ws.state = "CloseSent"

(***************************************************************************)
(* The answers to Ping and close messages fit in between the frames that   *)
(* the application writes.                                                 *)
(***************************************************************************)
WireWellFormed == tx # "Broken"

Over == pc \in {"done", "failed"}

(***************************************************************************)
(* Every message comes out, those that wait in the buffer behind another   *)
(* one or behind the handshake response too, unless the connection is over.*)
(***************************************************************************)
EveryMessageComesOut ==
  \A n \in 1..MaxSent : (Len(sent) >= n) ~> (Len(got) >= n \/ Over)

(***************************************************************************)
(* An application that reads until None is told of the end of the stream.  *)
(***************************************************************************)
EndsWithTheStream == ended ~> Over
=============================================================================
