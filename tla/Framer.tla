------------------------------- MODULE Framer -------------------------------
(***************************************************************************)
(* The blocking Framer of src/framer.rs: it drives a WebSocket over a      *)
(* stream that hands over bytes in chunks of its own choice, collects the  *)
(* fragments of a message in the application's frame buffer, and answers   *)
(* Ping and close messages itself.                                         *)
(*                                                                         *)
(* A chunk that the stream hands over lies in read_buf between read_cursor *)
(* and read_len.  One call of the framer is several steps, split where it  *)
(* blocks and at every round of its loops.  An application gives up on any *)
(* error, as the ? in examples/client.rs and examples/server.rs does.      *)
(***************************************************************************)
EXTENDS ByteStream

CONSTANTS
  IsClient,          \* is the framer a client's?
  HttpLen,           \* length of the server's handshake response
  ReadBufLen, WriteBufLen, FrameBufLen,    \* sizes of the buffers
  HttpAlone,         \* does the response arrive whole and by itself?
  AppFragments,      \* does the application write messages in fragments?
  AppCloses,         \* does the application close the websocket?
  Failures           \* may the stream fail or end, the response be refused?

ASSUME FramerAssumption ==
  /\ {HttpLen, ReadBufLen, WriteBufLen, FrameBufLen} \subseteq Nat \ {0}
  /\ {IsClient, HttpAlone, AppFragments, AppCloses, Failures}
       \subseteq BOOLEAN

VARIABLES
  ws,            \* the WebSocket
  read_cursor, read_len, frame_cursor,     \* fields of the Framer
  pc,            \* where the framer is between and inside its calls
  result,        \* what its last call returned
  got,           \* ghost: messages come out of read
  tx             \* ghost: where the frames written are in their sequence

framer == <<ws, read_cursor, read_len, frame_cursor, pc, result>>
vars == <<framer, stream, sender, got, tx>>

PC == {"start", "connecting", "idle", "reading", "decoding", "done", "failed"}

Result == {"none", "Text", "Binary", "Pong", "Closed", "Panic", "Io",
           "FrameTooLarge"} \cup Error

\* What comes out of read: Text and Binary, Pong, and Ping as it is answered.
Received == [type : {"Text", "Binary", "Ping", "Pong"}, len : Nat]

TypeOK ==
  /\ ws \in WebSocket
  /\ {read_cursor, read_len} \subseteq 0..ReadBufLen
  /\ frame_cursor \in 0..FrameBufLen
  /\ pc \in PC /\ result \in Result
  /\ StreamTypeOK
  /\ got \in Seq(Received) /\ tx \in Wire

Init ==
  /\ ws = new_websocket(IsClient)
  /\ read_cursor = 0 /\ read_len = 0 /\ frame_cursor = 0
  /\ pc = "start" /\ result = "none"
  /\ StreamInit
  /\ got = <<>> /\ tx = "None"

-----------------------------------------------------------------------------
(* The peer.                                                               *)

PeerSends ==
  /\ pc # "start"
  /\ SendsFrame(~IsClient)
  /\ UNCHANGED <<framer, got, tx>>

PeerEnds ==
  /\ Failures /\ pc # "start"
  /\ EndsStream
  /\ UNCHANGED <<framer, got, tx>>

-----------------------------------------------------------------------------
(* The opening handshake.                                                  *)

Fails(error) == pc' = "failed" /\ result' = error

\* connect sends the request; the server's response is then on its way.
Connect ==
  LET r == client_connect(ws, "None")
  IN  /\ IsClient /\ pc = "start"
      /\ ws' = r.ws
      /\ read_cursor' = 0
      /\ \/ pc' = "connecting" /\ http' = HttpLen /\ UNCHANGED result
         \/ Failures /\ Fails("Io") /\ UNCHANGED http
      /\ UNCHANGED <<read_len, frame_cursor, inbox, off, ended, sender, got,
                     tx>>

(***************************************************************************)
(* One round of the loop of connect.  When the response is complete the    *)
(* cursor becomes the number of bytes that follow it, by a subtraction     *)
(* that a build with overflow checks refuses when the last read got fewer  *)
(* bytes than the whole response has.                                      *)
(***************************************************************************)
ConnectReads ==
  /\ pc = "connecting"
  /\ \E n \in 0..(ReadBufLen - read_cursor), answer \in {"None", "HttpError"} :
       LET have == read_cursor + n
           r == client_accept(ws, IF have < HttpLen THEN "HttpHeaderIncomplete"
                                  ELSE answer)
       IN  /\ n <= http + Bytes(inbox)
           /\ n = 0 => read_cursor = ReadBufLen \/ (ended /\ http = 0)
           /\ HttpAlone => n = http
           /\ Failures \/ answer = "None"
           /\ ws' = r.ws
           /\ http' = IF n <= http THEN http - n ELSE 0
           /\ CASE r.ret.err = "HttpHeaderIncomplete" ->
                     read_cursor' = have /\ UNCHANGED <<pc, result>>
                [] r.ret.err = "None" /\ n < HttpLen ->
                     \/ Fails("Panic") /\ UNCHANGED read_cursor
                     \/ /\ read_cursor' = have - HttpLen
                        /\ pc' = "idle" /\ UNCHANGED result
                [] r.ret.err = "None" /\ n >= HttpLen ->
                     /\ read_cursor' = have - HttpLen
                     /\ pc' = "idle" /\ UNCHANGED result
                [] OTHER -> read_cursor' = have /\ Fails(r.ret.err)
  /\ UNCHANGED <<read_len, frame_cursor, inbox, off, ended, sender, got, tx>>

Accept ==
  LET r == server_accept(ws, "None")
  IN  /\ ~IsClient /\ pc = "start"
      /\ ws' = r.ws
      /\ \/ pc' = "idle" /\ UNCHANGED result
         \/ Failures /\ Fails("Io")
      /\ UNCHANGED <<read_cursor, read_len, frame_cursor, stream, sender, got,
                     tx>>

-----------------------------------------------------------------------------
(* Writing and closing, between the calls of read.                         *)

\* The frame that a call of the codec has produced goes to write_all.
Emits(w) == tx' = WireAfter(tx, Head(w.sent))

WritesFrame(w) ==
  /\ ws' = w.ws
  /\ \/ w.ret.err = "None" /\ Emits(w) /\ UNCHANGED <<pc, result>>
     \/ w.ret.err = "None" /\ Failures /\ UNCHANGED tx /\ Fails("Io")
     \/ w.ret.err # "None" /\ UNCHANGED tx /\ Fails(w.ret.err)
  /\ UNCHANGED <<read_cursor, read_len, frame_cursor, stream, sender, got>>

Write ==
  /\ pc = "idle" /\ ws.state = "Open"
  /\ \E end_of_message \in BOOLEAN :
       /\ AppFragments \/ end_of_message
       /\ WritesFrame(write(ws, "Text", end_of_message, 1,
                            "InternalServerError", WriteBufLen))

Close ==
  /\ AppCloses /\ pc = "idle" /\ ws.state = "Open"
  /\ WritesFrame(close(ws, "InternalServerError", 0, WriteBufLen))

-----------------------------------------------------------------------------
(* read.                                                                   *)

Returns(value) ==
  /\ result' = value
  /\ pc' = IF value = "Closed" THEN "done" ELSE "idle"

Read ==
  /\ pc = "idle"
  /\ pc' = "reading"
  /\ UNCHANGED <<ws, read_cursor, read_len, frame_cursor, result, stream,
                 sender, got, tx>>

\* The outer loop: refill read_buf when it is used up, then look at read_len.
Refills == read_cursor = 0 \/ read_cursor = read_len

Refill ==
  /\ pc = "reading" /\ Refills
  /\ \E n \in 0..ReadBufLen :
       /\ n <= Waiting /\ CutAt(off + n)
       /\ n = 0 => ended /\ Waiting = 0
       /\ read_len' = n
       /\ read_cursor' = 0
       /\ IF n = 0 THEN Returns("Closed")
          ELSE pc' = "decoding" /\ UNCHANGED result
  /\ UNCHANGED <<ws, frame_cursor, stream, sender, got, tx>>

RefillFails ==
  /\ pc = "reading" /\ Refills /\ Failures
  /\ Fails("Io")
  /\ UNCHANGED <<ws, read_cursor, read_len, frame_cursor, stream, sender, got,
                 tx>>

Resume ==
  /\ pc = "reading" /\ ~Refills
  /\ IF read_len = 0 THEN Returns("Closed")
     ELSE pc' = "decoding" /\ UNCHANGED result
  /\ UNCHANGED <<ws, read_cursor, read_len, frame_cursor, stream, sender, got,
                 tx>>

Consume(n) == read_cursor' = read_cursor + n /\ Takes(n)

\* Round the inner loop again, or the outer one when read_buf is used up.
GoesOn ==
  /\ pc' = IF read_cursor' = read_len THEN "reading" ELSE "decoding"
  /\ UNCHANGED result

Receives(type, len) == got' = Append(got, [type |-> type, len |-> len])

\* Mutant: hands over the last piece of a message as the whole of it.
Collects_last_piece(w, ret) ==
  /\ ws' = w
  /\ IF ret.end_of_message
     THEN /\ frame_cursor' = 0
          /\ Receives(ret.message_type, ret.len_to)
          /\ Returns(ret.message_type)
     ELSE /\ frame_cursor' = frame_cursor + ret.len_to
          /\ UNCHANGED got
          /\ GoesOn
  /\ UNCHANGED tx

\* Text and Binary: the payload follows what frame_buf holds of the message.
Collects(w, ret) ==
  /\ ws' = w
  /\ IF ret.end_of_message
     THEN /\ frame_cursor' = 0
          /\ Receives(ret.message_type, frame_cursor + ret.len_to)
          /\ Returns(ret.message_type)
     ELSE /\ frame_cursor' = frame_cursor + ret.len_to
          /\ UNCHANGED got
          /\ GoesOn
  /\ UNCHANGED tx

\* Mutant: sends the answer as a fragment that is not the last.
send_back_unfinished(w, message_type, len_to) ==
  write(w, message_type, FALSE,
        IF WriteBufLen <= len_to THEN WriteBufLen ELSE len_to,
        "InternalServerError", WriteBufLen)

\* send_back: as much of the payload as write_buf has bytes.
send_back(w, message_type, len_to) ==
  write(w, message_type, TRUE,
        IF WriteBufLen <= len_to THEN WriteBufLen ELSE len_to,
        "InternalServerError", WriteBufLen)

RepliesToClose(w, ret) ==
  LET s == send_back(w, "CloseReply", ret.len_to)
  IN  /\ ws' = s.ws
      /\ \/ s.ret.err = "None" /\ Emits(s) /\ Returns("Closed")
         \/ s.ret.err = "None" /\ Failures /\ UNCHANGED tx /\ Fails("Io")
         \/ s.ret.err # "None" /\ UNCHANGED tx /\ Fails(s.ret.err)
      /\ UNCHANGED <<frame_cursor, got>>

\* Mutant: keeps the payload of the Ping in frame_buf.
AnswersPing_collected(w, ret) ==
  LET s == send_back(w, "Pong", ret.len_to)
  IN  /\ ws' = s.ws
      /\ \/ /\ s.ret.err = "None" /\ Emits(s)
            /\ Receives("Ping", Head(s.sent).len)
            /\ GoesOn
         \/ /\ s.ret.err = "None" /\ Failures
            /\ UNCHANGED <<tx, got>> /\ Fails("Io")
         \/ s.ret.err # "None" /\ UNCHANGED <<tx, got>> /\ Fails(s.ret.err)
      /\ frame_cursor' = frame_cursor + ret.len_to

AnswersPing(w, ret) ==
  LET s == send_back(w, "Pong", ret.len_to)
  IN  /\ ws' = s.ws
      /\ \/ /\ s.ret.err = "None" /\ Emits(s)
            /\ Receives("Ping", Head(s.sent).len)
            /\ GoesOn
         \/ /\ s.ret.err = "None" /\ Failures
            /\ UNCHANGED <<tx, got>> /\ Fails("Io")
         \/ s.ret.err # "None" /\ UNCHANGED <<tx, got>> /\ Fails(s.ret.err)
      /\ UNCHANGED frame_cursor

HandsOver(w, ret) ==
  /\ ws' = w
  /\ \/ /\ ret.message_type = "Pong"
        /\ Receives("Pong", ret.len_to) /\ Returns("Pong")
     \/ /\ ret.message_type = "CloseCompleted"
        /\ UNCHANGED got /\ Returns("Closed")
  /\ UNCHANGED <<frame_cursor, tx>>

\* One round of the inner loop.
Decode ==
  /\ pc = "decoding"
  /\ frame_cursor < FrameBufLen
  /\ \E from \in {read_len - read_cursor},
        to \in {FrameBufLen - frame_cursor} :
       \E r \in {read(ws, Current, "InternalServerError", from, to)} :
         /\ Consume(r.ret.len_from)
         /\ IF r.ret.err # "None"
            THEN /\ ws' = r.ws /\ Fails(r.ret.err)
                 /\ UNCHANGED <<frame_cursor, got, tx>>
            ELSE CASE r.ret.message_type \in {"Text", "Binary"} ->
                        Collects(r.ws, r.ret)
                   [] r.ret.message_type = "CloseMustReply" ->
                        RepliesToClose(r.ws, r.ret)
                   [] r.ret.message_type = "Ping" -> AnswersPing(r.ws, r.ret)
                   [] OTHER -> HandsOver(r.ws, r.ret)
  /\ UNCHANGED <<read_len, http, ended, sender>>

DecodeRefuses ==
  /\ pc = "decoding"
  /\ frame_cursor = FrameBufLen
  /\ Fails("FrameTooLarge")
  /\ UNCHANGED <<ws, read_cursor, read_len, frame_cursor, stream, sender, got,
                 tx>>

Next == PeerSends \/ PeerEnds \/ Connect \/ ConnectReads \/ Accept
        \/ Write \/ Close \/ Read \/ Refill \/ RefillFails \/ Resume
        \/ Decode \/ DecodeRefuses

(***************************************************************************)
(* Fairness: the application calls read again after each message, and the  *)
(* stream hands over what has arrived.  Nothing makes the peer send, or    *)
(* the application write or close.                                         *)
(***************************************************************************)
Fairness ==
  /\ WF_vars(Connect) /\ WF_vars(ConnectReads) /\ WF_vars(Accept)
  /\ WF_vars(Read) /\ WF_vars(Refill) /\ WF_vars(Resume) /\ WF_vars(Decode)

Spec == Init /\ [][Next]_vars /\ Fairness

-----------------------------------------------------------------------------
(***************************************************************************)
(* The messages of the peer come out of read one by one, whole and in      *)
(* order, however the stream cuts them into chunks; a Ping counts as come  *)
(* out when the Pong with its payload is sent.                             *)
(***************************************************************************)
MC == INSTANCE MessageChannel

ImplementsMessageChannel == MC!Spec

(***************************************************************************)
(* The part of it that holds also when the stream fails or ends: nothing   *)
(* comes out that the peer has not sent.  A Ping that comes in two chunks  *)
(* does come out as two (Cuts = "anywhere").                               *)
(***************************************************************************)
ComesOutInOrder ==
  /\ Len(got) <= Len(sent)
  /\ got = SubSeq(sent, 1, Len(got))

(***************************************************************************)
(* frame_cursor counts the bytes handed over of the message under way, and *)
(* no others, whatever control frames came between its fragments: with the *)
(* bytes that the stream still has of it they are as many as the peer has  *)
(* sent of it.                                                             *)
(***************************************************************************)
Held(cursor, in, n) ==
  IF n = 0 THEN cursor ELSE cursor - (n - HeaderLen(Head(in)))

Collected(frames, first) ==
  LET held[i \in 0..Len(frames)] ==
        IF i = 0 THEN first ELSE HeldAfter(frames[i], held[i - 1])
  IN  held[Len(frames)]

NothingLeftBehind ==
  pc \notin {"done", "failed"} =>
    Collected(inbox, Held(frame_cursor, inbox, off)) = partial

(***************************************************************************)
(* read reports Closed only if the closing handshake is complete or the    *)
(* stream has ended.                                                       *)
(***************************************************************************)
ClosedMeansClosed ==
  result = "Closed" => ws.state = "Closed" \/ (ended /\ inbox = <<>>)

(***************************************************************************)
(* No call of the framer fails or panics: not for the codec's errors, not  *)
(* for want of room in a buffer.  Three things are excluded, since after   *)
(* each of them read does fail: a chunk that ends in a frame header (Cuts  *)
(* = "anywhere"), a Ping that arrives after close (AppCloses), and a       *)
(* stream that fails (Failures).                                           *)
(***************************************************************************)
NeverFails == pc # "failed"

(***************************************************************************)
(* The answers of read to Ping and close messages fit in between the       *)
(* frames that the application writes.                                     *)
(***************************************************************************)
WireWellFormed == tx # "Broken"
=============================================================================
