--------------------------- MODULE Endpoint_proofs ---------------------------
(***************************************************************************)
(* Proofs about Endpoint, for all values of its constants: all payload     *)
(* lengths, all cuts of the stream into reads, all buffer sizes.           *)
(***************************************************************************)
EXTENDS Endpoint, Reading_proofs

-----------------------------------------------------------------------------
(* Type correctness.                                                       *)

(* The empty stream is a sequence of frames.                                *)
LEMMA NoFramesType == <<>> \in Seq(Frame)
OBVIOUS

(* The frame that read is at is a frame, also when the stream is empty.    *)
LEMMA CurrentType == TypeOK => Current \in Frame
BY AtType DEF TypeOK, Current, At

(* The frames of the peer are frames.                                      *)
LEMMA PeerFrameType ==
  ASSUME TypeOK, NEW op_code \in PeerOpCodes, NEW fin \in BOOLEAN,
         NEW ext \in ExtLens, NEW len \in PayloadLens,
         NEW status \in CloseStatus,
         WireAfter(peer, PeerFrame(op_code, fin, ext, len, status)) # "Broken"
  PROVE  PeerFrame(op_code, fin, ext, len, status) \in Frame
<1> DEFINE f == PeerFrame(op_code, fin, ext, len, status)
<1>1. ws.is_client \in BOOLEAN /\ peer \in Wire
  BY DEF TypeOK, WebSocket
<1>2. /\ op_code \in WebSocketOpCode \cup {"Reserved"}
      /\ ext \in {0, 2, 8} /\ len \in Nat
  BY EndpointAssumption
<1>3. op_code = "ContinuationFrame" => peer \in DataOpCode
  <2> SUFFICES ASSUME op_code = "ContinuationFrame" PROVE peer \in DataOpCode
    OBVIOUS
  <2>1. f.op_code = "ContinuationFrame"
    BY DEF PeerFrame
  <2> HIDE DEF f
  <2>2. WireAfter(peer, f) # "Broken"
    BY DEF f
  <2>3. peer \notin {"Closed", "Broken", "None"}
    BY <2>1, <2>2 DEF WireAfter, DataOpCode
  <2> QED
    BY <1>1, <2>3 DEF Wire
<1>4. f.msg \in DataOpCode \cup ControlOpCode
  BY <1>2, <1>3 DEF PeerFrame, WebSocketOpCode, ControlOpCode
<1> QED
  BY <1>1, <1>2, <1>4 DEF PeerFrame, Frame

(* The result of a step that is no call has its type.                      *)
LEMMA ReturnNoneType == returns("none", "None") \in Return
BY ReturnsType DEF Call, Error

(* The stream stays one of frames when read takes bytes of it.             *)
LEMMA ConsumeType ==
  ASSUME TypeOK, NEW n \in Nat, Consume(n)
  PROVE  inbox' \in Seq(Frame) /\ off' \in Nat
BY DEF TypeOK, Consume

(* TypeOK holds in the initial states.                                     *)
LEMMA TypeInit == ASSUME Init PROVE TypeOK
<1>1. failed \in BOOLEAN /\ ws \in WebSocket
  BY NewWebSocketType DEF Init
<1> QED
  BY <1>1, ReturnNoneType, NoFramesType DEF Init, TypeOK, Wire

(* TypeOK is preserved by each action.                                     *)
LEMMA TypeStep == TypeOK /\ [Next]_vars => TypeOK'
<1> SUFFICES ASSUME TypeOK, [Next]_vars PROVE TypeOK'
  OBVIOUS
<1>1. CASE PeerSends
  <2> PICK op_code \in PeerOpCodes, fin \in BOOLEAN, ext \in ExtLens,
           len \in PayloadLens, status \in CloseStatus :
        LET f == PeerFrame(op_code, fin, ext, len, status)
        IN  /\ WireAfter(peer, f) # "Broken"
            /\ inbox' = Append(inbox, f)
            /\ peer' = WireAfter(peer, f)
    BY <1>1 DEF PeerSends
  <2>1. PeerFrame(op_code, fin, ext, len, status) \in Frame
    BY PeerFrameType
  <2>2. peer' \in Wire /\ inbox' \in Seq(Frame)
    BY <2>1, WireAfterType DEF TypeOK
  <2> QED
    BY <1>1, <2>2, ReturnNoneType DEF PeerSends, TypeOK
<1>2. CASE PeerTakes
  BY <1>2, ReturnNoneType DEF PeerTakes, TypeOK
<1>3. ASSUME NEW r, r.ws \in WebSocket, r.ret \in Return, Opens(r)
      PROVE  TypeOK'
  <2>1. CASE r.ret.err = "None"
    <3>1. failed' \in BOOLEAN
      BY <1>3, <2>1 DEF Opens, NewStreams
    <3> QED
      BY <1>3, <2>1, <3>1, NoFramesType DEF Opens, NewStreams, TypeOK, Wire
  <2>2. CASE r.ret.err # "None"
    BY <1>3, <2>2 DEF Opens, TypeOK
  <2> QED
    BY <2>1, <2>2
<1>4. {"None", "Unknown", "HttpHeaderIncomplete", "HttpError"} \subseteq Error
  BY DEF Error
<1>5. CASE ServerAccept
  BY <1>3, <1>4, <1>5, HandshakeType DEF ServerAccept, TypeOK
<1>6. CASE ClientConnect
  BY <1>3, <1>4, <1>6, HandshakeType DEF ClientConnect, TypeOK
<1>7. CASE ClientAccept
  BY <1>3, <1>4, <1>7, HandshakeType DEF ClientAccept, TypeOK
<1>8. CASE Read
  <2> PICK from \in 0..Available, to \in ToLens, status \in CloseStatus :
        LET r == read(ws, Current, status, from, to)
        IN  /\ ws' = r.ws
            /\ ret' = r.ret
            /\ Consume(r.ret.len_from)
            /\ failed' = (r.ret.err \in {"InvalidOpCode",
                                         "UnexpectedContinuationFrame"})
    BY <1>8 DEF Read, ReadCall
  <2>1. from \in Nat /\ to \in Nat
    <3>1. Available \in Int
      BY CurrentType, FrameLenType DEF Available, TypeOK
    <3> QED
      BY <3>1, EndpointAssumption
  <2>2. ws' \in WebSocket /\ ret' \in Return
    BY <2>1, CurrentType, ReadType DEF TypeOK
  <2>3. ret'.len_from \in Nat
    BY <2>2 DEF Return
  <2>4. inbox' \in Seq(Frame) /\ off' \in Nat
    BY <2>3, ConsumeType
  <2> QED
    BY <1>8, <2>2, <2>4 DEF Read, ReadCall, TypeOK
<1>9. ASSUME NEW r, r.ws \in WebSocket, r.ret \in Return, Sends(r),
             r.sent = <<>> \/ \E f \in Frame : r.sent = <<f>>
      PROVE  TypeOK'
  <2>1. outbox \o r.sent \in Seq(Frame)
    <3>1. CASE r.sent = <<>>
      BY <3>1 DEF TypeOK
    <3>2. CASE \E f \in Frame : r.sent = <<f>>
      BY <3>2 DEF TypeOK
    <3> QED
      BY <1>9, <3>1, <3>2
  <2>2. (IF r.sent = <<>> THEN tx ELSE WireAfter(tx, Head(r.sent))) \in Wire
    BY <1>9, WireAfterType DEF TypeOK
  <2> QED
    BY <1>9, <2>1, <2>2 DEF Sends, TypeOK
<1>10. CASE Write
  <2> PICK message_type \in SendMessageType, end_of_message \in BOOLEAN,
           count \in Nat, status \in CloseStatus, to \in Nat :
        Sends(write(ws, message_type, end_of_message, count, status, to))
    BY <1>10, EndpointAssumption DEF Write, WriteCall
  <2> DEFINE r == write(ws, message_type, end_of_message, count, status, to)
  <2>1. /\ r.ws \in WebSocket /\ r.ret \in Return
        /\ r.sent = <<>> \/ \E f \in Frame : r.sent = <<f>>
    BY WriteType DEF TypeOK
  <2>2. Sends(r)
    OBVIOUS
  <2> HIDE DEF r
  <2> QED
    BY <1>9, <2>1, <2>2
<1>11. CASE Close
  <2> PICK status \in CloseStatus, description \in Nat, to \in Nat :
        Sends(close(ws, status, description, to))
    BY <1>11, EndpointAssumption DEF Close, CloseCall
  <2> QED
    BY <1>9, CloseType DEF TypeOK
<1>12. CASE UNCHANGED vars
  BY <1>12 DEF vars, TypeOK
<1> QED
  BY <1>1, <1>2, <1>5, <1>6, <1>7, <1>8, <1>10, <1>11, <1>12 DEF Next

(***************************************************************************)
(* Every field of the websocket, every frame and every answer keeps its    *)
(* type: no operation of the codec leaves its enumerations, and no count   *)
(* of bytes goes below zero.                                               *)
(***************************************************************************)
THEOREM TypeCorrect == Spec => []TypeOK
<1>1. Init => TypeOK
  BY TypeInit
<1> QED
  BY <1>1, TypeStep, PTL DEF Spec

-----------------------------------------------------------------------------
(***************************************************************************)
(* Framing.  FramingInStep is not inductive alone: a close frame that is   *)
(* read in part drops continuation_read in the middle of the frame, which  *)
(* is harmless only because no read is answered any more, and a stream can *)
(* be replaced only while the codec remembers nothing.                     *)
(***************************************************************************)
NotYetOpen == ws.state \in {"None", "Connecting", "Aborted"}

NothingRemembered ==
  /\ ws.continuation_read.op_code = "None"
  /\ off = 0
  /\ inbox = <<>>
  /\ failed = FALSE

CloseFrameRead ==
  ws.continuation_read.op_code = "ConnectionClose"
    => ws.state \in {"CloseReceived", "Closed"}

FramingInv ==
  /\ TypeOK
  /\ FramingInStep
  /\ NotYetOpen => NothingRemembered
  /\ CloseFrameRead

(* The stream keeps its position when a call consumes nothing.             *)
LEMMA ConsumeNothing ==
  ASSUME FramingInv, ~failed, Consume(0)
  PROVE  inbox' = inbox /\ off' = off
<1>1. inbox # <<>> => Current \in Frame /\ Current = Head(inbox)
  BY CurrentType DEF Current, FramingInv
<1>2. inbox # <<>> => off < FrameLen(Current)
  <2>1. CASE AtFrameBoundary
    BY <1>1, <2>1, FrameLenType DEF AtFrameBoundary
  <2>2. CASE InsideFrame
    BY <1>1, <2>2, FrameLenType DEF InsideFrame
  <2> QED
    BY <2>1, <2>2 DEF FramingInv, FramingInStep
<1>3. off \in Nat
  BY DEF FramingInv, TypeOK
<1> QED
  BY <1>2, <1>3 DEF Consume

(* The websocket is a reader in step with its stream.                      *)
LEMMA EndpointReads ==
  /\ FramingInv /\ ~failed => ReaderInv(ws, inbox, off)
  /\ Current = At(inbox)
  /\ \A n : Consume(n) => /\ inbox' = FramesAfter(inbox, off, n)
                          /\ off' = OffAfter(inbox, off, n)
<1>1. FramingInv /\ ~failed => ReaderInv(ws, inbox, off)
  BY DEF FramingInv, TypeOK, FramingInStep, AtFrameBoundary, InsideFrame,
         CloseFrameRead, ReaderInv, AtBoundary, Inside, CloseReadOnce
<1>2. Current = At(inbox)
  BY DEF Current, At
<1>3. \A n : Consume(n) => /\ inbox' = FramesAfter(inbox, off, n)
                          /\ off' = OffAfter(inbox, off, n)
  BY <1>2 DEF Consume, FramesAfter, OffAfter, Ends
<1> QED
  BY <1>1, <1>2, <1>3

(* A read leaves the codec in step with the stream, or has failed.         *)
LEMMA ReadInStep ==
  ASSUME FramingInv, ~failed,
         NEW from \in Nat, NEW to \in Nat, NEW status \in CloseStatus,
         LET r == read(ws, Current, status, from, to)
         IN  /\ ws' = r.ws
             /\ Consume(r.ret.len_from)
             /\ failed' = (r.ret.err \in {"InvalidOpCode",
                                          "UnexpectedContinuationFrame"})
  PROVE  FramingInStep' /\ CloseFrameRead'
<1> DEFINE r == read(ws, At(inbox), status, from, to)
           l == r.ret.len_from
<1>1. /\ CloseReadOnce(r.ws)
      /\ r.ret.err # "UnexpectedContinuationFrame" =>
           ReaderInv(r.ws, FramesAfter(inbox, off, l), OffAfter(inbox, off, l))
  BY EndpointReads, ReadKeepsStep
<1>2. /\ ws' = r.ws /\ Consume(l)
      /\ r.ret.err = "UnexpectedContinuationFrame" => failed'
  BY EndpointReads
<1> HIDE DEF r
<1>3. inbox' = FramesAfter(inbox, off, l) /\ off' = OffAfter(inbox, off, l)
  BY <1>2, EndpointReads
<1>4. CloseFrameRead'
  BY <1>1, <1>2 DEF CloseFrameRead, CloseReadOnce
<1>5. CASE r.ret.err = "UnexpectedContinuationFrame"
  BY <1>2, <1>4, <1>5 DEF FramingInStep
<1>6. CASE r.ret.err # "UnexpectedContinuationFrame"
  <2>1. ReaderInv(ws', inbox', off')
    BY <1>1, <1>2, <1>3, <1>6
  <2> QED
    BY <1>4, <2>1 DEF ReaderInv, AtBoundary, Inside, FramingInStep,
                      AtFrameBoundary, InsideFrame
<1> QED
  BY <1>5, <1>6

(* A step of Read, without the choices it makes.                           *)
LEMMA ReadEffect ==
  ASSUME TypeOK, Read
  PROVE  /\ ws'.is_write_continuation = ws.is_write_continuation /\ tx' = tx
         /\ \/ ws'.state = ws.state
            \/ /\ "ConnectionClose"
                    \in {ws.continuation_read.op_code, Current.op_code}
               /\ \/ ws.state = "Open" /\ ws'.state = "CloseReceived"
                  \/ ws.state = "CloseSent" /\ ws'.state = "Closed"
<1>1. ws \in WebSocket /\ Current \in Frame
  BY CurrentType DEF TypeOK
<1>2. Available \in Int
  BY CurrentType, FrameLenType DEF Available, TypeOK
<1> PICK from \in 0..Available, to \in ToLens, status \in CloseStatus :
      ws' = read(ws, Current, status, from, to).ws
  BY DEF Read, ReadCall
<1>3. from \in Nat /\ to \in Nat
  BY <1>2, EndpointAssumption
<1>4. tx' = tx
  BY DEF Read, ReadCall
<1>5. CASE ws.state \notin {"Open", "CloseSent"}
  BY <1>4, <1>5, ReadRefused
<1>6. CASE ws.state \in {"Open", "CloseSent"}
  BY <1>1, <1>3, <1>4, <1>6, ReadState
<1> QED
  BY <1>5, <1>6

(* FramingInv is preserved by each action.                                 *)
LEMMA FramingStep ==
  ReuseWebSocket = FALSE /\ FramingInv /\ [Next]_vars => FramingInv'
<1> SUFFICES ASSUME ReuseWebSocket = FALSE, FramingInv, [Next]_vars
             PROVE  FramingInv'
  OBVIOUS
<1>1. TypeOK /\ TypeOK'
  BY TypeStep DEF FramingInv
<1>2. ws \in WebSocket
  BY <1>1 DEF TypeOK
<1>3. CASE PeerSends
  <2>1. ws' = ws /\ off' = off /\ failed' = failed
        /\ \E f : inbox' = Append(inbox, f)
    BY <1>3 DEF PeerSends
  <2>2. inbox \in Seq(Frame)
    BY <1>1 DEF TypeOK
  <2>3. inbox # <<>> => inbox' # <<>> /\ Head(inbox') = Head(inbox)
    BY <2>1, <2>2
  <2>4. FramingInStep'
    BY <2>1, <2>3 DEF FramingInv, FramingInStep, AtFrameBoundary, InsideFrame
  <2>5. ~NotYetOpen'
    BY <1>3, <2>1 DEF PeerSends, NotYetOpen
  <2> QED
    BY <1>1, <2>1, <2>4, <2>5 DEF FramingInv, CloseFrameRead
<1>4. CASE PeerTakes
  BY <1>1, <1>4 DEF PeerTakes, FramingInv, FramingInStep, AtFrameBoundary,
                    InsideFrame, NotYetOpen, NothingRemembered, CloseFrameRead
<1>5. ASSUME NEW r, OpeningStep(ws, r), Opens(r)
      PROVE  FramingInv'
  <2>1. ws.state \notin {"CloseSent", "CloseReceived", "Closed"}
    BY <1>5 DEF Opens, MayOpen
  <2>2. ws.state = "Open" \/ NothingRemembered
    BY <1>2, <2>1 DEF FramingInv, NotYetOpen, WebSocket, WebSocketState
  <2>3. ws' = r.ws /\ ret' = r.ret
    BY <1>5 DEF Opens
  <2>4. CASE ws.state = "Open"
    <3>1. ws'.state = "Open" /\ ws'.continuation_read = ws.continuation_read
      BY <1>5, <2>3, <2>4 DEF OpeningStep
    <3>2. UNCHANGED <<inbox, off, failed>>
      BY <1>5, <2>4 DEF Opens, OpeningStep
    <3> QED
      BY <1>1, <2>4, <3>1, <3>2
         DEF FramingInv, FramingInStep, AtFrameBoundary, InsideFrame,
             NotYetOpen, CloseFrameRead
  <2>5. CASE NothingRemembered
    <3>1. inbox' = <<>> /\ off' = 0 /\ failed' = FALSE
      BY <1>5, <2>5 DEF Opens, NewStreams, NothingRemembered
    <3>2. ws'.continuation_read.op_code = "None"
      BY <1>5, <2>3, <2>5 DEF OpeningStep, NothingRemembered
    <3> QED
      BY <1>1, <3>1, <3>2
         DEF FramingInv, FramingInStep, AtFrameBoundary, NothingRemembered,
             CloseFrameRead
  <2> QED
    BY <2>2, <2>4, <2>5
<1>6. {"None", "Unknown", "HttpHeaderIncomplete", "HttpError"} \subseteq Error
  BY DEF Error
<1>7. CASE ServerAccept
  BY <1>2, <1>5, <1>6, <1>7, OpeningEffect DEF ServerAccept
<1>8. CASE ClientConnect
  BY <1>2, <1>5, <1>6, <1>8, OpeningEffect DEF ClientConnect
<1>9. CASE ClientAccept
  BY <1>2, <1>5, <1>6, <1>9, OpeningEffect DEF ClientAccept
<1>10. CASE Read
  <2> PICK from \in 0..Available, to \in ToLens, status \in CloseStatus :
        LET r == read(ws, Current, status, from, to)
        IN  /\ ws' = r.ws
            /\ ret' = r.ret
            /\ Consume(r.ret.len_from)
            /\ failed' = (r.ret.err \in {"InvalidOpCode",
                                         "UnexpectedContinuationFrame"})
    BY <1>10 DEF Read, ReadCall
  <2>1. from \in Nat /\ to \in Nat
    <3>1. Available \in Int
      BY <1>1, CurrentType, FrameLenType DEF Available, TypeOK
    <3> QED
      BY <3>1, EndpointAssumption
  <2>2. ~failed
    BY <1>10 DEF Read, ReadCall
  <2>3. FramingInStep' /\ CloseFrameRead'
    BY <2>1, <2>2, ReadInStep
  <2>4. NotYetOpen' => NothingRemembered'
    <3>1. Current \in Frame
      BY <1>1, CurrentType
    <3>2. CASE ws.state \in {"Open", "CloseSent"}
      <4>1. ws'.state \in {ws.state, "CloseReceived", "Closed"}
        BY <1>2, <2>1, <3>1, <3>2, ReadState DEF WebSocket
      <4> QED
        BY <3>2, <4>1 DEF NotYetOpen
    <3>3. CASE ws.state \notin {"Open", "CloseSent"}
      <4> DEFINE r == read(ws, Current, status, from, to)
      <4>0. r.ws = ws /\ r.ret.err = "WebSocketNotOpen" /\ r.ret.len_from = 0
        BY <3>3, ReadRefused
      <4> HIDE DEF r
      <4>1. ws' = ws /\ Consume(0) /\ ~failed'
        BY <4>0 DEF r
      <4>2. inbox' = inbox /\ off' = off
        BY <2>2, <4>1, ConsumeNothing
      <4>3. failed' \in BOOLEAN
        BY <1>1 DEF TypeOK
      <4> QED
        BY <4>1, <4>2, <4>3 DEF FramingInv, NotYetOpen, NothingRemembered
    <3> QED
      BY <3>2, <3>3
  <2> QED
    BY <1>1, <2>3, <2>4 DEF FramingInv
<1>11. ASSUME NEW r, Sends(r),
              r.ws.continuation_read = ws.continuation_read,
              \/ r.ws.state = ws.state
              \/ /\ ws.state \in {"Open", "CloseReceived"}
                 /\ r.ws.state \in {"CloseSent", "Closed"}
                 /\ ws.state = "CloseReceived" => r.ws.state = "Closed"
       PROVE  FramingInv'
  <2>1. ws' = r.ws /\ UNCHANGED <<inbox, off, failed>>
    BY <1>11 DEF Sends
  <2>2. FramingInStep'
    BY <1>11, <2>1 DEF FramingInv, FramingInStep, AtFrameBoundary, InsideFrame
  <2>3. NotYetOpen' => NothingRemembered'
    BY <1>11, <2>1 DEF FramingInv, NotYetOpen, NothingRemembered
  <2>4. CloseFrameRead'
    BY <1>11, <2>1 DEF FramingInv, CloseFrameRead
  <2> QED
    BY <1>1, <2>2, <2>3, <2>4 DEF FramingInv
<1>12. CASE Write
  BY <1>2, <1>11, <1>12, WriteEffect DEF Write, WriteCall, ReaderUntouched
<1>13. CASE Close
  BY <1>2, <1>11, <1>13, CloseEffect DEF Close, CloseCall, ReaderUntouched
<1>14. CASE UNCHANGED vars
  BY <1>1, <1>14 DEF vars, FramingInv, FramingInStep, AtFrameBoundary,
       InsideFrame, NotYetOpen, NothingRemembered, CloseFrameRead
<1> QED
  BY <1>3, <1>4, <1>7, <1>8, <1>9, <1>10, <1>12, <1>13, <1>14 DEF Next

(* FramingInv holds in the initial states.                                 *)
LEMMA FramingInit == ASSUME Init PROVE FramingInv
<1>1. TypeOK
  BY TypeInit
<1>2. ws.continuation_read.op_code = "None"
  BY DEF Init, new_websocket, NoContinuation
<1> QED
  BY <1>1, <1>2
     DEF Init, FramingInv, FramingInStep, AtFrameBoundary, CloseFrameRead,
         NothingRemembered

(***************************************************************************)
(* However the bytes of a stream are cut into reads, whatever the size of  *)
(* the buffers, the lengths of the frames and the calls in between: the    *)
(* codec stays in step with the stream, in its count of the payload that   *)
(* is left and in the rotation of the mask key (read_frame, read_continua- *)
(* tion).  It holds of a websocket that serves one connection only.        *)
(***************************************************************************)
THEOREM FramingCorrect ==
  ASSUME ReuseWebSocket = FALSE PROVE Spec => []FramingInStep
<1>1. Init => FramingInv
  BY FramingInit
<1>2. FramingInv /\ [Next]_vars => FramingInv'
  BY FramingStep
<1>3. FramingInv => FramingInStep
  BY DEF FramingInv
<1> QED
  BY <1>1, <1>2, <1>3, PTL DEF Spec

-----------------------------------------------------------------------------
(***************************************************************************)
(* Messages.  The frames of a fragmented message must come to read whole,  *)
(* and so must a control frame between them: what follows does not hold    *)
(* with Cuts = "anywhere" (the run FragmentCut, ContinuationsExpected).    *)
(* Framing in step says nothing of messages: what makes the reports right  *)
(* is that read knows the type of the message that goes on, whatever the   *)
(* peer has under way.                                                     *)
(***************************************************************************)
FragmentsWhole == ReuseWebSocket = FALSE /\ Cuts # "anywhere"

MessagesInv ==
  /\ FramingInv
  /\ MessageInv(ws, inbox, off, peer)
  /\ ContinuationsExpected

(* InMessage says that a message goes on at the current frame.             *)
LEMMA InMessageIsWithin == TypeOK => (InMessage <=> Within(inbox, peer))
BY WithinMeans DEF InMessage, TypeOK

(* A frame that may be cut is final, with no message around it.            *)
LEMMA CutIsPart ==
  ASSUME FragmentsWhole, TypeOK, NEW from, NEW to,
         MayCut \/ WholeFrame(from, to)
  PROVE  \/ MayBePart(inbox, peer)
         \/ from < HeaderLen(At(inbox))
         \/ from >= FrameLen(At(inbox)) /\ to >= At(inbox).len
BY InMessageIsWithin
   DEF FragmentsWhole, MayCut, WholeFrame, MayBePart, Current, At

(* What a step of Read makes of the messages, without its choices.         *)
LEMMA ReadMessages ==
  ASSUME FragmentsWhole, MessagesInv, Read
  PROVE  /\ MessageInv(ws', inbox', off', peer') /\ ContinuationsExpected'
         /\ ret'.err = "None" =>
              /\ ReportsHead
              /\ ~ret'.starved => ret'.len_from > 0
<1>1. TypeOK /\ Current \in Frame /\ Current = At(inbox)
  BY CurrentType, EndpointReads DEF MessagesInv, FramingInv
<1>2. Available \in Int
  BY <1>1, FrameLenType DEF Available, TypeOK
<1> PICK from \in 0..Available, to \in ToLens, status \in CloseStatus :
      ReadCall(from, to, status)
  BY DEF Read
<1>3. from \in Nat /\ to \in Nat
  BY <1>2, EndpointAssumption
<1> DEFINE r == read(ws, At(inbox), status, from, to)
           l == r.ret.len_from
<1>4. /\ ~failed /\ ws' = r.ws /\ ret' = r.ret /\ Consume(l) /\ peer' = peer
      /\ MayCut \/ WholeFrame(from, to)
  BY <1>1 DEF ReadCall
<1>5. /\ ReaderInv(ws, inbox, off) /\ MessageInv(ws, inbox, off, peer)
      /\ inbox' = FramesAfter(inbox, off, l) /\ off' = OffAfter(inbox, off, l)
  BY <1>4, EndpointReads DEF MessagesInv
<1>6. /\ r.ret.err # "UnexpectedContinuationFrame"
      /\ MessageInv(r.ws, FramesAfter(inbox, off, l), OffAfter(inbox, off, l),
                    peer)
      /\ r.ret.err = "None" => ReportsFrame(ws, inbox, off, r)
  BY <1>1, <1>3, <1>4, <1>5, CutIsPart, ReadReports
<1>7. r.ret.len_from \in Nat
  BY <1>1, <1>3, ReadType DEF TypeOK, Return
<1> HIDE DEF r
<1>8. MessageInv(ws', inbox', off', peer') /\ ContinuationsExpected'
  BY <1>4, <1>5, <1>6 DEF ContinuationsExpected
<1>9. ASSUME ret'.err = "None"
      PROVE  /\ ReportsHead
             /\ ~ret'.starved => ret'.len_from > 0
  <2>1. ReportsFrame(ws, inbox, off, r)
    BY <1>4, <1>6, <1>9
  <2>2. inbox # <<>> /\ At(inbox) = Head(inbox) /\ inbox \in Seq(Frame)
    BY <1>1, <2>1 DEF ReportsFrame, At, TypeOK
  <2>3. FrameConsumed <=> Ends(inbox, off, l)
    <3>1. Tail(inbox) # inbox
      BY <2>2
    <3> QED
      BY <1>5, <3>1 DEF FrameConsumed, FramesAfter
  <2>4. ReportsHead
    BY <1>4, <2>1, <2>3 DEF ReportsHead, ReportsFrame
  <2>5. ~ret'.starved => ret'.len_from > 0
    BY <1>4, <1>7, <2>1 DEF ReportsFrame
  <2> QED
    BY <2>4, <2>5
<1> QED
  BY <1>8, <1>9

(* Only Read answers as read does.                                         *)
LEMMA OnlyReadDelivers == TypeOK /\ Next /\ Delivered => Read
<1> SUFFICES ASSUME TypeOK, Next, ~Read PROVE ret'.call # "read"
  BY DEF Delivered
<1>1. ws \in WebSocket
  BY DEF TypeOK
<1>2. CASE PeerSends \/ PeerTakes
  BY <1>2 DEF PeerSends, PeerTakes, returns
<1>3. {"None", "Unknown", "HttpHeaderIncomplete", "HttpError"} \subseteq Error
  BY DEF Error
<1>4. CASE ServerAccept
  BY <1>1, <1>3, <1>4, OpeningEffect DEF ServerAccept, Opens, OpeningStep
<1>5. CASE ClientConnect
  BY <1>1, <1>3, <1>5, OpeningEffect DEF ClientConnect, Opens, OpeningStep
<1>6. CASE ClientAccept
  BY <1>1, <1>3, <1>6, OpeningEffect DEF ClientAccept, Opens, OpeningStep
<1>7. CASE Write
  BY <1>1, <1>7, WriteEffect DEF Write, WriteCall, Sends, ReaderUntouched
<1>8. CASE Close
  BY <1>1, <1>8, CloseEffect DEF Close, CloseCall, Sends, ReaderUntouched
<1> QED
  BY <1>2, <1>4, <1>5, <1>6, <1>7, <1>8 DEF Next

(* MessagesInv is preserved by each action.                                *)
LEMMA MessagesStep ==
  ASSUME FragmentsWhole, MessagesInv, [Next]_vars PROVE MessagesInv'
<1> DEFINE M == MessageInv(ws', inbox', off', peer') /\ ContinuationsExpected'
<1>1. FramingInv' /\ TypeOK /\ ws \in WebSocket
  BY FramingStep DEF MessagesInv, FragmentsWhole, FramingInv, TypeOK
<1>2. MessageInv(ws, inbox, off, peer) /\ inbox \in Seq(Frame) /\ peer \in Wire
  BY <1>1 DEF MessagesInv, TypeOK
<1> SUFFICES M
  BY <1>1 DEF MessagesInv
<1>3. CASE PeerSends
  <2> PICK op_code \in PeerOpCodes, fin \in BOOLEAN, ext \in ExtLens,
           len \in PayloadLens, status \in CloseStatus :
        LET f == PeerFrame(op_code, fin, ext, len, status)
        IN  /\ WireAfter(peer, f) # "Broken"
            /\ inbox' = Append(inbox, f)
            /\ peer' = WireAfter(peer, f)
    BY <1>3 DEF PeerSends
  <2> DEFINE f == PeerFrame(op_code, fin, ext, len, status)
  <2>1. f \in Frame /\ WireAfter(peer, f) # "Broken"
    BY <1>1, PeerFrameType
  <2>2. f.op_code \in DataOpCode \cup ControlOpCode => f.msg = f.op_code
    BY DEF PeerFrame, DataOpCode, ControlOpCode
  <2>3. inbox' = Append(inbox, f) /\ peer' = WireAfter(peer, f)
    OBVIOUS
  <2> HIDE DEF f
  <2>4. PeerMaySend(peer, f)
    BY <2>1, <2>2 DEF PeerMaySend
  <2>5. MessageInv(ws, inbox', off, peer')
    BY <1>2, <2>3, <2>4, AppendKeepsMessages
  <2> QED
    BY <1>3, <2>5 DEF PeerSends, ContinuationsExpected, returns
<1>4. CASE PeerTakes
  BY <1>2, <1>4 DEF PeerTakes, ContinuationsExpected, returns
<1>5. ASSUME NEW r, OpeningStep(ws, r), Opens(r)
      PROVE  M
  <2>1. ws' = r.ws /\ ret' = r.ret
    BY <1>5 DEF Opens
  <2>2. ContinuationsExpected'
    BY <1>5, <2>1 DEF OpeningStep, ContinuationsExpected
  <2>3. MessageInv(ws', inbox, off, peer)
    BY <1>2, <1>5, <2>1, SameReader DEF OpeningStep
  <2>4. CASE r.ret.err # "None"
    BY <1>5, <2>2, <2>3, <2>4 DEF Opens
  <2>5. CASE r.ret.err = "None"
    <3>1. ws.state \notin {"Open", "CloseSent", "CloseReceived", "Closed"}
      BY <1>5, <2>5 DEF Opens, MayOpen, OpeningStep, FragmentsWhole
    <3>2. ws.continuation_read.op_code = "None"
      BY <1>1, <3>1 DEF MessagesInv, FramingInv, NotYetOpen,
           NothingRemembered, WebSocket, WebSocketState
    <3>3. ws'.continuation_read.op_code = "None"
      BY <1>5, <2>1, <3>2 DEF OpeningStep
    <3>4. inbox' = <<>> /\ peer' = "None"
      BY <1>5, <2>5 DEF Opens, NewStreams
    <3>5. \A m : ~MessageFrom(<<>>, 1, "None", m)
      BY DEF MessageFrom, DataOpCode
    <3>6. StreamInv(<<>>, "None")
      BY DEF StreamInv
    <3> QED
      BY <2>2, <3>3, <3>4, <3>5, <3>6 DEF MessageInv
  <2> QED
    BY <2>4, <2>5
<1>6. {"None", "Unknown", "HttpHeaderIncomplete", "HttpError"} \subseteq Error
  BY DEF Error
<1>7. CASE ServerAccept
  BY <1>1, <1>5, <1>6, <1>7, OpeningEffect DEF ServerAccept
<1>8. CASE ClientConnect
  BY <1>1, <1>5, <1>6, <1>8, OpeningEffect DEF ClientConnect
<1>9. CASE ClientAccept
  BY <1>1, <1>5, <1>6, <1>9, OpeningEffect DEF ClientAccept
<1>10. CASE Read
  BY <1>10, ReadMessages
<1>11. ASSUME NEW r, Sends(r), ReaderUntouched(ws, r)
       PROVE  M
  <2>1. MessageInv(r.ws, inbox, off, peer)
    BY <1>2, <1>11, SameReader DEF ReaderUntouched
  <2> QED
    BY <1>11, <2>1 DEF Sends, ReaderUntouched, ContinuationsExpected
<1>12. CASE Write
  BY <1>1, <1>11, <1>12, WriteEffect DEF Write, WriteCall
<1>13. CASE Close
  BY <1>1, <1>11, <1>13, CloseEffect DEF Close, CloseCall
<1>14. CASE UNCHANGED vars
  BY <1>2, <1>14 DEF vars, MessagesInv, ContinuationsExpected
<1> QED
  BY <1>3, <1>4, <1>7, <1>8, <1>9, <1>10, <1>12, <1>13, <1>14 DEF Next

(* MessagesInv holds in the initial states.                                *)
LEMMA MessagesInit == ASSUME Init PROVE MessagesInv
<1>1. FramingInv
  BY FramingInit
<1>2. ws.continuation_read.op_code = "None" /\ ContinuationsExpected
  BY DEF Init, new_websocket, NoContinuation, ContinuationsExpected, returns
<1>3. \A m : ~MessageFrom(<<>>, 1, "None", m)
  BY DEF MessageFrom, DataOpCode
<1>4. StreamInv(<<>>, "None")
  BY DEF StreamInv
<1> QED
  BY <1>1, <1>2, <1>3, <1>4 DEF Init, MessagesInv, MessageInv

(***************************************************************************)
(* Whatever messages the peer sends, in how many frames and with what      *)
(* control frames between them, read never takes a frame for a             *)
(* continuation of no message.                                             *)
(***************************************************************************)
THEOREM ContinuationsCorrect ==
  ASSUME FragmentsWhole PROVE Spec => []ContinuationsExpected
<1>1. Init => MessagesInv
  BY MessagesInit
<1>2. MessagesInv /\ [Next]_vars => MessagesInv'
  BY MessagesStep
<1>3. MessagesInv => ContinuationsExpected
  BY DEF MessagesInv
<1> QED
  BY <1>1, <1>2, <1>3, PTL DEF Spec

(***************************************************************************)
(* What read reports is what the peer sent, whatever the lengths of its    *)
(* frames and of the buffers.  Of a data frame, a Ping or a Pong: the type *)
(* of the message, its end on the last byte of its last frame, the number  *)
(* of bytes.  Of a close frame that is read whole: its end, its status and *)
(* the number of bytes; of one that is read in part the type only, since   *)
(* the code reports the end of it too early (the run CloseFrameCut).       *)
(***************************************************************************)
THEOREM ReportsCorrect ==
  ASSUME FragmentsWhole PROVE Spec => ReadReportsTheStream
<1>1. Init => MessagesInv
  BY MessagesInit
<1>2. MessagesInv /\ [Next]_vars => MessagesInv'
  BY MessagesStep
<1>3. MessagesInv /\ [Next]_vars => [Delivered => ReportsHead]_vars
  <2> SUFFICES ASSUME MessagesInv, Next, Delivered PROVE ReportsHead
    OBVIOUS
  <2>1. Read
    BY OnlyReadDelivers DEF MessagesInv, FramingInv
  <2> QED
    BY <2>1, ReadMessages DEF Delivered
<1> QED
  BY <1>1, <1>2, <1>3, PTL DEF Spec, ReadReportsTheStream

(***************************************************************************)
(* A read that succeeds with a byte to read and room for one takes a byte: *)
(* no frame, however short or cut, leaves the application reading in vain. *)
(***************************************************************************)
THEOREM ProgressCorrect ==
  ASSUME FragmentsWhole PROVE Spec => ReadMakesProgress
<1>1. Init => MessagesInv
  BY MessagesInit
<1>2. MessagesInv /\ [Next]_vars => MessagesInv'
  BY MessagesStep
<1>3. MessagesInv /\ [Next]_vars
        => [Delivered /\ ~ret'.starved => ret'.len_from > 0]_vars
  <2> SUFFICES ASSUME MessagesInv, Next, Delivered, ~ret'.starved
               PROVE  ret'.len_from > 0
    OBVIOUS
  <2>1. Read
    BY OnlyReadDelivers DEF MessagesInv, FramingInv
  <2> QED
    BY <2>1, ReadMessages DEF Delivered
<1> QED
  BY <1>1, <1>2, <1>3, PTL DEF Spec, ReadMakesProgress

-----------------------------------------------------------------------------
(***************************************************************************)
(* Writing and closing, when to buffers are large enough and no Ping or    *)
(* Pong is written in a fragmented message.                                *)
(***************************************************************************)
Disciplined ==
  /\ SmallWriteBuffers = FALSE
  /\ ControlInMessage = FALSE
  /\ ReuseWebSocket = FALSE

WriteInv == TypeOK /\ WriterInv(ws, tx)

(* What a call that writes does to the websocket and to the stream.        *)
LEMMA SendsKeeps ==
  ASSUME NEW r, Sends(r), Written(ws, tx, r), WriterInv(ws, tx)
  PROVE  WriterInv(ws', tx')
<1>1. CASE r.sent = <<>> /\ r.ws = ws
  BY <1>1 DEF Sends
<1>2. ASSUME NEW f, SendsOne(ws, tx, r, f)
      PROVE  WriterInv(ws', tx')
  BY <1>2 DEF Sends, SendsOne
<1> QED
  BY <1>1, <1>2 DEF Written

(* The effect of a step of Write or Close, without its choices.            *)
LEMMA WritesOrCloses ==
  ASSUME Disciplined, WriteInv, Write \/ Close
  PROVE  \E r : Sends(r) /\ Written(ws, tx, r)
<1>1. CASE Write
  <2> PICK m \in SendMessageType, e \in BOOLEAN, count \in Nat,
           status \in CloseStatus, to \in Nat :
        /\ MayWrite(ws, tx, m, e)
        /\ Sends(write(ws, m, e, count, status, to))
    BY <1>1, EndpointAssumption DEF Write, WriteCall, Disciplined, MayWrite
  <2> DEFINE r == write(ws, m, e, count, status, to)
  <2>1. r.ret.err # "WriteToBufferTooSmall"
    BY DEF Sends, Disciplined
  <2>2. Written(ws, tx, r)
    BY <2>1, WriteKeeps DEF WriteInv
  <2> QED
    BY <2>2
<1>2. CASE Close
  <2> PICK status \in CloseStatus, d \in Nat, to \in Nat :
        Sends(close(ws, status, d, to))
    BY <1>2, EndpointAssumption DEF Close, CloseCall
  <2> DEFINE r == close(ws, status, d, to)
  <2>1. r.ret.err # "WriteToBufferTooSmall"
    BY DEF Sends, Disciplined
  <2>2. Written(ws, tx, r)
    BY <2>1, CloseKeeps DEF WriteInv
  <2> QED
    BY <2>2
<1> QED
  BY <1>1, <1>2

(***************************************************************************)
(* The close handshake relates the state to what either side has sent:     *)
(* WriteInv covers this side, and a close frame of the peer can be read    *)
(* only while it is on the way.                                            *)
(***************************************************************************)
CloseInv ==
  /\ FramingInv
  /\ WriteInv
  /\ \A i \in DOMAIN inbox :
       inbox[i].op_code = "ConnectionClose" => peer = "Closed"
  /\ ws.state \in {"CloseReceived", "Closed"} => peer = "Closed"

(* WriteInv is preserved by each action.                                   *)
LEMMA WriteInvStep ==
  Disciplined /\ FramingInv /\ WriteInv /\ [Next]_vars => WriteInv'
<1> SUFFICES ASSUME Disciplined, FramingInv, WriteInv, [Next]_vars
             PROVE  WriteInv'
  OBVIOUS
<1>1. TypeOK /\ TypeOK' /\ ws \in WebSocket /\ WriterInv(ws, tx)
  BY TypeStep DEF WriteInv, TypeOK
<1> DEFINE G == WriterInv(ws', tx')
<1>0. ws' \in WebSocket
  BY <1>1 DEF TypeOK
<1> SUFFICES G
  BY <1>1 DEF WriteInv
<1>2. CASE PeerSends
  BY <1>0, <1>1, <1>2 DEF PeerSends, WriterInv, NotYetOpen
<1>3. CASE PeerTakes
  BY <1>0, <1>1, <1>3 DEF PeerTakes, WriterInv, NotYetOpen
<1>4. ASSUME NEW r, OpeningStep(ws, r), Opens(r),
             r.ws.is_write_continuation = ws.is_write_continuation
      PROVE  G
  <2>1. /\ ws.state \notin {"CloseSent", "CloseReceived", "Closed"}
        /\ ws' = r.ws
    BY <1>4 DEF Opens, MayOpen, Disciplined
  <2>2. CASE ws.state = "Open"
    <3>1. ws'.state = "Open" /\ tx' = tx
      BY <1>4, <2>1, <2>2 DEF Opens, OpeningStep
    <3> QED
      BY <1>0, <1>1, <1>4, <2>1, <2>2, <3>1 DEF WriterInv, NotYetOpen
  <2>3. CASE NotYetOpen
    <3>1. tx = "None" /\ ~ws.is_write_continuation
      BY <1>0, <1>1, <2>3 DEF WriterInv, NotYetOpen
    <3>2. tx' = "None"
      BY <1>4, <3>1 DEF Opens, NewStreams
    <3>3. ws'.state \notin {"CloseSent", "Closed"}
      BY <1>4, <2>1 DEF OpeningStep
    <3> QED
      BY <1>0, <1>1, <1>4, <2>1, <3>1, <3>2, <3>3
         DEF WriterInv, Wire, DataOpCode
  <2> QED
    BY <1>0, <1>1, <2>1, <2>2, <2>3 DEF WebSocket, WebSocketState, NotYetOpen
<1>5. {"None", "Unknown", "HttpHeaderIncomplete", "HttpError"} \subseteq Error
  BY DEF Error
<1>6. \A http : \A r \in {server_accept(ws, http), client_connect(ws, http),
                          client_accept(ws, http)} :
        r.ws.is_write_continuation = ws.is_write_continuation
  BY <1>1 DEF server_accept, client_connect, client_accept, handshake,
              WebSocket
<1>7. CASE ServerAccept
  BY <1>0, <1>1, <1>4, <1>5, <1>6, <1>7, OpeningEffect DEF ServerAccept
<1>8. CASE ClientConnect
  BY <1>0, <1>1, <1>4, <1>5, <1>6, <1>8, OpeningEffect DEF ClientConnect
<1>9. CASE ClientAccept
  BY <1>0, <1>1, <1>4, <1>5, <1>6, <1>9, OpeningEffect DEF ClientAccept
<1>10. CASE Read
  <2>1. /\ ws'.is_write_continuation = ws.is_write_continuation /\ tx' = tx
        /\ \/ ws'.state = ws.state
           \/ ws.state = "Open" /\ ws'.state = "CloseReceived"
           \/ ws.state = "CloseSent" /\ ws'.state = "Closed"
    BY <1>0, <1>1, <1>10, ReadEffect
  <2> QED
    BY <1>0, <1>1, <2>1 DEF WriterInv, NotYetOpen
<1>11. CASE Write \/ Close
  BY <1>0, <1>1, <1>11, WritesOrCloses, SendsKeeps DEF WriteInv
<1>12. CASE UNCHANGED vars
  BY <1>0, <1>1, <1>12 DEF vars
<1> QED
  BY <1>2, <1>3, <1>7, <1>8, <1>9, <1>10, <1>11, <1>12 DEF Next

(* The closing states that read enters follow a close frame of the peer.   *)
LEMMA ReadClose ==
  ASSUME CloseInv, Read, ws'.state # ws.state PROVE peer = "Closed"
<1>1. TypeOK /\ ws.continuation_read.op_code = "ConnectionClose"
         => ws.state \in {"CloseReceived", "Closed"}
  BY DEF CloseInv, FramingInv, CloseFrameRead
<1>2. Current.op_code = "ConnectionClose"
  BY <1>1, ReadEffect DEF CloseInv, FramingInv
<1>3. inbox # <<>> /\ Current = Head(inbox)
  BY <1>2 DEF Current, NoFrame
<1>4. inbox \in Seq(Frame)
  BY DEF CloseInv, FramingInv, TypeOK
<1> QED
  BY <1>2, <1>3, <1>4 DEF CloseInv

(* CloseInv is preserved by each action.                                   *)
LEMMA CloseInvStep ==
  Disciplined /\ CloseInv /\ [Next]_vars => CloseInv'
<1> SUFFICES ASSUME Disciplined, CloseInv, [Next]_vars PROVE CloseInv'
  OBVIOUS
<1> DEFINE P == \A i \in DOMAIN inbox :
                  inbox[i].op_code = "ConnectionClose" => peer = "Closed"
           Q == ws.state \in {"CloseReceived", "Closed"} => peer = "Closed"
<1>1. FramingInv' /\ WriteInv'
  BY FramingStep, WriteInvStep DEF CloseInv, Disciplined
<1>2. TypeOK /\ ws \in WebSocket /\ inbox \in Seq(Frame)
  BY DEF CloseInv, WriteInv, TypeOK
<1>3. CASE PeerSends
  <2> PICK f : /\ inbox' = Append(inbox, f) /\ peer' = WireAfter(peer, f)
               /\ WireAfter(peer, f) # "Broken"
    BY <1>3 DEF PeerSends
  <2>1. f.op_code = "ConnectionClose" => peer' = "Closed"
    BY DEF WireAfter, DataOpCode
  <2>2. peer # "Closed"
    BY DEF WireAfter
  <2>3. \A i \in DOMAIN inbox : inbox[i].op_code # "ConnectionClose"
    BY <2>2 DEF CloseInv
  <2>4. P'
    BY <1>2, <2>1, <2>3
  <2>5. Q'
    BY <1>3, <2>2 DEF PeerSends, CloseInv
  <2> QED
    BY <1>1, <2>4, <2>5 DEF CloseInv
<1>4. CASE PeerTakes
  BY <1>1, <1>4 DEF PeerTakes, CloseInv
<1>5. ASSUME NEW r, OpeningStep(ws, r), Opens(r)
      PROVE  CloseInv'
  <2>1. ws.state \notin {"CloseSent", "CloseReceived", "Closed"}
    BY <1>5 DEF Opens, MayOpen, Disciplined
  <2>2. Q'
    BY <1>5, <2>1 DEF Opens, OpeningStep
  <2>3. P'
    <3>1. CASE r.ret.err = "None"
      BY <1>5, <3>1 DEF Opens, NewStreams
    <3>2. CASE r.ret.err # "None"
      BY <1>5, <3>2 DEF Opens, CloseInv
    <3> QED
      BY <3>1, <3>2
  <2> QED
    BY <1>1, <2>2, <2>3 DEF CloseInv
<1>6. {"None", "Unknown", "HttpHeaderIncomplete", "HttpError"} \subseteq Error
  BY DEF Error
<1>7. CASE ServerAccept
  BY <1>2, <1>5, <1>6, <1>7, OpeningEffect DEF ServerAccept
<1>8. CASE ClientConnect
  BY <1>2, <1>5, <1>6, <1>8, OpeningEffect DEF ClientConnect
<1>9. CASE ClientAccept
  BY <1>2, <1>5, <1>6, <1>9, OpeningEffect DEF ClientAccept
<1>10. CASE Read
  <2>1. peer' = peer
    BY <1>10 DEF Read, ReadCall
  <2>2. P'
    <3>1. CASE inbox' = inbox
      BY <2>1, <3>1 DEF CloseInv
    <3>2. CASE inbox # <<>> /\ inbox' = Tail(inbox)
      <4>1. \A i \in DOMAIN inbox' :
              i + 1 \in DOMAIN inbox /\ inbox'[i] = inbox[i + 1]
        BY <1>2, <3>2
      <4> QED
        BY <2>1, <4>1 DEF CloseInv
    <3> QED
      BY <1>10, <3>1, <3>2 DEF Read, ReadCall, Consume
  <2>3. Q'
    BY <1>10, <2>1, ReadClose DEF CloseInv
  <2> QED
    BY <1>1, <2>2, <2>3 DEF CloseInv
<1>11. CASE Write \/ Close
  <2>1. inbox' = inbox /\ peer' = peer
    BY <1>11 DEF Write, WriteCall, Close, CloseCall, Sends
  <2>2. Q'
    BY <1>11, <2>1, WritesOrCloses DEF CloseInv, Sends, Written
  <2> QED
    BY <1>1, <2>1, <2>2 DEF CloseInv
<1>12. CASE UNCHANGED vars
  BY <1>1, <1>12 DEF vars, CloseInv
<1> QED
  BY <1>3, <1>4, <1>7, <1>8, <1>9, <1>10, <1>11, <1>12 DEF Next

(* CloseInv holds in the initial states.                                   *)
LEMMA CloseInvInit == ASSUME Init PROVE CloseInv
<1>1. TypeOK
  BY TypeInit
<1>2. /\ ws.continuation_read.op_code = "None" /\ ws.state = "None"
      /\ ~ws.is_write_continuation
  BY DEF Init, new_websocket, NoContinuation
<1>3. FramingInv
  BY <1>1, <1>2
     DEF Init, FramingInv, FramingInStep, AtFrameBoundary, CloseFrameRead,
         NothingRemembered
<1>4. WriteInv
  BY <1>1, <1>2 DEF Init, TypeOK, WriteInv, WriterInv, DataOpCode
<1> QED
  BY <1>2, <1>3, <1>4 DEF Init, CloseInv

(***************************************************************************)
(* The frames of write and close follow the framing rules for every length *)
(* of payload and every order of calls, if to buffers are large enough and *)
(* no Ping or Pong is written while a message is fragmented.               *)
(***************************************************************************)
THEOREM WireCorrect == ASSUME Disciplined PROVE Spec => []WireWellFormed
<1>1. Init => CloseInv
  BY CloseInvInit
<1>2. CloseInv /\ [Next]_vars => CloseInv'
  BY CloseInvStep
<1>3. CloseInv => WireWellFormed
  BY DEF CloseInv, WriteInv, WriterInv, WireWellFormed
<1> QED
  BY <1>1, <1>2, <1>3, PTL DEF Spec

(***************************************************************************)
(* Under the same conditions the state of the websocket tells the truth of *)
(* the close handshake: a close frame of ours is in the stream exactly in  *)
(* CloseSent and Closed, and the peer has sent one in CloseReceived and    *)
(* Closed.                                                                 *)
(***************************************************************************)
THEOREM CloseCorrect == ASSUME Disciplined PROVE Spec => []CloseAgrees
<1>1. Init => CloseInv
  BY CloseInvInit
<1>2. CloseInv /\ [Next]_vars => CloseInv'
  BY CloseInvStep
<1>3. CloseInv => CloseAgrees
  BY DEF CloseInv, WriteInv, WriterInv, CloseAgrees
<1> QED
  BY <1>1, <1>2, <1>3, PTL DEF Spec

-----------------------------------------------------------------------------
(* The headers of the frames written.                                      *)

(* Every header that write_frame writes is read as it was meant.           *)
LEMMA HeaderRoundTrip ==
  ASSUME NEW f \in Frame, f.op_code \in WebSocketOpCode,
         f.ext = length_bytes(f.len)
  PROVE  HeaderDecodes(f)
<1> DEFINE h == encode_header(f.op_code, f.fin, f.masked, f.len)
           d == decode_header(h)
<1>1. f.len \in Nat /\ f.fin \in BOOLEAN /\ f.masked \in BOOLEAN
  BY DEF Frame
<1>2. /\ h.byte1 = (IF f.fin THEN 128 ELSE 0) + OpCodeByte[f.op_code]
      /\ h.byte2 = (IF f.masked THEN 128 ELSE 0) + length_code(f.len)
  BY DEF encode_header
<1>3. OpCodeByte[f.op_code] \in 0..15 /\ length_code(f.len) \in 0..127
  BY <1>1, GetOpCode, LengthRoundTrip
<1>4. read_length(length_code(f.len), h.ext) =
        [len |-> f.len, ext |-> f.ext]
  BY <1>1, LengthRoundTrip
<1> HIDE DEF h
<1>5. /\ h.byte1 % 16 = OpCodeByte[f.op_code]
      /\ h.byte1 >= 128 <=> f.fin
  BY <1>1, <1>2, <1>3
<1>6. /\ h.byte2 % 128 = length_code(f.len)
      /\ h.byte2 >= 128 <=> f.masked
  BY <1>1, <1>2, <1>3
<1>7. (h.byte1 >= 128) = f.fin /\ (h.byte2 >= 128) = f.masked
  BY <1>1, <1>5, <1>6
<1>8. d = [op_code |-> get_op_code(h.byte1 % 16), fin |-> h.byte1 >= 128,
           masked |-> h.byte2 >= 128,
           ext |-> read_length(h.byte2 % 128, h.ext).ext,
           len |-> read_length(h.byte2 % 128, h.ext).len]
  BY Zenon DEF decode_header
<1>9. get_op_code(h.byte1 % 16) = f.op_code
  BY <1>5, GetOpCode
<1>10. /\ read_length(h.byte2 % 128, h.ext).ext = f.ext
       /\ read_length(h.byte2 % 128, h.ext).len = f.len
  BY <1>4, <1>6
<1>11. d = [op_code |-> f.op_code, fin |-> f.fin, masked |-> f.masked,
            ext |-> f.ext, len |-> f.len]
  BY <1>7, <1>8, <1>9, <1>10, Zenon
<1> QED
  BY <1>11, Zenon DEF HeaderDecodes, h

(* What write and close put into the stream has such a header.             *)
LEMMA WritesHeader ==
  ASSUME NEW w \in WebSocket, NEW m \in SendMessageType, NEW e \in BOOLEAN,
         NEW count \in Nat, NEW status \in CloseStatus, NEW to \in Nat
  PROVE  \A r \in {write(w, m, e, count, status, to),
                   close(w, status, count, to)} :
           r.sent = <<>> \/ \E f \in Frame : r.sent = <<f>> /\ HeaderDecodes(f)
<1> DEFINE Decodes(s) ==
             s = <<>> \/ \E g \in Frame : s = <<g>> /\ HeaderDecodes(g)
<1>1. ASSUME NEW op_code \in WebSocketOpCode, NEW fin \in BOOLEAN,
             NEW n \in Nat, NEW msg \in DataOpCode \cup ControlOpCode
      PROVE  Decodes(write_frame(encode_frame(w, op_code, fin, n, status, msg),
                                 to).sent)
  <2> DEFINE f == encode_frame(w, op_code, fin, n, status, msg)
  <2>1. f \in Frame
    BY DEF encode_frame, Frame, length_bytes, WebSocket
  <2>2. f.op_code \in WebSocketOpCode /\ f.ext = length_bytes(f.len)
    BY DEF encode_frame
  <2>3. HeaderDecodes(f)
    BY <2>1, <2>2, HeaderRoundTrip
  <2> HIDE DEF f
  <2>4. write_frame(f, to).sent \in {<<>>, <<f>>}
    BY DEF write_frame
  <2> QED
    BY <2>1, <2>3, <2>4 DEF f
<1>2. /\ to_op_code(m) \in DataOpCode \cup ControlOpCode
      /\ write_op_code(w, m) \in WebSocketOpCode
  BY DEF to_op_code, write_op_code, SendMessageType, WebSocketOpCode,
         DataOpCode, ControlOpCode
<1>3. /\ "ConnectionClose" \in WebSocketOpCode
      /\ "ConnectionClose" \in DataOpCode \cup ControlOpCode
      /\ close_len(count) \in Nat
  BY DEF WebSocketOpCode, ControlOpCode, close_len
<1> HIDE DEF Decodes
<1>4. Decodes(<<>>)
  BY DEF Decodes
<1>5. Decodes(write(w, m, e, count, status, to).sent)
  BY <1>1, <1>2, <1>4 DEF write, refused
<1>6. Decodes(close(w, status, count, to).sent)
  BY <1>1, <1>3, <1>4 DEF close, refused
<1> QED
  BY <1>5, <1>6 DEF Decodes

(***************************************************************************)
(* For every payload length the header of every frame written says to the  *)
(* reader what the writer meant: the limits of the three encodings agree.  *)
(***************************************************************************)
THEOREM HeadersCorrect == Spec => []HeadersDecode
<1>1. Init => TypeOK /\ HeadersDecode
  <2> SUFFICES ASSUME Init PROVE TypeOK /\ HeadersDecode
    OBVIOUS
  <2>1. TypeOK
    BY TypeInit
  <2>2. outbox = <<>>
    BY DEF Init
  <2> QED
    BY <2>1, <2>2 DEF HeadersDecode
<1>2. TypeOK /\ HeadersDecode /\ [Next]_vars => (TypeOK /\ HeadersDecode)'
  <2> SUFFICES ASSUME TypeOK, HeadersDecode, [Next]_vars
               PROVE  HeadersDecode'
    BY TypeStep
  <2>1. ASSUME outbox' = outbox \/ outbox' = <<>>
        PROVE  HeadersDecode'
    BY <2>1 DEF HeadersDecode
  <2>2. CASE PeerTakes
    BY <2>2 DEF PeerTakes, HeadersDecode, TypeOK
  <2>3. ASSUME NEW r, Sends(r), r.sent = <<>> \/
               \E f \in Frame : r.sent = <<f>> /\ HeaderDecodes(f)
        PROVE  HeadersDecode'
    <3>1. CASE r.sent = <<>>
      BY <2>1, <2>3, <3>1 DEF Sends, TypeOK
    <3>2. ASSUME NEW f \in Frame, r.sent = <<f>>, HeaderDecodes(f)
          PROVE  HeadersDecode'
      BY <2>3, <3>2 DEF Sends, TypeOK, HeadersDecode
    <3> QED
      BY <2>3, <3>1, <3>2
  <2>4. CASE Write
    <3> PICK m \in SendMessageType, e \in BOOLEAN, count \in Nat,
             status \in CloseStatus, to \in Nat :
          Sends(write(ws, m, e, count, status, to))
      BY <2>4, EndpointAssumption DEF Write, WriteCall
    <3> QED
      BY <2>3, WritesHeader DEF TypeOK
  <2>5. CASE Close
    <3> PICK status \in CloseStatus, count \in Nat, to \in Nat :
          Sends(close(ws, status, count, to))
      BY <2>5, EndpointAssumption DEF Close, CloseCall
    <3>1. "Text" \in SendMessageType /\ TRUE \in BOOLEAN
      BY DEF SendMessageType
    <3> QED
      BY <2>3, <3>1, WritesHeader DEF TypeOK
  <2>6. CASE PeerSends \/ Read \/ UNCHANGED vars
    BY <2>1, <2>6 DEF PeerSends, Read, ReadCall, vars
  <2>7. CASE ServerAccept \/ ClientConnect \/ ClientAccept
    BY <2>1, <2>7
       DEF ServerAccept, ClientConnect, ClientAccept, Opens, NewStreams
  <2> QED
    BY <2>2, <2>4, <2>5, <2>6, <2>7 DEF Next
<1> QED
  BY <1>1, <1>2, PTL DEF Spec
=============================================================================
