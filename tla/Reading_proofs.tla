--------------------------- MODULE Reading_proofs ---------------------------
(***************************************************************************)
(* What a sequence of calls of read makes of a stream of frames, whoever   *)
(* owns the websocket and the stream: lemmas on a websocket w, the frames  *)
(* in that are not consumed, and the number off of the bytes that are      *)
(* consumed of the first of them.                                          *)
(***************************************************************************)
EXTENDS Codec_proofs, Sequences

-----------------------------------------------------------------------------
(* One call of read: the two ways to a frame.                              *)

Payload(f, from, to) == min(f.len, to, from - HeaderLen(f))

(* The first read of a frame (read_frame): what it takes, what it reports  *)
(* and what the websocket remembers.                                       *)
StartsFrame(w, f, r, from, n) ==
  /\ f.op_code \in WebSocketOpCode /\ from >= HeaderLen(f)
  /\ n \in Nat /\ n <= f.len
  /\ r.ws.continuation_read =
       IF n < f.len
       THEN [op_code |-> f.op_code, count |-> f.len - n,
             is_fin_bit_set |-> f.fin, masked |-> f.masked,
             rotation |-> rotate_left(f.masked, 0, n)]
       ELSE NoContinuation
  /\ r.ws.continuation_frame_op_code =
       IF f.op_code \notin DataOpCode THEN w.continuation_frame_op_code
       ELSE IF n = f.len /\ f.fin THEN "None" ELSE f.op_code
  /\ IF f.op_code = "ConnectionClose"
     THEN /\ r.ret.err = "None"
          /\ r.ret.message_type \in {"CloseMustReply", "CloseCompleted"}
          /\ r.ret.len_from = HeaderLen(f) + n
          /\ r.ret.len_to = IF n >= 2 THEN n ELSE 0
          /\ r.ret.end_of_message
          /\ r.ret.close_status = IF n >= 2 THEN f.status
                                 ELSE "InternalServerError"
          /\ r.ws.state \in {"CloseReceived", "Closed"}
     ELSE /\ r.ret.err = IF f.op_code = "ContinuationFrame"
                             /\ w.continuation_frame_op_code = "None"
                        THEN "UnexpectedContinuationFrame" ELSE "None"
          /\ r.ret.err = "None" =>
               /\ r.ret.message_type =
                    message_type_of(IF f.op_code = "ContinuationFrame"
                                    THEN w.continuation_frame_op_code
                                    ELSE f.op_code)
               /\ r.ret.len_from = HeaderLen(f) + n
               /\ r.ret.len_to = n
               /\ r.ret.end_of_message = (n = f.len /\ f.fin)
          /\ r.ws.state = w.state

(* A later read of a frame that is no close frame (read_continuation).     *)
ContinuesFrame(w, r, n) ==
  LET cr == w.continuation_read
  IN  /\ n \in Nat /\ n <= cr.count
      /\ r.ws.continuation_read =
           IF n = cr.count /\ cr.is_fin_bit_set THEN NoContinuation
           ELSE [cr EXCEPT !.count = @ - n,
                   !.rotation = rotate_left(cr.masked, @, n)]
      /\ r.ws.continuation_frame_op_code =
           IF n = cr.count /\ cr.is_fin_bit_set THEN "None"
           ELSE w.continuation_frame_op_code
      /\ r.ws.state = w.state
      /\ r.ret.err = IF cr.op_code = "ContinuationFrame"
                         /\ r.ws.continuation_frame_op_code = "None"
                    THEN "UnexpectedContinuationFrame" ELSE "None"
      /\ r.ret.err = "None" =>
           /\ r.ret.message_type =
                message_type_of(IF cr.op_code = "ContinuationFrame"
                                THEN w.continuation_frame_op_code
                                ELSE cr.op_code)
           /\ r.ret.len_from = n /\ r.ret.len_to = n
           /\ r.ret.end_of_message = (n = cr.count /\ cr.is_fin_bit_set)
           /\ n = 0 => cr.count = 0 \/ r.ret.starved

(* A first read of a frame of which the whole header has arrived.          *)
LEMMA StartRead ==
  ASSUME NEW w \in WebSocket, w.state \in {"Open", "CloseSent"},
         w.continuation_read.op_code = "None",
         NEW f \in Frame, NEW status \in CloseStatus,
         NEW from \in Nat, NEW to \in Nat,
         read_frame_error(f, from) = "None"
  PROVE  StartsFrame(w, f, read(w, f, status, from, to), from,
                     Payload(f, from, to))
<1> DEFINE n == Payload(f, from, to)
           p == read_payload(f, from, to)
           v == start_frame(w, p)
           o == override_op_code(v, p.frame)
           starved == from = 0 \/ to = 0
           r == read(w, f, status, from, to)
<1>1. /\ f.op_code \in WebSocketOpCode /\ from >= HeaderLen(f)
      /\ HeaderLen(f) \in Nat /\ f.len \in Nat /\ from - HeaderLen(f) \in Nat
  BY FrameLenType DEF read_frame_error
<1>2. n \in Nat /\ n <= f.len
  BY <1>1, MinProps DEF Payload
<1>3. r = dispatch_frame(v, o, starved)
  BY DEF read
<1>4. /\ p.frame \in FrameReport /\ p.continuation_read \in ContinuationRead
      /\ p.frame.op_code = f.op_code
      /\ p.frame.num_bytes_from = HeaderLen(f) + n
      /\ p.continuation_read =
           IF n < f.len
           THEN [op_code |-> f.op_code, count |-> f.len - n,
                 is_fin_bit_set |-> f.fin, masked |-> f.masked,
                 rotation |-> rotate_left(f.masked, 0, n)]
           ELSE NoContinuation
      /\ f.op_code = "ConnectionClose" =>
           /\ p.frame.is_fin_bit_set
           /\ p.frame.num_bytes_to = IF n >= 2 THEN n ELSE 0
           /\ p.frame.close_status = IF n >= 2 THEN f.status
                                     ELSE "InternalServerError"
      /\ f.op_code # "ConnectionClose" =>
           /\ p.frame.num_bytes_to = n
           /\ p.frame.is_fin_bit_set = (n = f.len /\ f.fin)
  <2>1. p.frame \in FrameReport /\ p.continuation_read \in ContinuationRead
    BY <1>1, ReadPayloadType
  <2> QED
    BY <2>1 DEF read_payload, Payload, frame_read, decode_close_frame
<1> HIDE DEF n, p
<1>5. /\ v \in WebSocket /\ v.state = w.state
      /\ v.continuation_read = p.continuation_read
      /\ v.continuation_frame_op_code =
           IF f.op_code \notin DataOpCode THEN w.continuation_frame_op_code
           ELSE IF n = f.len /\ f.fin THEN "None" ELSE f.op_code
  BY <1>4, StartType DEF start_frame, WebSocket, DataOpCode
<1> HIDE DEF v
<1>6. /\ o \in FrameReport
      /\ o.num_bytes_from = p.frame.num_bytes_from
      /\ o.num_bytes_to = p.frame.num_bytes_to
      /\ o.is_fin_bit_set = p.frame.is_fin_bit_set
      /\ o.close_status = p.frame.close_status
      /\ o.op_code = IF f.op_code = "ContinuationFrame"
                          /\ w.continuation_frame_op_code # "None"
                     THEN w.continuation_frame_op_code ELSE f.op_code
  <2>1. o \in FrameReport
    BY <1>4, <1>5, OverrideType
  <2> QED
    BY <1>4, <1>5, <2>1 DEF override_op_code, FrameReport, DataOpCode
<1> HIDE DEF o, starved
<1>7. starved \in BOOLEAN
  BY DEF starved
<1>8. w.continuation_frame_op_code \in DataOpCode \cup {"None"}
  BY DEF WebSocket
<1>9. /\ r.ws.continuation_read = v.continuation_read
      /\ r.ws.continuation_frame_op_code = v.continuation_frame_op_code
  BY <1>3, <1>5 DEF dispatch_frame, WebSocket
<1>10. CASE f.op_code = "ConnectionClose"
  <2>1. o.op_code = "ConnectionClose"
    BY <1>6, <1>10
  <2>2. /\ r.ret.err = "None"
        /\ r.ret.message_type \in {"CloseMustReply", "CloseCompleted"}
        /\ r.ret.len_from = o.num_bytes_from
        /\ r.ret.len_to = o.num_bytes_to
        /\ r.ret.end_of_message = o.is_fin_bit_set
        /\ r.ret.close_status = o.close_status
        /\ r.ws.state \in {"CloseReceived", "Closed"}
    BY <1>3, <1>5, <2>1 DEF dispatch_frame, to_readresult, WebSocket
  <2> QED
    BY <1>1, <1>2, <1>4, <1>5, <1>6, <1>9, <1>10, <2>2 DEF r, n, StartsFrame
<1>11. CASE f.op_code # "ConnectionClose"
  <2>1. o.op_code # "ConnectionClose"
    BY <1>6, <1>8, <1>11 DEF DataOpCode
  <2>2. r.ws = v
    BY <1>3, <2>1 DEF dispatch_frame
  <2>3. CASE f.op_code = "ContinuationFrame"
               /\ w.continuation_frame_op_code = "None"
    <3>1. r.ret = returns("read", "UnexpectedContinuationFrame")
      BY <1>3, <1>5, <1>6, <2>3 DEF dispatch_frame, DataOpCode
    <3>2. r.ret.err = "UnexpectedContinuationFrame"
      BY <3>1 DEF returns
    <3> QED
      BY <1>1, <1>2, <1>4, <1>5, <1>9, <1>11, <2>2, <2>3, <3>2
         DEF r, n, StartsFrame
  <2>4. CASE ~(f.op_code = "ContinuationFrame"
                 /\ w.continuation_frame_op_code = "None")
    <3>1. o.op_code = IF f.op_code = "ContinuationFrame"
                      THEN w.continuation_frame_op_code ELSE f.op_code
      BY <1>6, <2>4
    <3>2. o.op_code # "ContinuationFrame"
      BY <1>8, <2>4, <3>1 DEF DataOpCode
    <3>3. r.ret = to_readresult(o, message_type_of(o.op_code), starved)
      BY <1>3, <2>1, <3>2 DEF dispatch_frame
    <3>4. /\ r.ret.err = "None"
          /\ r.ret.message_type = message_type_of(o.op_code)
          /\ r.ret.len_from = o.num_bytes_from
          /\ r.ret.len_to = o.num_bytes_to
          /\ r.ret.end_of_message = o.is_fin_bit_set
      BY <3>3 DEF to_readresult
    <3> QED
      BY <1>1, <1>2, <1>4, <1>5, <1>6, <1>9, <1>11, <2>2, <2>4, <3>1, <3>4
         DEF r, n, StartsFrame
  <2> QED
    BY <2>3, <2>4
<1> QED
  BY <1>10, <1>11

(* A later read of a frame (read_continuation), but of a close frame.      *)
LEMMA ContinueRead ==
  ASSUME NEW w \in WebSocket, w.state \in {"Open", "CloseSent"},
         w.continuation_read.op_code \notin {"None", "ConnectionClose"},
         NEW f, NEW status \in CloseStatus, NEW from \in Nat, NEW to \in Nat
  PROVE  ContinuesFrame(w, read(w, f, status, from, to),
                        min(w.continuation_read.count, to, from))
<1> DEFINE cr == w.continuation_read
           n == min(cr.count, to, from)
           p == read_continuation(cr, status, from, to)
           v == continue_frame(w, p)
           starved == from = 0 \/ to = 0
           r == read(w, f, status, from, to)
<1>1. cr \in ContinuationRead /\ cr.count \in Nat
  BY DEF WebSocket, ContinuationRead
<1>2. n \in Nat /\ n <= cr.count
  BY <1>1, MinProps
<1>3. r = dispatch_frame(v, p.frame, starved)
  BY DEF read
<1>4. /\ p.frame \in FrameReport
      /\ p.frame.op_code = cr.op_code
      /\ p.frame.num_bytes_from = n /\ p.frame.num_bytes_to = n
      /\ p.frame.is_fin_bit_set = (n = cr.count /\ cr.is_fin_bit_set)
      /\ p.continuation_read \in ContinuationRead
      /\ p.continuation_read =
           [cr EXCEPT !.count = @ - n,
              !.rotation = rotate_left(cr.masked, @, n)]
  <2>1. p.frame \in FrameReport /\ p.continuation_read \in ContinuationRead
    BY <1>1, ReadContinuationType
  <2> QED
    BY <2>1 DEF read_continuation, frame_read
<1>0. n = 0 => cr.count = 0 \/ starved
  BY <1>1, MinProps
<1> HIDE DEF n, p, starved
<1>5. /\ v \in WebSocket /\ v.state = w.state
      /\ v.continuation_read =
           IF n = cr.count /\ cr.is_fin_bit_set THEN NoContinuation
           ELSE p.continuation_read
      /\ v.continuation_frame_op_code =
           IF n = cr.count /\ cr.is_fin_bit_set THEN "None"
           ELSE w.continuation_frame_op_code
  BY <1>4, ContinueType DEF continue_frame, WebSocket
<1> HIDE DEF v
<1>6. r.ws = v
  BY <1>3, <1>4 DEF dispatch_frame
<1>7. CASE cr.op_code = "ContinuationFrame"
  <2>1. r.ret = IF v.continuation_frame_op_code = "None"
                THEN returns("read", "UnexpectedContinuationFrame")
                ELSE to_readresult(p.frame,
                       message_type_of(v.continuation_frame_op_code), starved)
    BY <1>3, <1>4, <1>7 DEF dispatch_frame
  <2>2. CASE v.continuation_frame_op_code = "None"
    <3>1. r.ret.err = "UnexpectedContinuationFrame"
      BY <2>1, <2>2 DEF returns
    <3> QED
      BY <1>2, <1>4, <1>5, <1>6, <1>7, <2>2, <3>1 DEF r, n, ContinuesFrame
  <2>3. CASE v.continuation_frame_op_code # "None"
    <3>1. /\ r.ret.err = "None"
          /\ r.ret.message_type =
               message_type_of(v.continuation_frame_op_code)
          /\ r.ret.len_from = n /\ r.ret.len_to = n
          /\ r.ret.end_of_message = p.frame.is_fin_bit_set
          /\ r.ret.starved = starved
      BY <1>4, <2>1, <2>3 DEF to_readresult
    <3>2. v.continuation_frame_op_code = w.continuation_frame_op_code
      BY <1>5, <2>3
    <3> QED
      BY <1>0, <1>2, <1>4, <1>5, <1>6, <1>7, <2>3, <3>1, <3>2
         DEF r, n, ContinuesFrame
  <2> QED
    BY <2>2, <2>3
<1>8. CASE cr.op_code # "ContinuationFrame"
  <2>1. r.ret = to_readresult(p.frame, message_type_of(cr.op_code), starved)
    BY <1>3, <1>4, <1>8 DEF dispatch_frame
  <2>2. /\ r.ret.err = "None"
        /\ r.ret.message_type = message_type_of(cr.op_code)
        /\ r.ret.len_from = n /\ r.ret.len_to = n
        /\ r.ret.end_of_message = p.frame.is_fin_bit_set
        /\ r.ret.starved = starved
    BY <1>4, <2>1 DEF to_readresult
  <2> QED
    BY <1>0, <1>2, <1>4, <1>5, <1>6, <1>8, <2>2 DEF r, n, ContinuesFrame
<1> QED
  BY <1>7, <1>8

(* The early returns of read: nothing is taken and nothing changes.        *)
LEMMA NothingRead ==
  ASSUME NEW w, NEW f, NEW status, NEW from, NEW to,
         \/ w.state \notin {"Open", "CloseSent"}
         \/ /\ w.continuation_read.op_code = "None"
            /\ read_frame_error(f, from) # "None"
  PROVE  LET r == read(w, f, status, from, to)
         IN  /\ r.ws = w /\ r.ret.len_from = 0
             /\ r.ret.err \in {"WebSocketNotOpen", "ReadFrameIncomplete",
                               "InvalidOpCode"}
BY DEF read, read_frame_error, returns
-----------------------------------------------------------------------------
(***************************************************************************)
(* The websocket and the stream in step: between frames nothing is         *)
(* remembered but a count of zero, and inside a frame continuation_read    *)
(* says what the stream still holds of it.  A close frame that is read in  *)
(* part drops out of step, which is harmless only because no read is       *)
(* answered any more.                                                      *)
(***************************************************************************)
At(in) == IF in = <<>> THEN NoFrame ELSE Head(in)

Ends(in, off, n) == in # <<>> /\ off + n = FrameLen(At(in))

FramesAfter(in, off, n) == IF Ends(in, off, n) THEN Tail(in) ELSE in
OffAfter(in, off, n) == IF Ends(in, off, n) THEN 0 ELSE off + n

AtBoundary(w, off) ==
  /\ off = 0
  /\ \/ w.continuation_read.op_code = "None"
     \/ w.continuation_read.count = 0 /\ ~w.continuation_read.is_fin_bit_set

Inside(w, in, off) ==
  LET cr == w.continuation_read
      f  == Head(in)
  IN  /\ in # <<>>
      /\ off \in HeaderLen(f)..(FrameLen(f) - 1)
      /\ cr.op_code = f.op_code
      /\ cr.is_fin_bit_set = f.fin
      /\ cr.count = FrameLen(f) - off
      /\ cr.masked = f.masked
      /\ cr.rotation = IF f.masked THEN (off - HeaderLen(f)) % 4 ELSE 0

CloseReadOnce(w) ==
  w.continuation_read.op_code = "ConnectionClose"
    => w.state \in {"CloseReceived", "Closed"}

ReaderInv(w, in, off) ==
  /\ w \in WebSocket /\ in \in Seq(Frame) /\ off \in Nat
  /\ AtBoundary(w, off) \/ Inside(w, in, off)
  /\ CloseReadOnce(w)

(* The frame that read is at is a frame, also when the stream is empty.    *)
LEMMA AtType ==
  ASSUME NEW in \in Seq(Frame)
  PROVE  /\ At(in) \in Frame
         /\ At(in).op_code \in WebSocketOpCode => in # <<>>
         /\ in # <<>> => At(in) = Head(in)
<1>1. NoFrame \in Frame
  BY CloseStatusAssumption
     DEF NoFrame, Frame, DataOpCode, ControlOpCode
<1>2. NoFrame.op_code \notin WebSocketOpCode
  BY DEF NoFrame, WebSocketOpCode, DataOpCode, ControlOpCode
<1> QED
  BY <1>1, <1>2 DEF At

(* The position in the stream has the type of one.                         *)
LEMMA AfterType ==
  ASSUME NEW in \in Seq(Frame), NEW off \in Nat, NEW n \in Nat
  PROVE  FramesAfter(in, off, n) \in Seq(Frame) /\ OffAfter(in, off, n) \in Nat
BY DEF FramesAfter, OffAfter, Ends

(* The stream keeps its position when nothing is taken.                    *)
LEMMA NothingTaken ==
  ASSUME NEW w, NEW in, NEW off, ReaderInv(w, in, off)
  PROVE  FramesAfter(in, off, 0) = in /\ OffAfter(in, off, 0) = off
<1>1. in \in Seq(Frame) /\ off \in Nat
  BY DEF ReaderInv
<1>2. in # <<>> => off < FrameLen(At(in))
  BY <1>1, AtType, FrameLenType DEF ReaderInv, AtBoundary, Inside
<1> QED
  BY <1>1, <1>2 DEF FramesAfter, OffAfter, Ends

(* read_frame starts on the frame at the stream position.                  *)
LEMMA StartKeepsStep ==
  ASSUME NEW w, NEW in, NEW off, ReaderInv(w, in, off),
         w.continuation_read.op_code = "None",
         NEW n \in Nat, n <= At(in).len,
         At(in).op_code \in WebSocketOpCode,
         NEW v,
         v.continuation_read =
           IF n < At(in).len
           THEN [op_code |-> At(in).op_code, count |-> At(in).len - n,
                 is_fin_bit_set |-> At(in).fin, masked |-> At(in).masked,
                 rotation |-> rotate_left(At(in).masked, 0, n)]
           ELSE NoContinuation
  PROVE  LET taken == HeaderLen(At(in)) + n
         IN  /\ in # <<>> /\ off = 0
             /\ Ends(in, off, taken) <=> n = At(in).len
             /\ \/ AtBoundary(v, OffAfter(in, off, taken))
                \/ Inside(v, FramesAfter(in, off, taken),
                          OffAfter(in, off, taken))
<1> DEFINE f == At(in)
           taken == HeaderLen(f) + n
           in2 == FramesAfter(in, off, taken)
           off2 == OffAfter(in, off, taken)
<1>1. in \in Seq(Frame) /\ off \in Nat
  BY DEF ReaderInv
<1>2. f \in Frame /\ in # <<>> /\ f = Head(in)
  BY <1>1, AtType
<1>3. off = 0
  BY <1>2 DEF ReaderInv, AtBoundary, Inside, WebSocketOpCode, DataOpCode,
       ControlOpCode
<1>4. /\ HeaderLen(f) \in Nat /\ f.len \in Nat
      /\ FrameLen(f) = HeaderLen(f) + f.len
  BY <1>2, FrameLenType
<1>5. Ends(in, off, taken) <=> n = f.len
  BY <1>2, <1>3, <1>4 DEF Ends
<1>6. CASE n = f.len
  <2>1. off2 = 0
    BY <1>5, <1>6 DEF OffAfter
  <2>2. v.continuation_read = NoContinuation
    BY <1>4, <1>6
  <2> QED
    BY <1>2, <1>3, <1>5, <2>1, <2>2 DEF AtBoundary, NoContinuation
<1>7. CASE n # f.len
  <2>1. n < f.len
    BY <1>4, <1>7
  <2>2. in2 = in /\ off2 = taken
    BY <1>3, <1>4, <1>5, <1>7 DEF FramesAfter, OffAfter
  <2>3. v.continuation_read =
          [op_code |-> f.op_code, count |-> f.len - n,
           is_fin_bit_set |-> f.fin, masked |-> f.masked,
           rotation |-> rotate_left(f.masked, 0, n)]
    BY <2>1
  <2>4. /\ off2 \in HeaderLen(f)..(FrameLen(f) - 1)
        /\ f.len - n = FrameLen(f) - off2 /\ off2 - HeaderLen(f) = n
    BY <1>4, <2>1, <2>2
  <2>5. rotate_left(f.masked, 0, n) = IF f.masked THEN n % 4 ELSE 0
    BY <1>2 DEF rotate_left, Frame
  <2> HIDE DEF f, in2, off2
  <2>6. Inside(v, in2, off2)
    BY <1>2, <2>2, <2>3, <2>4, <2>5 DEF Inside
  <2> QED
    BY <1>2, <1>3, <1>5, <2>6 DEF f, in2, off2
<1> QED
  BY <1>6, <1>7

(* read_frame goes on with the frame whose head is consumed.               *)
LEMMA ContinueKeepsStep ==
  ASSUME NEW w, NEW in, NEW off, ReaderInv(w, in, off),
         w.continuation_read.op_code # "None",
         NEW n \in Nat, n <= w.continuation_read.count,
         NEW v,
         v.continuation_read =
           IF n = w.continuation_read.count
                /\ w.continuation_read.is_fin_bit_set
           THEN NoContinuation
           ELSE [w.continuation_read EXCEPT !.count = @ - n,
                   !.rotation = rotate_left(w.continuation_read.masked, @, n)]
  PROVE  /\ \/ AtBoundary(v, OffAfter(in, off, n))
            \/ Inside(v, FramesAfter(in, off, n), OffAfter(in, off, n))
         /\ Inside(w, in, off) =>
              (Ends(in, off, n) <=> n = w.continuation_read.count)
<1> DEFINE cr == w.continuation_read
           f == Head(in)
           in2 == FramesAfter(in, off, n)
           off2 == OffAfter(in, off, n)
<1>1. cr \in ContinuationRead /\ cr.count \in Nat /\ off \in Nat
      /\ in \in Seq(Frame)
  BY DEF ReaderInv, WebSocket, ContinuationRead
<1>2. CASE AtBoundary(w, off)
  <2>1. cr.count = 0 /\ ~cr.is_fin_bit_set /\ off = 0
    BY <1>2 DEF AtBoundary
  <2>2. n = 0
    BY <2>1
  <2>3. off2 = 0 /\ ~Inside(w, in, off)
    BY <1>1, <2>1, <2>2, NothingTaken, AtType, FrameLenType DEF Inside
  <2>4. /\ v.continuation_read.count = 0
        /\ ~v.continuation_read.is_fin_bit_set
    BY <1>1, <2>1, <2>2 DEF ContinuationRead
  <2> QED
    BY <2>3, <2>4 DEF AtBoundary
<1>3. CASE Inside(w, in, off)
  <2>1. in # <<>> /\ At(in) = f /\ f \in Frame /\ cr.count = FrameLen(f) - off
    BY <1>1, <1>3, AtType DEF Inside
  <2>2. /\ HeaderLen(f) \in Nat /\ FrameLen(f) \in Nat
        /\ off >= HeaderLen(f) /\ off < FrameLen(f)
    BY <1>1, <1>3, <2>1, FrameLenType DEF Inside
  <2>3. Ends(in, off, n) <=> n = cr.count
    BY <1>1, <2>1, <2>2 DEF Ends
  <2>4. CASE n = cr.count
    <3>1. off2 = 0
      BY <2>3, <2>4 DEF OffAfter
    <3>2. CASE cr.is_fin_bit_set
      <4>1. v.continuation_read.op_code = "None"
        BY <2>4, <3>2 DEF NoContinuation
      <4> HIDE DEF off2
      <4>2. AtBoundary(v, off2)
        BY <3>1, <4>1 DEF AtBoundary
      <4> QED
        BY <2>3, <4>2 DEF off2
    <3>3. CASE ~cr.is_fin_bit_set
      <4>1. /\ v.continuation_read.count = 0
            /\ ~v.continuation_read.is_fin_bit_set
        BY <1>1, <2>4, <3>3 DEF ContinuationRead
      <4> HIDE DEF off2
      <4>2. AtBoundary(v, off2)
        BY <3>1, <4>1 DEF AtBoundary
      <4> QED
        BY <2>3, <4>2 DEF off2
    <3> QED
      BY <3>2, <3>3
  <2>5. CASE n # cr.count
    <3>1. n < cr.count
      BY <1>1, <2>5
    <3>2. in2 = in /\ off2 = off + n
      BY <2>3, <2>5 DEF FramesAfter, OffAfter
    <3>3. /\ off2 \in HeaderLen(f)..(FrameLen(f) - 1)
          /\ cr.count - n = FrameLen(f) - off2
      BY <1>1, <2>1, <2>2, <3>1, <3>2
    <3>4. /\ v.continuation_read.op_code = f.op_code
          /\ v.continuation_read.is_fin_bit_set = f.fin
          /\ v.continuation_read.masked = f.masked
          /\ v.continuation_read.count = FrameLen(f) - off2
          /\ v.continuation_read.rotation
               = rotate_left(cr.masked, cr.rotation, n)
      BY <1>1, <1>3, <2>5, <3>3 DEF Inside, ContinuationRead
    <3>5. rotate_left(cr.masked, cr.rotation, n)
            = IF f.masked THEN (off2 - HeaderLen(f)) % 4 ELSE 0
      <4> DEFINE k == off - HeaderLen(f)
      <4>1. k \in Nat /\ off2 - HeaderLen(f) = k + n
        BY <1>1, <2>2, <3>2
      <4>2. cr.masked = f.masked /\ f.masked \in BOOLEAN
            /\ cr.rotation = IF f.masked THEN k % 4 ELSE 0
        BY <1>3, <2>1 DEF Inside, Frame
      <4> HIDE DEF k
      <4>3. rotate_left(f.masked, IF f.masked THEN k % 4 ELSE 0, n)
              = IF f.masked THEN (k + n) % 4 ELSE 0
        BY <4>1, <4>2, RotateProps
      <4> QED
        BY <4>1, <4>2, <4>3
    <3> HIDE DEF off2, in2
    <3>6. Inside(v, in2, off2)
      BY <2>1, <3>2, <3>3, <3>4, <3>5 DEF Inside
    <3> QED
      BY <2>3, <3>6 DEF off2, in2
  <2> QED
    BY <2>4, <2>5
<1> QED
  BY <1>2, <1>3 DEF ReaderInv

(***************************************************************************)
(* Whatever part of the stream and of its buffer a call of read is given,  *)
(* it leaves the websocket in step with the stream, unless it answers an   *)
(* error that ends the connection.                                         *)
(***************************************************************************)
LEMMA ReadKeepsStep ==
  ASSUME NEW w, NEW in, NEW off, ReaderInv(w, in, off),
         NEW status \in CloseStatus, NEW from \in Nat, NEW to \in Nat
  PROVE  LET r == read(w, At(in), status, from, to)
         IN  /\ r.ws \in WebSocket /\ r.ret \in Return
             /\ CloseReadOnce(r.ws)
             /\ r.ret.err # "UnexpectedContinuationFrame" =>
                  ReaderInv(r.ws, FramesAfter(in, off, r.ret.len_from),
                            OffAfter(in, off, r.ret.len_from))
<1> DEFINE r == read(w, At(in), status, from, to)
           in2 == FramesAfter(in, off, r.ret.len_from)
           off2 == OffAfter(in, off, r.ret.len_from)
<1>1. w \in WebSocket /\ in \in Seq(Frame) /\ off \in Nat /\ At(in) \in Frame
  BY AtType DEF ReaderInv
<1>2. r.ws \in WebSocket /\ r.ret \in Return
  BY <1>1, ReadType
<1>3. r.ret.len_from \in Nat
  BY <1>2 DEF Return
<1>4. in2 \in Seq(Frame) /\ off2 \in Nat
  BY <1>1, <1>3, AfterType
<1>5. CASE \/ w.state \notin {"Open", "CloseSent"}
           \/ /\ w.continuation_read.op_code = "None"
              /\ read_frame_error(At(in), from) # "None"
  <2>1. r.ws = w /\ r.ret.len_from = 0
    BY <1>5, NothingRead
  <2>2. in2 = in /\ off2 = off
    BY <2>1, NothingTaken
  <2> QED
    BY <1>2, <2>1, <2>2 DEF ReaderInv
<1>6. CASE /\ w.state \in {"Open", "CloseSent"}
           /\ w.continuation_read.op_code = "None"
           /\ read_frame_error(At(in), from) = "None"
  <2> DEFINE f == At(in)
             n == Payload(f, from, to)
  <2>1. StartsFrame(w, f, r, from, n)
    BY <1>1, <1>6, StartRead
  <2> HIDE DEF r, n
  <2>2. /\ f.op_code \in WebSocketOpCode
        /\ n \in Nat /\ n <= f.len
        /\ r.ws.continuation_read =
             IF n < f.len
             THEN [op_code |-> f.op_code, count |-> f.len - n,
                   is_fin_bit_set |-> f.fin, masked |-> f.masked,
                   rotation |-> rotate_left(f.masked, 0, n)]
             ELSE NoContinuation
        /\ f.op_code = "ConnectionClose" =>
             r.ws.state \in {"CloseReceived", "Closed"}
    BY <2>1 DEF StartsFrame
  <2>3. CloseReadOnce(r.ws)
    BY <2>2 DEF CloseReadOnce, NoContinuation
  <2>4. /\ \/ AtBoundary(r.ws, OffAfter(in, off, HeaderLen(f) + n))
           \/ Inside(r.ws, FramesAfter(in, off, HeaderLen(f) + n),
                     OffAfter(in, off, HeaderLen(f) + n))
    BY <1>6, <2>2, StartKeepsStep
  <2>5. r.ret.err # "UnexpectedContinuationFrame" =>
          r.ret.len_from = HeaderLen(f) + n
    BY <2>1 DEF StartsFrame
  <2> QED
    BY <1>2, <1>4, <2>3, <2>4, <2>5 DEF ReaderInv, r
<1>7. CASE /\ w.state \in {"Open", "CloseSent"}
           /\ w.continuation_read.op_code # "None"
  <2> DEFINE cr == w.continuation_read
             n == min(cr.count, to, from)
  <2>1. cr.op_code # "ConnectionClose" /\ cr \in ContinuationRead
    BY <1>1, <1>7 DEF ReaderInv, CloseReadOnce, WebSocket
  <2>2. ContinuesFrame(w, r, n)
    BY <1>1, <1>7, <2>1, ContinueRead
  <2> HIDE DEF r, n
  <2>3. /\ n \in Nat /\ n <= cr.count
        /\ r.ws.continuation_read =
             IF n = cr.count /\ cr.is_fin_bit_set THEN NoContinuation
             ELSE [cr EXCEPT !.count = @ - n,
                     !.rotation = rotate_left(cr.masked, @, n)]
    BY <2>2 DEF ContinuesFrame
  <2>4. CloseReadOnce(r.ws)
    BY <2>1, <2>3 DEF CloseReadOnce, NoContinuation, ContinuationRead
  <2>5. \/ AtBoundary(r.ws, OffAfter(in, off, n))
        \/ Inside(r.ws, FramesAfter(in, off, n), OffAfter(in, off, n))
    BY <1>7, <2>3, ContinueKeepsStep
  <2>6. /\ r.ret.err \in {"None", "UnexpectedContinuationFrame"}
        /\ r.ret.err = "None" => r.ret.len_from = n
    BY <2>2 DEF ContinuesFrame
  <2> QED
    BY <1>2, <1>4, <2>4, <2>5, <2>6 DEF ReaderInv, r
<1> QED
  BY <1>5, <1>6, <1>7

-----------------------------------------------------------------------------
(***************************************************************************)
(* Messages.  MessageFrom(in, k, p, m): a message of type m has begun      *)
(* before the k-th frame of the stream and goes on: the next frame from    *)
(* the k-th on that is no control frame continues it, or there is none and *)
(* the peer, which is at p in the framing rules, has yet to go on with it. *)
(***************************************************************************)
MessageFrom(in, k, p, m) ==
  \/ \E i \in k..Len(in) :
       /\ in[i].op_code = "ContinuationFrame" /\ in[i].msg = m
       /\ \A j \in k..(i - 1) : in[j].op_code \in ControlOpCode
  \/ /\ p = m /\ p \in DataOpCode
     /\ \A j \in k..Len(in) : in[j].op_code \in ControlOpCode

Within(in, p) == \E m : MessageFrom(in, 1, p, m)

(* A message goes on behind a frame only if the frame belongs to it and is *)
(* not its last.                                                           *)
StreamInv(in, p) ==
  /\ \A i \in DOMAIN in :
       in[i].op_code \in DataOpCode \cup ControlOpCode
         => in[i].msg = in[i].op_code
  /\ \A i \in DOMAIN in :
       in[i].op_code \notin ControlOpCode \cup {"Reserved"}
         => \A m : MessageFrom(in, i + 1, p, m)
                     => ~in[i].fin /\ in[i].msg = m

(* read knows the type of the message that goes on at the next frame; and  *)
(* a frame that is read in part is final, with no message around it.       *)
MessageInv(w, in, off, p) ==
  /\ StreamInv(in, p)
  /\ \A m : MessageFrom(in, 1, p, m) => w.continuation_frame_op_code = m
  /\ w.continuation_read.op_code # "None"
       => Inside(w, in, off) /\ Head(in).fin /\ ~Within(in, p)

(* MessageInv is about two fields of the websocket only.                   *)
LEMMA SameReader ==
  ASSUME NEW v, NEW w, NEW in, NEW n, NEW p, MessageInv(v, in, n, p),
         w.continuation_read = v.continuation_read,
         w.continuation_frame_op_code = v.continuation_frame_op_code
  PROVE  MessageInv(w, in, n, p)
BY DEF MessageInv, Inside

(* A message goes on at the first frame if that or the next data frame is  *)
(* a continuation, or the peer is in a message and sends no more (Endpoint *)
(* calls this InMessage).                                                  *)
LEMMA WithinMeans ==
  ASSUME NEW in \in Seq(Frame), NEW p
  PROVE  Within(in, p) <=>
           \/ \E i \in DOMAIN in :
                /\ in[i].op_code = "ContinuationFrame"
                /\ \A j \in 1..(i - 1) : in[j].op_code \in ControlOpCode
           \/ /\ p \in DataOpCode
              /\ \A j \in 1..Len(in) : in[j].op_code \in ControlOpCode
<1>1. DOMAIN in = 1..Len(in)
  OBVIOUS
<1>2. ASSUME p \in DataOpCode,
             \A j \in 1..Len(in) : in[j].op_code \in ControlOpCode
      PROVE  Within(in, p)
  <2>1. MessageFrom(in, 1, p, p)
    BY <1>2 DEF MessageFrom
  <2> QED
    BY <2>1 DEF Within
<1>3. ASSUME NEW i \in DOMAIN in, in[i].op_code = "ContinuationFrame",
             \A j \in 1..(i - 1) : in[j].op_code \in ControlOpCode
      PROVE  Within(in, p)
  <2>1. MessageFrom(in, 1, p, in[i].msg)
    BY <1>1, <1>3 DEF MessageFrom
  <2> QED
    BY <2>1 DEF Within
<1>4. ASSUME NEW m, MessageFrom(in, 1, p, m)
      PROVE  \/ \E i \in DOMAIN in :
                  /\ in[i].op_code = "ContinuationFrame"
                  /\ \A j \in 1..(i - 1) : in[j].op_code \in ControlOpCode
             \/ /\ p \in DataOpCode
                /\ \A j \in 1..Len(in) : in[j].op_code \in ControlOpCode
  BY <1>1, <1>4 DEF MessageFrom
<1> QED
  BY <1>2, <1>3, <1>4 DEF Within

(* A frame at the end of the stream begins no message that frames ahead of *)
(* it belong to.                                                           *)
LEMMA MessageFromAppend ==
  ASSUME NEW in \in Seq(Frame), NEW p \in Wire, NEW f, PeerMaySend(p, f),
         NEW k \in 1..(Len(in) + 1), NEW m,
         MessageFrom(Append(in, f), k, WireAfter(p, f), m)
  PROVE  MessageFrom(in, k, p, m)
<1> DEFINE in2 == Append(in, f)
<1>1. /\ Len(in) \in Nat /\ Len(in2) = Len(in) + 1
      /\ \A i \in 1..Len(in) : in2[i] = in[i]
      /\ in2[Len(in) + 1] = f
  BY DEF PeerMaySend
<1>2. f \in Frame /\ WireAfter(p, f) # "Broken"
  BY DEF PeerMaySend
<1> HIDE DEF in2
<1>3. ASSUME NEW i \in k..Len(in2),
             in2[i].op_code = "ContinuationFrame", in2[i].msg = m,
             \A j \in k..(i - 1) : in2[j].op_code \in ControlOpCode
      PROVE  MessageFrom(in, k, p, m)
  <2>1. CASE i = Len(in) + 1
    <3>1. p = m /\ p \in DataOpCode
      BY <1>1, <1>2, <1>3, <2>1 DEF WireAfter, Wire, DataOpCode
    <3>2. \A j \in k..Len(in) : in[j].op_code \in ControlOpCode
      BY <1>1, <1>3, <2>1
    <3> QED
      BY <3>1, <3>2 DEF MessageFrom
  <2>2. CASE i # Len(in) + 1
    <3>1. i \in k..Len(in)
      BY <1>1, <2>2
    <3>2. in[i].op_code = "ContinuationFrame" /\ in[i].msg = m
      BY <1>1, <1>3, <3>1
    <3>3. \A j \in k..(i - 1) : in[j].op_code \in ControlOpCode
      BY <1>1, <1>3, <3>1
    <3> QED
      BY <3>1, <3>2, <3>3 DEF MessageFrom
  <2> QED
    BY <2>1, <2>2
<1>4. ASSUME WireAfter(p, f) = m, WireAfter(p, f) \in DataOpCode,
             \A j \in k..Len(in2) : in2[j].op_code \in ControlOpCode
      PROVE  MessageFrom(in, k, p, m)
  <2>1. f.op_code \in ControlOpCode
    BY <1>1, <1>4
  <2>2. p = m /\ p \in DataOpCode
    BY <1>4, <2>1 DEF WireAfter, ControlOpCode, DataOpCode
  <2>3. \A j \in k..Len(in) : in[j].op_code \in ControlOpCode
    BY <1>1, <1>4
  <2> QED
    BY <2>2, <2>3 DEF MessageFrom
<1> QED
  BY <1>3, <1>4 DEF MessageFrom, in2

(* What goes on behind the frame that the peer sends last.                 *)
LEMMA MessageAfterLast ==
  ASSUME NEW in \in Seq(Frame), NEW p \in Wire, NEW f, PeerMaySend(p, f),
         f.op_code \notin ControlOpCode \cup {"Reserved"}, NEW m,
         MessageFrom(Append(in, f), Len(in) + 2, WireAfter(p, f), m)
  PROVE  ~f.fin /\ f.msg = m
<1>1. Len(in) \in Nat /\ Len(Append(in, f)) = Len(in) + 1
  BY DEF PeerMaySend
<1>2. WireAfter(p, f) = m /\ m \in DataOpCode
  BY <1>1 DEF MessageFrom
<1>3. f.op_code \in DataOpCode \cup {"ContinuationFrame"}
  BY DEF PeerMaySend, Frame, WebSocketOpCode
<1>4. CASE f.op_code = "ContinuationFrame"
  BY <1>2, <1>4 DEF WireAfter, MessageAfter, DataOpCode, PeerMaySend
<1>5. CASE f.op_code \in DataOpCode
  BY <1>2, <1>5 DEF WireAfter, MessageAfter, DataOpCode, PeerMaySend
<1> QED
  BY <1>3, <1>4, <1>5

(* Behind the first frame nothing changes when that is taken away.         *)
LEMMA MessageFromTail ==
  ASSUME NEW in \in Seq(Frame), in # <<>>, NEW p, NEW m,
         NEW k \in Nat \ {0}, MessageFrom(Tail(in), k, p, m)
  PROVE  MessageFrom(in, k + 1, p, m)
<1>1. /\ Len(in) \in Nat /\ Len(Tail(in)) = Len(in) - 1
      /\ \A i \in 1..(Len(in) - 1) : Tail(in)[i] = in[i + 1]
  OBVIOUS
<1>2. ASSUME NEW i \in k..Len(Tail(in)),
             Tail(in)[i].op_code = "ContinuationFrame", Tail(in)[i].msg = m,
             \A j \in k..(i - 1) : Tail(in)[j].op_code \in ControlOpCode
      PROVE  MessageFrom(in, k + 1, p, m)
  <2>1. i + 1 \in (k + 1)..Len(in)
    BY <1>1
  <2>2. in[i + 1].op_code = "ContinuationFrame" /\ in[i + 1].msg = m
    BY <1>1, <1>2
  <2>3. ASSUME NEW j \in (k + 1)..((i + 1) - 1)
        PROVE  in[j].op_code \in ControlOpCode
    <3>1. j - 1 \in k..(i - 1) /\ j - 1 \in 1..(Len(in) - 1)
      BY <1>1
    <3>2. Tail(in)[j - 1] = in[j]
      BY <1>1, <3>1
    <3> QED
      BY <1>2, <3>1, <3>2
  <2> QED
    BY <2>1, <2>2, <2>3 DEF MessageFrom
<1>3. ASSUME p = m, p \in DataOpCode,
             \A j \in k..Len(Tail(in)) :
               Tail(in)[j].op_code \in ControlOpCode
      PROVE  MessageFrom(in, k + 1, p, m)
  <2>1. ASSUME NEW j \in (k + 1)..Len(in)
        PROVE  in[j].op_code \in ControlOpCode
    <3>1. j - 1 \in k..Len(Tail(in)) /\ j - 1 \in 1..(Len(in) - 1)
      BY <1>1
    <3>2. Tail(in)[j - 1] = in[j]
      BY <1>1, <3>1
    <3> QED
      BY <1>3, <3>1, <3>2
  <2> QED
    BY <1>3, <2>1 DEF MessageFrom
<1> QED
  BY <1>2, <1>3 DEF MessageFrom

(* A message that goes on behind a control frame goes on at it.            *)
LEMMA MessageFromControl ==
  ASSUME NEW in \in Seq(Frame), in # <<>>, NEW p, NEW m,
         Head(in).op_code \in ControlOpCode, MessageFrom(in, 2, p, m)
  PROVE  MessageFrom(in, 1, p, m)
<1>1. Len(in) \in Nat /\ in[1].op_code \in ControlOpCode
  OBVIOUS
<1>2. ASSUME NEW i \in 2..Len(in),
             in[i].op_code = "ContinuationFrame", in[i].msg = m,
             \A j \in 2..(i - 1) : in[j].op_code \in ControlOpCode
      PROVE  MessageFrom(in, 1, p, m)
  <2>1. i \in 1..Len(in)
    BY <1>1
  <2>2. \A j \in 1..(i - 1) : in[j].op_code \in ControlOpCode
    BY <1>1, <1>2
  <2> QED
    BY <1>2, <2>1, <2>2 DEF MessageFrom
<1>3. ASSUME p = m, p \in DataOpCode,
             \A j \in 2..Len(in) : in[j].op_code \in ControlOpCode
      PROVE  MessageFrom(in, 1, p, m)
  <2>1. \A j \in 1..Len(in) : in[j].op_code \in ControlOpCode
    BY <1>1, <1>3
  <2> QED
    BY <1>3, <2>1 DEF MessageFrom
<1> QED
  BY <1>2, <1>3 DEF MessageFrom

(* What the peer sends keeps the messages of the stream in order.          *)
LEMMA AppendKeepsMessages ==
  ASSUME NEW w, NEW in \in Seq(Frame), NEW off, NEW p \in Wire,
         MessageInv(w, in, off, p), NEW f, PeerMaySend(p, f)
  PROVE  MessageInv(w, Append(in, f), off, WireAfter(p, f))
<1> DEFINE in2 == Append(in, f)
           p2 == WireAfter(p, f)
<1>0. f \in Frame /\ in2 \in Seq(Frame)
  BY DEF PeerMaySend
<1>1. /\ Len(in) \in Nat /\ DOMAIN in2 = 1..(Len(in) + 1)
      /\ DOMAIN in = 1..Len(in)
      /\ \A i \in 1..Len(in) : in2[i] = in[i]
      /\ in2[Len(in) + 1] = f
      /\ in # <<>> => Head(in2) = Head(in) /\ in2 # <<>>
  BY <1>0
<1>2. \A k \in 1..(Len(in) + 1) :
        \A m : MessageFrom(in2, k, p2, m) => MessageFrom(in, k, p, m)
  BY MessageFromAppend
<1>3. f.op_code \notin ControlOpCode \cup {"Reserved"}
        => \A m : MessageFrom(in2, Len(in) + 2, p2, m) => ~f.fin /\ f.msg = m
  BY MessageAfterLast
<1> HIDE DEF in2, p2
<1>4. \A i \in DOMAIN in2 :
        in2[i].op_code \in DataOpCode \cup ControlOpCode
          => in2[i].msg = in2[i].op_code
  BY <1>1 DEF MessageInv, StreamInv, PeerMaySend
<1>5. ASSUME NEW i \in DOMAIN in2, NEW m,
             in2[i].op_code \notin ControlOpCode \cup {"Reserved"},
             MessageFrom(in2, i + 1, p2, m)
      PROVE  ~in2[i].fin /\ in2[i].msg = m
  <2>1. CASE i = Len(in) + 1
    <3>1. i + 1 = Len(in) + 2 /\ in2[i] = f
      BY <1>1, <2>1
    <3> QED
      BY <1>3, <1>5, <3>1
  <2>2. CASE i # Len(in) + 1
    <3>1. i \in DOMAIN in /\ in2[i] = in[i] /\ i + 1 \in 1..(Len(in) + 1)
      BY <1>1, <2>2
    <3>2. MessageFrom(in, i + 1, p, m)
      BY <1>2, <1>5, <3>1
    <3> QED
      BY <1>5, <3>1, <3>2 DEF MessageInv, StreamInv
  <2> QED
    BY <2>1, <2>2
<1>6. \A m : MessageFrom(in2, 1, p2, m) => MessageFrom(in, 1, p, m)
  BY <1>1, <1>2
<1>7. ~Within(in, p) => ~Within(in2, p2)
  BY <1>6 DEF Within
<1>8. Inside(w, in, off) => Inside(w, in2, off) /\ Head(in2) = Head(in)
  BY <1>1 DEF Inside
<1> QED
  BY <1>4, <1>5, <1>6, <1>7, <1>8 DEF MessageInv, StreamInv, in2, p2

(* The end of a frame keeps the messages of the stream in order.           *)
LEMMA TailKeepsStream ==
  ASSUME NEW in \in Seq(Frame), in # <<>>, NEW p, StreamInv(in, p)
  PROVE  StreamInv(Tail(in), p)
<1>1. /\ Len(in) \in Nat /\ DOMAIN Tail(in) = 1..(Len(in) - 1)
      /\ \A i \in 1..(Len(in) - 1) :
           /\ Tail(in)[i] = in[i + 1]
           /\ i + 1 \in DOMAIN in /\ i \in Nat /\ i + 1 \in Nat \ {0}
  OBVIOUS
<1>2. \A i \in DOMAIN Tail(in) :
        Tail(in)[i].op_code \in DataOpCode \cup ControlOpCode
          => Tail(in)[i].msg = Tail(in)[i].op_code
  BY <1>1 DEF StreamInv
<1>3. ASSUME NEW i \in DOMAIN Tail(in), NEW m,
             Tail(in)[i].op_code \notin ControlOpCode \cup {"Reserved"},
             MessageFrom(Tail(in), i + 1, p, m)
      PROVE  ~Tail(in)[i].fin /\ Tail(in)[i].msg = m
  <2>1. MessageFrom(in, (i + 1) + 1, p, m)
    BY <1>1, <1>3, MessageFromTail
  <2> QED
    BY <1>1, <1>3, <2>1 DEF StreamInv
<1> QED
  BY <1>2, <1>3 DEF StreamInv

(* What goes on behind the first frame, by the kind of that frame.         *)
LEMMA MessageBehindHead ==
  ASSUME NEW in \in Seq(Frame), in # <<>>, NEW p, StreamInv(in, p), NEW m,
         MessageFrom(Tail(in), 1, p, m), Head(in).op_code # "Reserved"
  PROVE  IF Head(in).op_code \in ControlOpCode THEN MessageFrom(in, 1, p, m)
         ELSE ~Head(in).fin /\ Head(in).msg = m
<1>1. MessageFrom(in, 2, p, m)
  BY MessageFromTail, 1 + 1 = 2, 1 \in Nat \ {0}
<1>2. 1 \in DOMAIN in /\ Head(in) = in[1] /\ 1 + 1 = 2
  OBVIOUS
<1>3. CASE Head(in).op_code \in ControlOpCode
  BY <1>1, <1>3, MessageFromControl
<1>4. CASE Head(in).op_code \notin ControlOpCode
  BY <1>1, <1>2, <1>4 DEF StreamInv
<1> QED
  BY <1>3, <1>4

(* A continuation frame at the head of the stream continues its message.   *)
LEMMA ContinuationIsWithin ==
  ASSUME NEW in \in Seq(Frame), in # <<>>, NEW p,
         Head(in).op_code = "ContinuationFrame"
  PROVE  MessageFrom(in, 1, p, Head(in).msg)
<1>1. 1 \in 1..Len(in) /\ Head(in) = in[1] /\ 1..(1 - 1) = {}
  OBVIOUS
<1> QED
  BY <1>1 DEF MessageFrom

-----------------------------------------------------------------------------
(* What a read that succeeds reports of the frame that it is at.           *)
ReportsFrame(w, in, off, r) ==
  LET f    == Head(in)
      ends == Ends(in, off, r.ret.len_from)
  IN  /\ in # <<>>
      /\ IF f.op_code = "ConnectionClose"
         THEN /\ r.ret.message_type \in {"CloseMustReply", "CloseCompleted"}
              /\ ends =>
                   /\ r.ret.end_of_message
                   /\ r.ret.len_to = IF f.len >= 2 THEN f.len ELSE 0
                   /\ r.ret.close_status = IF f.len >= 2 THEN f.status
                                          ELSE "InternalServerError"
         ELSE /\ r.ret.message_type = message_type_of(f.msg)
              /\ r.ret.end_of_message = (f.fin /\ ends)
              /\ r.ret.len_to =
                   r.ret.len_from - (IF off = 0 THEN HeaderLen(f) ELSE 0)
      /\ r.ret.len_from = 0 => r.ret.starved

(* A frame may come to read in parts if it is final and no message goes on *)
(* across it.                                                              *)
MayBePart(in, p) == At(in).fin /\ ~Within(in, p)

(* A read that starts a frame reports what the peer sent, and knows of the *)
(* message that goes on behind it.                                         *)
LEMMA StartReports ==
  ASSUME NEW w, NEW in, NEW off, NEW p, ReaderInv(w, in, off),
         MessageInv(w, in, off, p), w.continuation_read.op_code = "None",
         NEW r, NEW from, NEW n, StartsFrame(w, At(in), r, from, n),
         MayBePart(in, p) \/ n = At(in).len
  PROVE  /\ r.ret.err = "None" /\ ReportsFrame(w, in, off, r)
         /\ LET l == r.ret.len_from
            IN  MessageInv(r.ws, FramesAfter(in, off, l),
                           OffAfter(in, off, l), p)
<1> DEFINE f == Head(in)
           taken == HeaderLen(f) + n
           in2 == FramesAfter(in, off, taken)
           off2 == OffAfter(in, off, taken)
           c == w.continuation_frame_op_code
<1>1. in \in Seq(Frame) /\ off \in Nat /\ w \in WebSocket
  BY DEF ReaderInv
<1>2. /\ At(in).op_code \in WebSocketOpCode
      /\ n \in Nat /\ n <= At(in).len
      /\ r.ws.continuation_read =
           IF n < At(in).len
           THEN [op_code |-> At(in).op_code, count |-> At(in).len - n,
                 is_fin_bit_set |-> At(in).fin, masked |-> At(in).masked,
                 rotation |-> rotate_left(At(in).masked, 0, n)]
           ELSE NoContinuation
  BY DEF StartsFrame
<1>3. At(in) = f /\ in # <<>> /\ f \in Frame /\ f.op_code \in WebSocketOpCode
  BY <1>1, <1>2, AtType
<1>4. /\ off = 0
      /\ Ends(in, off, taken) <=> n = f.len
      /\ \/ AtBoundary(r.ws, off2)
         \/ Inside(r.ws, in2, off2)
  BY <1>2, <1>3, StartKeepsStep
<1>5. f.len \in Nat /\ HeaderLen(f) \in Nat /\ HeaderLen(f) >= 2
  BY <1>3, FrameLenType
<1>6. /\ StreamInv(in, p)
      /\ \A m : MessageFrom(in, 1, p, m) => c = m
      /\ f.op_code \in DataOpCode \cup ControlOpCode => f.msg = f.op_code
  BY <1>1, <1>3 DEF MessageInv, StreamInv
<1>7. f.op_code = "ContinuationFrame" =>
        c = f.msg /\ c # "None" /\ Within(in, p)
  <2> SUFFICES ASSUME f.op_code = "ContinuationFrame"
               PROVE  c = f.msg /\ c # "None" /\ Within(in, p)
    OBVIOUS
  <2>1. MessageFrom(in, 1, p, f.msg)
    BY <1>1, <1>3, ContinuationIsWithin
  <2>2. f.msg # "None"
    BY <1>3 DEF Frame, DataOpCode, ControlOpCode
  <2> QED
    BY <1>6, <2>1, <2>2 DEF Within
<1>8. r.ret.err = "None" /\ r.ret.len_from = taken
  <2>1. CASE f.op_code = "ConnectionClose"
    BY <1>3, <2>1 DEF StartsFrame
  <2>2. CASE f.op_code # "ConnectionClose"
    BY <1>3, <1>7, <2>2 DEF StartsFrame
  <2> QED
    BY <2>1, <2>2
<1> HIDE DEF taken
<1>9. ReportsFrame(w, in, off, r)
  <2>1. CASE f.op_code = "ConnectionClose"
    <3>1. /\ r.ret.message_type \in {"CloseMustReply", "CloseCompleted"}
          /\ r.ret.end_of_message
          /\ r.ret.len_to = IF n >= 2 THEN n ELSE 0
          /\ r.ret.close_status = IF n >= 2 THEN f.status
                                 ELSE "InternalServerError"
      BY <1>3, <2>1 DEF StartsFrame
    <3>2. r.ret.len_from # 0
      BY <1>2, <1>5, <1>8 DEF taken
    <3> QED
      BY <1>3, <1>4, <1>8, <2>1, <3>1, <3>2 DEF ReportsFrame
  <2>2. CASE f.op_code # "ConnectionClose"
    <3>1. r.ret.message_type =
            message_type_of(IF f.op_code = "ContinuationFrame" THEN c
                            ELSE f.op_code)
      BY <1>3, <1>8, <2>2 DEF StartsFrame
    <3>2. r.ret.message_type = message_type_of(f.msg)
      BY <1>3, <1>6, <1>7, <3>1 DEF WebSocketOpCode
    <3>3. r.ret.end_of_message = (f.fin /\ Ends(in, off, taken))
      <4>1. r.ret.end_of_message = (n = f.len /\ f.fin)
        BY <1>3, <1>8, <2>2 DEF StartsFrame
      <4> QED
        BY <1>4, <4>1
    <3>4. r.ret.len_to = n
      BY <1>3, <1>8, <2>2 DEF StartsFrame
    <3>5. r.ret.len_to = taken - HeaderLen(f) /\ taken # 0
      BY <1>2, <1>5, <3>4 DEF taken
    <3> QED
      BY <1>3, <1>4, <1>8, <2>2, <3>2, <3>3, <3>5 DEF ReportsFrame
  <2> QED
    BY <2>1, <2>2
<1>10. r.ws.continuation_frame_op_code =
         IF f.op_code \notin DataOpCode THEN c
         ELSE IF n = f.len /\ f.fin THEN "None" ELSE f.op_code
  BY <1>3 DEF StartsFrame
<1>11. MessageInv(r.ws, in2, off2, p)
  <2>1. CASE n = f.len
    <3>1. in2 = Tail(in) /\ r.ws.continuation_read.op_code = "None"
      BY <1>2, <1>3, <1>4, <1>5, <2>1 DEF FramesAfter, NoContinuation
    <3>2. StreamInv(Tail(in), p)
      BY <1>1, <1>3, <1>6, TailKeepsStream
    <3>3. ASSUME NEW m, MessageFrom(Tail(in), 1, p, m)
          PROVE  r.ws.continuation_frame_op_code = m
      <4>1. IF f.op_code \in ControlOpCode THEN MessageFrom(in, 1, p, m)
            ELSE ~f.fin /\ f.msg = m
        BY <1>1, <1>3, <1>6, <3>3, MessageBehindHead
           DEF WebSocketOpCode, DataOpCode, ControlOpCode
      <4>2. CASE f.op_code \in ControlOpCode
        BY <1>6, <1>10, <4>1, <4>2 DEF DataOpCode, ControlOpCode
      <4>3. CASE f.op_code \in DataOpCode
        BY <1>6, <1>10, <4>1, <4>3 DEF DataOpCode, ControlOpCode
      <4>4. CASE f.op_code = "ContinuationFrame"
        BY <1>7, <1>10, <4>1, <4>4 DEF DataOpCode, ControlOpCode
      <4> QED
        BY <1>3, <4>2, <4>3, <4>4 DEF WebSocketOpCode
    <3> QED
      BY <3>1, <3>2, <3>3 DEF MessageInv
  <2>2. CASE n # f.len
    <3>1. in2 = in /\ MayBePart(in, p)
      BY <1>3, <1>4, <2>2 DEF FramesAfter
    <3>2. r.ws.continuation_read.op_code = f.op_code /\ f.op_code # "None"
      BY <1>2, <1>3, <1>5, <2>2 DEF WebSocketOpCode, DataOpCode, ControlOpCode
    <3>3. Inside(r.ws, in2, off2)
      <4>1. r.ws.continuation_read.count # 0
        BY <1>2, <1>3, <1>5, <2>2
      <4> QED
        BY <1>4, <3>2, <4>1 DEF AtBoundary
    <3>4. f.fin /\ ~Within(in, p)
      BY <1>3, <3>1 DEF MayBePart
    <3> QED
      BY <1>6, <3>1, <3>3, <3>4 DEF MessageInv, Within
  <2> QED
    BY <2>1, <2>2
<1> QED
  BY <1>8, <1>9, <1>11

(* A read that goes on with a frame does the same.                         *)
LEMMA ContinueReports ==
  ASSUME NEW w, NEW in, NEW off, NEW p, ReaderInv(w, in, off),
         MessageInv(w, in, off, p),
         w.continuation_read.op_code \notin {"None", "ConnectionClose"},
         NEW r, NEW n, ContinuesFrame(w, r, n)
  PROVE  /\ r.ret.err = "None" /\ ReportsFrame(w, in, off, r)
         /\ LET l == r.ret.len_from
            IN  MessageInv(r.ws, FramesAfter(in, off, l),
                           OffAfter(in, off, l), p)
<1> DEFINE cr == w.continuation_read
           f == Head(in)
           in2 == FramesAfter(in, off, n)
           off2 == OffAfter(in, off, n)
<1>1. in \in Seq(Frame) /\ off \in Nat /\ cr \in ContinuationRead
  BY DEF ReaderInv, WebSocket
<1>2. /\ Inside(w, in, off) /\ f.fin /\ ~Within(in, p) /\ StreamInv(in, p)
      /\ \A m : ~MessageFrom(in, 1, p, m)
  BY DEF MessageInv, Within
<1>3. /\ in # <<>> /\ f \in Frame /\ cr.op_code = f.op_code
      /\ cr.is_fin_bit_set = f.fin /\ cr.count = FrameLen(f) - off
      /\ off \in HeaderLen(f)..(FrameLen(f) - 1)
  BY <1>1, <1>2 DEF Inside
<1>4. HeaderLen(f) \in Nat /\ HeaderLen(f) >= 2 /\ FrameLen(f) \in Nat
  BY <1>3, FrameLenType
<1>5. f.op_code # "ContinuationFrame"
  BY <1>1, <1>2, <1>3, ContinuationIsWithin
<1>6. f.op_code \in DataOpCode \cup ControlOpCode /\ f.msg = f.op_code
  BY <1>1, <1>2, <1>3, <1>5
     DEF StreamInv, ContinuationRead, WebSocketOpCode
<1>7. /\ n \in Nat /\ n <= cr.count
      /\ r.ws.continuation_read =
           IF n = cr.count /\ cr.is_fin_bit_set THEN NoContinuation
           ELSE [cr EXCEPT !.count = @ - n,
                   !.rotation = rotate_left(cr.masked, @, n)]
  BY DEF ContinuesFrame
<1>8. /\ \/ AtBoundary(r.ws, off2) \/ Inside(r.ws, in2, off2)
      /\ Ends(in, off, n) <=> n = cr.count
  BY <1>2, <1>7, ContinueKeepsStep
<1>9. /\ r.ret.err = "None"
      /\ r.ret.message_type = message_type_of(f.msg)
      /\ r.ret.len_from = n /\ r.ret.len_to = n
      /\ r.ret.end_of_message = (n = cr.count /\ cr.is_fin_bit_set)
      /\ n = 0 => cr.count = 0 \/ r.ret.starved
  BY <1>3, <1>5, <1>6 DEF ContinuesFrame
<1>10. ReportsFrame(w, in, off, r)
  <2>1. off # 0 /\ cr.count # 0 /\ n - 0 = n
    BY <1>1, <1>3, <1>4, <1>7
  <2>2. r.ret.end_of_message = (f.fin /\ Ends(in, off, n))
    BY <1>3, <1>8, <1>9
  <2>3. f.op_code # "ConnectionClose"
    BY <1>3
  <2> QED
    BY <1>3, <1>9, <2>1, <2>2, <2>3 DEF ReportsFrame
<1>11. MessageInv(r.ws, in2, off2, p)
  <2>1. CASE n = cr.count
    <3>1. in2 = Tail(in) /\ r.ws.continuation_read.op_code = "None"
      BY <1>2, <1>3, <1>7, <1>8, <2>1 DEF FramesAfter, NoContinuation
    <3>2. StreamInv(Tail(in), p)
      BY <1>1, <1>2, <1>3, TailKeepsStream
    <3>3. ASSUME NEW m PROVE ~MessageFrom(Tail(in), 1, p, m)
      BY <1>1, <1>2, <1>3, <1>6, MessageBehindHead
         DEF DataOpCode, ControlOpCode
    <3> QED
      BY <3>1, <3>2, <3>3 DEF MessageInv
  <2>2. CASE n # cr.count
    <3>1. in2 = in
      BY <1>8, <2>2 DEF FramesAfter
    <3>2. r.ws.continuation_read.count # 0
      BY <1>1, <1>7, <2>2 DEF ContinuationRead
    <3>3. r.ws.continuation_read.op_code # "None"
      BY <1>1, <1>7, <2>2 DEF ContinuationRead
    <3>4. Inside(r.ws, in2, off2)
      BY <1>8, <3>2, <3>3 DEF AtBoundary
    <3> QED
      BY <1>2, <3>1, <3>4 DEF MessageInv
  <2> QED
    BY <2>1, <2>2
<1> QED
  BY <1>9, <1>10, <1>11

(***************************************************************************)
(* Every read of a stream whose frames arrive whole where they must: it    *)
(* never meets an unexpected continuation frame, and what it reports is    *)
(* what the frame says.                                                    *)
(***************************************************************************)
LEMMA ReadReports ==
  ASSUME NEW w, NEW in, NEW off, NEW p, ReaderInv(w, in, off),
         MessageInv(w, in, off, p),
         NEW status \in CloseStatus, NEW from \in Nat, NEW to \in Nat,
         \/ MayBePart(in, p)
         \/ from < HeaderLen(At(in))
         \/ from >= FrameLen(At(in)) /\ to >= At(in).len
  PROVE  LET r == read(w, At(in), status, from, to)
             l == r.ret.len_from
         IN  /\ r.ret.err # "UnexpectedContinuationFrame"
             /\ MessageInv(r.ws, FramesAfter(in, off, l),
                           OffAfter(in, off, l), p)
             /\ r.ret.err = "None" => ReportsFrame(w, in, off, r)
<1> DEFINE r == read(w, At(in), status, from, to)
           l == r.ret.len_from
<1>1. /\ w \in WebSocket /\ in \in Seq(Frame) /\ At(in) \in Frame
      /\ CloseReadOnce(w)
  BY AtType DEF ReaderInv
<1>2. CASE \/ w.state \notin {"Open", "CloseSent"}
           \/ /\ w.continuation_read.op_code = "None"
              /\ read_frame_error(At(in), from) # "None"
  <2>1. r.ws = w /\ l = 0
        /\ r.ret.err \notin {"None", "UnexpectedContinuationFrame"}
    BY <1>2, NothingRead
  <2>2. FramesAfter(in, off, 0) = in /\ OffAfter(in, off, 0) = off
    BY NothingTaken
  <2> QED
    BY <2>1, <2>2
<1>3. CASE /\ w.state \in {"Open", "CloseSent"}
           /\ w.continuation_read.op_code = "None"
           /\ read_frame_error(At(in), from) = "None"
  <2> DEFINE n == Payload(At(in), from, to)
  <2>1. StartsFrame(w, At(in), r, from, n)
    BY <1>1, <1>3, StartRead
  <2>2. /\ HeaderLen(At(in)) \in Nat /\ At(in).len \in Nat
        /\ FrameLen(At(in)) = HeaderLen(At(in)) + At(in).len
    BY <1>1, FrameLenType
  <2>3. MayBePart(in, p) \/ n = At(in).len
    <3>1. from >= HeaderLen(At(in))
      BY <2>1 DEF StartsFrame
    <3> QED
      BY <2>2, <3>1 DEF Payload, min
  <2> HIDE DEF r, n
  <2> QED
    BY <1>3, <2>1, <2>3, StartReports DEF r
<1>4. CASE /\ w.state \in {"Open", "CloseSent"}
           /\ w.continuation_read.op_code # "None"
  <2> DEFINE n == min(w.continuation_read.count, to, from)
  <2>1. w.continuation_read.op_code \notin {"None", "ConnectionClose"}
    BY <1>1, <1>4 DEF CloseReadOnce
  <2>2. ContinuesFrame(w, r, n)
    BY <1>1, <1>4, <2>1, ContinueRead
  <2> HIDE DEF r, n
  <2> QED
    BY <2>1, <2>2, ContinueReports DEF r
<1> QED
  BY <1>2, <1>3, <1>4
=============================================================================
