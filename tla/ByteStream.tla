----------------------------- MODULE ByteStream -----------------------------
(***************************************************************************)
(* The stream that a framer reads, and the peer that fills it.  Bytes are  *)
(* counted, not represented: the stream holds what is left of the response *)
(* to the opening handshake (http bytes), then the frames of inbox, of     *)
(* whose first off bytes the codec has taken.                              *)
(***************************************************************************)
EXTENDS FramingRules, Sequences

CONSTANTS
  PeerOpCodes,       \* opcodes of the frames that the peer sends
  PayloadLens,       \* their payload lengths
  MaxInbox,          \* bound on the frames the peer has under way
  MaxSent,           \* bound on the messages the peer sends
  MaxMessage,        \* bound on the length of a message
  FragmentMessages,  \* does the peer spread messages over several frames?
  Cuts               \* where a chunk may end: see CutAt

ASSUME ByteStreamAssumption ==
  /\ PeerOpCodes \subseteq WebSocketOpCode
  /\ PayloadLens \subseteq Nat
  /\ MaxInbox \in Nat \ {0} /\ MaxSent \in Nat \ {0}
  /\ MaxMessage \in Nat
  /\ Cuts \in {"frames", "payloads", "anywhere"}
  /\ FragmentMessages \in BOOLEAN

VARIABLES
  http, inbox, off,   \* the stream to read
  ended,         \* the peer has closed the stream
  peer,          \* ghost: where the peer is in its sequence of messages
  partial,       \* ghost: length of the peer's message that is not complete
  sent           \* ghost: messages completed by the peer

stream == <<http, inbox, off, ended>>
sender == <<peer, partial, sent>>

Message == [type : {"Text", "Binary", "Ping", "Pong"},
            len : 0..MaxMessage \cup PayloadLens]

StreamTypeOK ==
  /\ {http, off, partial} \subseteq Nat
  /\ inbox \in Seq(Frame) /\ ended \in BOOLEAN
  /\ peer \in Wire /\ sent \in Seq(Message)

StreamInit ==
  /\ http = 0 /\ inbox = <<>> /\ off = 0 /\ ended = FALSE
  /\ peer = "None" /\ partial = 0 /\ sent = <<>>

\* How many bytes each number of the first frames has.
Lengths(frames) ==
  LET sum[i \in 0..Len(frames)] ==
        IF i = 0 THEN 0 ELSE sum[i - 1] + FrameLen(frames[i])
  IN  sum

Bytes(frames) == Lengths(frames)[Len(frames)]

\* Bytes of the stream that the codec has not taken.
Waiting == Bytes(inbox) - off

Current == IF inbox = <<>> THEN NoFrame ELSE Head(inbox)

(***************************************************************************)
(* May a chunk end where the codec has taken all but n of the bytes ahead? *)
(* "frames": only between frames.  "payloads": also inside the payload of  *)
(* a message that is a single frame.  "anywhere": TCP's answer.            *)
(***************************************************************************)
CutAt(pos) ==
  \/ Cuts = "anywhere"
  \/ \E i \in 0..Len(inbox) : pos = Lengths(inbox)[i]
  \/ /\ Cuts = "payloads"
     /\ \E i \in DOMAIN inbox :
          LET f == inbox[i]
              start == Lengths(inbox)[i - 1]
          IN  /\ f.op_code \in DataOpCode /\ f.fin
              /\ pos \in (start + HeaderLen(f))..(start + FrameLen(f))

\* The codec takes n bytes.
Takes(n) ==
  IF inbox # <<>> /\ off + n = FrameLen(Current)
  THEN inbox' = Tail(inbox) /\ off' = 0
  ELSE inbox' = inbox /\ off' = off + n

PeerFrame(masked, op_code, fin, len) ==
  [op_code |-> op_code, fin |-> fin, masked |-> masked,
   ext |-> length_bytes(len), len |-> len, status |-> "InternalServerError",
   msg |-> IF op_code = "ContinuationFrame" THEN peer ELSE op_code]

\* The message that a frame completes, as the framer is to hand it over.
Completed(f) ==
  [type |-> message_type_of(f.msg),
   len  |-> f.len + (IF f.msg \in DataOpCode THEN partial ELSE 0)]

\* What there is of a message that is not complete, after one more frame.
HeldAfter(f, held) ==
  IF f.msg \notin DataOpCode THEN held ELSE IF f.fin THEN 0 ELSE held + f.len

SendsFrame(masked) ==
  /\ ~ended
  /\ Len(inbox) < MaxInbox
  /\ \E op_code \in PeerOpCodes, fin \in BOOLEAN, len \in PayloadLens :
       LET f    == PeerFrame(masked, op_code, fin, len)
           data == f.msg \in DataOpCode
       IN  /\ WireAfter(peer, f) # "Broken"
           /\ op_code \in ControlOpCode => fin
           /\ FragmentMessages \/ fin
           /\ data => partial + len <= MaxMessage
           /\ inbox' = Append(inbox, f)
           /\ peer' = WireAfter(peer, f)
           /\ partial' = HeldAfter(f, partial)
           /\ IF ~fin \/ op_code = "ConnectionClose" THEN UNCHANGED sent
              ELSE /\ Len(sent) < MaxSent
                   /\ sent' = Append(sent, Completed(f))
  /\ UNCHANGED <<http, off, ended>>

EndsStream ==
  /\ ~ended
  /\ ended' = TRUE
  /\ UNCHANGED <<http, inbox, off, sender>>
=============================================================================
