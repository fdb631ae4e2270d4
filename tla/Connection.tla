----------------------------- MODULE Connection -----------------------------
(***************************************************************************)
(* A client and a server, each an Endpoint, joined by two byte streams:    *)
(* what one writes is what the other reads.  The peer of either is no      *)
(* longer arbitrary but a second WebSocket of src/lib.rs, so that both     *)
(* ends of the opening and the closing handshake are the code's own.       *)
(*                                                                         *)
(* The streams neither lose nor reorder bytes (TCP); a frame arrives as a  *)
(* whole or, as Cuts says, in pieces of any size.                          *)
(***************************************************************************)
EXTENDS FramingRules, Sequences

CONSTANTS PeerOpCodes, PayloadLens, ExtLens, WriteTypes,
          WriteLens, ToLens, MaxInbox, MaxOutbox, Cuts, FragmentMessages,
          SmallWriteBuffers, ControlInMessage, ReuseWebSocket

\* The part of EndpointAssumption that two endpoints without a peer need.
ASSUME ConnectionAssumption ==
  /\ WriteTypes \subseteq SendMessageType
  /\ WriteLens \subseteq Nat /\ ToLens \subseteq Nat
  /\ Cuts \in {"frames", "payloads", "anywhere"}
  /\ {SmallWriteBuffers, ControlInMessage} \subseteq BOOLEAN

VARIABLES
  http,                             \* the opening handshake message on its way
  cws, coff, ctx, cfailed,          \* the client's end
  sws, soff, stx, sfailed,          \* the server's end
  c2s, s2c,                         \* frames that are not consumed, each way
  ret                               \* what the last call returned, at any end

client == <<cws, coff, ctx, cfailed>>
server == <<sws, soff, stx, sfailed>>
vars == <<http, client, server, c2s, s2c, ret>>

C == INSTANCE Endpoint WITH
       ws <- cws, inbox <- s2c, off <- coff, peer <- stx,
       outbox <- c2s, tx <- ctx, ret <- ret, failed <- cfailed

S == INSTANCE Endpoint WITH
       ws <- sws, inbox <- c2s, off <- soff, peer <- ctx,
       outbox <- s2c, tx <- stx, ret <- ret, failed <- sfailed

TypeOK ==
  /\ C!TypeOK /\ S!TypeOK
  /\ http \in {"none", "request", "response"}

Init ==
  /\ http = "none"
  /\ cws = new_websocket(TRUE) /\ sws = new_websocket(FALSE)
  /\ coff = 0 /\ soff = 0
  /\ ctx = "None" /\ stx = "None"
  /\ ret = returns("none", "None")
  /\ cfailed = FALSE /\ sfailed = FALSE
  /\ c2s = <<>> /\ s2c = <<>>

-----------------------------------------------------------------------------
(***************************************************************************)
(* The opening handshake.  The server may send frames as soon as it has    *)
(* accepted; they wait for the client in the stream behind the response.   *)
(***************************************************************************)
ClientConnect ==
  LET r == client_connect(cws, "None")
  IN  /\ http = "none"
      /\ cws' = r.ws /\ ret' = r.ret
      /\ http' = "request"
      /\ UNCHANGED <<coff, ctx, cfailed, server, c2s, s2c>>

ServerAccept ==
  LET r == server_accept(sws, "None")
  IN  /\ http = "request"
      /\ sws' = r.ws /\ ret' = r.ret
      /\ http' = "response"
      /\ UNCHANGED <<soff, stx, sfailed, client, c2s, s2c>>

\* The response may take several reads: until then it is incomplete.
ClientAccept ==
  \E answer \in {"None", "HttpHeaderIncomplete"} :
    LET r == client_accept(cws, answer)
    IN  /\ http = "response" /\ cws.state = "Connecting"
        /\ cws' = r.ws /\ ret' = r.ret
        /\ UNCHANGED <<http, coff, ctx, cfailed, server, c2s, s2c>>

-----------------------------------------------------------------------------
(***************************************************************************)
(* The applications read when there is something to read, write messages   *)
(* while the websocket is open, close it when they like, and answer a      *)
(* close message (examples/client.rs, examples/server.rs, send_back of     *)
(* src/framer.rs).                                                         *)
(***************************************************************************)
ClientReads == s2c # <<>> /\ C!Read /\ UNCHANGED <<http, server>>
ServerReads == c2s # <<>> /\ S!Read /\ UNCHANGED <<http, client>>

Messages == WriteTypes \ {"CloseReply"}

ClientWrites ==
  /\ cws.state = "Open"
  /\ \E m \in Messages, e \in BOOLEAN, count \in WriteLens, to \in ToLens :
       C!WriteCall(m, e, count, "InternalServerError", to)
  /\ UNCHANGED <<http, server>>

ServerWrites ==
  /\ sws.state = "Open"
  /\ \E m \in Messages, e \in BOOLEAN, count \in WriteLens, to \in ToLens :
       S!WriteCall(m, e, count, "InternalServerError", to)
  /\ UNCHANGED <<http, client>>

ClientCloses == cws.state = "Open" /\ C!Close /\ UNCHANGED <<http, server>>
ServerCloses == sws.state = "Open" /\ S!Close /\ UNCHANGED <<http, client>>

ClientReplies ==
  /\ cws.state = "CloseReceived"
  /\ \E count \in WriteLens, status \in CloseStatus, to \in ToLens :
       C!WriteCall("CloseReply", TRUE, count, status, to)
  /\ UNCHANGED <<http, server>>

ServerReplies ==
  /\ sws.state = "CloseReceived"
  /\ \E count \in WriteLens, status \in CloseStatus, to \in ToLens :
       S!WriteCall("CloseReply", TRUE, count, status, to)
  /\ UNCHANGED <<http, client>>

Next == ClientConnect \/ ServerAccept \/ ClientAccept
        \/ ClientReads \/ ClientWrites \/ ClientCloses \/ ClientReplies
        \/ ServerReads \/ ServerWrites \/ ServerCloses \/ ServerReplies

(***************************************************************************)
(* Fairness: an application that is given bytes and has not given up reads *)
(* the frame to its end, and answers a close message; a response is        *)
(* eventually complete.  Nothing makes an application write or close.      *)
(* Weak fairness of reading is written out, with the guards of read for    *)
(* ENABLED: TLC evaluates it several times faster.                         *)
(***************************************************************************)
ClientOpens == ClientAccept /\ cws'.state = "Open"

ClientMayRead == s2c # <<>> /\ ~cfailed /\ cws.state \in {"Open", "CloseSent"}
ServerMayRead == c2s # <<>> /\ ~sfailed /\ sws.state \in {"Open", "CloseSent"}

ClientReadsOn == []<>~ClientMayRead \/ []<><<s2c' = Tail(s2c)>>_s2c
ServerReadsOn == []<>~ServerMayRead \/ []<><<c2s' = Tail(c2s)>>_c2s

Fairness ==
  /\ WF_vars(ClientOpens)
  /\ ClientReadsOn /\ ServerReadsOn
  /\ WF_vars(ClientReplies) /\ WF_vars(ServerReplies)

Spec == Init /\ [][Next]_vars /\ Fairness

-----------------------------------------------------------------------------
(***************************************************************************)
(* The closing handshake of the two websockets is the abstract one: the    *)
(* states CloseSent, CloseReceived and Closed tell which close frames were *)
(* sent and received, also when both sides close at the same time.         *)
(***************************************************************************)
Sides(c, s) ==
  (IF c THEN {"client"} ELSE {}) \cup (IF s THEN {"server"} ELSE {})

CH == INSTANCE CloseHandshake WITH
        Side     <- {"client", "server"},
        sent     <- Sides(cws.state \in {"CloseSent", "Closed"},
                          sws.state \in {"CloseSent", "Closed"}),
        received <- Sides(cws.state \in {"CloseReceived", "Closed"},
                          sws.state \in {"CloseReceived", "Closed"})

ImplementsCloseHandshake == CH!Spec

(***************************************************************************)
(* A side that has received the close frame of the other has received all  *)
(* that the other sent: no frame is left unread when a websocket stops     *)
(* reading.                                                                *)
(***************************************************************************)
NothingLeftUnread ==
  /\ cws.state \in {"CloseReceived", "Closed"} => s2c = <<>>
  /\ sws.state \in {"CloseReceived", "Closed"} => c2s = <<>>

(***************************************************************************)
(* No read of what the other WebSocket has written fails, and each reports *)
(* the message that was written.                                           *)
(***************************************************************************)
NeitherFails == ~cfailed /\ ~sfailed

ReadsReportWhatWasWritten ==
  [][/\ (C!Delivered /\ ~UNCHANGED <<s2c, coff>>) => C!ReportsHead
     /\ (S!Delivered /\ ~UNCHANGED <<c2s, soff>>) => S!ReportsHead]_vars
=============================================================================
