--------------------------- MODULE CloseHandshake ---------------------------
(***************************************************************************)
(* What the closing handshake promises, without frames or buffers: each    *)
(* side sends at most one close frame, on its own account or in answer to  *)
(* the other's, takes note of the other's only after it was sent, and once *)
(* one side has sent a close frame both sides come to have sent and        *)
(* received one.                                                           *)
(***************************************************************************)
CONSTANT Side

VARIABLES sent,      \* the sides that have sent a close frame
          received   \* the sides that have received the other's close frame

vars == <<sent, received>>

Init == sent = {} /\ received = {}

SendClose(s) ==
  /\ s \notin sent
  /\ sent' = sent \cup {s}
  /\ UNCHANGED received

ReceiveClose(s) ==
  /\ s \notin received
  /\ sent \ {s} # {}
  /\ received' = received \cup {s}
  /\ UNCHANGED sent

Next == \E s \in Side : SendClose(s) \/ ReceiveClose(s)

\* What is begun is completed: both sides have sent and received.
Completes == (sent # {}) ~> (sent = Side /\ received = Side)

Safety == Init /\ [][Next]_vars

Spec == Safety /\ Completes
=============================================================================
