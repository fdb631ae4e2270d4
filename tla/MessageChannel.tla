--------------------------- MODULE MessageChannel ---------------------------
(***************************************************************************)
(* What a framer promises its application, without frames or buffers: the  *)
(* messages of the peer come out one by one, each whole, once and in the   *)
(* order in which the peer completed them, and each comes out eventually.  *)
(***************************************************************************)
EXTENDS Naturals, Sequences

CONSTANTS Message, MaxSent

VARIABLES sent,   \* the messages that the peer has sent
          got     \* the messages that have come out

vars == <<sent, got>>

Init == sent = <<>> /\ got = <<>>

Send ==
  /\ Len(sent) < MaxSent
  /\ \E m \in Message : sent' = Append(sent, m)
  /\ UNCHANGED got

Receive ==
  /\ Len(got) < Len(sent)
  /\ got' = Append(got, sent[Len(got) + 1])
  /\ UNCHANGED sent

Next == Send \/ Receive

AllReceived == \A n \in 1..MaxSent : (Len(sent) >= n) ~> (Len(got) >= n)

\* What remains when the channel may break.
Safety == Init /\ [][Next]_vars

Spec == Safety /\ AllReceived
=============================================================================
