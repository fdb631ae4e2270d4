---------------------------- MODULE FramingRules ----------------------------
(***************************************************************************)
(* The framing rules that the two sides of a connection owe each other     *)
(* (RFC 6455, section 5.4).  They are not code of the repository: the      *)
(* modules use them to let a peer send only what the rules allow and to    *)
(* judge the frames that the code writes.                                  *)
(***************************************************************************)
EXTENDS WebSocketCodec

(***************************************************************************)
(* The rules as a machine that reads one side's frames: it is outside      *)
(* any message ("None"), inside a fragmented message of a type, after a    *)
(* close frame, or at a frame that the rules forbid or that continues a    *)
(* message it does not belong to.                                          *)
(***************************************************************************)
Wire == DataOpCode \cup {"None", "Closed", "Broken"}

MessageAfter(w, f) == IF f.fin THEN "None" ELSE w

WireAfter(w, f) ==
  IF w \in {"Closed", "Broken"} THEN "Broken"
  ELSE CASE f.op_code = "ConnectionClose" -> "Closed"
         [] f.op_code \in {"Ping", "Pong", "Reserved"} -> w
         [] f.op_code = "ContinuationFrame" ->
              IF w = "None" \/ f.msg # w THEN "Broken" ELSE MessageAfter(w, f)
         [] f.op_code \in DataOpCode ->
              IF w # "None" THEN "Broken" ELSE MessageAfter(f.op_code, f)

NoFrame == [op_code |-> "Reserved", fin |-> TRUE, masked |-> FALSE,
            ext |-> 0, len |-> 0, status |-> "InternalServerError",
            msg |-> "Ping"]
=============================================================================
