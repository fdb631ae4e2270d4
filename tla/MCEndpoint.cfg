\* Frames cut at any byte, while the application writes and either side closes.
SPECIFICATION Spec

CONSTANTS
  CloseStatus = {"InternalServerError", "NormalClosure"}
  PeerOpCodes = {"TextFrame", "ContinuationFrame", "ConnectionClose", "Reserved"}
  PayloadLens = {0, 5}
  ExtLens = {2}
  WriteTypes = {"Text", "Ping", "CloseReply"}
  WriteLens = {126, 65535}
  ToLens = {3, 70000}
  MaxInbox = 2
  MaxOutbox = 1
  Cuts = "anywhere"
  FragmentMessages = TRUE
  SmallWriteBuffers = FALSE
  ControlInMessage = FALSE
  ReuseWebSocket = FALSE

INVARIANTS
  FramingInStep
  WireWellFormed
  CloseAgrees
  HeadersDecode

\* The application gives up after a read error, and both sides may be done.
CHECK_DEADLOCK FALSE
