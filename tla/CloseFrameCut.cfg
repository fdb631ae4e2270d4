\* A piece of a close frame is reported as the end of a message.
SPECIFICATION Spec

CONSTANTS
  CloseStatus = {"InternalServerError", "NormalClosure"}
  PeerOpCodes = {"ConnectionClose"}
  PayloadLens = {0, 6}
  ExtLens = {0}
  WriteTypes = {"Pong", "CloseReply"}
  WriteLens = {0}
  ToLens = {0, 20}
  MaxInbox = 2
  MaxOutbox = 1
  Cuts = "anywhere"
  FragmentMessages = FALSE
  SmallWriteBuffers = FALSE
  ControlInMessage = FALSE
  ReuseWebSocket = FALSE

PROPERTIES
  EndOnLastByte

\* The application gives up after a read error, and both sides may be done.
CHECK_DEADLOCK FALSE
