\* A fragment of a message that is read in two pieces blocks the reader.
SPECIFICATION Spec

CONSTANTS
  CloseStatus = {"InternalServerError", "NormalClosure"}
  PeerOpCodes = {"TextFrame", "ContinuationFrame"}
  PayloadLens = {2}
  ExtLens = {0}
  WriteTypes = {"Pong", "CloseReply"}
  WriteLens = {0}
  ToLens = {0, 20}
  MaxInbox = 2
  MaxOutbox = 1
  Cuts = "anywhere"
  FragmentMessages = TRUE
  SmallWriteBuffers = FALSE
  ControlInMessage = FALSE
  ReuseWebSocket = FALSE


PROPERTIES
  ReadMakesProgress

\* The application gives up after a read error, and both sides may be done.
CHECK_DEADLOCK FALSE
