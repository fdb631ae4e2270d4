\* Messages in one or several frames; frames outside such a message are cut.
SPECIFICATION Spec

CONSTANTS
  CloseStatus = {"InternalServerError", "NormalClosure"}
  PeerOpCodes = {"TextFrame", "BinaryFrame", "ContinuationFrame", "Ping", "ConnectionClose"}
  PayloadLens = {0, 1, 6}
  ExtLens = {0}
  WriteTypes = {"CloseReply"}
  WriteLens = {0}
  ToLens = {0, 2, 20}
  MaxInbox = 2
  MaxOutbox = 1
  Cuts = "payloads"
  FragmentMessages = TRUE
  SmallWriteBuffers = FALSE
  ControlInMessage = FALSE
  ReuseWebSocket = FALSE

INVARIANTS
  TypeOK
  ContinuationsExpected
  

PROPERTIES
  ReadReportsTheStream
  ReadMakesProgress

\* The application gives up after a read error, and both sides may be done.
CHECK_DEADLOCK FALSE
