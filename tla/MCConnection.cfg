\* Two websockets talk, close and close at the same time.
SPECIFICATION Spec

CONSTANTS
  CloseStatus = {"InternalServerError"}
  PeerOpCodes = {}
  PayloadLens = {0, 1, 6}
  ExtLens = {0}
  WriteTypes = {"Text", "Binary", "Ping", "CloseReply"}
  WriteLens = {1}
  ToLens = {20}
  MaxInbox = 2
  MaxOutbox = 2
  Cuts = "frames"
  FragmentMessages = TRUE
  SmallWriteBuffers = FALSE
  ControlInMessage = FALSE
  ReuseWebSocket = FALSE

INVARIANTS
  TypeOK
  NothingLeftUnread
  NeitherFails

PROPERTIES
  ImplementsCloseHandshake
  ReadsReportWhatWasWritten

\* The application gives up after a read error, and both sides may be done.
CHECK_DEADLOCK FALSE
