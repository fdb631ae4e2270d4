\* The stream ends or fails at any time, and a message may fill the frame buffer.
SPECIFICATION Spec

CONSTANTS
  CloseStatus = {"InternalServerError"}
  IsClient = TRUE
  PeerOpCodes = {"TextFrame", "ContinuationFrame", "Ping", "ConnectionClose"}
  PayloadLens = {0, 4}
  HttpLen = 2
  ReadBufLen = 12
  WriteBufLen = 9
  FrameBufLen = 8
  MaxInbox = 2
  MaxSent = 3
  MaxMessage = 8
  FragmentMessages = TRUE
  Cuts = "frames"
  HttpAlone = TRUE
  AppFragments = FALSE
  AppCloses = TRUE
  Failures = TRUE

INVARIANTS
  ClosedMeansClosed
  ComesOutInOrder

\* The framer may be done, or wait for a peer that sends no more.
CHECK_DEADLOCK FALSE
