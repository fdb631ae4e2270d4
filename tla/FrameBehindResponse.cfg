\* The first frame arrives together with the handshake response.
SPECIFICATION Spec

CONSTANTS
  CloseStatus = {"InternalServerError"}
  IsClient = TRUE
  PeerOpCodes = {"TextFrame", "Ping", "Pong", "ConnectionClose"}
  PayloadLens = {0, 3}
  HttpLen = 2
  ReadBufLen = 9
  WriteBufLen = 20
  FrameBufLen = 8
  MaxInbox = 2
  MaxSent = 3
  MaxMessage = 4
  FragmentMessages = FALSE
  Cuts = "payloads"
  HttpAlone = FALSE
  AppFragments = FALSE
  AppCloses = FALSE
  Failures = FALSE

INVARIANTS
  ClosedMeansClosed

\* The framer may be done, or wait for a peer that sends no more.
CHECK_DEADLOCK FALSE
