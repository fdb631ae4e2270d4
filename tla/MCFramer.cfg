\* A server that collects messages of several frames, some cut into chunks.
SPECIFICATION Spec

CONSTANTS
  CloseStatus = {"InternalServerError"}
  IsClient = FALSE
  PeerOpCodes = {"TextFrame", "ContinuationFrame", "Ping", "Pong", "ConnectionClose"}
  PayloadLens = {0, 2}
  HttpLen = 2
  ReadBufLen = 16
  WriteBufLen = 20
  FrameBufLen = 8
  MaxInbox = 2
  MaxSent = 2
  MaxMessage = 4
  FragmentMessages = TRUE
  Cuts = "payloads"
  HttpAlone = TRUE
  AppFragments = FALSE
  AppCloses = FALSE
  Failures = FALSE

INVARIANTS
  TypeOK
  NeverFails
  WireWellFormed
  NothingLeftBehind

PROPERTIES
  ImplementsMessageChannel

\* The framer may be done, or wait for a peer that sends no more.
CHECK_DEADLOCK FALSE
