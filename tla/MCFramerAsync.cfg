\* Both roles, any number of whole frames in a chunk, one buffer for everything.
SPECIFICATION Spec

CONSTANTS
  CloseStatus = {"InternalServerError"}
  PeerOpCodes = {"TextFrame", "Ping", "Pong", "ConnectionClose"}
  PayloadLens = {0, 3}
  MaxInbox = 2
  MaxSent = 3
  MaxMessage = 3
  FragmentMessages = FALSE
  Cuts = "frames"
  RequestLen = 3
  HttpLen = 2
  BufLen = 38
  AppFragments = FALSE
  AppSharesBuffer = TRUE
  AppReadsOn = FALSE
  Failures = TRUE

INVARIANTS
  TypeOK
  RemainderKept
  NoneMeansClosed
  FailsForAReason
  WireWellFormed

PROPERTIES
  ImplementsMessageChannel
  EveryMessageComesOut
  EndsWithTheStream

\* The framer may be done, or wait for a peer that sends no more.
CHECK_DEADLOCK FALSE
