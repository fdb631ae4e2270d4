\* The peer sends a message in two frames.
SPECIFICATION Spec

CONSTANTS
  CloseStatus = {"InternalServerError"}
  PeerOpCodes = {"TextFrame", "ContinuationFrame"}
  PayloadLens = {0, 3}
  MaxInbox = 2
  MaxSent = 3
  MaxMessage = 3
  FragmentMessages = TRUE
  Cuts = "frames"
  RequestLen = 3
  HttpLen = 2
  BufLen = 38
  AppFragments = FALSE
  AppSharesBuffer = TRUE
  AppReadsOn = FALSE
  Failures = FALSE

INVARIANTS
  NoneMeansClosed

\* The framer may be done, or wait for a peer that sends no more.
CHECK_DEADLOCK FALSE
