\* Two attempts of a client, at a server of the library or at another.
SPECIFICATION Spec

CONSTANTS
  CloseStatus = {"InternalServerError"}
  Keys = {"k1", "k2"}
  Protocols = {"chat", "long"}
  LongNames = {"long"}
  MaxOffer = 3
  ProtocolCapacity = 3
  MaxConnections = 2
  RequestLen = 3
  ResponseLen = 3
  MaxBehind = 2
  UsizeRange = 8
  Failures = TRUE
  AcceptGiven = TRUE

INVARIANTS
  TypeOK
  OpensOnItsOwnKey
  SidesAgree
  CursorPastHeader

PROPERTIES
  AcceptedIsNotAborted
  HandshakeConcludes

\* The connections are limited, and another program need not answer.
CHECK_DEADLOCK FALSE
