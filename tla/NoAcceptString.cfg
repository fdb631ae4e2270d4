\* A server answers without an accept string.
SPECIFICATION Spec

CONSTANTS
  CloseStatus = {"InternalServerError"}
  Keys = {"k1", "k2"}
  Protocols = {"chat", "long"}
  LongNames = {"long"}
  MaxOffer = 3
  ProtocolCapacity = 3
  MaxConnections = 1
  RequestLen = 3
  ResponseLen = 3
  MaxBehind = 2
  UsizeRange = 8
  Failures = FALSE
  AcceptGiven = FALSE

INVARIANTS
  OpensOnItsOwnKey

\* The connections are limited, and another program need not answer.
CHECK_DEADLOCK FALSE
