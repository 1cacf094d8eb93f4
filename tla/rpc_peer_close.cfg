\* Sequential use, but the server may close the connection.
CONSTANTS
  kMaxTicket = 8
  MaxRequests = 3
  Window = 1
  PeerMayClose = TRUE
  ServerFifo = TRUE
SPECIFICATION Spec
PROPERTY IssuedReturns
CHECK_DEADLOCK FALSE
