\* Sequential use across the ticket wrap, with connection resets: every
\* Get returns.  A close by the server is left to rpc_peer_close, where
\* the receive loop spins.
CONSTANTS
  kMaxTicket = 8
  MaxRequests = 10
  Window = 1
  PeerMayClose = FALSE
  ServerFifo = TRUE
SPECIFICATION Spec
PROPERTY IssuedReturns
\* The client stops issuing after MaxRequests requests.
CHECK_DEADLOCK FALSE
