\* The transport as the code uses it: every caller calls Get right after
\* issuing (Window 1); the server may reset or close the connection.
CONSTANTS
  kMaxTicket = 8
  MaxRequests = 10
  Window = 1
  PeerMayClose = TRUE
  ServerFifo = TRUE
SPECIFICATION Spec
INVARIANT TypeOK
INVARIANT NoNullDeref
INVARIANT SlotsHeld
PROPERTY RefinesRpcCall
\* The client stops issuing after MaxRequests requests.
CHECK_DEADLOCK FALSE
