\* Two requests in flight before they are reaped, inside the window of 8
\* the design allows, answered in order by the server.
CONSTANTS
  kMaxTicket = 8
  MaxRequests = 10
  Window = 2
  PeerMayClose = FALSE
  ServerFifo = TRUE
SPECIFICATION Spec
INVARIANT SlotsHeld
CHECK_DEADLOCK FALSE
