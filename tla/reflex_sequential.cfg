\* Two operations in flight on two overlapping addresses, every payload
\* shape, and connection resets, also between the header and the sectors
\* of a get.  After a reset, bytes already received are read, the first
\* call that finds nothing reports the reset, later receives return 0 and
\* a later send ends the process (SIGPIPE).
CONSTANTS
  Lbas = {0, 1}
  Values = {v1, v2}
  Payloads <- MCPayloads
  Window = 2
  MaxOps = 3
  MayReset = TRUE
SPECIFICATION Spec
INVARIANT TypeOK
INVARIANT NoNullFuture
INVARIANT ReadsLatestIssued
PROPERTY RefinesRpcCall
\* The caller stops after MaxOps operations.
CHECK_DEADLOCK FALSE
