CONSTANTS
  NumSockets = 2
  Addresses = 2
  Failures = {"resolve", "connect", "mismatch", "header", "socket"}
  Users = {u1}
  MaxRequests = 2
  MaxReceived = 1
  Clones = {c1}
SPECIFICATION FairSpec
INVARIANTS
  RequestsInOrder
  HandshakeOutcomeOnce
PROPERTIES
  EveryStreamTold
  RequestsSent
CHECK_DEADLOCK FALSE
