CONSTANTS
  Clients <- MCClients
  Opens <- MCOpens
  Announces <- MCAnnounces
  Refused = {"bob"}
  MayFail = TRUE
SPECIFICATION BuilderFairSpec
INVARIANTS
  ConnectionsWhole
PROPERTIES
  HonestServed
CHECK_DEADLOCK FALSE
