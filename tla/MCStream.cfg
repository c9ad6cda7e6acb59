CONSTANTS
  Senders = {s1, s2}
  Closers = {user1, user2, receiver}
  MaxSends = 2
SPECIFICATION FairSpec
INVARIANTS
  NoDataAfterClose
PROPERTIES
  CloseReturns
CHECK_DEADLOCK FALSE
