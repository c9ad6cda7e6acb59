CONSTANTS
  NumSockets = 2
  MaxStreams = 2
  MaxData <- FirstStreamBusy
  Openers = {"connector"}
  Closers = {"connector"}
  Refusers = {}
SPECIFICATION Spec
INVARIANTS
  CompleteBeforeDisconnect
  OrderedInOrder
  NoMixup
  ClosedIdRecovered
CHECK_DEADLOCK FALSE
