CONSTANTS
  Listeners = {l1, l2, l3, l4}
  Values = {v1, v2}
  MaxDepth = 3
  MaxNotify = 3
  MaxChanges = 5
SPECIFICATION Spec
INVARIANTS
  IndexInSync
  NotifiedOnce
  NoStaleListener
CHECK_DEADLOCK FALSE
