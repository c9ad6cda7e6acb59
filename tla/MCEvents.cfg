CONSTANTS
  Listeners <- MCListeners
  Sub <- MCSub
  Events <- MCFired
  EvId <- MCEvId
  ByListener = {"e3"}
  AnySec = AnySec
  NotifyListener = {TRUE}
  MaxUnsubscribe = 1
  ConcurrentAlloc = FALSE
SPECIFICATION FairSpec
INVARIANTS
  RemoveMapInSync
  ListenersUpToDate
  DestructorIsLast
PROPERTIES
  EventsProcessed
  DestructorReturns
CHECK_DEADLOCK FALSE
