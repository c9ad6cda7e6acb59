SPECIFICATION FairSpec
CONSTANTS
  Threads = {"a", "b", "c"}
  Items = {"x", "y", "z"}
  Programs <- MCPrograms
  DoPop = "pop"
  DoFork = "fork"
  MaxNodes = 6
PROPERTIES
  FifoUnlessMistaken
  NoneMissed
  CallsReturn
CHECK_DEADLOCK FALSE
