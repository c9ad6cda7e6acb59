SPECIFICATION FairSpec
CONSTANTS
  Downloads = {"d1", "d2", "d3", "d4", "d5"}
  Want <- MCWant
  Uploads = {"u1", "u2", "u3"}
  Give <- MCGive
  Names = {"n0", "n1", "n2"}
  NoName = "none"
  Files = {"f0", "f1", "f2"}
  NoFile = "nofile"
  Known <- MCKnown
  Cleanup = "cleanup"
  FileLen = 2
  NumServices = 2
  Scenarios <- MCScenarios
INVARIANTS
  NameAfterData
  LayersAlive
PROPERTIES
  DownloadsAnswered
  CleanupReturnsUnlessMissed
CHECK_DEADLOCK FALSE
