SPECIFICATION FairSpec
CONSTANTS
  Requests <- MCRequests
  HostOf <- MCHostOf
  RangeServers = {"new"}
  PickyServers = {"old"}
  StubbornServers = {"old"}
  SilentServers = {"old"}
  FileLen = 2
  Infos = {1}
  NumServices = 2
  RequestFor <- MCRequestFor
  Uploads = {"u"}
  Ranges <- MCRanges
INVARIANTS
  AnsweredOnce
  TransfersTrue
PROPERTIES
  GetDataAnswered
  DestructorReturns
CHECK_DEADLOCK FALSE
