SPECIFICATION FairSpec
CONSTANTS
  Radix = 4
  sBufferLength = 7
  sLowWaterMark = 6
  Ids = {1, 16}
  Payloads = {0, 3}
  MaxPackets = 3
  PACKET_BUFFER_SIZE = 6
  MaxChunkSize = 30
  MaxBatch = 3
  MayFail = TRUE
INVARIANTS
  PacketsExact
PROPERTIES
  PacketsArrive
CHECK_DEADLOCK FALSE
