CONSTANTS
  Senders <- MCSenders
  Reactor = "reactor"
  MaxChunks <- TwoAndOnes
  MayFail = TRUE
SPECIFICATION FairSpec
INVARIANTS
  OneTorch
  QueuedChunkHasKeeper
  ChunksInOrder
PROPERTIES
  SentUnlessLivelock
