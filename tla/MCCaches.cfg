SPECIFICATION Spec
CONSTANTS
  c1 = c1
  c2 = c2
  f1 = f1
  f2 = f2
  Files = {f1, f2}
  FileLen <- MCFileLen
  Ranges <- MCRanges
  Clients = {c1, c2}
  MaxRequests = 4
  MemTotal = 3
  MemMax = 4
  DiskTotal = 3
  DiskMax = 4
  MaxPurges = 1
  MaxCrashes = 1
INVARIANTS
  DiskSurvivesCrash
  DeliveredTrue
  PolicyAgrees
SYMMETRY Symmetry
CHECK_DEADLOCK FALSE
