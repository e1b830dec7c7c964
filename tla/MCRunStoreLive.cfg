SPECIFICATION FairSpec
CONSTANTS
  Clients = {c1, c2}
  Main = main
  Timer = timer
  Nobody = nobody
  Root = "root"
  Slots = {}
  Batches <- LiveBatches
  UniqueKinds <- MCUniqueKinds
  PendingLimit = 1
  SegmentLimit = 3
  MaxFrames = 3
  MaxStops = 0
PROPERTIES
  AppendReturns
  CloseEnds
CHECK_DEADLOCK FALSE
