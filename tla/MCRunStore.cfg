SPECIFICATION Spec
CONSTANTS
  Clients = {c1, c2}
  Main = main
  Timer = timer
  Nobody = nobody
  Root = "root"
  Slots <- MCSlots
  Batches <- MCBatches
  UniqueKinds <- MCUniqueKinds
  PendingLimit = 2
  SegmentLimit = 2
  MaxFrames = 4
  MaxStops = 1
SYMMETRY MCSymmetry
INVARIANTS
  TypeOK
  CommittedIsStable
  ReadsAreFinal
  ImageIsDisk
  BacklogIsExact
PROPERTIES
  ImplementsJournal
CHECK_DEADLOCK FALSE
