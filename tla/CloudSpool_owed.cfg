SPECIFICATION FairSpec
CONSTANTS
  machine = machine
  Fence = {machine}
  Sender = {"machine_id"}
  SenderOf <- MCSenderOf
  Block = 2
  MaxSeq = 2
  MayMisread = FALSE
  MaxCrashes = 1
  MaxFaults = 1
  Answer = {}
  Snapshot = {"s"}
  Terminal = {"term"}
  Window = 1
  MaxConns = 2
  MaxCuts = 1
  MaxRows = 2
  MaxTroubles = 2
  None = None
CHECK_DEADLOCK FALSE
INVARIANTS TypeOK SentInOrder HeardOnce RevokedReadsNothing RevokedIsRotated NeverReused
PROPERTIES WritesAscend FrameEnds
