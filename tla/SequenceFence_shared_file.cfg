SPECIFICATION FenceSpec
CONSTANTS
  machine = machine
  viewer = viewer
  Fence = {machine, viewer}
  Sender = {"machine_id", "viewer_id"}
  SenderOf <- MCSenderOf
  Block = 2
  MaxSeq = 2
  MayMisread = FALSE
  MaxCrashes = 1
  MaxFaults = 0
CHECK_DEADLOCK FALSE
INVARIANT NeverReused
