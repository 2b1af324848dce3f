SPECIFICATION FairSpec
CONSTANTS
  Writer = {w1, w2, w3, w4}
  Key = {k1, k2}
  SlotId = {s1, s2, s3}
  Limit = 3
  None = None
INVARIANTS OneWriter CeilingCounts NoSlotLeft
PROPERTY TurnComes
