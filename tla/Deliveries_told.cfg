SPECIFICATION SeenSpec
CONSTANTS
  Daemon = {d1}
  Poller = d1
  Plan <- MCPlan
  Fires <- MCFires
  OncePlan <- MCOnce
  Window = 1
  MaxClock = 1
  Run = {1, 2, 3}
  HookRun = {1}
  MaxWishes = 1
  MaxTroubles = 1
  MaxLapses = 1
  MaxReceipts = 2
INVARIANTS
  TypeOK
  EndedNeverRuns
  OneStory
PROPERTIES
  DeliveryAnswered
CHECK_DEADLOCK FALSE
