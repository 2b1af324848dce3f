SPECIFICATION FairBookSpec
CONSTANTS
  Daemon = {d1}
  Plan <- MCPlan
  Fires <- MCFires
  OncePlan <- MCOnce
  Window = 1
  MaxClock = 4
  Run = {1, 2, 3, 4}
  HookRun = {1}
  MaxWishes = 1
  MaxTroubles = 1
INVARIANTS
  BookTypeOK
  SpentIsRun
PROPERTIES
  OccurrenceOnce
  OneAtATime
  OccurrenceDecided
CHECK_DEADLOCK FALSE
