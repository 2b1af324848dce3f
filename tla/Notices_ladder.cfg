SPECIFICATION FairSpec
CONSTANTS
  Pump = {p1}
  Asker = {a1}
  Tries <- MCTries
  Rearmer = {r1}
  Hold = {"root_choosing", "composer_occupied"}
  AttemptLimit = 2
  MaxRearms = 1
  MaxTroubles = 1
CHECK_DEADLOCK FALSE
INVARIANTS TypeOK AckIsKept OnePushPerLadder TypedWithinBudget
PROPERTIES ReadIsNotTyped LadderEnds
