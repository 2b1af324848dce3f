SPECIFICATION Spec
CONSTANTS
  Asker = {1, 2, 3, 4}
  Compile <- MCCompile
  Restart <- MCRestart
  Checkout <- MCCheckout
  Want <- WantsFour
  Naming <- NamesSome
  LineLimit = 1
  MaxTick = 1
  MaxStalls = 0
  None = None
CHECK_DEADLOCK FALSE
INVARIANTS LineWithinLimit RestartAlone ExclusiveWork
