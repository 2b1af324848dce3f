SPECIFICATION FairSpec
CONSTANTS
  Asker = {1, 2, 3}
  Compile <- MCCompile
  Restart <- MCRestart
  Checkout <- MCCheckout
  Want <- WantsCompile
  Naming <- FirstIsNameless
  LineLimit = 1
  MaxTick = 0
  MaxStalls = 1
  None = None
CHECK_DEADLOCK FALSE
PROPERTY Served
