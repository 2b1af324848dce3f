SPECIFICATION FairSpec
CONSTANTS
  Asker = {1, 2}
  Compile <- MCCompile
  Restart <- MCRestart
  Checkout <- MCCheckout
  Want <- WantsRestart
  Naming <- NamesPid
  LineLimit = 1
  MaxTick = 1
  MaxStalls = 2
  None = None
CHECK_DEADLOCK FALSE
PROPERTY Served
