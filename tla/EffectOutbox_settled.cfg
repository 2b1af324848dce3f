SPECIFICATION FairSpec
CONSTANTS
  Handle = {h1, h2}
  Caller = {c1}
  Key = {k1}
  Digest = {d1}
  Kind <- MCKind
  Message <- MCMessage
  Idempotent <- MCIdempotent
  BatchSizes = {2}
  ReceiptLimit = 1
  MaxRows = 2
  MaxFaults = 1
  CallersLeave = FALSE
  None = None
CHECK_DEADLOCK FALSE
INVARIANT OnceUntilFault
PROPERTIES OwedIsSettled ReservationEnds
