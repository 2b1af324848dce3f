SPECIFICATION Spec
CONSTANTS
  Handle = {h1}
  Caller = {c1}
  Key = {}
  Digest = {d1}
  Kind <- MCKind
  Message <- MCMessage
  Idempotent <- MCIdempotent
  BatchSizes = {3}
  ReceiptLimit = 1
  MaxRows = 3
  MaxFaults = 1
  CallersLeave = FALSE
  None = None
CHECK_DEADLOCK FALSE
INVARIANT EffectAtMostOnce
