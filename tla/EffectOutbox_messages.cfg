SPECIFICATION SpecFiled
CONSTANTS
  Handle = {h1, h2}
  Caller = {c1, c2}
  Key = {k1, k2}
  Digest = {d1, d2}
  Kind <- MCKind
  Message <- MCMessage
  Idempotent <- MCIdempotent
  BatchSizes = {}
  ReceiptLimit = 1
  MaxRows = 2
  MaxFaults = 1
  CallersLeave = TRUE
  None = None
CHECK_DEADLOCK FALSE
SYMMETRY Symmetric
INVARIANTS TypeOK MessageTypedOnce OpenEffectOwnsReceipt GivenBackUntyped FinalAnswersAgree
PROPERTY PromiseKept
