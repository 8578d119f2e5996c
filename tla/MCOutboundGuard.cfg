\* Two processes present the same receipts; time, crashes and power loss.
CONSTANTS
  p1 = p1  p2 = p2  c1 = c1  c2 = c2  i1 = i1  i2 = i2
  Procs = {p1, p2}
  Calls = {c1, c2}
  Owner <- OneEach
  Ids = {i1, i2}
  Kinds = {"send"}
  Payloads = {"hello"}
  ValidPayloads <- AllValid
  Contents = {"hello"}
  Derive <- AsGiven
  Versions = {}
  Repliable = {}
  Forwardable = {}
  WithAttachments = {}
  LiveDisabled = {}
  TTL = 1
  Margin = 1
  Skew = 1
  Pause = 1
  MaxTime = 2
  ScanLimit = 1
  LossCommands = {"DATA"}
  Inputs <- LiveInput
  NoReceipt = NoReceipt
  NoSource = NoSource
SPECIFICATION Spec
SYMMETRY Alike
CHECK_DEADLOCK FALSE
INVARIANTS TypeOK AtMostOnce SpentSurvives
PROPERTIES SpentStaysSpent ImplementsOneShot
