\* Two calls of one process, the live reply gate closed; fairness.
CONSTANTS
  p1 = p1  p2 = p2  c1 = c1  c2 = c2  i1 = i1  i2 = i2
  Procs = {p1}
  Calls = {c1, c2}
  Owner <- SameProcess
  Ids = {i1}
  Kinds = {"send", "reply"}
  Payloads = {"hello"}
  ValidPayloads <- AllValid
  Contents = {"hello"}
  Derive <- AsGiven
  Versions = {"v1"}
  Repliable = {"v1"}
  Forwardable = {}
  WithAttachments = {}
  LiveDisabled = {"reply"}
  TTL = 1
  Margin = 1
  Skew = 0
  Pause = 0
  MaxTime = 1
  ScanLimit = 1
  LossCommands = {"DATA"}
  Inputs <- LiveInput
  NoReceipt = NoReceipt
  NoSource = NoSource
SPECIFICATION LiveSpec
CHECK_DEADLOCK FALSE
INVARIANTS GatedNeverSpends
PROPERTIES AttemptResolves
