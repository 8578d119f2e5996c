\* A connection lost after the server has the message, with an error that does
\* not name the command that was in flight.
CONSTANTS
  p1 = p1  p2 = p2  c1 = c1  c2 = c2  i1 = i1  i2 = i2
  Procs = {p1}
  Calls = {c1}
  Owner <- One
  Ids = {i1}
  Kinds = {"send"}
  Payloads = {"hello", "other", "bad"}
  ValidPayloads <- AllValid
  Contents = {"hello", "other", "bad"}
  Derive <- AsGiven
  Versions = {"v1", "v2"}
  Repliable = {"v1", "v2"}
  Forwardable = {"v1"}
  WithAttachments = {"v1"}
  LiveDisabled = {}
  TTL = 1
  Margin = 0
  Skew = 0
  Pause = 0
  MaxTime = 1
  ScanLimit = 0
  LossCommands = {"none", "CONN", "DATA"}
  Inputs <- AnyInput
  NoReceipt = NoReceipt
  NoSource = NoSource
SPECIFICATION Spec
CHECK_DEADLOCK FALSE
INVARIANT OutcomeHonest
