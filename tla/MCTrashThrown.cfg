\* The connection fails after the move has succeeded.
CONSTANTS
  m1 = m1  m2 = m2  x1 = x1  x2 = x2  l1 = l1  f1 = f1
  Msgs = {m1, m2}
  Ids = {x1, x2}
  NoId = NoId
  Tools = {"trash"}
  Headers <- HeaderChoices
  Inputs <- TrashBatches
  SecondLock = TRUE
  NoUid = NoUid
  Labels = {}
  Flags = {}
  NoReceipt = NoReceipt
SPECIFICATION Spec
CHECK_DEADLOCK FALSE
INVARIANTS PartialFailureReported
