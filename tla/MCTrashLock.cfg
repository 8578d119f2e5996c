\* The locks of one connection exclude each other, as the library's do.
CONSTANTS
  m1 = m1  m2 = m2  x1 = x1  x2 = x2  l1 = l1  f1 = f1
  Msgs = {m1, m2}
  Ids = {x1, x2}
  NoId = NoId
  Tools = {"trash"}
  Headers <- HeaderChoices
  Inputs <- TrashBatches
  SecondLock = FALSE
  NoUid = NoUid
  Labels = {}
  Flags = {}
  NoReceipt = NoReceipt
SPECIFICATION LiveSpec
CHECK_DEADLOCK FALSE
PROPERTIES ThrownMoveClassified
